------------------------------ MODULE MenuList ------------------------------
(***************************************************************************)
(* What the menu promises the admins: lists of rows.  A row is appended to *)
(* a list, exchanged with its neighbor, moved to the front or to the end,  *)
(* or removed; nothing else happens to the order of the rows.              *)
(***************************************************************************)
CONSTANTS Ids, Lists,
          Nowhere   \* the place of a row that is shown in no list

VARIABLES at,      \* the list that shows a row
          before   \* the pairs of rows of one list, in their order

lvars == <<at, before>>

Together(x) == {y \in Ids \ {x} : at[y] = at[x]}

\* No row is between y and x.
Adjacent(y, x) == \A z \in Ids : ~(<<y, z>> \in before /\ <<z, x>> \in before)

\* The rows of each list have an order, and no others.
Ordered ==
  /\ \A x, y \in Ids : <<x, y>> \in before \/ <<y, x>> \in before
                      <=> x # y /\ at[x] = at[y] /\ at[x] # Nowhere
  /\ \A x, y, z \in Ids : <<x, y>> \in before /\ <<y, z>> \in before => <<x, z>> \in before

ListInit ==
  /\ at \in [Ids -> Lists \cup {Nowhere}]
  /\ before \in SUBSET (Ids \X Ids)
  /\ Ordered

Append(x, l) ==
  /\ at[x] = Nowhere /\ l \in Lists
  /\ at' = [at EXCEPT ![x] = l]
  /\ before' = before \cup {<<y, x>> : y \in {z \in Ids : at[z] = l}}

Remove(x) ==
  /\ at[x] # Nowhere
  /\ at' = [at EXCEPT ![x] = Nowhere]
  /\ before' = {p \in before : p[1] # x /\ p[2] # x}

Exchange(y, x) ==
  /\ <<y, x>> \in before
  /\ before' = (before \ {<<y, x>>}) \cup {<<x, y>>}
  /\ Adjacent(y, x)
  /\ UNCHANGED at

ToFront(x) ==
  /\ at[x] # Nowhere
  /\ before' = {p \in before : p[2] # x} \cup {<<x, y>> : y \in Together(x)}
  /\ UNCHANGED at

ToEnd(x) ==
  /\ at[x] # Nowhere
  /\ before' = {p \in before : p[1] # x} \cup {<<y, x>> : y \in Together(x)}
  /\ UNCHANGED at

ListNext ==
  \/ \E x \in Ids, l \in Lists : Append(x, l)
  \/ \E p \in before : Exchange(p[1], p[2])
  \/ \E x \in Ids : Remove(x) \/ ToFront(x) \/ ToEnd(x)

ListSpec == ListInit /\ [][ListNext]_lvars
=============================================================================
