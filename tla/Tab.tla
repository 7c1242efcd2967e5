-------------------------------- MODULE Tab --------------------------------
(***************************************************************************)
(* What the ledger promises its users: a tab per account that only entries *)
(* move.  A charge is asked for, at its price and at the floor the account *)
(* is then held to; it is made later, if the tab at that later moment is   *)
(* above this floor, or withdrawn.  Money is paid in as it comes.  An      *)
(* entry is reversed at most once, and that gives back exactly its amount; *)
(* an old entry's owner may be forgotten, which moves no tab; and an       *)
(* account is closed only with an empty tab and no entry that still names  *)
(* it.  Nothing here knows of statements, locks, snapshots or carryovers.  *)
(***************************************************************************)
EXTENDS Integers

CONSTANTS Users, Entries, Nobody,
          Slots   \* the charges that may be asked for at a time

VARIABLES tab,    \* the balance of every account
          open,   \* the accounts that are open
          spared, \* the open accounts that are held to no floor
          house,  \* the floor of the others: at -at or below no more charges, if on
          asked,  \* the charges that have been asked for
          entry   \* the entries made so far

tvars == <<tab, open, spared, house, asked, entry>>

Blank == [st |-> "none", owner |-> Nobody, amt |-> 0]
Nothing == [who |-> Nobody, amt |-> 0, on |-> FALSE, at |-> 0]

TabInit ==
  /\ tab \in [Users -> Int]
  /\ open \in SUBSET Users /\ spared \in SUBSET open
  /\ house \in [on : BOOLEAN, at : Int]
  /\ asked = [s \in Slots |-> Nothing]
  /\ entry \in [Entries -> [st : {"none", "booked", "reversed"},
                            owner : Users \cup {Nobody}, amt : Int]]

-----------------------------------------------------------------------------
(* Charges: an account is held to the floor of the moment it asked at, and *)
(* to the tab of the moment it is charged at.                              *)

Ask(s, u, a) ==
  /\ asked[s] = Nothing
  /\ u \in open /\ a <= 0
  /\ asked' = [asked EXCEPT ![s] = [who |-> u, amt |-> a,
                                    on |-> house.on /\ u \notin spared, at |-> house.at]]
  /\ UNCHANGED <<tab, open, spared, house, entry>>

Withdraw(s) ==
  /\ asked[s] # Nothing
  /\ asked' = [asked EXCEPT ![s] = Nothing]
  /\ UNCHANGED <<tab, open, spared, house, entry>>

Enter(e, u, a) ==
  /\ u \in open
  /\ entry[e] = Blank
  /\ entry' = [entry EXCEPT ![e] = [st |-> "booked", owner |-> u, amt |-> a]]
  /\ tab' = [tab EXCEPT ![u] = @ + a]
  /\ UNCHANGED <<open, spared, house>>

Charge(s, e) ==
  LET q == asked[s] IN
  /\ q # Nothing
  /\ q.on => tab[q.who] > -q.at
  /\ Enter(e, q.who, q.amt)
  /\ asked' = [asked EXCEPT ![s] = Nothing]

-----------------------------------------------------------------------------
(* What else happens to entries. *)

PayIn(e, u, a) == a >= 0 /\ Enter(e, u, a) /\ UNCHANGED asked

Reverse(e) ==
  LET u == entry[e].owner IN
  /\ entry[e].st = "booked" /\ u \in open
  /\ entry' = [entry EXCEPT ![e].st = "reversed"]
  /\ tab' = [tab EXCEPT ![u] = @ - entry[e].amt]
  /\ UNCHANGED <<open, spared, house, asked>>

\* Forgetting is for good, and it is all that happens to the entry.
Forget ==
  /\ \A e \in Entries :
       entry'[e] = entry[e] \/ (entry[e] # Blank /\ entry'[e] = [entry[e] EXCEPT !.owner = Nobody])
  /\ UNCHANGED <<tab, open, spared, house, asked>>

-----------------------------------------------------------------------------
(* Accounts, and the floor they are held to. *)

Join(u) ==
  /\ u \notin open
  /\ open' = open \cup {u} /\ tab' = [tab EXCEPT ![u] = 0]
  /\ UNCHANGED <<spared, house, asked, entry>>

Close(u) ==
  /\ u \in open /\ tab[u] = 0
  /\ \A e \in Entries : entry[e].owner # u
  /\ open' = open \ {u} /\ spared' = spared \ {u}
  /\ UNCHANGED <<tab, house, asked, entry>>

Spare(u) ==
  /\ u \in open
  /\ spared' \in {spared \cup {u}, spared \ {u}}
  /\ UNCHANGED <<tab, open, house, asked, entry>>

\* The floor moves for who asks from now on.
SetFloor ==
  /\ house' # house
  /\ UNCHANGED <<tab, open, spared, asked, entry>>

\* The amounts, and entry' of Forget, are chosen by the step they describe.
TabNext ==
  \/ \E s \in Slots, u \in Users : Ask(s, u, asked'[s].amt)
  \/ \E s \in Slots : Withdraw(s)
  \/ \E s \in Slots, e \in Entries : Charge(s, e)
  \/ \E e \in Entries, u \in Users : PayIn(e, u, entry'[e].amt)
  \/ \E e \in Entries : Reverse(e)
  \/ Forget
  \/ \E u \in Users : Join(u) \/ Close(u) \/ Spare(u)
  \/ SetFloor

TabSpec == TabInit /\ [][TabNext]_tvars
=============================================================================
