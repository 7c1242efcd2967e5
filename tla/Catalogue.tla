----------------------------- MODULE Catalogue -----------------------------
(***************************************************************************)
(* What editing the menu promises: the admins edit and remove single       *)
(* entries, and accept an offered batch of changes all at once or not at   *)
(* all, at most once, and only while none of its entries is removed.       *)
(***************************************************************************)
EXTENDS Naturals, Sequences, FiniteSetsExt

CONSTANTS Items, Contents, Tokens,
          Removed,        \* in place of the content of a removed entry
          Unused, Closed  \* in place of a batch that is not, or no longer, offered

VARIABLES card,   \* the content of every entry
          offer   \* the batches

cvars == <<card, offer>>

Batches == Seq([item : Items, new : Contents])

CatInit ==
  /\ card \in [Items -> Contents \cup {Removed}]
  /\ offer = [t \in Tokens |-> Unused]

Edit(i, c) == card[i] # Removed /\ card' = [card EXCEPT ![i] = c] /\ UNCHANGED offer

Remove(i) == card[i] # Removed /\ card' = [card EXCEPT ![i] = Removed] /\ UNCHANGED offer

Offer(t) ==
  /\ offer[t] = Unused
  /\ offer'[t] \in Batches /\ offer' = [offer EXCEPT ![t] = offer'[t]]
  /\ UNCHANGED card

\* Batches expire, are given up or get lost.
Close(T) ==
  /\ offer' = [t \in Tokens |-> IF t \in T THEN Closed ELSE offer[t]]
  /\ UNCHANGED card

\* A later change of an entry counts.
Applied(batch) ==
  [i \in Items |-> LET K == {k \in DOMAIN batch : batch[k].item = i}
                   IN IF K = {} THEN card[i] ELSE batch[Max(K)].new]

Accept(t) ==
  /\ offer[t] \notin {Unused, Closed}
  /\ \A k \in DOMAIN offer[t] : card[offer[t][k].item] # Removed
  /\ card' = Applied(offer[t])
  /\ offer' = [offer EXCEPT ![t] = Closed]

CatNext ==
  \/ \E i \in Items : Remove(i) \/ \E c \in Contents : Edit(i, c)
  \/ \E t \in Tokens : Offer(t) \/ Accept(t)
  \/ \E T \in SUBSET {t \in Tokens : offer[t] # Unused} : Close(T)

CatSpec == CatInit /\ [][CatNext]_cvars
=============================================================================
