----------------------------- MODULE LedgerTab -----------------------------
(* The ledger implements the tab of module Tab: a tab is the balance the    *)
(* code computes, an entry is a booking that is no storno, and its storno  *)
(* shows as the entry being reversed; a charge is asked for from the start *)
(* of an order, when its settings are read, to its end.                    *)
EXTENDS Ledger

EntryOf(t) ==
  IF txs[t].used /\ txs[t].cancels = NoTx
    THEN [st |-> IF txs[t].cancelled THEN "reversed" ELSE "booked",
          owner |-> txs[t].user, amt |-> txs[t].amt]
    ELSE [st |-> "none", owner |-> Nobody, amt |-> 0]

AskOf(q) ==
  IF q.kind = "order"
    THEN [who |-> q.who, amt |-> q.amt, on |-> q.enforce, at |-> q.limit]
    ELSE [who |-> Nobody, amt |-> 0, on |-> FALSE, at |-> 0]

T == INSTANCE Tab WITH
       Entries <- TxIds,
       Slots  <- Reqs,
       tab    <- [u \in Users |-> IF Live(u) THEN Balance(u) ELSE 0],
       open   <- {u \in Users : Live(u)},
       spared <- {u \in Users : Live(u) /\ users[u].exempt},
       house  <- [on |-> settings.enforce, at |-> settings.limit],
       asked  <- [r \in Reqs |-> AskOf(req[r])],
       entry  <- [t \in TxIds |-> EntryOf(t)]

\* Every step of the ledger is a step of the tab or leaves it alone: an order
\* is held to the limit and the exemption of the moment it began at, and that
\* limit is checked against the tab it charges; a cancellation gives back what
\* was charged and only once, anonymizing moves no tab, no account is closed
\* with something on its tab.
ImplementsTab == T!TabSpec
=============================================================================
