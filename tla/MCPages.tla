------------------------------ MODULE MCPages ------------------------------
(* Small instances of Pages.                                               *)
EXTENDS Pages, TLC

CONSTANTS alice, bob, carol

Booked(u, c) == [st |-> "booked", user |-> u, cancels |-> c]

\* An order of alice's that was cancelled later than the next one was made.
History == [k \in Keys |-> CASE k = 1 -> Booked(alice, NoKey)
                             [] k = 2 -> Booked(alice, NoKey)
                             [] k = 3 -> Booked(alice, 1)
                             [] OTHER -> Free]

\* bob owes something, alice and carol nothing.
Debts == [k \in Keys |-> IF k = 1 THEN Booked(bob, NoKey) ELSE Free]
=============================================================================
