------------------------------ MODULE MCLedger ------------------------------
(* Small instances of Ledger: the accounts, the bookings and the settings  *)
(* the runs start from.                                                    *)
EXTENDS LedgerTab, LedgerInv, TLC

CONSTANTS alice, admin, boss, kiosk, r1, r2, r3

\* Wide enough for every balance the bounded instances reach.
SmallInts == -9..9

Symmetry == Permutations(Reqs)

Account(active, carry) == [st |-> "live", active |-> active, exempt |-> FALSE, carry |-> carry]
NoAccount == [st |-> "none", active |-> FALSE, exempt |-> FALSE, carry |-> 0]
Old(user, by, amt, at) == [used |-> TRUE, user |-> user, by |-> by, amt |-> amt,
                           cancels |-> NoTx, cancelled |-> FALSE, at |-> at]

\* Everybody has a settled account.
Accounts == [u \in Users |-> Account(TRUE, 0)]
NoTxs == [t \in TxIds |-> NoRow]

\* Two orders of alice's, by herself and at the kiosk: both may still be
\* cancelled, and both grow old enough for anonymization ...
TwoOrders == [NoTxs EXCEPT ![1] = Old(alice, kiosk, -1, 0), ![2] = Old(alice, alice, -1, 0)]

\* ... or only the second may be, and the first is old enough.
OldAndNew == [NoTxs EXCEPT ![1] = Old(alice, alice, -1, 1), ![2] = Old(alice, kiosk, -1, 4)]

\* alice has never logged in.
Newcomer == [Accounts EXCEPT ![alice] = NoAccount]

\* Of alice's bookings one is left, and what earlier runs carried over is the
\* opposite of twice its amount: she owes 1 and is deactivated.
Debtor == [Accounts EXCEPT ![alice] = Account(FALSE, -2)]
LastTx == [NoTxs EXCEPT ![1] = Old(alice, admin, 1, 0)]

Limited == [enforce |-> TRUE, limit |-> 1, window |-> 1, retention |-> 0]
Retaining == [enforce |-> TRUE, limit |-> 2, window |-> 1, retention |-> 2]

\* A cancellation that stalls may find its booking due, or anonymized.
Outlasted == [Retaining EXCEPT !.retention = 1]

ShortRetention == [enforce |-> FALSE, limit |-> 0, window |-> 1, retention |-> 2]

LimitedOnly == {Limited}
OutlastedOrNot == {Retaining, Outlasted}
ShortOrLimited == {ShortRetention, Limited}
ShortOnly == {ShortRetention}
=============================================================================
