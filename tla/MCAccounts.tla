----------------------------- MODULE MCAccounts -----------------------------
(* Small instances of Accounts. *)
EXTENDS AccountsGate, TLC

CONSTANTS a, b, m, n, r1, r2, r3

Row(e, name) == [st |-> "live", email |-> e, flags |-> {"active"}, kiosk |-> FALSE, name |-> name]
None(e) == [st |-> "none", email |-> e, flags |-> {}, kiosk |-> FALSE, name |-> NoName]

\* One admin; who else comes is new.
AdminOnly == [x \in Ids |-> IF x = 1 THEN Row(a, NoName) ELSE None(a)]

\* Two admins and an active member.
TwoAdmins == (1 :> Row(a, NoName)) @@ (2 :> Row(b, NoName)) @@ (3 :> Row(m, NoName))

NoNames == [e \in Emails |-> {}]
AdminNamed == [e \in Emails |-> IF e = a THEN {n} ELSE {}]

OneAdmin == (r1 :> a) @@ (r2 :> m) @@ (r3 :> m)
BothAdmins == (r1 :> a) @@ (r2 :> b)

\* Both tabs of the newcomer are alike.
Symmetry == Permutations({r2, r3})
=============================================================================
