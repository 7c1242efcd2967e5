---------------------------- MODULE AccountsGate ----------------------------
(* The gate that Accounts implements. *)
EXTENDS Accounts

StatusOf(e) ==
  IF RowsOf(e) = {} THEN "unknown"
  ELSE IF \E x \in RowsOf(e) : "active" \in users[x].flags THEN "open" ELSE "closed"

\* Let in since the row was read.
LetInside(q) == q.pc \in {"inside", "flip"} \/ (q.pc = "profile" /\ q.active)

Status == [e \in Emails |-> StatusOf(e)]
Inside == [r \in Reqs |-> IF LetInside(req[r]) THEN Owner[r] ELSE NoId]

G == INSTANCE Gate WITH Nobody <- NoId, status <- Status, inside <- Inside

\* Whoever comes in has an active account at the moment its row is read, also
\* when another first request of the same person has created it (middleware.go:100)
\* and an admin has closed it since; only admins switch accounts, those of others.
ImplementsGate == G!GateSpec
=============================================================================
