----------------------------- MODULE LedgerInv -----------------------------
(* The inductive invariant of the ledger: what a request may rely on about *)
(* the tables and about the other requests at every one of its statements. *)
EXTENDS Ledger

Books(r) == req[r].kind \in {"order", "deposit", "cancel"}

\* A run between its big statement and its commit.
Anonymizing(r) == req[r].kind = "anonymize" /\ req[r].pc \in {"update", "commit"}

\* The statements of each handler.
Path(kind) ==
  CASE kind = "none"      -> {"idle"}
    [] kind = "order"     -> {"lock", "read", "insert", "creator", "commit"}
    [] kind = "deposit"   -> {"insert", "creator", "commit"}
    [] kind = "cancel"    -> {"mark", "insert", "creator", "commit"}
    [] kind = "delete"    -> {"lock", "count", "commit"}
    [] kind = "anonymize" -> {"advisory", "scan", "update", "commit"}

\* A request follows its handler and uses the fields this handler uses.
FieldsOK(r) ==
  /\ req[r].pc \in Path(req[r].kind)
  /\ Books(r) <=> req[r].new # NoTx
  /\ req[r].kind = "cancel" <=> req[r].of # NoTx
  /\ req[r].kind # "none" => req[r].by \in Users
  /\ req[r].kind \in {"order", "deposit", "delete"} => req[r].who \in Users
  /\ req[r].kind = "order" /\ req[r].by # req[r].who =>
       req[r].by \in Kiosks /\ req[r].who \notin Kiosks
  /\ ~Anonymizing(r) => req[r].rows = {} /\ req[r].credited = {}

\* The id of its booking is free and no other request's.
IdOK(r) ==
  req[r].new # NoTx =>
    /\ ~txs[req[r].new].used
    /\ \A q \in Reqs : req[q].new = req[r].new => q = r

\* An account it has locked exists.
LockedLive(r) ==
  \A u \in Users :
    HoldsUpdate(r, u) \/ HoldsKeyShare(r, u) \/ HoldsNoKeyUpdate(r, u) => Live(u)

\* The booking a cancellation has locked is still as it was when it was marked.
MarkedOK(r) ==
  req[r].kind = "cancel" =>
    LET row == txs[req[r].of] IN
    /\ row.used /\ row.cancels = NoTx
    /\ req[r].pc # "mark" =>
         /\ ~row.cancelled
         /\ req[r].who \in Users /\ req[r].who = row.user /\ req[r].amt = -row.amt

\* Nothing names an account whose deletion is about to commit.
Unreferenced(r) ==
  req[r].kind = "delete" /\ req[r].pc = "commit" => References(req[r].who) = {}

\* What an anonymization run has found, at least one booking, stays as it was
\* until it commits, and it credits owners of what it has found only.
DueOK(r) ==
  Anonymizing(r) =>
    /\ \E t \in TxIds : req[r].due[t] # Nobody
    /\ \A u \in req[r].credited : \E t \in TxIds : req[r].due[t] = u
    /\ \A t \in TxIds : req[r].due[t] # Nobody => txs[t].used /\ txs[t].user = req[r].due[t]
    /\ \A t \in req[r].rows : req[r].due[t] # Nobody
    /\ \A u \in req[r].credited : users[u].carry + Credit(req[r], u) \in BigInt
    /\ req[r].pc = "commit" => RowsLeft(r) = {} /\ OwnersLeft(r) = {}

RequestOK(r) ==
  FieldsOK(r) /\ IdOK(r) /\ LockedLive(r) /\ MarkedOK(r) /\ Unreferenced(r) /\ DueOK(r)
  /\ CheckHolds(r)

\* What r has locked, q has not, where the two locks conflict.
Apart(r, q) ==
  /\ \A u \in Users :
       /\ HoldsUpdate(r, u) =>
            ~HoldsUpdate(q, u) /\ ~HoldsNoKeyUpdate(q, u) /\ ~HoldsKeyShare(q, u)
       /\ ~(HoldsNoKeyUpdate(r, u) /\ HoldsNoKeyUpdate(q, u))
  /\ \A t \in TxIds : ~(HoldsRow(r, t) /\ HoldsRow(q, t))
  /\ ~(HoldsAdvisory(r) /\ HoldsAdvisory(q))

\* Locks that conflict are held by one request at a time.
LocksExclude == \A r, q \in Reqs : r # q => Apart(r, q)

IInv ==
  /\ TypeOK
  /\ \A r \in Reqs : RequestOK(r)
  /\ LocksExclude
  /\ CancelledOnce
  /\ ReferencesLive
=============================================================================
