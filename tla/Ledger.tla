------------------------------- MODULE Ledger -------------------------------
(***************************************************************************)
(* The tab ledger of deckel: the tables users, transactions, settings and  *)
(* anonymization_runs, and the HTTP requests that read and write them      *)
(* concurrently.  A request is a slot r \in Reqs that runs one handler:    *)
(* what it reads before its database transaction, then its SQL statements  *)
(* one by one, then COMMIT.  PostgreSQL runs the statements under READ     *)
(* COMMITTED: every statement sees the rows committed when it starts, row  *)
(* locks are held until the end of the transaction, and what a transaction *)
(* writes is seen by the others when it commits.  So a request buffers its *)
(* writes in its slot and a Commit action installs them, and the locks a   *)
(* request holds follow from how far it has come.                          *)
(***************************************************************************)
EXTENDS Integers, Sequences, FiniteSets, FiniteSetsExt

CONSTANTS
  Users,          \* account ids
  Admins,         \* accounts whose SSO groups contain the admin group
  Kiosks,         \* accounts whose SSO groups contain the kiosk group
  TxIds,          \* ids a booking may get: bounds the number of bookings
  Reqs,           \* slots for concurrent requests: bounds their number
  Nobody,         \* SQL NULL in user_id and created_by_user_id
  NoTx,           \* SQL NULL in cancels_id
  Prices,         \* what one order or custom booking may cost
  Deposits,       \* what one deposit may pay in
  BigInt,         \* the values of a BIGINT column and of an int64
  SettingsChoices,\* the settings an admin may save
  InitUsers, InitTxs,  \* the tables at the start
  StartTime, MaxTime,  \* the clock runs from StartTime to MaxTime
  MaxStall,       \* a database transaction lasts at most this long
  Ops             \* the operations enabled in this instance

VARIABLES
  users,     \* table users
  txs,       \* table transactions
  settings,  \* the one row of table settings
  audit,     \* table anonymization_runs, in the order of the runs
  now,       \* the clock
  req        \* the request each slot runs

vars == <<users, txs, settings, audit, now, req>>

-----------------------------------------------------------------------------
(* Rows. *)

\* "none": the account was never created; "gone": it was deleted.
UserRow == [st : {"none", "live", "gone"}, active : BOOLEAN, exempt : BOOLEAN,
            carry : BigInt]

\* cancelled_at only as whether it is set; type = 'cancellation' is cancels #
\* NoTx; an anonymized row is one whose user is Nobody.
TxRow == [used : BOOLEAN, user : Users \cup {Nobody}, by : Users \cup {Nobody},
          amt : Int, cancels : TxIds \cup {NoTx}, cancelled : BOOLEAN, at : Nat]

NoRow == [used |-> FALSE, user |-> Nobody, by |-> Nobody, amt |-> 0,
          cancels |-> NoTx, cancelled |-> FALSE, at |-> 0]

Gone == [st |-> "gone", active |-> FALSE, exempt |-> FALSE, carry |-> 0]

\* enforce: hard_limit_enabled; limit: hard_spending_limit; window:
\* cancellation_minutes; retention: anonymize_after_months, 0 for disabled.
SettingsRow == [enforce : BOOLEAN, limit : Int, window : Nat, retention : Nat]

Kinds == {"none", "order", "deposit", "cancel", "delete", "anonymize"}

Pcs == {"idle", "lock", "read", "insert", "creator", "mark", "count",
        "advisory", "scan", "update", "commit"}

NoDue == [t \in TxIds |-> Nobody]

Request ==
  [kind : Kinds, pc : Pcs, by : Users \cup {Nobody}, who : Users \cup {Nobody},
   amt : Int, new : TxIds \cup {NoTx}, of : TxIds \cup {NoTx}, at : Nat,
   enforce : BOOLEAN, limit : Int, bal : BigInt, cutoff : Int,
   seen : SUBSET TxIds, due : [TxIds -> Users \cup {Nobody}],
   rows : SUBSET TxIds, credited : SUBSET Users]

Idle ==
  [kind |-> "none", pc |-> "idle", by |-> Nobody, who |-> Nobody, amt |-> 0,
   new |-> NoTx, of |-> NoTx, at |-> 0, enforce |-> FALSE, limit |-> 0, bal |-> 0,
   cutoff |-> 0, seen |-> {}, due |-> NoDue, rows |-> {}, credited |-> {}]

AuditRow == [txs : Nat, users : Nat]

\* The counter bookings of t among rows.
StornosIn(rows, t) == {s \in TxIds : rows[s].used /\ rows[s].cancels = t}

ReversedOnce(rows) ==
  \A t \in TxIds :
    /\ rows[t].cancelled <=> StornosIn(rows, t) # {}
    /\ \A s \in StornosIn(rows, t) :
         /\ rows[t].used /\ rows[t].cancels = NoTx
         /\ rows[s].amt = -rows[t].amt
         /\ \A s2 \in StornosIn(rows, t) : s2 = s

NamesLive(rows, accounts) ==
  \A t \in TxIds : rows[t].used =>
    \A u \in {rows[t].user, rows[t].by} : u = Nobody \/ accounts[u].st = "live"

ASSUME ConstantsOK ==
  /\ IsFiniteSet(Users) /\ IsFiniteSet(TxIds)
  /\ BigInt \subseteq Int /\ 0 \in BigInt
  /\ TxIds \subseteq Nat /\ NoTx \notin TxIds /\ Nobody \notin Users
  /\ Prices \subseteq Nat /\ Deposits \subseteq Nat
  /\ Admins \subseteq Users /\ Kiosks \subseteq Users
  /\ SettingsChoices \subseteq SettingsRow
  /\ StartTime \in Nat /\ MaxTime \in Nat /\ MaxStall \in Nat
  /\ InitUsers \in [Users -> UserRow]
  /\ InitTxs \in [TxIds -> TxRow]

\* The tables of the start are ones the program could have written.
ASSUME ConsistentStart == ReversedOnce(InitTxs) /\ NamesLive(InitTxs, InitUsers)

-----------------------------------------------------------------------------
(* Reading the tables. *)

Busy(r) == req[r].pc # "idle"
Live(u) == u \in Users /\ users[u].st = "live"

\* The middleware lets a request in as an account that exists and is active.
LoggedIn(u) == Live(u) /\ users[u].active

Total(f) == FoldFunction(LAMBDA a, b : a + b, 0, f)
SumOf(S) == Total([t \in S |-> txs[t].amt])
RowsOf(u) == {t \in TxIds : txs[t].used /\ txs[t].user = u}

\* balance_carryover + COALESCE(SUM(amount), 0)
Balance(u) == users[u].carry + SumOf(RowsOf(u))

\* COUNT(*) of rows naming u as user_id or as created_by_user_id.
References(u) == {t \in TxIds : txs[t].used /\ u \in {txs[t].user, txs[t].by}}

\* The id a new booking gets: free, claimed by no other request, the least.
FreeIds == {t \in TxIds : ~txs[t].used /\ \A q \in Reqs : req[q].new # t}
NewId(t) == t \in FreeIds /\ \A s \in FreeIds : t <= s

\* Faulty: lets one more order through when the limit is exactly reached.
RejectsBelow(enforce, limit, bal) == enforce /\ bal < -limit
Rejects(enforce, limit, bal) == enforce /\ bal <= -limit

-----------------------------------------------------------------------------
(* Row locks, as PostgreSQL holds them between a statement and the end of  *)
(* its transaction.  FOR UPDATE (and DELETE) conflicts with everything; an *)
(* UPDATE takes NO KEY UPDATE, the foreign-key check of an INSERT takes    *)
(* KEY SHARE on the row it refers to, and these two do not conflict.       *)

\* Faulty: the balance of an order is read without FOR UPDATE.
HoldsUpdateDelete(q, u) ==
  req[q].who = u /\ req[q].kind = "delete" /\ req[q].pc \in {"count", "commit"}

\* q holds account u FOR UPDATE.
HoldsUpdate(q, u) ==
  /\ req[q].who = u
  /\ \/ req[q].kind = "order" /\ req[q].pc \in {"read", "insert", "creator", "commit"}
     \/ req[q].kind = "delete" /\ req[q].pc \in {"count", "commit"}

\* q has credited u's carryover and not committed it.
HoldsNoKeyUpdate(q, u) == u \in req[q].credited

\* Faulty: a schema whose created_by_user_id is no foreign key.
HoldsKeyShareWho(q, u) ==
  /\ req[q].kind \in {"order", "deposit", "cancel"}
  /\ req[q].pc \in {"creator", "commit"} /\ req[q].who = u

\* q has inserted a booking whose user_id, or created_by_user_id, is u.
HoldsKeyShare(q, u) ==
  /\ req[q].kind \in {"order", "deposit", "cancel"}
  /\ \/ req[q].pc \in {"creator", "commit"} /\ req[q].who = u
     \/ req[q].pc = "commit" /\ req[q].by = u

\* q has updated the booking t and not committed it.
HoldsRow(q, t) ==
  \/ t \in req[q].rows
  \/ req[q].kind = "cancel" /\ req[q].of = t /\ req[q].pc \in {"insert", "creator", "commit"}

\* q holds pg_advisory_xact_lock(anonymizeLockKey).
HoldsAdvisory(q) ==
  req[q].kind = "anonymize" /\ req[q].pc \in {"scan", "update", "commit"}

Others(r) == Reqs \ {r}

UpdateBlockers(r, u) ==
  {q \in Others(r) : HoldsUpdate(q, u) \/ HoldsNoKeyUpdate(q, u) \/ HoldsKeyShare(q, u)}
NoKeyBlockers(r, u) == {q \in Others(r) : HoldsUpdate(q, u) \/ HoldsNoKeyUpdate(q, u)}
KeyShareBlockers(r, u) == {q \in Others(r) : HoldsUpdate(q, u)}
RowBlockers(r, t) == {q \in Others(r) : HoldsRow(q, t)}
\* Faulty: runs are not serialized by the advisory lock.
NoAdvisoryLock(r) == {}
AdvisoryBlockers(r) == {q \in Others(r) : HoldsAdvisory(q)}

\* What the UPDATEs of an anonymization run have still to lock.
RowsLeft(r) == {t \in TxIds : req[r].due[t] # Nobody /\ t \notin req[r].rows}
OwnersLeft(r) == {u \in Users : (\E t \in TxIds : req[r].due[t] = u) /\ u \notin req[r].credited}

\* The requests that hold a lock the next statement of r needs.
BlockersOf(r) ==
  CASE req[r].pc = "lock"     -> UpdateBlockers(r, req[r].who)
    [] req[r].pc = "insert"   -> KeyShareBlockers(r, req[r].who)
    [] req[r].pc = "creator"  -> KeyShareBlockers(r, req[r].by)
    [] req[r].pc = "mark"     -> RowBlockers(r, req[r].of)
    [] req[r].pc = "advisory" -> AdvisoryBlockers(r)
    [] req[r].pc = "update"   -> (UNION {RowBlockers(r, t) : t \in RowsLeft(r)})
                                 \cup (UNION {NoKeyBlockers(r, u) : u \in OwnersLeft(r)})
    [] OTHER -> {}

-----------------------------------------------------------------------------
(* The initial state. *)

Init ==
  /\ users = InitUsers
  /\ txs = InitTxs
  /\ settings \in SettingsChoices
  /\ audit = <<>>
  /\ now = StartTime
  /\ req = [r \in Reqs |-> Idle]

Goto(r, pc) == req' = [req EXCEPT ![r].pc = pc]
Drop(r) == req' = [req EXCEPT ![r] = Idle]
Tables == <<users, txs, settings, audit, now>>

\* A slot takes up a handler: what the handler has read before its database
\* transaction is in the fields of the request, and it may be stale later.
Begin(r, row) ==
  /\ ~Busy(r)
  /\ req' = [req EXCEPT ![r] = row]
  /\ UNCHANGED Tables

-----------------------------------------------------------------------------
(* Handlers that book a debit. *)

\* Faulty: an account that is exempt is held to the limit as well.
DebitHeld(r, by, u, t) ==
  /\ NewId(t)
  /\ \E price \in Prices :
       Begin(r, [Idle EXCEPT !.kind = "order", !.pc = "lock", !.by = by, !.who = u,
                             !.amt = -price, !.new = t, !.at = now,
                             !.enforce = settings.enforce, !.limit = settings.limit])

\* Debits begin alike: the row of the account says whether the limit applies, and
\* the settings are read before BEGIN.
Debit(r, by, u, t) ==
  /\ NewId(t)
  /\ \E price \in Prices :
       Begin(r, [Idle EXCEPT !.kind = "order", !.pc = "lock", !.by = by, !.who = u,
                             !.amt = -price, !.new = t, !.at = now,
                             !.enforce = settings.enforce /\ ~users[u].exempt,
                             !.limit = settings.limit])

PlaceOrder(r, u, t) == "order" \in Ops /\ LoggedIn(u) /\ Debit(r, u, u, t)

\* An amount and a description of the member's own; CustomTxMin may be 0.
CreateCustomTransaction(r, u, t) == "custom" \in Ops /\ LoggedIn(u) /\ Debit(r, u, u, t)

\* A kiosk orders for a member that it has just read.
KioskPlaceOrder(r, k, u, t) ==
  /\ "kioskOrder" \in Ops
  /\ k \in Kiosks /\ LoggedIn(k)
  /\ LoggedIn(u) /\ u \notin Kiosks
  /\ Debit(r, k, u, t)

\* SELECT ... FOR UPDATE, the first statement of GetUserBalanceForUpdate.  A
\* row that is gone locks nothing, and the next statement finds no row.
LockUser(r) ==
  /\ req[r].kind = "order" /\ req[r].pc = "lock"
  /\ UpdateBlockers(r, req[r].who) = {}
  /\ IF Live(req[r].who) THEN Goto(r, "read") ELSE Drop(r)
  /\ UNCHANGED Tables

\* The second statement reads the balance; then the handler compares it with
\* the limit it read earlier, and rolls back when the limit is reached.  A
\* balance that is no int64 is an error of Scan.
ReadBalance(r) ==
  /\ req[r].pc = "read"
  /\ IF \/ Balance(req[r].who) \notin BigInt
        \/ Rejects(req[r].enforce, req[r].limit, Balance(req[r].who))
       THEN Drop(r)
       ELSE req' = [req EXCEPT ![r].pc = "insert", ![r].bal = Balance(req[r].who)]
  /\ UNCHANGED Tables

-----------------------------------------------------------------------------
(* Deposits, and the INSERT every booking ends with. *)

\* RegisterDeposit: books without looking at the balance.
RegisterDeposit(r, a, u, t) ==
  /\ "deposit" \in Ops
  /\ a \in Admins /\ LoggedIn(a)
  /\ Live(u) /\ u \notin Kiosks
  /\ NewId(t)
  /\ \E paid \in Deposits :
       Begin(r, [Idle EXCEPT !.kind = "deposit", !.pc = "insert", !.by = a, !.who = u,
                             !.amt = paid, !.new = t, !.at = now])

\* INSERT INTO transactions checks user_id first: it waits for whoever holds
\* the account FOR UPDATE, and fails when the account is gone by then.
InsertBooking(r) ==
  /\ req[r].pc = "insert"
  /\ KeyShareBlockers(r, req[r].who) = {}
  /\ IF Live(req[r].who) THEN Goto(r, "creator") ELSE Drop(r)
  /\ UNCHANGED Tables

\* ... and then created_by_user_id.
CheckCreator(r) ==
  /\ req[r].pc = "creator"
  /\ KeyShareBlockers(r, req[r].by) = {}
  /\ IF Live(req[r].by) THEN Goto(r, "commit") ELSE Drop(r)
  /\ UNCHANGED Tables

NewRow(q) == [used |-> TRUE, user |-> q.who, by |-> q.by, amt |-> q.amt,
              cancels |-> q.of, cancelled |-> FALSE, at |-> q.at]

CommitBooking(r) ==
  /\ req[r].kind \in {"order", "deposit", "cancel"} /\ req[r].pc = "commit"
  /\ txs' = [t \in TxIds |->
               IF t = req[r].new THEN NewRow(req[r])
               ELSE IF t = req[r].of THEN [txs[t] EXCEPT !.cancelled = TRUE]
               ELSE txs[t]]
  /\ Drop(r)
  /\ UNCHANGED <<users, settings, audit, now>>

-----------------------------------------------------------------------------
(* Cancelling a booking. *)

\* The cancel handlers agree on GetTransaction and its checks, the settings and
\* the window, then the transaction that runs store.CancelTransaction.
Cancel(r, u, t, n) ==
  /\ "cancel" \in Ops
  /\ LoggedIn(u)
  /\ txs[t].used /\ ~txs[t].cancelled /\ txs[t].cancels = NoTx
  /\ now - txs[t].at <= settings.window
  /\ NewId(n)
  /\ Begin(r, [Idle EXCEPT !.kind = "cancel", !.pc = "mark", !.by = u, !.of = t,
                           !.new = n, !.at = now])

\* A member cancels what they booked for themselves ...
CancelTransaction(r, u, t, n) == txs[t].user = u /\ txs[t].by = u /\ Cancel(r, u, t, n)

\* ... a kiosk what it booked ...
KioskCancelTransaction(r, k, t, n) == k \in Kiosks /\ txs[t].by = k /\ Cancel(r, k, t, n)

\* ... and an admin anything.
AdminCancelTransaction(r, a, t, n) == a \in Admins /\ Cancel(r, a, t, n)

\* Faulty: UPDATE without AND cancelled_at IS NULL.
MarkAgain(r) ==
  /\ req[r].pc = "mark"
  /\ RowBlockers(r, req[r].of) = {}
  /\ LET row == txs[req[r].of] IN
       IF row.user = Nobody
         THEN Drop(r)
         ELSE req' = [req EXCEPT ![r].pc = "insert", ![r].who = row.user, ![r].amt = -row.amt]
  /\ UNCHANGED Tables

\* UPDATE ... WHERE cancelled_at IS NULL, on the row as it is once its lock
\* is granted; no row is ErrNotFound.  Then the SELECT of the owner, which the
\* lock keeps from changing; no owner is ErrAnonymized.  Both roll back.
MarkCancelled(r) ==
  /\ req[r].pc = "mark"
  /\ RowBlockers(r, req[r].of) = {}
  /\ LET row == txs[req[r].of] IN
       IF row.cancelled \/ row.user = Nobody
         THEN Drop(r)
         ELSE req' = [req EXCEPT ![r].pc = "insert", ![r].who = row.user, ![r].amt = -row.amt]
  /\ UNCHANGED Tables

-----------------------------------------------------------------------------
(* Deleting an account. *)

\* DeleteUser: the statement that will lock the account starts, and its
\* sub-select will sum the bookings committed by now.
DeleteUser(r, a, u) ==
  /\ "delete" \in Ops
  /\ a \in Admins /\ LoggedIn(a)
  /\ u # a /\ Live(u)
  /\ Begin(r, [Idle EXCEPT !.kind = "delete", !.pc = "lock", !.by = a, !.who = u,
                           !.at = now, !.seen = RowsOf(u)])

\* Faulty: whether the account is inactive is not checked again.
LockActive(r) ==
  /\ req[r].kind = "delete" /\ req[r].pc = "lock"
  /\ UpdateBlockers(r, req[r].who) = {}
  /\ IF Live(req[r].who) /\ users[req[r].who].carry + SumOf(req[r].seen) = 0
       THEN Goto(r, "count")
       ELSE Drop(r)
  /\ UNCHANGED Tables

\* The statement gets the lock: is_active and balance_carryover come from the
\* newest version of the row, the sum is still the one of the snapshot.
LockForDelete(r) ==
  /\ req[r].kind = "delete" /\ req[r].pc = "lock"
  /\ UpdateBlockers(r, req[r].who) = {}
  /\ LET row == users[req[r].who] IN
       IF Live(req[r].who) /\ ~row.active /\ row.carry + SumOf(req[r].seen) = 0
         THEN Goto(r, "count")
         ELSE Drop(r)
  /\ UNCHANGED Tables

\* CountUserReferences is a statement of its own, so it sees what has been
\* committed since; then the DELETE.
CountReferences(r) ==
  /\ req[r].pc = "count"
  /\ IF References(req[r].who) = {} THEN Goto(r, "commit") ELSE Drop(r)
  /\ UNCHANGED Tables

CommitDelete(r) ==
  /\ req[r].kind = "delete" /\ req[r].pc = "commit"
  /\ users' = [users EXCEPT ![req[r].who] = Gone]
  /\ Drop(r)
  /\ UNCHANGED <<txs, settings, audit, now>>

-----------------------------------------------------------------------------
(* The anonymization run. *)

\* RunAnonymization and Run: the retention is read and the cutoff computed
\* before the transaction begins.
RunAnonymization(r, a) ==
  /\ "anonymize" \in Ops
  /\ a \in Admins /\ LoggedIn(a)
  /\ settings.retention > 0
  /\ Begin(r, [Idle EXCEPT !.kind = "anonymize", !.pc = "advisory", !.by = a,
                           !.at = now, !.cutoff = now - settings.retention])

TakeAdvisoryLock(r) ==
  /\ req[r].pc = "advisory"
  /\ AdvisoryBlockers(r) = {}
  /\ Goto(r, "scan")
  /\ UNCHANGED Tables

\* The storno of t, or the booking t reverses.
Partners(t) == {p \in TxIds : txs[p].used /\ (txs[p].cancels = t \/ txs[t].cancels = p)}

\* Faulty: without the rule that pairs move together.
DueByAge(t, cutoff) == txs[t].used /\ txs[t].user # Nobody /\ txs[t].at < cutoff

\* dueCondition: old, still somebody's, and with no partner that is younger.
Due(t, cutoff) ==
  /\ txs[t].used /\ txs[t].user # Nobody /\ txs[t].at < cutoff
  /\ \A p \in Partners(t) : txs[p].at < cutoff

\* The statement starts: its CTE finds the due rows and their owners.  When
\* there are none, the run commits without a log entry.
Scan(r) ==
  /\ req[r].pc = "scan"
  /\ IF \E t \in TxIds : Due(t, req[r].cutoff)
       THEN req' = [req EXCEPT ![r].pc = "update",
                      ![r].due = [t \in TxIds |-> IF Due(t, req[r].cutoff)
                                                    THEN txs[t].user ELSE Nobody]]
       ELSE Drop(r)
  /\ UNCHANGED Tables

\* Its two UPDATEs lock the due bookings and their owners one by one; SQL
\* leaves the order open.
ClaimRow(r) ==
  /\ req[r].pc = "update"
  /\ \E t \in RowsLeft(r) :
       /\ RowBlockers(r, t) = {}
       /\ req' = [req EXCEPT ![r].rows = @ \cup {t}]
  /\ UNCHANGED Tables

\* Faulty: leaves cancelled bookings out of the credit, as the statistics do.
CreditUncancelled(q, u) == SumOf({t \in TxIds : q.due[t] = u /\ ~txs[t].cancelled})

\* agg.total of the statement: the amounts of u's due bookings.  A carryover
\* that no longer fits its column fails the statement.
Credit(q, u) == SumOf({t \in TxIds : q.due[t] = u})

CreditOwner(r) ==
  /\ req[r].pc = "update"
  /\ \E u \in OwnersLeft(r) :
       /\ NoKeyBlockers(r, u) = {}
       /\ IF users[u].carry + Credit(req[r], u) \in BigInt
            THEN req' = [req EXCEPT ![r].credited = @ \cup {u}]
            ELSE Drop(r)
  /\ UNCHANGED Tables

\* InsertAnonymizationRun, once the statement is through.
LogRun(r) ==
  /\ req[r].pc = "update" /\ RowsLeft(r) = {} /\ OwnersLeft(r) = {}
  /\ Goto(r, "commit")
  /\ UNCHANGED Tables

CommitAnonymization(r) ==
  LET q == req[r] IN
  /\ q.kind = "anonymize" /\ q.pc = "commit"
  /\ txs' = [t \in TxIds |-> IF t \in q.rows
                               THEN [txs[t] EXCEPT !.user = Nobody, !.by = Nobody]
                               ELSE txs[t]]
  /\ users' = [u \in Users |-> IF u \in q.credited /\ users[u].st = "live"
                                 THEN [users[u] EXCEPT !.carry = @ + Credit(q, u)]
                                 ELSE users[u]]
  /\ audit' = Append(audit, [txs |-> Cardinality(q.rows), users |-> Cardinality(q.credited)])
  /\ Drop(r)
  /\ UNCHANGED <<settings, now>>

-----------------------------------------------------------------------------
(* Statements that are a transaction of their own, and the environment. *)

\* The middleware creates the account of an unknown email.
CreateUser(u) ==
  /\ "register" \in Ops
  /\ users[u].st = "none"
  /\ users' = [users EXCEPT ![u] = [st |-> "live", active |-> TRUE, exempt |-> FALSE, carry |-> 0]]
  /\ UNCHANGED <<txs, settings, audit, now, req>>

\* UPDATE users waits for FOR UPDATE and NO KEY UPDATE holders.
Writable(u) == Live(u) /\ \A q \in Reqs : ~HoldsUpdate(q, u) /\ ~HoldsNoKeyUpdate(q, u)

ToggleActive(a, u) ==
  /\ "toggleActive" \in Ops
  /\ a \in Admins /\ LoggedIn(a)
  /\ a # u /\ Writable(u)
  /\ users' = [users EXCEPT ![u].active = ~@]
  /\ UNCHANGED <<txs, settings, audit, now, req>>

ToggleSpendingLimit(a, u) ==
  /\ "toggleLimit" \in Ops
  /\ a \in Admins /\ LoggedIn(a)
  /\ u \notin Kiosks /\ Writable(u)
  /\ users' = [users EXCEPT ![u].exempt = ~@]
  /\ UNCHANGED <<txs, settings, audit, now, req>>

\* Faulty: the cancellation window is saved as it was typed.
SaveUnchecked(a) ==
  /\ "settings" \in Ops
  /\ a \in Admins /\ LoggedIn(a)
  /\ settings' = [settings EXCEPT !.window = -1]
  /\ UNCHANGED <<users, txs, audit, now, req>>

SaveSettings(a) ==
  /\ "settings" \in Ops
  /\ a \in Admins /\ LoggedIn(a)
  /\ settings' \in SettingsChoices
  /\ UNCHANGED <<users, txs, audit, now, req>>

\* Time passes, up to MaxTime, and no transaction outlasts MaxStall.
Tick ==
  /\ "tick" \in Ops
  /\ now < MaxTime
  /\ \A r \in Reqs : Busy(r) => now - req[r].at < MaxStall
  /\ now' = now + 1
  /\ UNCHANGED <<users, txs, settings, audit, req>>

\* The client goes away, the connection breaks or the process dies: WithTx or
\* the server rolls back, and the locks are released.
Abort(r) ==
  /\ "abort" \in Ops
  /\ Busy(r)
  /\ Drop(r)
  /\ UNCHANGED Tables

-----------------------------------------------------------------------------
(* The specification. *)

Start(r) ==
  \/ \E u \in Users, t \in TxIds : PlaceOrder(r, u, t) \/ CreateCustomTransaction(r, u, t)
  \/ \E k, u \in Users, t \in TxIds : KioskPlaceOrder(r, k, u, t)
  \/ \E a, u \in Users, t \in TxIds : RegisterDeposit(r, a, u, t)
  \/ \E u \in Users, t, n \in TxIds :
       CancelTransaction(r, u, t, n) \/ KioskCancelTransaction(r, u, t, n)
       \/ AdminCancelTransaction(r, u, t, n)
  \/ \E a, u \in Users : DeleteUser(r, a, u)
  \/ \E a \in Users : RunAnonymization(r, a)

\* The statements of a request that has begun.
Proceed(r) ==
  \/ LockUser(r) \/ ReadBalance(r)
  \/ InsertBooking(r) \/ CheckCreator(r) \/ CommitBooking(r)
  \/ MarkCancelled(r)
  \/ LockForDelete(r) \/ CountReferences(r) \/ CommitDelete(r)
  \/ TakeAdvisoryLock(r) \/ Scan(r) \/ ClaimRow(r) \/ CreditOwner(r) \/ LogRun(r)
  \/ CommitAnonymization(r)

Environment ==
  \/ \E u \in Users : CreateUser(u)
  \/ \E a, u \in Users : ToggleActive(a, u)
  \/ \E a, u \in Users : ToggleSpendingLimit(a, u)
  \/ \E a \in Users : SaveSettings(a)
  \/ Tick

Next == Environment \/ \E r \in Reqs : Start(r) \/ Proceed(r) \/ Abort(r)

Spec == Init /\ [][Next]_vars

\* PostgreSQL queues the waiters of a row, so a statement that can run again
\* and again is not passed over for ever: strong fairness.
FairSpec == Spec /\ \A r \in Reqs : SF_vars(Proceed(r))

-----------------------------------------------------------------------------
(* Properties. *)

\* Every variable keeps its type.
TypeOK ==
  /\ users \in [Users -> UserRow]
  /\ txs \in [TxIds -> TxRow]
  /\ settings \in SettingsChoices
  /\ audit \in Seq(AuditRow)
  /\ now \in Nat
  /\ req \in [Reqs -> Request]

CheckHolds(r) ==
  req[r].kind = "order" /\ req[r].pc \in {"insert", "creator", "commit"} =>
    /\ Balance(req[r].who) = req[r].bal
    /\ ~Rejects(req[r].enforce, req[r].limit, Balance(req[r].who))

\* From the limit check of an order to its commit (order.go:126-156), nothing
\* moves the balance that was compared with the limit, however many orders,
\* deposits, cancellations and anonymization runs for the account go on: the
\* check and the INSERT are one step as far as the balance is concerned.
LimitStillHolds == \A r \in Reqs : CheckHolds(r)

Stornos(t) == StornosIn(txs, t)

\* Member, kiosk and admin may cancel the same booking at the same time: a
\* booking is marked cancelled iff its counter booking exists, there is never
\* a second one, it takes back the amount, and nothing reverses a storno
\* (transaction.go:176-220).
CancelledOnce == ReversedOnce(txs)

\* A booking and its storno lose their owner together (anonymization.go:11-19),
\* unless a cancellation stalls until its booking is due: the run then does not
\* see the storno in its snapshot, and may come to the booking after it.
PairsTogether ==
  settings.window + MaxStall <= settings.retention =>
    \A t \in TxIds : \A s \in Stornos(t) : txs[s].user = txs[t].user

\* No booking names an account that has been deleted, although the account may
\* be deleted while bookings for it are under way (delete_user.go:75-77).
ReferencesLive == NamesLive(txs, users)

Anonymized == {t \in TxIds : txs[t].used /\ txs[t].user = Nobody}

\* What had been anonymized before the start.
Forgotten == {t \in TxIds : InitTxs[t].used /\ InitTxs[t].user = Nobody}

\* The audit log accounts for every anonymized booking exactly once, and has no
\* entry for a run that found nothing (anonymize.go:58-94).
AuditComplete ==
  /\ \A i \in DOMAIN audit : audit[i].txs >= audit[i].users /\ audit[i].users > 0
  /\ Total([i \in DOMAIN audit |-> audit[i].txs]) = Cardinality(Anonymized \ Forgotten)

InitCarry == Total([u \in {v \in Users : InitUsers[v].st = "live"} |-> InitUsers[u].carry])

\* Anonymizing moves amounts from bookings to balance_carryover and deleting an
\* account takes nothing with it: the balances together are always what has
\* ever been booked.
NoMoneyLost ==
  Total([u \in {v \in Users : Live(v)} |-> Balance(u)])
    = InitCarry + SumOf({t \in TxIds : txs[t].used} \ Forgotten)

\* No set of requests waits for itself: whatever locks are held and asked for,
\* some request of the set can go on.
NoWaitCycle ==
  \A S \in (SUBSET Reqs) \ {{}} : \E r \in S : BlockersOf(r) \cap S = {}

\* An account is deleted only when it is inactive and its balance, carryover
\* included, is zero at that moment (delete_user.go:75-77).
DeletedSettled ==
  [][\A u \in Users : Live(u) /\ ~Live(u)' => ~users[u].active /\ Balance(u) = 0]_vars

\* Every request comes to an end, by commit or by rollback.
RequestsFinish == \A r \in Reqs : Busy(r) ~> ~Busy(r)
=============================================================================
