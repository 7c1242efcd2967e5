---------------------------- MODULE LedgerProofs ----------------------------
(***************************************************************************)
(* IInv, the invariant of LedgerInv, is inductive.  A step of a request     *)
(* touches its own slot, and at its commit the tables: for the first,      *)
(* LocalStep says what is left to show; for the second, each kind of commit *)
(* has a lemma about the request itself and one about the others, whose    *)
(* locks keep it away from what they have read.                            *)
(***************************************************************************)
EXTENDS LedgerInv, TLAPS, FiniteSetTheorems

-----------------------------------------------------------------------------
(* What a step leaves alone. *)

\* A sum over bookings whose amounts stay is the same sum.
LEMMA SumSame ==
  ASSUME NEW S, \A t \in S : txs'[t].amt = txs[t].amt
  PROVE  SumOf(S)' = SumOf(S)
  BY DEF SumOf

\* A balance stays when the carryover, the bookings and their amounts stay.
LEMMA BalanceSame ==
  ASSUME NEW u, users'[u].carry = users[u].carry, RowsOf(u)' = RowsOf(u),
         \A t \in RowsOf(u) : txs'[t].amt = txs[t].amt
  PROVE  Balance(u)' = Balance(u)
  BY SumSame, Zenon DEF Balance

\* A slot that runs nothing is a request.
LEMMA IdleTyped == Idle \in Request
  BY ConstantsOK DEF Idle, Request, Kinds, Pcs, NoDue

OnlyReq(r) == \A q \in Reqs : q # r => req'[q] = req[q]

\* A step of r that writes no table keeps the invariant for the other requests.
LEMMA OthersKeep ==
  ASSUME IInv, NEW r \in Reqs, UNCHANGED Tables, OnlyReq(r),
         NEW q \in Reqs, q # r, IdOK(r)'
  PROVE  RequestOK(q)'
<1>1. req'[q] = req[q] /\ users' = users /\ txs' = txs
  BY DEF OnlyReq, Tables
<1>2. RequestOK(q)
  BY DEF IInv
<1>3. FieldsOK(q)'
  BY <1>1, <1>2 DEF RequestOK, FieldsOK, Books, Anonymizing
<1>4. IdOK(q)'
  BY <1>1, <1>2 DEF RequestOK, IdOK, OnlyReq
<1>5. LockedLive(q)'
  BY <1>1, <1>2 DEF RequestOK, LockedLive, HoldsUpdate, HoldsKeyShare, HoldsNoKeyUpdate, Live
<1>6. MarkedOK(q)' /\ Unreferenced(q)'
  BY <1>1, <1>2 DEF RequestOK, MarkedOK, Unreferenced, References
<1>7. DueOK(q)'
  <2>1. \A u \in Users : Credit(req[q], u)' = Credit(req[q], u)
    BY <1>1, SumSame DEF Credit, SumOf
  <2> QED
    BY <1>1, <1>2, <2>1 DEF RequestOK, DueOK, Anonymizing, RowsLeft, OwnersLeft, IInv, TypeOK, Request
<1>8. CheckHolds(q)'
  <2>1. (Balance(req[q].who))' = Balance(req[q].who)
    BY <1>1 DEF Balance, RowsOf, SumOf
  <2> QED  BY <1>1, <1>2, <2>1 DEF RequestOK, CheckHolds
<1> QED BY <1>3, <1>4, <1>5, <1>6, <1>7, <1>8 DEF RequestOK

\* So for such a step only r itself is left to look at.
LEMMA LocalStep ==
  ASSUME IInv, NEW r \in Reqs, UNCHANGED Tables, OnlyReq(r), req' \in [Reqs -> Request],
         RequestOK(r)', \A q \in Reqs : q # r => Apart(r, q)' /\ Apart(q, r)'
  PROVE  IInv'
<1>1. users' = users /\ txs' = txs /\ settings' = settings /\ audit' = audit /\ now' = now
  BY DEF Tables
<1>2. TypeOK'
  BY <1>1 DEF IInv, TypeOK
<1>3. \A q \in Reqs : RequestOK(q)'
  BY OthersKeep DEF RequestOK
<1>4. LocksExclude'
  <2> SUFFICES ASSUME NEW p \in Reqs, NEW q \in Reqs, p # q PROVE Apart(p, q)'
    BY DEF LocksExclude
  <2>1. CASE p = r \/ q = r
    BY <2>1
  <2>2. CASE p # r /\ q # r
    BY <2>2 DEF IInv, LocksExclude, OnlyReq, Apart, HoldsUpdate, HoldsNoKeyUpdate,
                HoldsKeyShare, HoldsRow, HoldsAdvisory
  <2> QED BY <2>1, <2>2
<1>5. CancelledOnce' /\ ReferencesLive'
  BY <1>1 DEF IInv, CancelledOnce, ReferencesLive
<1> QED BY <1>2, <1>3, <1>4, <1>5 DEF IInv

\* A request that is over: what is left to show is what it wrote.
LEMMA Over ==
  ASSUME IInv, NEW r \in Reqs, Drop(r)
  PROVE  req' \in [Reqs -> Request] /\ OnlyReq(r) /\ req'[r] = Idle /\ RequestOK(r)' /\ LocksExclude'
<1>1. req' \in [Reqs -> Request] /\ OnlyReq(r) /\ req'[r] = Idle
  BY IdleTyped DEF Drop, IInv, TypeOK, OnlyReq
<1>2. RequestOK(r)'
  BY <1>1 DEF Idle, RequestOK, FieldsOK, Path, Books, Anonymizing, IdOK, LockedLive, MarkedOK,
              Unreferenced, DueOK, CheckHolds, HoldsUpdate, HoldsKeyShare, HoldsNoKeyUpdate
<1>3. \A q \in Reqs : q # r => Apart(r, q)' /\ Apart(q, r)'
  BY <1>1 DEF Idle, Apart, HoldsUpdate, HoldsNoKeyUpdate, HoldsKeyShare, HoldsRow, HoldsAdvisory
<1>4. \A p, q \in Reqs : p # r /\ q # r /\ p # q => Apart(p, q)'
  BY <1>1 DEF IInv, LocksExclude, OnlyReq, Apart, HoldsUpdate, HoldsNoKeyUpdate, HoldsKeyShare,
              HoldsRow, HoldsAdvisory
<1>5. LocksExclude'
  BY <1>3, <1>4 DEF LocksExclude
<1> QED BY <1>1, <1>2, <1>5

\* Rolling back.
LEMMA DropKeeps ==
  ASSUME IInv, NEW r \in Reqs, Drop(r), UNCHANGED Tables
  PROVE  IInv'
<1>1. \A q \in Reqs : q # r => Apart(r, q)' /\ Apart(q, r)'
  BY Over DEF LocksExclude
<1> QED BY <1>1, Over, LocalStep

-----------------------------------------------------------------------------
(* Beginning a request. *)

\* The fields of a request that has just begun.
Fresh(q) ==
  /\ q.rows = {} /\ q.credited = {}
  /\ q.by \in Users
  /\ \/ /\ q.kind = "order" /\ q.pc = "lock" /\ q.who \in Users
        /\ q.by # q.who => q.by \in Kiosks /\ q.who \notin Kiosks
     \/ q.kind = "deposit" /\ q.pc = "insert" /\ q.who \in Users
     \/ q.kind = "cancel" /\ q.pc = "mark" /\ q.of \in TxIds /\ txs[q.of].used /\ txs[q.of].cancels = NoTx
     \/ q.kind = "delete" /\ q.pc = "lock" /\ q.who \in Users
     \/ q.kind = "anonymize" /\ q.pc = "advisory"
  /\ q.kind # "cancel" => q.of = NoTx
  /\ IF q.kind \in {"order", "deposit", "cancel"}
       THEN q.new \in TxIds /\ NewId(q.new)
       ELSE q.new = NoTx

\* Taking up a handler keeps the invariant, whichever handler it is.
LEMMA BeginKeeps ==
  ASSUME IInv, NEW r \in Reqs, NEW row \in Request, Begin(r, row), Fresh(row)
  PROVE  IInv'
<1>1. req' \in [Reqs -> Request] /\ OnlyReq(r) /\ req'[r] = row /\ UNCHANGED Tables
  BY DEF Begin, IInv, TypeOK, OnlyReq
<1>2. users' = users /\ txs' = txs
  BY <1>1 DEF Tables
<1>3. IdOK(r)'
  BY <1>1, <1>2, ConstantsOK DEF Fresh, NewId, FreeIds, IdOK, OnlyReq
<1>4. FieldsOK(r)'
  BY <1>1, ConstantsOK DEF Fresh, FieldsOK, Path, Books, Anonymizing
<1>5. LockedLive(r)' /\ MarkedOK(r)' /\ Unreferenced(r)' /\ DueOK(r)' /\ CheckHolds(r)'
  BY <1>1, <1>2 DEF Fresh, LockedLive, MarkedOK, Unreferenced, DueOK, CheckHolds, Anonymizing,
                    HoldsUpdate, HoldsKeyShare, HoldsNoKeyUpdate
<1>6. \A q \in Reqs : q # r => Apart(r, q)' /\ Apart(q, r)'
  BY <1>1 DEF Fresh, Apart, HoldsUpdate, HoldsNoKeyUpdate, HoldsKeyShare, HoldsRow, HoldsAdvisory
<1> QED BY <1>1, <1>3, <1>4, <1>5, <1>6, LocalStep DEF RequestOK

\* What a debit begins is Fresh: a kiosk orders for others that are no kiosks.
LEMMA DebitKeeps ==
  ASSUME IInv, NEW r \in Reqs, NEW by \in Users, NEW u \in Users, NEW t \in TxIds,
         by # u => by \in Kiosks /\ u \notin Kiosks, Debit(r, by, u, t)
  PROVE  IInv'
<1>1. PICK price \in Prices :
        Begin(r, [Idle EXCEPT !.kind = "order", !.pc = "lock", !.by = by, !.who = u,
                              !.amt = -price, !.new = t, !.at = now,
                              !.enforce = settings.enforce /\ ~users[u].exempt,
                              !.limit = settings.limit])
  BY DEF Debit
<1> DEFINE row == [Idle EXCEPT !.kind = "order", !.pc = "lock", !.by = by, !.who = u,
                              !.amt = -price, !.new = t, !.at = now,
                              !.enforce = settings.enforce /\ ~users[u].exempt,
                              !.limit = settings.limit]
<1>2. settings \in SettingsRow /\ -price \in Int /\ now \in Nat
  BY ConstantsOK DEF IInv, TypeOK
<1>3. row \in Request
  BY <1>2, IdleTyped DEF Request, SettingsRow, Kinds, Pcs
<1>4. Fresh(row)
  BY ConstantsOK DEF Fresh, Idle, Debit
<1> HIDE DEF row
<1> QED BY <1>1, <1>3, <1>4, BeginKeeps DEF row

\* A step that takes up a handler of a debit keeps the invariant.
LEMMA OrdersKeep ==
  ASSUME IInv, NEW r \in Reqs, NEW k \in Users, NEW u \in Users, NEW t \in TxIds,
         PlaceOrder(r, u, t) \/ CreateCustomTransaction(r, u, t) \/ KioskPlaceOrder(r, k, u, t)
  PROVE  IInv'
  BY DebitKeeps DEF PlaceOrder, CreateCustomTransaction, KioskPlaceOrder

\* What RegisterDeposit begins is Fresh.
LEMMA RegisterDepositKeeps ==
  ASSUME IInv, NEW r \in Reqs, NEW a \in Users, NEW u \in Users, NEW t \in TxIds,
         RegisterDeposit(r, a, u, t)
  PROVE  IInv'
<1>1. PICK paid \in Deposits :
        Begin(r, [Idle EXCEPT !.kind = "deposit", !.pc = "insert", !.by = a, !.who = u,
                              !.amt = paid, !.new = t, !.at = now])
  BY DEF RegisterDeposit
<1> DEFINE row == [Idle EXCEPT !.kind = "deposit", !.pc = "insert", !.by = a, !.who = u,
                              !.amt = paid, !.new = t, !.at = now]
<1>2. paid \in Int /\ now \in Nat
  BY ConstantsOK DEF IInv, TypeOK
<1>3. row \in Request
  BY <1>2, IdleTyped DEF Request, Kinds, Pcs
<1>4. Fresh(row)
  BY ConstantsOK DEF Fresh, Idle, RegisterDeposit
<1> HIDE DEF row
<1> QED BY <1>1, <1>3, <1>4, BeginKeeps DEF row

\* What a cancellation begins is Fresh: its booking exists and is no storno.
LEMMA CancelKeeps ==
  ASSUME IInv, NEW r \in Reqs, NEW u \in Users, NEW t \in TxIds, NEW n \in TxIds, Cancel(r, u, t, n)
  PROVE  IInv'
<1> DEFINE row == [Idle EXCEPT !.kind = "cancel", !.pc = "mark", !.by = u, !.of = t,
                              !.new = n, !.at = now]
<1>1. Begin(r, row)
  BY DEF Cancel
<1>2. row \in Request
  BY IdleTyped DEF Request, Kinds, Pcs, IInv, TypeOK
<1>3. Fresh(row)
  BY ConstantsOK DEF Fresh, Idle, Cancel
<1> HIDE DEF row
<1> QED BY <1>1, <1>2, <1>3, BeginKeeps

\* What DeleteUser begins is Fresh.
LEMMA DeleteUserKeeps ==
  ASSUME IInv, NEW r \in Reqs, NEW a \in Users, NEW u \in Users, DeleteUser(r, a, u)
  PROVE  IInv'
<1> DEFINE row == [Idle EXCEPT !.kind = "delete", !.pc = "lock", !.by = a, !.who = u,
                              !.at = now, !.seen = RowsOf(u)]
<1>1. Begin(r, row)
  BY DEF DeleteUser
<1>2. now \in Nat /\ RowsOf(u) \subseteq TxIds
  BY DEF IInv, TypeOK, RowsOf
<1>3. row \in Request
  BY <1>2, IdleTyped DEF Request, Kinds, Pcs
<1>4. Fresh(row)
  BY ConstantsOK DEF Fresh, Idle, DeleteUser
<1> HIDE DEF row
<1> QED BY <1>1, <1>3, <1>4, BeginKeeps

\* What RunAnonymization begins is Fresh.
LEMMA RunAnonymizationKeeps ==
  ASSUME IInv, NEW r \in Reqs, NEW a \in Users, RunAnonymization(r, a)
  PROVE  IInv'
<1> DEFINE cutoff == now - settings.retention
           row == [Idle EXCEPT !.kind = "anonymize", !.pc = "advisory", !.by = a,
                                  !.at = now, !.cutoff = cutoff]
<1>1. Begin(r, row)
  BY DEF RunAnonymization
<1>2. cutoff \in Int /\ now \in Nat
  <2>1. settings \in SettingsRow /\ now \in Nat
    BY ConstantsOK DEF IInv, TypeOK
  <2> QED BY <2>1 DEF SettingsRow
<1> HIDE DEF cutoff
<1>3. row \in Request
  BY <1>2, IdleTyped DEF Request, Kinds, Pcs
<1>4. row.kind = "anonymize" /\ row.pc = "advisory" /\ row.by = a /\ row.rows = {}
      /\ row.credited = {} /\ row.of = NoTx /\ row.new = NoTx
  BY DEF Idle
<1>5. Fresh(row)
  BY <1>4 DEF Fresh
<1> HIDE DEF row
<1> QED BY <1>1, <1>3, <1>5, BeginKeeps

-----------------------------------------------------------------------------
(* The statements that write no table. *)

\* A request that goes on to its next statement keeps its other fields.
LEMMA GotoFrame ==
  ASSUME IInv, NEW r \in Reqs, NEW p \in Pcs, Goto(r, p)
  PROVE  /\ req' \in [Reqs -> Request] /\ OnlyReq(r)
         /\ req'[r].kind = req[r].kind /\ req'[r].pc = p /\ req'[r].by = req[r].by
         /\ req'[r].who = req[r].who /\ req'[r].amt = req[r].amt
         /\ req'[r].new = req[r].new /\ req'[r].of = req[r].of
         /\ req'[r].enforce = req[r].enforce /\ req'[r].limit = req[r].limit
         /\ req'[r].bal = req[r].bal /\ req'[r].due = req[r].due
         /\ req'[r].rows = req[r].rows /\ req'[r].credited = req[r].credited
<1>1. req[r] \in Request
  BY DEF IInv, TypeOK
<1>2. [req[r] EXCEPT !.pc = p] \in Request
  BY <1>1 DEF Request
<1>3. req' \in [Reqs -> Request] /\ OnlyReq(r)
  BY <1>2 DEF Goto, IInv, TypeOK, OnlyReq
<1> QED BY <1>1, <1>3 DEF Goto, IInv, TypeOK, Request

\* The account an order locks exists, and nobody else has it locked.
LEMMA LockUserKeeps ==
  ASSUME IInv, NEW r \in Reqs, LockUser(r)
  PROVE  IInv'
<1>1. req[r].kind = "order" /\ req[r].pc = "lock" /\ UNCHANGED Tables
      /\ UpdateBlockers(r, req[r].who) = {}
  BY DEF LockUser
<1>2. CASE Drop(r)
  BY <1>1, <1>2, DropKeeps
<1>3. CASE Live(req[r].who) /\ Goto(r, "read")
  <2>1. "read" \in Pcs
    BY DEF Pcs
  <2>2. RequestOK(r) /\ users' = users /\ txs' = txs
    BY <1>1 DEF IInv, Tables
  <2>3. FieldsOK(r)' /\ IdOK(r)'
    BY <1>1, <1>3, <2>1, <2>2, GotoFrame DEF RequestOK, FieldsOK, IdOK, Path, Books, Anonymizing, OnlyReq
  <2>4. LockedLive(r)' /\ MarkedOK(r)' /\ Unreferenced(r)' /\ DueOK(r)' /\ CheckHolds(r)'
    BY <1>1, <1>3, <2>1, <2>2, GotoFrame DEF RequestOK, FieldsOK, LockedLive, MarkedOK, Unreferenced, DueOK,
       CheckHolds, Anonymizing, HoldsUpdate, HoldsKeyShare, HoldsNoKeyUpdate, Live
  <2>5. \A q \in Reqs : q # r => Apart(r, q)' /\ Apart(q, r)'
    <3> SUFFICES ASSUME NEW q \in Reqs, q # r PROVE Apart(r, q)' /\ Apart(q, r)'
      OBVIOUS
    <3>1. req'[q] = req[q]
      BY <1>3, <2>1, GotoFrame DEF OnlyReq
    <3>2. ~HoldsUpdate(q, req[r].who) /\ ~HoldsNoKeyUpdate(q, req[r].who) /\ ~HoldsKeyShare(q, req[r].who)
      BY <1>1 DEF UpdateBlockers, Others
    <3>3. req[r].rows = {} /\ req[r].credited = {}
      BY <1>1, <2>2 DEF RequestOK, FieldsOK, Anonymizing
    <3> QED
      BY <1>1, <1>3, <2>1, <3>1, <3>2, <3>3, GotoFrame
         DEF Apart, HoldsUpdate, HoldsNoKeyUpdate, HoldsKeyShare, HoldsRow, HoldsAdvisory
  <2> QED BY <1>1, <1>3, <2>1, <2>3, <2>4, <2>5, GotoFrame, LocalStep DEF RequestOK
<1> QED BY <1>2, <1>3 DEF LockUser

\* The balance an order goes on with is the balance there is.
LEMMA ReadBalanceKeeps ==
  ASSUME IInv, NEW r \in Reqs, ReadBalance(r)
  PROVE  IInv'
<1> DEFINE B == Balance(req[r].who)
<1>1. req[r].kind = "order" /\ req[r].pc = "read" /\ UNCHANGED Tables /\ RequestOK(r)
  <2>1. req[r].pc = "read" /\ UNCHANGED Tables /\ RequestOK(r)
    BY DEF ReadBalance, IInv
  <2>2. req[r] \in Request
    BY DEF IInv, TypeOK
  <2> QED BY <2>1, <2>2 DEF RequestOK, FieldsOK, Path, Request, Kinds
<1>2. CASE Drop(r)
  BY <1>1, <1>2, DropKeeps
<1>3. CASE /\ B \in BigInt /\ ~Rejects(req[r].enforce, req[r].limit, B)
           /\ req' = [req EXCEPT ![r].pc = "insert", ![r].bal = B]
  <2> HIDE DEF B
  <2>1. users' = users /\ txs' = txs
    BY <1>1 DEF Tables
  <2>2. req[r] \in Request /\ "insert" \in Pcs
    BY DEF IInv, TypeOK, Pcs
  <2>3. [req[r] EXCEPT !.pc = "insert", !.bal = B] \in Request
    BY <2>2, <1>3 DEF Request
  <2>4. req' \in [Reqs -> Request] /\ OnlyReq(r) /\ req'[r] = [req[r] EXCEPT !.pc = "insert", !.bal = B]
    BY <2>3, <1>3 DEF IInv, TypeOK, OnlyReq
  <2>5. /\ req'[r].kind = req[r].kind /\ req'[r].pc = "insert" /\ req'[r].by = req[r].by
        /\ req'[r].who = req[r].who /\ req'[r].new = req[r].new /\ req'[r].of = req[r].of
        /\ req'[r].enforce = req[r].enforce /\ req'[r].limit = req[r].limit
        /\ req'[r].bal = B
        /\ req'[r].rows = req[r].rows /\ req'[r].credited = req[r].credited
    BY <2>2, <2>4 DEF Request
  <2>6. FieldsOK(r)' /\ IdOK(r)'
    BY <1>1, <2>1, <2>4, <2>5 DEF RequestOK, FieldsOK, IdOK, Path, Books, Anonymizing, OnlyReq
  <2>7. LockedLive(r)' /\ MarkedOK(r)' /\ Unreferenced(r)' /\ DueOK(r)'
    BY <1>1, <2>1, <2>5 DEF RequestOK, LockedLive, MarkedOK, Unreferenced, DueOK,
       Anonymizing, HoldsUpdate, HoldsKeyShare, HoldsNoKeyUpdate, Live
  <2>8. CheckHolds(r)'
    <3>1. Balance(req[r].who)' = B
      BY <2>1, <2>5 DEF B, Balance, RowsOf, SumOf
    <3> QED BY <1>3, <2>5, <3>1 DEF CheckHolds
  <2>9. \A q \in Reqs : q # r => Apart(r, q)' /\ Apart(q, r)'
    BY <1>1, <2>4, <2>5 DEF OnlyReq, IInv, LocksExclude, Apart, HoldsUpdate, HoldsNoKeyUpdate,
       HoldsKeyShare, HoldsRow, HoldsAdvisory
  <2> QED BY <1>1, <2>4, <2>6, <2>7, <2>8, <2>9, LocalStep DEF RequestOK
<1> QED BY <1>2, <1>3 DEF ReadBalance

\* What a request with pc "insert" or "creator" is.
LEMMA Inserting ==
  ASSUME IInv, NEW r \in Reqs, req[r].pc \in {"insert", "creator"}
  PROVE  Books(r) /\ req[r].who \in Users /\ req[r].by \in Users
<1>1. req[r] \in Request /\ RequestOK(r)
  BY DEF IInv, TypeOK
<1> QED BY <1>1 DEF RequestOK, FieldsOK, Path, Request, Kinds, Books, MarkedOK

\* An account gets a booking only when it exists and is not FOR UPDATE.
LEMMA InsertBookingKeeps ==
  ASSUME IInv, NEW r \in Reqs, InsertBooking(r)
  PROVE  IInv'
<1>1. Books(r) /\ req[r].pc = "insert" /\ req[r].who \in Users /\ UNCHANGED Tables
      /\ KeyShareBlockers(r, req[r].who) = {}
  BY Inserting DEF InsertBooking
<1>2. CASE Drop(r)
  BY <1>1, <1>2, DropKeeps
<1>3. CASE Live(req[r].who) /\ Goto(r, "creator")
  <2>1. "creator" \in Pcs
    BY DEF Pcs
  <2>2. RequestOK(r) /\ users' = users /\ txs' = txs
    BY <1>1 DEF IInv, Tables
  <2>3. FieldsOK(r)' /\ IdOK(r)'
    BY <1>1, <1>3, <2>1, <2>2, GotoFrame DEF RequestOK, FieldsOK, IdOK, Path, Books, Anonymizing, OnlyReq
  <2>4. LockedLive(r)' /\ MarkedOK(r)' /\ Unreferenced(r)' /\ DueOK(r)'
    BY <1>1, <1>3, <2>1, <2>2, GotoFrame DEF RequestOK, FieldsOK, Books, LockedLive, MarkedOK,
       Unreferenced, DueOK, Anonymizing, HoldsUpdate, HoldsKeyShare, HoldsNoKeyUpdate, Live
  <2>5. CheckHolds(r)'
    <3>1. Balance(req[r].who)' = Balance(req[r].who)
      BY <1>3, <2>1, <2>2, GotoFrame DEF Balance, RowsOf, SumOf
    <3> QED BY <1>1, <1>3, <2>1, <2>2, <3>1, GotoFrame DEF RequestOK, CheckHolds
  <2>6. \A q \in Reqs : q # r => Apart(r, q)' /\ Apart(q, r)'
    <3> SUFFICES ASSUME NEW q \in Reqs, q # r PROVE Apart(r, q)' /\ Apart(q, r)'
      OBVIOUS
    <3>1. req'[q] = req[q]
      BY <1>3, <2>1, GotoFrame DEF OnlyReq
    <3>2. ~HoldsUpdate(q, req[r].who)
      BY <1>1 DEF KeyShareBlockers, Others
    <3>3. Apart(r, q) /\ Apart(q, r)
      BY DEF IInv, LocksExclude
    <3> QED
      BY <1>1, <1>3, <2>1, <3>1, <3>2, <3>3, GotoFrame
         DEF Books, Apart, HoldsUpdate, HoldsNoKeyUpdate, HoldsKeyShare, HoldsRow, HoldsAdvisory
  <2> QED BY <1>1, <1>3, <2>1, <2>3, <2>4, <2>5, <2>6, GotoFrame, LocalStep DEF RequestOK
<1> QED BY <1>2, <1>3 DEF InsertBooking

\* The same for the account that makes the booking.
LEMMA CheckCreatorKeeps ==
  ASSUME IInv, NEW r \in Reqs, CheckCreator(r)
  PROVE  IInv'
<1>1. Books(r) /\ req[r].pc = "creator" /\ req[r].by \in Users /\ UNCHANGED Tables
      /\ KeyShareBlockers(r, req[r].by) = {}
  BY Inserting DEF CheckCreator
<1>2. CASE Drop(r)
  BY <1>1, <1>2, DropKeeps
<1>3. CASE Live(req[r].by) /\ Goto(r, "commit")
  <2>1. "commit" \in Pcs
    BY DEF Pcs
  <2>2. RequestOK(r) /\ users' = users /\ txs' = txs
    BY <1>1 DEF IInv, Tables
  <2>3. FieldsOK(r)' /\ IdOK(r)'
    BY <1>1, <1>3, <2>1, <2>2, GotoFrame DEF RequestOK, FieldsOK, IdOK, Path, Books, Anonymizing, OnlyReq
  <2>4. LockedLive(r)' /\ MarkedOK(r)' /\ Unreferenced(r)' /\ DueOK(r)'
    BY <1>1, <1>3, <2>1, <2>2, GotoFrame DEF RequestOK, FieldsOK, Books, LockedLive, MarkedOK,
       Unreferenced, DueOK, Anonymizing, HoldsUpdate, HoldsKeyShare, HoldsNoKeyUpdate, Live
  <2>5. CheckHolds(r)'
    <3>1. Balance(req[r].who)' = Balance(req[r].who)
      BY <1>3, <2>1, <2>2, GotoFrame DEF Balance, RowsOf, SumOf
    <3> QED BY <1>1, <1>3, <2>1, <2>2, <3>1, GotoFrame DEF RequestOK, CheckHolds
  <2>6. \A q \in Reqs : q # r => Apart(r, q)' /\ Apart(q, r)'
    <3> SUFFICES ASSUME NEW q \in Reqs, q # r PROVE Apart(r, q)' /\ Apart(q, r)'
      OBVIOUS
    <3>1. req'[q] = req[q]
      BY <1>3, <2>1, GotoFrame DEF OnlyReq
    <3>2. ~HoldsUpdate(q, req[r].by)
      BY <1>1 DEF KeyShareBlockers, Others
    <3>3. Apart(r, q) /\ Apart(q, r)
      BY DEF IInv, LocksExclude
    <3> QED
      BY <1>1, <1>3, <2>1, <3>1, <3>2, <3>3, GotoFrame
         DEF Books, Apart, HoldsUpdate, HoldsNoKeyUpdate, HoldsKeyShare, HoldsRow, HoldsAdvisory
  <2> QED BY <1>1, <1>3, <2>1, <2>3, <2>4, <2>5, <2>6, GotoFrame, LocalStep DEF RequestOK
<1> QED BY <1>2, <1>3 DEF CheckCreator

\* A cancellation marks a booking that is not cancelled and has an owner.
LEMMA MarkCancelledKeeps ==
  ASSUME IInv, NEW r \in Reqs, MarkCancelled(r)
  PROVE  IInv'
<1> DEFINE row == txs[req[r].of]
<1>1. req[r].kind = "cancel" /\ req[r].pc = "mark" /\ UNCHANGED Tables /\ RequestOK(r)
      /\ RowBlockers(r, req[r].of) = {}
  <2>1. req[r].pc = "mark" /\ UNCHANGED Tables /\ RequestOK(r) /\ RowBlockers(r, req[r].of) = {}
    BY DEF MarkCancelled, IInv
  <2>2. req[r] \in Request
    BY DEF IInv, TypeOK
  <2> QED BY <2>1, <2>2 DEF RequestOK, FieldsOK, Path, Request, Kinds
<1>2. CASE Drop(r)
  BY <1>1, <1>2, DropKeeps
<1>3. CASE /\ ~row.cancelled /\ row.user # Nobody
           /\ req' = [req EXCEPT ![r].pc = "insert", ![r].who = row.user, ![r].amt = -row.amt]
  <2>1. users' = users /\ txs' = txs
    BY <1>1 DEF Tables
  <2>2. req[r] \in Request /\ "insert" \in Pcs
    BY DEF IInv, TypeOK, Pcs
  <2>3. req[r].of \in TxIds
    BY <1>1, <2>2 DEF RequestOK, FieldsOK, Request
  <2>4. PICK u \in Users, a \in Int : u = row.user /\ a = -row.amt
    <3>1. row \in TxRow
      BY <2>3 DEF IInv, TypeOK
    <3>2. row.user \in Users /\ -row.amt \in Int
      BY <1>3, <3>1 DEF TxRow
    <3> QED BY <3>2
  <2>5. req' = [req EXCEPT ![r].pc = "insert", ![r].who = u, ![r].amt = a]
    BY <1>3, <2>4
  <2>6. [req[r] EXCEPT !.pc = "insert", !.who = u, !.amt = a] \in Request
    BY <2>2 DEF Request
  <2>7. req' \in [Reqs -> Request] /\ OnlyReq(r)
        /\ req'[r] = [req[r] EXCEPT !.pc = "insert", !.who = u, !.amt = a]
    BY <2>5, <2>6 DEF IInv, TypeOK, OnlyReq
  <2>8. /\ req'[r].kind = "cancel" /\ req'[r].pc = "insert" /\ req'[r].by = req[r].by
        /\ req'[r].who = u /\ req'[r].amt = a /\ req'[r].new = req[r].new /\ req'[r].of = req[r].of
        /\ req'[r].rows = req[r].rows /\ req'[r].credited = req[r].credited
    BY <1>1, <2>2, <2>7 DEF Request
  <2>9. FieldsOK(r)' /\ IdOK(r)'
    BY <1>1, <2>1, <2>7, <2>8 DEF RequestOK, FieldsOK, IdOK, Path, Books, Anonymizing, OnlyReq
  <2>10. MarkedOK(r)'
    BY <1>1, <1>3, <2>1, <2>4, <2>8 DEF RequestOK, MarkedOK
  <2>11. LockedLive(r)' /\ Unreferenced(r)' /\ DueOK(r)' /\ CheckHolds(r)'
    BY <1>1, <2>8 DEF RequestOK, FieldsOK, LockedLive, Unreferenced, DueOK, CheckHolds,
       Anonymizing, HoldsUpdate, HoldsKeyShare, HoldsNoKeyUpdate
  <2>12. \A q \in Reqs : q # r => Apart(r, q)' /\ Apart(q, r)'
    <3> SUFFICES ASSUME NEW q \in Reqs, q # r PROVE Apart(r, q)' /\ Apart(q, r)'
      OBVIOUS
    <3>1. req'[q] = req[q]
      BY <2>7 DEF OnlyReq
    <3>2. ~HoldsRow(q, req[r].of)
      BY <1>1 DEF RowBlockers, Others
    <3>3. req[r].rows = {} /\ req[r].credited = {}
      BY <1>1 DEF RequestOK, FieldsOK, Anonymizing
    <3> QED
      BY <2>8, <3>1, <3>2, <3>3
         DEF Apart, HoldsUpdate, HoldsNoKeyUpdate, HoldsKeyShare, HoldsRow, HoldsAdvisory
  <2> QED BY <1>1, <2>7, <2>9, <2>10, <2>11, <2>12, LocalStep DEF RequestOK
<1> QED BY <1>2, <1>3 DEF MarkCancelled

\* A deletion locks an account no other request has locked.
LEMMA LockForDeleteKeeps ==
  ASSUME IInv, NEW r \in Reqs, LockForDelete(r)
  PROVE  IInv'
<1>1. req[r].kind = "delete" /\ req[r].pc = "lock" /\ UNCHANGED Tables
      /\ UpdateBlockers(r, req[r].who) = {}
  BY DEF LockForDelete
<1>2. CASE Drop(r)
  BY <1>1, <1>2, DropKeeps
<1>3. CASE Live(req[r].who) /\ Goto(r, "count")
  <2>1. "count" \in Pcs
    BY DEF Pcs
  <2>2. RequestOK(r) /\ users' = users /\ txs' = txs
    BY <1>1 DEF IInv, Tables
  <2>3. FieldsOK(r)' /\ IdOK(r)'
    BY <1>1, <1>3, <2>1, <2>2, GotoFrame DEF RequestOK, FieldsOK, IdOK, Path, Books, Anonymizing, OnlyReq
  <2>4. LockedLive(r)' /\ MarkedOK(r)' /\ Unreferenced(r)' /\ DueOK(r)' /\ CheckHolds(r)'
    BY <1>1, <1>3, <2>1, <2>2, GotoFrame DEF RequestOK, FieldsOK, LockedLive, MarkedOK, Unreferenced, DueOK,
       CheckHolds, Anonymizing, HoldsUpdate, HoldsKeyShare, HoldsNoKeyUpdate, Live
  <2>5. \A q \in Reqs : q # r => Apart(r, q)' /\ Apart(q, r)'
    <3> SUFFICES ASSUME NEW q \in Reqs, q # r PROVE Apart(r, q)' /\ Apart(q, r)'
      OBVIOUS
    <3>1. req'[q] = req[q]
      BY <1>3, <2>1, GotoFrame DEF OnlyReq
    <3>2. ~HoldsUpdate(q, req[r].who) /\ ~HoldsNoKeyUpdate(q, req[r].who) /\ ~HoldsKeyShare(q, req[r].who)
      BY <1>1 DEF UpdateBlockers, Others
    <3>3. req[r].rows = {} /\ req[r].credited = {}
      BY <1>1, <2>2 DEF RequestOK, FieldsOK, Anonymizing
    <3> QED
      BY <1>1, <1>3, <2>1, <3>1, <3>2, <3>3, GotoFrame
         DEF Apart, HoldsUpdate, HoldsNoKeyUpdate, HoldsKeyShare, HoldsRow, HoldsAdvisory
  <2> QED BY <1>1, <1>3, <2>1, <2>3, <2>4, <2>5, GotoFrame, LocalStep DEF RequestOK
<1> QED BY <1>2, <1>3 DEF LockForDelete

\* Before its DELETE a deletion has found no booking that names the account.
LEMMA CountReferencesKeeps ==
  ASSUME IInv, NEW r \in Reqs, CountReferences(r)
  PROVE  IInv'
<1>1. req[r].kind = "delete" /\ req[r].pc = "count" /\ UNCHANGED Tables /\ RequestOK(r)
  <2>1. req[r].pc = "count" /\ UNCHANGED Tables /\ RequestOK(r)
    BY DEF CountReferences, IInv
  <2>2. req[r] \in Request
    BY DEF IInv, TypeOK
  <2> QED BY <2>1, <2>2 DEF RequestOK, FieldsOK, Path, Request, Kinds
<1>2. CASE Drop(r)
  BY <1>1, <1>2, DropKeeps
<1>3. CASE References(req[r].who) = {} /\ Goto(r, "commit")
  <2>1. "commit" \in Pcs
    BY DEF Pcs
  <2>2. users' = users /\ txs' = txs
    BY <1>1 DEF Tables
  <2>3. FieldsOK(r)' /\ IdOK(r)'
    BY <1>1, <1>3, <2>1, <2>2, GotoFrame DEF RequestOK, FieldsOK, IdOK, Path, Books, Anonymizing, OnlyReq
  <2>4. Unreferenced(r)'
    BY <1>3, <2>1, <2>2, GotoFrame DEF Unreferenced, References
  <2>5. LockedLive(r)' /\ MarkedOK(r)' /\ DueOK(r)' /\ CheckHolds(r)'
    BY <1>1, <1>3, <2>1, <2>2, GotoFrame DEF RequestOK, FieldsOK, LockedLive, MarkedOK, DueOK,
       CheckHolds, Anonymizing, HoldsUpdate, HoldsKeyShare, HoldsNoKeyUpdate, Live
  <2>6. \A q \in Reqs : q # r => Apart(r, q)' /\ Apart(q, r)'
    <3> SUFFICES ASSUME NEW q \in Reqs, q # r PROVE Apart(r, q)' /\ Apart(q, r)'
      OBVIOUS
    <3>1. req'[q] = req[q]
      BY <1>3, <2>1, GotoFrame DEF OnlyReq
    <3>2. Apart(r, q) /\ Apart(q, r)
      BY DEF IInv, LocksExclude
    <3> QED
      BY <1>1, <1>3, <2>1, <3>1, <3>2, GotoFrame
         DEF Apart, HoldsUpdate, HoldsNoKeyUpdate, HoldsKeyShare, HoldsRow, HoldsAdvisory
  <2> QED BY <1>1, <1>3, <2>1, <2>3, <2>4, <2>5, <2>6, GotoFrame, LocalStep DEF RequestOK
<1> QED BY <1>2, <1>3 DEF CountReferences

\* One run at a time has the advisory lock.
LEMMA TakeAdvisoryLockKeeps ==
  ASSUME IInv, NEW r \in Reqs, TakeAdvisoryLock(r)
  PROVE  IInv'
<1>1. req[r].kind = "anonymize" /\ req[r].pc = "advisory" /\ UNCHANGED Tables /\ RequestOK(r)
      /\ AdvisoryBlockers(r) = {} /\ Goto(r, "scan")
  <2>1. req[r].pc = "advisory" /\ UNCHANGED Tables /\ RequestOK(r) /\ AdvisoryBlockers(r) = {} /\ Goto(r, "scan")
    BY DEF TakeAdvisoryLock, IInv
  <2>2. req[r] \in Request
    BY DEF IInv, TypeOK
  <2> QED BY <2>1, <2>2 DEF RequestOK, FieldsOK, Path, Request, Kinds
<1>2. "scan" \in Pcs
  BY DEF Pcs
<1>3. users' = users /\ txs' = txs
  BY <1>1 DEF Tables
<1>4. FieldsOK(r)' /\ IdOK(r)'
  BY <1>1, <1>2, <1>3, GotoFrame DEF RequestOK, FieldsOK, IdOK, Path, Books, Anonymizing, OnlyReq
<1>5. LockedLive(r)' /\ MarkedOK(r)' /\ Unreferenced(r)' /\ DueOK(r)' /\ CheckHolds(r)'
  BY <1>1, <1>2, <1>3, GotoFrame DEF RequestOK, FieldsOK, LockedLive, MarkedOK, Unreferenced, DueOK,
     CheckHolds, Anonymizing, HoldsUpdate, HoldsKeyShare, HoldsNoKeyUpdate, Live
<1>6. \A q \in Reqs : q # r => Apart(r, q)' /\ Apart(q, r)'
  <2> SUFFICES ASSUME NEW q \in Reqs, q # r PROVE Apart(r, q)' /\ Apart(q, r)'
    OBVIOUS
  <2>1. req'[q] = req[q]
    BY <1>1, <1>2, GotoFrame DEF OnlyReq
  <2>2. ~HoldsAdvisory(q)
    BY <1>1 DEF AdvisoryBlockers, Others
  <2>3. Apart(r, q) /\ Apart(q, r)
    BY DEF IInv, LocksExclude
  <2> QED
    BY <1>1, <1>2, <2>1, <2>2, <2>3, GotoFrame
       DEF Apart, HoldsUpdate, HoldsNoKeyUpdate, HoldsKeyShare, HoldsRow, HoldsAdvisory
<1> QED BY <1>1, <1>2, <1>4, <1>5, <1>6, GotoFrame, LocalStep DEF RequestOK

\* An account with a due booking exists.
LEMMA OwnerLive ==
  ASSUME IInv, NEW r \in Reqs, Anonymizing(r), NEW t \in TxIds, NEW u \in Users, req[r].due[t] = u
  PROVE  Live(u)
<1>1. txs[t].used /\ txs[t].user = u
  BY ConstantsOK DEF IInv, RequestOK, DueOK
<1> QED BY <1>1, ConstantsOK DEF IInv, ReferencesLive, NamesLive, Live

\* What a request with pc "update" is.
LEMMA Updating ==
  ASSUME IInv, NEW r \in Reqs, req[r].pc \in {"scan", "update"}
  PROVE  req[r].kind = "anonymize"
<1>1. req[r] \in Request /\ RequestOK(r)
  BY DEF IInv, TypeOK
<1> QED BY <1>1 DEF RequestOK, FieldsOK, Path, Request, Kinds

\* What a run finds due exists and has the owner it notes.
LEMMA ScanKeeps ==
  ASSUME IInv, NEW r \in Reqs, Scan(r)
  PROVE  IInv'
<1>1. req[r].kind = "anonymize" /\ req[r].pc = "scan" /\ UNCHANGED Tables /\ RequestOK(r)
  BY Updating DEF Scan, IInv
<1>2. CASE Drop(r)
  BY <1>1, <1>2, DropKeeps
<1>3. CASE /\ \E t \in TxIds : Due(t, req[r].cutoff)
           /\ req' = [req EXCEPT ![r].pc = "update",
                        ![r].due = [t \in TxIds |-> IF Due(t, req[r].cutoff)
                                                      THEN txs[t].user ELSE Nobody]]
  <2> DEFINE due == [t \in TxIds |-> IF Due(t, req[r].cutoff) THEN txs[t].user ELSE Nobody]
  <2>1. users' = users /\ txs' = txs
    BY <1>1 DEF Tables
  <2>2. req[r] \in Request /\ "update" \in Pcs
    BY DEF IInv, TypeOK, Pcs
  <2>3. due \in [TxIds -> Users \cup {Nobody}]
    BY DEF IInv, TypeOK, TxRow
  <2>4. /\ \A t \in TxIds : due[t] # Nobody => txs[t].used /\ txs[t].user = due[t]
        /\ \E t \in TxIds : due[t] # Nobody
    BY <1>3 DEF Due
  <2>5. req' = [req EXCEPT ![r].pc = "update", ![r].due = due]
    BY <1>3
  <2> HIDE DEF due
  <2>6. [req[r] EXCEPT !.pc = "update", !.due = due] \in Request
    BY <2>2, <2>3 DEF Request
  <2>7. req' \in [Reqs -> Request] /\ OnlyReq(r) /\ req'[r] = [req[r] EXCEPT !.pc = "update", !.due = due]
    BY <2>5, <2>6 DEF IInv, TypeOK, OnlyReq
  <2>8. /\ req'[r].kind = "anonymize" /\ req'[r].pc = "update" /\ req'[r].by = req[r].by
        /\ req'[r].who = req[r].who /\ req'[r].new = req[r].new /\ req'[r].of = req[r].of
        /\ req'[r].due = due
        /\ req'[r].rows = {} /\ req'[r].credited = {}
    BY <1>1, <2>2, <2>7 DEF Request, RequestOK, FieldsOK, Anonymizing
  <2>9. FieldsOK(r)' /\ IdOK(r)'
    BY <1>1, <2>1, <2>7, <2>8 DEF RequestOK, FieldsOK, IdOK, Path, Books, Anonymizing, OnlyReq
  <2>10. DueOK(r)'
    BY <2>1, <2>4, <2>8 DEF DueOK
  <2>11. LockedLive(r)' /\ MarkedOK(r)' /\ Unreferenced(r)' /\ CheckHolds(r)'
    BY <2>8 DEF LockedLive, MarkedOK, Unreferenced, CheckHolds, HoldsUpdate, HoldsKeyShare, HoldsNoKeyUpdate
  <2>12. \A q \in Reqs : q # r => Apart(r, q)' /\ Apart(q, r)'
    BY <1>1, <2>7, <2>8 DEF OnlyReq, IInv, LocksExclude, Apart, HoldsUpdate, HoldsNoKeyUpdate,
       HoldsKeyShare, HoldsRow, HoldsAdvisory
  <2> QED BY <1>1, <2>7, <2>9, <2>10, <2>11, <2>12, LocalStep DEF RequestOK
<1> QED BY <1>2, <1>3 DEF Scan

\* A run locks a due booking that no other request has locked.
LEMMA ClaimRowKeeps ==
  ASSUME IInv, NEW r \in Reqs, ClaimRow(r)
  PROVE  IInv'
<1>1. req[r].kind = "anonymize" /\ req[r].pc = "update" /\ UNCHANGED Tables /\ RequestOK(r)
  BY Updating DEF ClaimRow, IInv
<1>2. PICK t \in TxIds : /\ req[r].due[t] # Nobody
                         /\ RowBlockers(r, t) = {}
                         /\ req' = [req EXCEPT ![r].rows = @ \cup {t}]
  BY DEF ClaimRow, RowsLeft
<1>3. users' = users /\ txs' = txs
  BY <1>1 DEF Tables
<1>4. req[r] \in Request
  BY DEF IInv, TypeOK
<1>5. [req[r] EXCEPT !.rows = @ \cup {t}] \in Request
  BY <1>4 DEF Request
<1>6. req' \in [Reqs -> Request] /\ OnlyReq(r) /\ req'[r] = [req[r] EXCEPT !.rows = @ \cup {t}]
  BY <1>2, <1>5 DEF IInv, TypeOK, OnlyReq
<1>7. /\ req'[r].kind = "anonymize" /\ req'[r].pc = "update" /\ req'[r].by = req[r].by
      /\ req'[r].who = req[r].who /\ req'[r].new = req[r].new /\ req'[r].of = req[r].of
      /\ req'[r].due = req[r].due
      /\ req'[r].rows = req[r].rows \cup {t} /\ req'[r].credited = req[r].credited
  BY <1>1, <1>4, <1>6 DEF Request
<1>8. FieldsOK(r)' /\ IdOK(r)'
  BY <1>1, <1>3, <1>6, <1>7 DEF RequestOK, FieldsOK, IdOK, Path, Books, Anonymizing, OnlyReq
<1>9. DueOK(r)'
  <2>1. \A u \in Users : Credit(req[r], u)' = Credit(req[r], u)
    BY <1>3, <1>7 DEF Credit, SumOf
  <2>2. req[r].credited \subseteq Users
    BY <1>4 DEF Request
  <2>3. DueOK(r) /\ Anonymizing(r)
    BY <1>1 DEF RequestOK, Anonymizing
  <2>4. \A u \in req'[r].credited : users'[u].carry + Credit(req[r], u)' \in BigInt
    BY <1>3, <1>7, <2>1, <2>2, <2>3 DEF DueOK
  <2>5. \A u \in req'[r].credited : \E s \in TxIds : req'[r].due[s] = u
    BY <1>7, <2>3 DEF DueOK
  <2>6. /\ \E s \in TxIds : req'[r].due[s] # Nobody
        /\ \A s \in TxIds : req'[r].due[s] # Nobody => txs'[s].used /\ txs'[s].user = req'[r].due[s]
    BY <1>3, <1>7, <2>3 DEF DueOK
  <2>7. \A s \in req'[r].rows : req'[r].due[s] # Nobody
    BY <1>2, <1>7, <2>3 DEF DueOK
  <2> QED BY <1>7, <2>4, <2>5, <2>6, <2>7 DEF DueOK
<1>10. LockedLive(r)' /\ MarkedOK(r)' /\ Unreferenced(r)' /\ CheckHolds(r)'
  BY <1>1, <1>3, <1>7 DEF RequestOK, LockedLive, MarkedOK, Unreferenced, CheckHolds, HoldsUpdate,
     HoldsKeyShare, HoldsNoKeyUpdate, Live
<1>11. \A q \in Reqs : q # r => Apart(r, q)' /\ Apart(q, r)'
  <2> SUFFICES ASSUME NEW q \in Reqs, q # r PROVE Apart(r, q)' /\ Apart(q, r)'
    OBVIOUS
  <2>1. req'[q] = req[q]
    BY <1>6 DEF OnlyReq
  <2>2. ~HoldsRow(q, t)
    BY <1>2 DEF RowBlockers, Others
  <2>3. Apart(r, q) /\ Apart(q, r)
    BY DEF IInv, LocksExclude
  <2> QED
    BY <1>1, <1>7, <2>1, <2>2, <2>3
       DEF Apart, HoldsUpdate, HoldsNoKeyUpdate, HoldsKeyShare, HoldsRow, HoldsAdvisory
<1> QED BY <1>1, <1>6, <1>8, <1>9, <1>10, <1>11, LocalStep DEF RequestOK

\* A run credits an existing account, and only what its column can hold.
LEMMA CreditOwnerKeeps ==
  ASSUME IInv, NEW r \in Reqs, CreditOwner(r)
  PROVE  IInv'
<1>1. req[r].kind = "anonymize" /\ req[r].pc = "update" /\ UNCHANGED Tables /\ RequestOK(r)
  BY Updating DEF CreditOwner, IInv
<1>2. CASE Drop(r)
  BY <1>1, <1>2, DropKeeps
<1>3. CASE \E u \in OwnersLeft(r) :
             /\ NoKeyBlockers(r, u) = {} /\ users[u].carry + Credit(req[r], u) \in BigInt
             /\ req' = [req EXCEPT ![r].credited = @ \cup {u}]
  <2>1. PICK u \in Users, t \in TxIds :
             /\ req[r].due[t] = u
             /\ NoKeyBlockers(r, u) = {} /\ users[u].carry + Credit(req[r], u) \in BigInt
             /\ req' = [req EXCEPT ![r].credited = @ \cup {u}]
    BY <1>3 DEF OwnersLeft
  <2>2. users' = users /\ txs' = txs
    BY <1>1 DEF Tables
  <2>3. req[r] \in Request
    BY DEF IInv, TypeOK
  <2>4. [req[r] EXCEPT !.credited = @ \cup {u}] \in Request
    BY <2>3 DEF Request
  <2>5. req' \in [Reqs -> Request] /\ OnlyReq(r) /\ req'[r] = [req[r] EXCEPT !.credited = @ \cup {u}]
    BY <2>1, <2>4 DEF IInv, TypeOK, OnlyReq
  <2>6. /\ req'[r].kind = "anonymize" /\ req'[r].pc = "update" /\ req'[r].by = req[r].by
        /\ req'[r].who = req[r].who /\ req'[r].new = req[r].new /\ req'[r].of = req[r].of
        /\ req'[r].due = req[r].due
        /\ req'[r].rows = req[r].rows /\ req'[r].credited = req[r].credited \cup {u}
    BY <1>1, <2>3, <2>5 DEF Request
  <2>7. FieldsOK(r)' /\ IdOK(r)'
    BY <1>1, <2>2, <2>5, <2>6 DEF RequestOK, FieldsOK, IdOK, Path, Books, Anonymizing, OnlyReq
  <2>8. DueOK(r)'
    <3>1. \A v \in Users : Credit(req[r], v)' = Credit(req[r], v)
      BY <2>2, <2>6 DEF Credit, SumOf
    <3>2. req[r].credited \subseteq Users
      BY <2>3 DEF Request
    <3> QED BY <1>1, <2>1, <2>2, <2>6, <3>1, <3>2 DEF RequestOK, DueOK, Anonymizing
  <2>9. Live(u)
    BY <1>1, <2>1, OwnerLive DEF Anonymizing
  <2>10. LockedLive(r)' /\ MarkedOK(r)' /\ Unreferenced(r)' /\ CheckHolds(r)'
    BY <1>1, <2>2, <2>6, <2>9 DEF RequestOK, LockedLive, MarkedOK, Unreferenced, CheckHolds,
       HoldsUpdate, HoldsKeyShare, HoldsNoKeyUpdate, Live
  <2>11. \A q \in Reqs : q # r => Apart(r, q)' /\ Apart(q, r)'
    <3> SUFFICES ASSUME NEW q \in Reqs, q # r PROVE Apart(r, q)' /\ Apart(q, r)'
      OBVIOUS
    <3>1. req'[q] = req[q]
      BY <2>5 DEF OnlyReq
    <3>2. ~HoldsUpdate(q, u) /\ ~HoldsNoKeyUpdate(q, u)
      BY <2>1 DEF NoKeyBlockers, Others
    <3>3. Apart(r, q) /\ Apart(q, r)
      BY DEF IInv, LocksExclude
    <3> QED
      BY <1>1, <2>6, <3>1, <3>2, <3>3
         DEF Apart, HoldsUpdate, HoldsNoKeyUpdate, HoldsKeyShare, HoldsRow, HoldsAdvisory
  <2> QED BY <1>1, <2>5, <2>7, <2>8, <2>10, <2>11, LocalStep DEF RequestOK
<1> QED BY <1>2, <1>3 DEF CreditOwner

\* A run that goes on to its commit has locked all it found.
LEMMA LogRunKeeps ==
  ASSUME IInv, NEW r \in Reqs, LogRun(r)
  PROVE  IInv'
<1>1. req[r].kind = "anonymize" /\ req[r].pc = "update" /\ UNCHANGED Tables /\ RequestOK(r)
      /\ RowsLeft(r) = {} /\ OwnersLeft(r) = {} /\ Goto(r, "commit")
  BY Updating DEF LogRun, IInv
<1>2. "commit" \in Pcs
  BY DEF Pcs
<1>3. users' = users /\ txs' = txs
  BY <1>1 DEF Tables
<1>4. FieldsOK(r)' /\ IdOK(r)'
  BY <1>1, <1>2, <1>3, GotoFrame DEF RequestOK, FieldsOK, IdOK, Path, Books, Anonymizing, OnlyReq
<1>5. LockedLive(r)' /\ MarkedOK(r)' /\ Unreferenced(r)' /\ CheckHolds(r)'
  BY <1>1, <1>2, <1>3, GotoFrame DEF RequestOK, FieldsOK, LockedLive, MarkedOK, Unreferenced,
     CheckHolds, Anonymizing, HoldsUpdate, HoldsKeyShare, HoldsNoKeyUpdate, Live
<1>6. DueOK(r)'
  <2>1. \A u \in Users : Credit(req[r], u)' = Credit(req[r], u)
    BY <1>1, <1>2, <1>3, GotoFrame DEF Credit, SumOf
  <2>2. req[r].credited \subseteq Users
    BY DEF IInv, TypeOK, Request
  <2>3. RowsLeft(r)' = {} /\ OwnersLeft(r)' = {}
    BY <1>1, <1>2, GotoFrame DEF RowsLeft, OwnersLeft
  <2> QED BY <1>1, <1>2, <1>3, <2>1, <2>2, <2>3, GotoFrame DEF RequestOK, DueOK, Anonymizing
<1>7. \A q \in Reqs : q # r => Apart(r, q)' /\ Apart(q, r)'
  <2> SUFFICES ASSUME NEW q \in Reqs, q # r PROVE Apart(r, q)' /\ Apart(q, r)'
    OBVIOUS
  <2>1. req'[q] = req[q]
    BY <1>1, <1>2, GotoFrame DEF OnlyReq
  <2>2. Apart(r, q) /\ Apart(q, r)
    BY DEF IInv, LocksExclude
  <2> QED
    BY <1>1, <1>2, <2>1, <2>2, GotoFrame
       DEF Apart, HoldsUpdate, HoldsNoKeyUpdate, HoldsKeyShare, HoldsRow, HoldsAdvisory
<1> QED BY <1>1, <1>2, <1>4, <1>5, <1>6, <1>7, GotoFrame, LocalStep DEF RequestOK

-----------------------------------------------------------------------------
(* The commits. *)

\* What the commit of a booking does to the table.
LEMMA Booked ==
  ASSUME IInv, NEW r \in Reqs, CommitBooking(r)
  PROVE  /\ Books(r) /\ req[r].pc = "commit" /\ RequestOK(r) /\ users' = users
         /\ req[r].new \in TxIds /\ ~txs[req[r].new].used /\ req[r].of # req[r].new
         /\ req[r].who \in Users /\ req[r].by \in Users
         /\ Live(req[r].who) /\ Live(req[r].by)
         /\ txs' \in [TxIds -> TxRow]
         /\ txs'[req[r].new].used /\ txs'[req[r].new].user = req[r].who
         /\ txs'[req[r].new].by = req[r].by /\ txs'[req[r].new].amt = req[r].amt
         /\ txs'[req[r].new].cancels = req[r].of /\ ~txs'[req[r].new].cancelled
         /\ \A t \in TxIds : t # req[r].new =>
              /\ txs'[t].used = txs[t].used /\ txs'[t].user = txs[t].user /\ txs'[t].by = txs[t].by
              /\ txs'[t].amt = txs[t].amt /\ txs'[t].cancels = txs[t].cancels /\ txs'[t].at = txs[t].at
              /\ (txs'[t].cancelled <=> (t = req[r].of \/ txs[t].cancelled))
<1>1. Books(r) /\ req[r].pc = "commit" /\ RequestOK(r) /\ users' = users /\ req[r] \in Request
  BY DEF CommitBooking, Books, IInv, TypeOK
<1>2. req[r].new \in TxIds /\ ~txs[req[r].new].used
  BY <1>1 DEF RequestOK, FieldsOK, IdOK, Request
<1>3. req[r].of # req[r].new
  BY <1>1, <1>2, ConstantsOK DEF RequestOK, FieldsOK, MarkedOK
<1>4. req[r].who \in Users /\ req[r].by \in Users
  BY <1>1 DEF RequestOK, FieldsOK, MarkedOK, Books
<1>5. Live(req[r].who) /\ Live(req[r].by)
  BY <1>1, <1>4 DEF RequestOK, LockedLive, HoldsKeyShare, Books
<1>6. NewRow(req[r]) \in TxRow
  BY <1>1 DEF NewRow, TxRow, Request
<1>7. \A t \in TxIds : txs[t] \in TxRow /\ [txs[t] EXCEPT !.cancelled = TRUE] \in TxRow
  BY DEF IInv, TypeOK, TxRow
<1>8. txs' = [t \in TxIds |-> IF t = req[r].new THEN NewRow(req[r])
                              ELSE IF t = req[r].of THEN [txs[t] EXCEPT !.cancelled = TRUE]
                              ELSE txs[t]]
  BY DEF CommitBooking
<1>9. txs' \in [TxIds -> TxRow] /\ txs'[req[r].new] = NewRow(req[r])
  BY <1>2, <1>6, <1>7, <1>8
<1>10. /\ txs'[req[r].new].used /\ txs'[req[r].new].user = req[r].who
       /\ txs'[req[r].new].by = req[r].by /\ txs'[req[r].new].amt = req[r].amt
       /\ txs'[req[r].new].cancels = req[r].of /\ ~txs'[req[r].new].cancelled
  BY <1>9 DEF NewRow
<1>11. ASSUME NEW t \in TxIds, t # req[r].new
       PROVE  /\ txs'[t].used = txs[t].used /\ txs'[t].user = txs[t].user /\ txs'[t].by = txs[t].by
              /\ txs'[t].amt = txs[t].amt /\ txs'[t].cancels = txs[t].cancels /\ txs'[t].at = txs[t].at
              /\ (txs'[t].cancelled <=> (t = req[r].of \/ txs[t].cancelled))
  BY <1>7, <1>8, <1>11 DEF TxRow
<1> QED BY <1>1, <1>2, <1>3, <1>4, <1>5, <1>9, <1>10, <1>11

\* The commit of a booking keeps the invariant for the other requests: those
\* that hold an account FOR UPDATE see no booking for it appear.
LEMMA CommitBookingOthers ==
  ASSUME IInv, NEW r \in Reqs, CommitBooking(r), NEW q \in Reqs, q # r
  PROVE  RequestOK(q)'
<1>1. req'[q] = req[q] /\ OnlyReq(r) /\ req'[r] = Idle /\ RequestOK(q) /\ Apart(q, r) /\ Apart(r, q)
  BY Over DEF OnlyReq, CommitBooking, IInv, LocksExclude
<1>2. users' = users
  BY Booked
<1>3. FieldsOK(q)' /\ LockedLive(q)'
  BY <1>1, <1>2 DEF RequestOK, FieldsOK, Books, Anonymizing, LockedLive, HoldsUpdate, HoldsKeyShare,
                    HoldsNoKeyUpdate, Live
<1>4. IdOK(q)'
  <2> SUFFICES ASSUME req[q].new # NoTx PROVE IdOK(q)'
    BY <1>1 DEF IdOK
  <2>1. req[q].new # req[r].new /\ req[q].new \in TxIds
    <3>1. req[q] \in Request
      BY DEF IInv, TypeOK
    <3> QED BY <1>1, <3>1 DEF RequestOK, IdOK, Request
  <2>2. ~txs'[req[q].new].used
    BY <1>1, <2>1, Booked DEF RequestOK, IdOK
  <2>3. \A p \in Reqs : req'[p].new = req[q].new => p = q
    BY <1>1 DEF RequestOK, IdOK, OnlyReq, Idle
  <2> QED BY <1>1, <2>2, <2>3 DEF IdOK
<1>5. MarkedOK(q)'
  <2> SUFFICES ASSUME req[q].kind = "cancel" PROVE MarkedOK(q)'
    BY <1>1 DEF MarkedOK
  <2>1. req[q].of \in TxIds
    <3>1. req[q] \in Request
      BY DEF IInv, TypeOK
    <3> QED BY <1>1, <3>1 DEF RequestOK, FieldsOK, Request
  <2>2. req[q].of # req[r].new
    BY <1>1, Booked DEF RequestOK, MarkedOK
  <2>3. req[q].pc # "mark" => req[q].of # req[r].of
    <3>1. req[q].pc \in {"mark", "insert", "creator", "commit"}
      BY <1>1 DEF RequestOK, FieldsOK, Path
    <3>2. req[r].of = req[q].of => req[r].kind = "cancel"
      BY <1>1, <2>1, ConstantsOK, Booked DEF RequestOK, FieldsOK
    <3> QED BY <1>1, <2>1, <3>1, <3>2, Booked DEF Apart, HoldsRow
  <2>4. txs'[req[q].of].used /\ txs'[req[q].of].cancels = NoTx
    BY <1>1, <2>1, <2>2, Booked DEF RequestOK, MarkedOK
  <2>5. req[q].pc # "mark" =>
          /\ ~txs'[req[q].of].cancelled /\ req[q].who \in Users
          /\ req[q].who = txs'[req[q].of].user /\ req[q].amt = -txs'[req[q].of].amt
    BY <1>1, <2>1, <2>2, <2>3, Booked DEF RequestOK, MarkedOK
  <2> QED BY <1>1, <2>4, <2>5 DEF MarkedOK
<1>6. Unreferenced(q)'
  <2> SUFFICES ASSUME req[q].kind = "delete", req[q].pc = "commit" PROVE References(req[q].who)' = {}
    BY <1>1 DEF Unreferenced
  <2>1. req[q].who \in Users /\ References(req[q].who) = {}
    BY <1>1 DEF RequestOK, FieldsOK, Unreferenced
  <2>2. req[q].who # req[r].who /\ req[q].who # req[r].by
    BY <1>1, <2>1, Booked DEF Apart, HoldsUpdate, HoldsKeyShare, Books
  <2>3. \A t \in TxIds : txs'[t].used => req[q].who \notin {txs'[t].user, txs'[t].by}
    BY <2>1, <2>2, Booked DEF References
  <2> QED BY <1>1, <2>3 DEF References
<1>7. DueOK(q)'
  <2> SUFFICES ASSUME Anonymizing(q) PROVE DueOK(q)'
    BY <1>1 DEF DueOK, Anonymizing
  <2>1. \A t \in TxIds : req[q].due[t] # Nobody => t # req[r].new
    BY <1>1, Booked DEF RequestOK, DueOK
  <2>2. ASSUME NEW u \in Users PROVE Credit(req[q], u)' = Credit(req[q], u)
    <3> DEFINE S == {t \in TxIds : req[q].due[t] = u}
    <3>1. \A t \in S : txs'[t].amt = txs[t].amt
      BY <2>1, ConstantsOK, Booked
    <3> QED BY <1>1, <3>1 DEF Credit, SumOf
  <2>3. req[q].credited \subseteq Users
    BY DEF IInv, TypeOK, Request
  <2>4. RowsLeft(q)' = RowsLeft(q) /\ OwnersLeft(q)' = OwnersLeft(q)
    BY <1>1 DEF RowsLeft, OwnersLeft
  <2> QED BY <1>1, <1>2, <2>1, <2>2, <2>3, <2>4, Booked DEF RequestOK, DueOK, Anonymizing
<1>8. CheckHolds(q)'
  <2> SUFFICES ASSUME req[q].kind = "order", req[q].pc \in {"insert", "creator", "commit"}
               PROVE  CheckHolds(q)'
    BY <1>1 DEF CheckHolds
  <2>1. req[q].who \in Users
    BY <1>1 DEF RequestOK, FieldsOK
  <2>2. req[q].who # req[r].who
    BY <1>1, <2>1, Booked DEF Apart, HoldsUpdate, HoldsKeyShare, Books
  <2>3. RowsOf(req[q].who)' = RowsOf(req[q].who)
    BY <1>1, <2>2, Booked DEF RowsOf
  <2>4. \A t \in RowsOf(req[q].who) : txs'[t].amt = txs[t].amt
    BY Booked DEF RowsOf
  <2>5. Balance(req[q].who)' = Balance(req[q].who)
    BY <1>1, <1>2, <2>3, <2>4 DEF Balance, SumOf
  <2> QED BY <1>1, <2>5 DEF RequestOK, CheckHolds
<1> QED BY <1>3, <1>4, <1>5, <1>6, <1>7, <1>8 DEF RequestOK

\* The commit of a booking keeps the invariant; a cancellation adds the one
\* counter booking its booking has.
LEMMA CommitBookingKeeps ==
  ASSUME IInv, NEW r \in Reqs, CommitBooking(r)
  PROVE  IInv'
<1> DEFINE n == req[r].new
           o == req[r].of
<1>1. TypeOK'
  BY Over, Booked DEF CommitBooking, IInv, TypeOK
<1>2. \A q \in Reqs : RequestOK(q)'
  BY Over, CommitBookingOthers DEF CommitBooking
<1>3. LocksExclude'
  BY Over DEF CommitBooking
<1>4. ReferencesLive'
  <2> SUFFICES ASSUME NEW t \in TxIds, txs'[t].used, NEW u \in {txs'[t].user, txs'[t].by}
               PROVE  u = Nobody \/ users'[u].st = "live"
    BY DEF ReferencesLive, NamesLive
  <2>1. CASE t = n
    BY <2>1, Booked DEF Live
  <2>2. CASE t # n
    BY <2>2, Booked DEF IInv, ReferencesLive, NamesLive
  <2> QED BY <2>1, <2>2
<1>5. CancelledOnce'
  <2>1. CancelledOnce
    BY DEF IInv
  <2>2. StornosIn(txs, n) = {}
    BY <2>1, Booked DEF CancelledOnce, ReversedOnce
  <2>3. \A t \in TxIds : t # o => StornosIn(txs', t) = StornosIn(txs, t)
    BY Booked DEF StornosIn
  <2>4. \A t \in TxIds : t # o => (txs'[t].cancelled <=> StornosIn(txs', t) # {})
    <3> SUFFICES ASSUME NEW t \in TxIds, t # o PROVE txs'[t].cancelled <=> StornosIn(txs', t) # {}
      OBVIOUS
    <3>1. StornosIn(txs', t) = StornosIn(txs, t)
      BY <2>3
    <3>2. CASE t = n
      BY <2>2, <3>1, <3>2, Booked
    <3>3. CASE t # n
      BY <2>1, <3>1, <3>3, Booked DEF CancelledOnce, ReversedOnce
    <3> QED BY <3>2, <3>3
  <2>5. CASE o = NoTx
    <3>1. \A t \in TxIds : t # o
      BY <2>5, ConstantsOK
    <3>2. ASSUME NEW t \in TxIds, NEW s \in StornosIn(txs', t)
          PROVE  /\ txs'[t].used /\ txs'[t].cancels = NoTx /\ txs'[s].amt = -txs'[t].amt
                 /\ \A s2 \in StornosIn(txs', t) : s2 = s
      <4>1. s \in StornosIn(txs, t) /\ t # n /\ s # n
        BY <2>2, <2>3, <3>1, <3>2, Booked DEF StornosIn
      <4> QED BY <2>1, <2>3, <3>1, <4>1, Booked DEF CancelledOnce, ReversedOnce, StornosIn
    <3> QED BY <2>4, <3>1, <3>2 DEF CancelledOnce, ReversedOnce
  <2>6. CASE o # NoTx
    <3>1. /\ o \in TxIds /\ o # n /\ txs[o].used /\ txs[o].cancels = NoTx /\ ~txs[o].cancelled
          /\ req[r].amt = -txs[o].amt
      <4>1. req[r] \in Request
        BY DEF IInv, TypeOK
      <4> QED BY <2>6, <4>1, Booked DEF RequestOK, FieldsOK, MarkedOK, Request
    <3>2. StornosIn(txs, o) = {}
      BY <2>1, <3>1 DEF CancelledOnce, ReversedOnce
    <3>3. StornosIn(txs', o) = {n}
      BY <3>1, <3>2, Booked DEF StornosIn
    <3>4. ASSUME NEW t \in TxIds, NEW s \in StornosIn(txs', t)
          PROVE  /\ txs'[t].used /\ txs'[t].cancels = NoTx /\ txs'[s].amt = -txs'[t].amt
                 /\ \A s2 \in StornosIn(txs', t) : s2 = s
      <4>1. CASE t = o
        BY <3>1, <3>3, <3>4, <4>1, Booked
      <4>2. CASE t # o
        <5>1. s \in StornosIn(txs, t) /\ t # n /\ s # n
          BY <2>2, <2>3, <3>4, <4>2, Booked DEF StornosIn
        <5> QED BY <2>1, <2>3, <4>2, <5>1, Booked DEF CancelledOnce, ReversedOnce, StornosIn
      <4> QED BY <4>1, <4>2
    <3>5. txs'[o].cancelled /\ StornosIn(txs', o) # {}
      BY <3>1, <3>3, Booked
    <3>6. \A t \in TxIds : txs'[t].cancelled <=> StornosIn(txs', t) # {}
      BY <2>4, <3>5
    <3> HIDE DEF n, o
    <3> QED BY <3>4, <3>6 DEF CancelledOnce, ReversedOnce
  <2> QED BY <2>5, <2>6
<1> QED BY <1>1, <1>2, <1>3, <1>4, <1>5 DEF IInv

\* A step that writes no booking keeps the invariant for the requests that go
\* on, when it leaves alone the accounts they have locked.
LEMMA AccountsStep ==
  ASSUME IInv, txs' = txs, NEW q \in Reqs, req'[q] = req[q],
         \A p \in Reqs : req'[p] = req[p] \/ req'[p] = Idle,
         \A u \in Users : HoldsUpdate(q, u) \/ HoldsNoKeyUpdate(q, u) \/ HoldsKeyShare(q, u) =>
                           users'[u].st = users[u].st /\ users'[u].carry = users[u].carry
  PROVE  RequestOK(q)'
<1>1. RequestOK(q) /\ req[q] \in Request
  BY DEF IInv, TypeOK
<1>2. FieldsOK(q)' /\ MarkedOK(q)' /\ Unreferenced(q)'
  BY <1>1 DEF RequestOK, FieldsOK, Books, Anonymizing, MarkedOK, Unreferenced, References
<1>3. IdOK(q)'
  BY <1>1, ConstantsOK DEF RequestOK, IdOK, Idle
<1>4. LockedLive(q)'
  BY <1>1 DEF RequestOK, LockedLive, HoldsUpdate, HoldsKeyShare, HoldsNoKeyUpdate, Live
<1>5. DueOK(q)'
  <2>1. \A u \in Users : Credit(req[q], u)' = Credit(req[q], u)
    BY <1>1 DEF Credit, SumOf
  <2>2. req[q].credited \subseteq Users
    BY <1>1 DEF Request
  <2>3. RowsLeft(q)' = RowsLeft(q) /\ OwnersLeft(q)' = OwnersLeft(q)
    BY DEF RowsLeft, OwnersLeft
  <2>4. \A u \in req[q].credited : users'[u].carry = users[u].carry
    BY <2>2 DEF HoldsNoKeyUpdate
  <2> QED BY <1>1, <2>1, <2>2, <2>3, <2>4 DEF RequestOK, DueOK, Anonymizing
<1>6. CheckHolds(q)'
  <2> SUFFICES ASSUME req[q].kind = "order", req[q].pc \in {"insert", "creator", "commit"}
               PROVE  CheckHolds(q)'
    BY DEF CheckHolds
  <2>1. req[q].who \in Users
    BY <1>1 DEF RequestOK, FieldsOK
  <2>2. users'[req[q].who].carry = users[req[q].who].carry
    BY <2>1 DEF HoldsUpdate
  <2>3. Balance(req[q].who)' = Balance(req[q].who)
    BY <2>2 DEF Balance, RowsOf, SumOf
  <2> QED BY <1>1, <2>3 DEF RequestOK, CheckHolds
<1> QED BY <1>2, <1>3, <1>4, <1>5, <1>6 DEF RequestOK

\* The commit of a deletion takes away an account that nothing names.
LEMMA CommitDeleteKeeps ==
  ASSUME IInv, NEW r \in Reqs, CommitDelete(r)
  PROVE  IInv'
<1> DEFINE v == req[r].who
<1>1. /\ req[r].kind = "delete" /\ req[r].pc = "commit" /\ RequestOK(r) /\ Drop(r)
      /\ users' = [users EXCEPT ![v] = Gone]
      /\ txs' = txs /\ settings' = settings /\ audit' = audit /\ now' = now
  BY DEF CommitDelete, IInv
<1>2. v \in Users /\ References(v) = {} /\ HoldsUpdate(r, v)
  BY <1>1 DEF RequestOK, FieldsOK, Unreferenced, HoldsUpdate
<1>3. Gone \in UserRow
  BY ConstantsOK DEF Gone, UserRow
<1>4. TypeOK'
  BY <1>1, <1>3, Over DEF IInv, TypeOK
<1>5. \A u \in Users : u # v => users'[u] = users[u]
  BY <1>1 DEF IInv, TypeOK
<1>6. ASSUME NEW q \in Reqs, q # r PROVE RequestOK(q)'
  <2>1. ~HoldsUpdate(q, v) /\ ~HoldsNoKeyUpdate(q, v) /\ ~HoldsKeyShare(q, v)
    BY <1>2, <1>6 DEF IInv, LocksExclude, Apart
  <2>2. \A p \in Reqs : req'[p] = req[p] \/ req'[p] = Idle
    BY <1>1, Over DEF OnlyReq
  <2>3. req'[q] = req[q]
    BY <1>1, <1>6, Over DEF OnlyReq
  <2> QED BY <1>1, <1>5, <2>1, <2>2, <2>3, AccountsStep
<1>7. ReferencesLive'
  BY <1>1, <1>2, <1>5, ConstantsOK DEF IInv, TypeOK, TxRow, ReferencesLive, NamesLive, References
<1>8. CancelledOnce'
  BY <1>1 DEF IInv, CancelledOnce
<1> QED BY <1>1, <1>4, <1>6, <1>7, <1>8, Over DEF IInv

\* What the commit of an anonymization run does to the tables.
LEMMA RunCommitted ==
  ASSUME IInv, NEW r \in Reqs, CommitAnonymization(r)
  PROVE  /\ Anonymizing(r) /\ HoldsAdvisory(r) /\ RequestOK(r) /\ req[r] \in Request /\ Drop(r)
         /\ settings' = settings /\ now' = now
         /\ txs' \in [TxIds -> TxRow] /\ users' \in [Users -> UserRow] /\ audit' \in Seq(AuditRow)
         /\ \A t \in TxIds :
              /\ txs'[t].used = txs[t].used /\ txs'[t].amt = txs[t].amt /\ txs'[t].at = txs[t].at
              /\ txs'[t].cancels = txs[t].cancels /\ txs'[t].cancelled = txs[t].cancelled
              /\ t \in req[r].rows => txs'[t].user = Nobody /\ txs'[t].by = Nobody
              /\ t \notin req[r].rows => txs'[t].user = txs[t].user /\ txs'[t].by = txs[t].by
         /\ \A u \in Users :
              /\ users'[u].st = users[u].st
              /\ u \notin req[r].credited => users'[u].carry = users[u].carry
<1> DEFINE q == req[r]
<1>1. /\ Anonymizing(r) /\ HoldsAdvisory(r) /\ RequestOK(r) /\ q \in Request /\ Drop(r)
      /\ settings' = settings /\ now' = now
      /\ txs' = [t \in TxIds |-> IF t \in q.rows
                                   THEN [txs[t] EXCEPT !.user = Nobody, !.by = Nobody]
                                   ELSE txs[t]]
      /\ users' = [u \in Users |-> IF u \in q.credited /\ users[u].st = "live"
                                     THEN [users[u] EXCEPT !.carry = @ + Credit(q, u)]
                                     ELSE users[u]]
      /\ audit' = Append(audit, [txs |-> Cardinality(q.rows), users |-> Cardinality(q.credited)])
  BY DEF CommitAnonymization, Anonymizing, HoldsAdvisory, IInv, TypeOK
<1>2. ASSUME NEW t \in TxIds
      PROVE  /\ txs'[t] \in TxRow
             /\ txs'[t].used = txs[t].used /\ txs'[t].amt = txs[t].amt /\ txs'[t].at = txs[t].at
             /\ txs'[t].cancels = txs[t].cancels /\ txs'[t].cancelled = txs[t].cancelled
             /\ t \in q.rows => txs'[t].user = Nobody /\ txs'[t].by = Nobody
             /\ t \notin q.rows => txs'[t].user = txs[t].user /\ txs'[t].by = txs[t].by
  <2>1. txs[t] \in TxRow
    BY DEF IInv, TypeOK
  <2>2. txs'[t] = IF t \in q.rows THEN [txs[t] EXCEPT !.user = Nobody, !.by = Nobody] ELSE txs[t]
    BY <1>1
  <2> QED BY <2>1, <2>2 DEF TxRow
<1>3. ASSUME NEW u \in Users
      PROVE  /\ users'[u] \in UserRow /\ users'[u].st = users[u].st
             /\ u \notin q.credited => users'[u].carry = users[u].carry
  <2> DEFINE c == users[u].carry + Credit(q, u)
  <2>1. users[u] \in UserRow
    BY DEF IInv, TypeOK
  <2>2. users'[u] = IF u \in q.credited /\ users[u].st = "live"
                      THEN [users[u] EXCEPT !.carry = c] ELSE users[u]
    BY <1>1
  <2>3. u \in q.credited => c \in BigInt
    BY <1>1 DEF RequestOK, DueOK
  <2> HIDE DEF c
  <2> QED BY <2>1, <2>2, <2>3 DEF UserRow
<1>4. Cardinality(q.rows) \in Nat /\ Cardinality(q.credited) \in Nat
  BY <1>1, ConstantsOK, FS_Subset, FS_CardinalityType DEF Request
<1>5. audit' \in Seq(AuditRow)
  <2> DEFINE entry == [txs |-> Cardinality(q.rows), users |-> Cardinality(q.credited)]
  <2>1. entry \in AuditRow
    BY <1>4 DEF AuditRow
  <2>2. audit \in Seq(AuditRow) /\ audit' = Append(audit, entry)
    BY <1>1 DEF IInv, TypeOK
  <2> HIDE DEF entry
  <2> QED BY <2>1, <2>2
<1>6. txs' \in [TxIds -> TxRow] /\ users' \in [Users -> UserRow]
  BY <1>1, <1>2, <1>3
<1> QED BY <1>1, <1>2, <1>3, <1>5, <1>6

\* It leaves alone what the other requests have locked.
LEMMA CommitAnonymizationOthers ==
  ASSUME IInv, NEW r \in Reqs, CommitAnonymization(r), NEW q \in Reqs, q # r
  PROVE  RequestOK(q)'
<1>1. /\ req'[q] = req[q] /\ RequestOK(q) /\ req[q] \in Request /\ Apart(q, r) /\ Apart(r, q)
      /\ \A p \in Reqs : req'[p] = req[p] \/ req'[p] = Idle
  BY Over, RunCommitted DEF OnlyReq, IInv, TypeOK, LocksExclude
<1>2. FieldsOK(q)' /\ LockedLive(q)'
  BY <1>1, RunCommitted DEF RequestOK, FieldsOK, Books, Anonymizing, LockedLive, HoldsUpdate,
                           HoldsKeyShare, HoldsNoKeyUpdate, Live
<1>3. IdOK(q)'
  <2> SUFFICES ASSUME req[q].new # NoTx PROVE IdOK(q)'
    BY <1>1 DEF IdOK
  <2>1. req[q].new \in TxIds /\ ~txs[req[q].new].used
    BY <1>1 DEF RequestOK, IdOK, Request
  <2>2. ~txs'[req[q].new].used
    BY <2>1, RunCommitted
  <2>3. \A p \in Reqs : req'[p].new = req[q].new => p = q
    BY <1>1 DEF RequestOK, IdOK, Idle
  <2> QED BY <1>1, <2>2, <2>3 DEF IdOK
<1>4. MarkedOK(q)'
  <2> SUFFICES ASSUME req[q].kind = "cancel" PROVE MarkedOK(q)'
    BY <1>1 DEF MarkedOK
  <2>1. req[q].of \in TxIds
    BY <1>1 DEF RequestOK, FieldsOK, Request
  <2>2. req[q].pc # "mark" => HoldsRow(q, req[q].of)
    BY <1>1 DEF RequestOK, FieldsOK, Path, HoldsRow
  <2>3. req[q].pc # "mark" => req[q].of \notin req[r].rows
    BY <1>1, <2>1, <2>2 DEF Apart, HoldsRow
  <2>4. txs'[req[q].of].used /\ txs'[req[q].of].cancels = NoTx
    BY <1>1, <2>1, RunCommitted DEF RequestOK, MarkedOK
  <2>5. req[q].pc # "mark" =>
          /\ ~txs'[req[q].of].cancelled /\ req[q].who \in Users
          /\ req[q].who = txs'[req[q].of].user /\ req[q].amt = -txs'[req[q].of].amt
    BY <1>1, <2>1, <2>3, RunCommitted DEF RequestOK, MarkedOK
  <2> QED BY <1>1, <2>4, <2>5 DEF MarkedOK
<1>5. Unreferenced(q)'
  <2> SUFFICES ASSUME req[q].kind = "delete", req[q].pc = "commit" PROVE References(req[q].who)' = {}
    BY <1>1 DEF Unreferenced
  <2>1. req[q].who # Nobody /\ References(req[q].who) = {}
    BY <1>1, ConstantsOK DEF RequestOK, FieldsOK, Unreferenced
  <2>2. \A t \in TxIds : txs'[t].used => req[q].who \notin {txs'[t].user, txs'[t].by}
    BY <2>1, RunCommitted DEF References
  <2> QED BY <1>1, <2>2 DEF References
<1>6. DueOK(q)'
  BY <1>1, RunCommitted DEF DueOK, Apart, HoldsAdvisory, Anonymizing
<1>7. CheckHolds(q)'
  <2> SUFFICES ASSUME req[q].kind = "order", req[q].pc \in {"insert", "creator", "commit"}
               PROVE  CheckHolds(q)'
    BY <1>1 DEF CheckHolds
  <2> DEFINE u == req[q].who
  <2>1. u \in Users /\ u # Nobody
    BY <1>1, ConstantsOK DEF RequestOK, FieldsOK
  <2>2. u \notin req[r].credited
    BY <1>1, <2>1 DEF Apart, HoldsUpdate, HoldsNoKeyUpdate
  <2>3. \A t \in req[r].rows : t \in TxIds /\ txs[t].user # u
    <3>1. Anonymizing(r) /\ DueOK(r) /\ req[r] \in Request /\ req[r].pc = "commit"
      BY RunCommitted DEF CommitAnonymization, RequestOK
    <3>2. req[r].rows \subseteq TxIds
      BY <3>1 DEF Request
    <3>3. OwnersLeft(r) = {}
      BY <3>1 DEF DueOK
    <3>4. \A t \in req[r].rows : req[r].due[t] # Nobody /\ txs[t].user = req[r].due[t]
      BY <3>1, <3>2 DEF DueOK
    <3> QED BY <2>1, <2>2, <3>2, <3>3, <3>4 DEF OwnersLeft
  <2>4. RowsOf(u)' = RowsOf(u)
    BY <1>1, <2>1, <2>3, RunCommitted DEF RowsOf
  <2>5. \A t \in RowsOf(u) : txs'[t].amt = txs[t].amt
    BY RunCommitted DEF RowsOf
  <2>6. Balance(u)' = Balance(u)
    BY <1>1, <2>1, <2>2, <2>4, <2>5, RunCommitted DEF Balance, SumOf
  <2> QED BY <1>1, <2>6 DEF RequestOK, CheckHolds
<1> QED BY <1>2, <1>3, <1>4, <1>5, <1>6, <1>7 DEF RequestOK

\* The commit of a run keeps the invariant.
LEMMA CommitAnonymizationKeeps ==
  ASSUME IInv, NEW r \in Reqs, CommitAnonymization(r)
  PROVE  IInv'
<1>1. TypeOK'
  BY Over, RunCommitted DEF IInv, TypeOK
<1>2. \A q \in Reqs : RequestOK(q)'
  BY Over, RunCommitted, CommitAnonymizationOthers
<1>3. LocksExclude'
  BY Over, RunCommitted
<1>4. CancelledOnce'
  <2>1. \A t \in TxIds : StornosIn(txs', t) = StornosIn(txs, t)
    BY RunCommitted DEF StornosIn
  <2>2. \A t \in TxIds : StornosIn(txs, t) \subseteq TxIds
    BY DEF StornosIn
  <2> QED BY <2>1, <2>2, RunCommitted DEF IInv, CancelledOnce, ReversedOnce
<1>5. ReferencesLive'
  BY RunCommitted, ConstantsOK DEF IInv, TypeOK, TxRow, ReferencesLive, NamesLive
<1> QED BY <1>1, <1>2, <1>3, <1>4, <1>5 DEF IInv

-----------------------------------------------------------------------------
(* Single statements, the clock, and the beginning. *)

\* A step that changes accounts only keeps the invariant when locked accounts
\* keep their carryover, and no account goes.
LEMMA EnvironmentStep ==
  ASSUME IInv, UNCHANGED <<txs, audit, req>>, users' \in [Users -> UserRow],
         settings' \in SettingsChoices, now' \in Nat,
         \A u \in Users : Live(u) => users'[u].st = "live" /\ users'[u].carry = users[u].carry
  PROVE  IInv'
<1>1. TypeOK'
  BY DEF IInv, TypeOK
<1>2. ASSUME NEW q \in Reqs PROVE RequestOK(q)'
  <2>1. \A u \in Users : HoldsUpdate(q, u) \/ HoldsNoKeyUpdate(q, u) \/ HoldsKeyShare(q, u) =>
                          users'[u].st = users[u].st /\ users'[u].carry = users[u].carry
    BY DEF IInv, RequestOK, LockedLive, Live
  <2> QED BY <2>1, AccountsStep
<1>3. LocksExclude'
  BY DEF IInv, LocksExclude, Apart, HoldsUpdate, HoldsNoKeyUpdate, HoldsKeyShare, HoldsRow, HoldsAdvisory
<1>4. CancelledOnce'
  BY DEF IInv, CancelledOnce
<1>5. ReferencesLive'
  BY ConstantsOK DEF IInv, TypeOK, TxRow, ReferencesLive, NamesLive, Live
<1> QED BY <1>1, <1>2, <1>3, <1>4, <1>5 DEF IInv

\* Registering, toggling, saving settings and the clock keep the invariant.
LEMMA EnvironmentKeeps ==
  ASSUME IInv, Environment
  PROVE  IInv'
<1>1. ASSUME NEW u \in Users, CreateUser(u) PROVE IInv'
  <2> DEFINE new == [st |-> "live", active |-> TRUE, exempt |-> FALSE, carry |-> 0]
  <2>1. new \in UserRow
    BY ConstantsOK DEF UserRow
  <2>2. users[u].st = "none" /\ users' = [users EXCEPT ![u] = new]
        /\ UNCHANGED <<txs, settings, audit, now, req>>
    BY <1>1 DEF CreateUser
  <2> HIDE DEF new
  <2>3. users' \in [Users -> UserRow] /\ \A v \in Users : v # u => users'[v] = users[v]
    BY <2>1, <2>2 DEF IInv, TypeOK
  <2>4. \A v \in Users : Live(v) => users'[v].st = "live" /\ users'[v].carry = users[v].carry
    BY <2>2, <2>3 DEF Live
  <2> QED BY <2>2, <2>3, <2>4, EnvironmentStep DEF IInv, TypeOK
<1>2. ASSUME NEW a \in Users, NEW u \in Users, ToggleActive(a, u) \/ ToggleSpendingLimit(a, u) PROVE IInv'
  <2>1. UNCHANGED <<txs, settings, audit, now, req>>
    BY <1>2 DEF ToggleActive, ToggleSpendingLimit
  <2>2. \/ users' = [users EXCEPT ![u].active = ~@]
        \/ users' = [users EXCEPT ![u].exempt = ~@]
    BY <1>2 DEF ToggleActive, ToggleSpendingLimit
  <2>3. users[u] \in UserRow
    BY DEF IInv, TypeOK
  <2>4. /\ users'[u] \in UserRow /\ users'[u].st = users[u].st /\ users'[u].carry = users[u].carry
        /\ \A v \in Users : v # u => users'[v] = users[v]
    <3>1. CASE users' = [users EXCEPT ![u].active = ~@]
      BY <2>3, <3>1 DEF IInv, TypeOK, UserRow
    <3>2. CASE users' = [users EXCEPT ![u].exempt = ~@]
      BY <2>3, <3>2 DEF IInv, TypeOK, UserRow
    <3> QED BY <2>2, <3>1, <3>2
  <2>5. users' \in [Users -> UserRow]
    BY <2>2, <2>4 DEF IInv, TypeOK
  <2> QED BY <2>1, <2>4, <2>5, EnvironmentStep DEF IInv, TypeOK, Live
<1>3. ASSUME NEW a \in Users, SaveSettings(a) PROVE IInv'
  BY <1>3, EnvironmentStep DEF SaveSettings, IInv, TypeOK, Live
<1>4. CASE Tick
  BY <1>4, EnvironmentStep DEF Tick, IInv, TypeOK, Live
<1> QED BY <1>1, <1>2, <1>3, <1>4 DEF Environment

\* The invariant holds at the start.
LEMMA InitOK == Init => IInv
<1> SUFFICES ASSUME Init PROVE IInv
  OBVIOUS
<1>1. TypeOK
  BY ConstantsOK, IdleTyped DEF Init, TypeOK
<1>2. \A r \in Reqs : RequestOK(r)
  BY DEF Init, Idle, RequestOK, FieldsOK, Path, Books, Anonymizing, IdOK, LockedLive, MarkedOK,
         Unreferenced, DueOK, CheckHolds, HoldsUpdate, HoldsKeyShare, HoldsNoKeyUpdate
<1>3. LocksExclude
  BY DEF Init, LocksExclude, Idle, Apart, HoldsUpdate, HoldsNoKeyUpdate, HoldsKeyShare, HoldsRow, HoldsAdvisory
<1>4. CancelledOnce /\ ReferencesLive
  BY ConsistentStart DEF Init, CancelledOnce, ReferencesLive
<1> QED BY <1>1, <1>2, <1>3, <1>4 DEF IInv

\* Every step keeps the invariant, one lemma per action.
LEMMA StepOK == IInv /\ [Next]_vars => IInv'
<1> SUFFICES ASSUME IInv, [Next]_vars PROVE IInv'
  OBVIOUS
<1>1. CASE Environment
  BY <1>1, EnvironmentKeeps
<1>2. ASSUME NEW r \in Reqs, Start(r) PROVE IInv'
  BY <1>2, OrdersKeep, RegisterDepositKeeps, CancelKeeps, DeleteUserKeeps,
     RunAnonymizationKeeps DEF Start, CancelTransaction, KioskCancelTransaction, AdminCancelTransaction
<1>3. ASSUME NEW r \in Reqs, Proceed(r) PROVE IInv'
  BY <1>3, LockUserKeeps, ReadBalanceKeeps, InsertBookingKeeps, CheckCreatorKeeps, CommitBookingKeeps,
     MarkCancelledKeeps, LockForDeleteKeeps, CountReferencesKeeps, CommitDeleteKeeps,
     TakeAdvisoryLockKeeps, ScanKeeps, ClaimRowKeeps, CreditOwnerKeeps, LogRunKeeps,
     CommitAnonymizationKeeps DEF Proceed
<1>4. ASSUME NEW r \in Reqs, Abort(r) PROVE IInv'
  BY <1>4, DropKeeps DEF Abort
<1>5. CASE UNCHANGED vars
  <2>1. UNCHANGED <<txs, audit, req>> /\ users' = users /\ settings' = settings /\ now' = now
    BY <1>5 DEF vars
  <2> QED BY <2>1, EnvironmentStep DEF IInv, TypeOK, Live
<1> QED BY <1>1, <1>2, <1>3, <1>4, <1>5 DEF Next

-----------------------------------------------------------------------------
(* The theorems. *)

\* The invariant of LedgerInv holds in every behaviour: what each statement of a
\* handler has read under a lock is still so at the next, for any number of
\* accounts, bookings, concurrent requests and settings.
THEOREM Inductive == Spec => []IInv
<1> QED BY InitOK, StepOK, PTL DEF Spec

\* Every variable keeps its type; a carryover stays a BIGINT (005_anonymization.sql:6).
THEOREM TypeCorrect == Spec => []TypeOK
<1>1. IInv => TypeOK
  BY DEF IInv
<1> QED BY <1>1, Inductive, PTL

\* From the limit check of an order to its commit nothing moves the balance that
\* was compared with the limit (order.go:126-156).
THEOREM LimitCorrect == Spec => []LimitStillHolds
<1>1. IInv => LimitStillHolds
  BY DEF IInv, RequestOK, LimitStillHolds
<1> QED BY <1>1, Inductive, PTL

\* Whoever cancels, and however often at the same time, a booking is cancelled iff
\* it has a counter booking, has only one, and gets its amount back
\* (transaction.go:176-220).
THEOREM CancelCorrect == Spec => []CancelledOnce
<1>1. IInv => CancelledOnce
  BY DEF IInv
<1> QED BY <1>1, Inductive, PTL

\* No booking ever names a deleted account, whatever was under way when it was
\* deleted (delete_user.go:75-77).
THEOREM ReferencesCorrect == Spec => []ReferencesLive
<1>1. IInv => ReferencesLive
  BY DEF IInv
<1> QED BY <1>1, Inductive, PTL

=============================================================================
