--------------------------- MODULE LedgerTheorems ---------------------------
(* Consequences of the inductive invariant that need an argument of their  *)
(* own: requests never wait for each other in a circle; as long as no      *)
(* anonymization runs, a deleted account was settled; and a booking and    *)
(* its storno are anonymized together.                                     *)
EXTENDS LedgerProofs

-----------------------------------------------------------------------------
(* Lock order. *)

\* How far up the lock order a request is: it waits only for those above it.
Rank(r) ==
  IF \/ req[r].kind = "delete" /\ req[r].pc \in {"count", "commit"}
     \/ /\ req[r].kind = "order" /\ req[r].pc \in {"read", "insert", "creator", "commit"}
        /\ req[r].by = req[r].who
    THEN 4
  ELSE IF req[r].kind = "order" /\ req[r].pc \in {"read", "insert", "creator", "commit"}
    THEN 3
  ELSE IF req[r].kind \in {"deposit", "cancel"} /\ req[r].pc \in {"insert", "creator", "commit"}
    THEN 2
  ELSE IF HoldsAdvisory(r) THEN 1 ELSE 0

\* A rank is a number.
LEMMA RankRange == ASSUME NEW r PROVE Rank(r) \in 0..4
  BY DEF Rank

\* Whoever holds a lock has the rank of that lock.
LEMMA HolderRank ==
  ASSUME IInv, NEW q \in Reqs
  PROVE  /\ \A u \in Users : HoldsUpdate(q, u) => Rank(q) \in 3..4
         /\ \A u \in Users : HoldsUpdate(q, u) /\ u \in Kiosks => Rank(q) = 4
         /\ \A u \in Users : HoldsKeyShare(q, u) => Rank(q) \in 2..4
         /\ \A u \in Users : HoldsNoKeyUpdate(q, u) => Rank(q) = 1 /\ HoldsAdvisory(q)
         /\ \A t \in TxIds : HoldsRow(q, t) => Rank(q) = 2 \/ (Rank(q) = 1 /\ HoldsAdvisory(q))
         /\ HoldsAdvisory(q) => Rank(q) = 1
<1>1. FieldsOK(q)
  BY DEF IInv, RequestOK
<1>2. \A u \in Users : HoldsUpdate(q, u) => Rank(q) \in 3..4
  BY DEF HoldsUpdate, Rank
<1>3. \A u \in Users : HoldsUpdate(q, u) /\ u \in Kiosks => Rank(q) = 4
  BY <1>1 DEF HoldsUpdate, Rank, FieldsOK
<1>4. \A u \in Users : HoldsKeyShare(q, u) => Rank(q) \in 2..4
  BY DEF HoldsKeyShare, Rank
<1>5. HoldsAdvisory(q) => Rank(q) = 1
  BY DEF HoldsAdvisory, Rank
<1>6. \A u \in Users : HoldsNoKeyUpdate(q, u) => Rank(q) = 1 /\ HoldsAdvisory(q)
  BY <1>1, <1>5 DEF HoldsNoKeyUpdate, FieldsOK, Anonymizing, HoldsAdvisory
<1>7. \A t \in TxIds : HoldsRow(q, t) => Rank(q) = 2 \/ (Rank(q) = 1 /\ HoldsAdvisory(q))
  <2>1. \A t \in TxIds : t \in req[q].rows => HoldsAdvisory(q)
    BY <1>1 DEF FieldsOK, Anonymizing, HoldsAdvisory
  <2>2. \A t \in TxIds : HoldsRow(q, t) /\ t \notin req[q].rows => Rank(q) = 2
    BY DEF HoldsRow, Rank
  <2> SUFFICES ASSUME NEW t \in TxIds, HoldsRow(q, t)
               PROVE  Rank(q) = 2 \/ (Rank(q) = 1 /\ HoldsAdvisory(q))
    OBVIOUS
  <2>3. CASE t \in req[q].rows
    BY <1>5, <2>1, <2>3
  <2>4. CASE t \notin req[q].rows
    BY <2>2, <2>4
  <2> QED BY <2>3, <2>4
<1> QED BY <1>2, <1>3, <1>4, <1>5, <1>6, <1>7

\* A request waits only for requests of a higher rank.
LEMMA WaitsUpwards ==
  ASSUME IInv, NEW r \in Reqs, NEW q \in BlockersOf(r)
  PROVE  q \in Reqs /\ Rank(q) > Rank(r)
<1>1. FieldsOK(r) /\ req[r] \in Request
  BY DEF IInv, RequestOK, TypeOK
<1>2. CASE req[r].pc = "lock"
  <2>1. q \in UpdateBlockers(r, req[r].who) /\ req[r].kind \in {"order", "delete"}
    BY <1>1, <1>2 DEF BlockersOf, FieldsOK, Path, Request, Kinds
  <2>2. q \in Reqs /\ req[r].who \in Users
    BY <1>1, <2>1 DEF UpdateBlockers, Others, FieldsOK
  <2>3. Rank(r) = 0
    BY <1>2, <2>1 DEF Rank, HoldsAdvisory
  <2> QED BY <2>1, <2>2, <2>3, HolderRank, RankRange DEF UpdateBlockers
<1>3. CASE req[r].pc = "insert"
  <2>1. q \in Reqs /\ q # r /\ HoldsUpdate(q, req[r].who) /\ req[r].who \in Users /\ Books(r)
    BY <1>3, Inserting DEF BlockersOf, KeyShareBlockers, Others
  <2>2. req[r].kind # "order"
    BY <1>3, <2>1 DEF IInv, LocksExclude, Apart, HoldsUpdate
  <2>3. Rank(r) = 2
    BY <1>3, <2>1, <2>2 DEF Rank, Books
  <2> QED BY <2>1, <2>3, HolderRank, RankRange
<1>4. CASE req[r].pc = "creator"
  <2>1. q \in Reqs /\ q # r /\ HoldsUpdate(q, req[r].by) /\ req[r].by \in Users /\ Books(r)
    BY <1>4, Inserting DEF BlockersOf, KeyShareBlockers, Others
  <2>2. CASE req[r].kind = "order"
    <3>1. req[r].by # req[r].who
      BY <1>4, <2>1, <2>2 DEF IInv, LocksExclude, Apart, HoldsUpdate
    <3>2. req[r].by \in Kiosks /\ Rank(r) = 3
      BY <1>1, <1>4, <2>2, <3>1 DEF FieldsOK, Rank
    <3> QED BY <2>1, <3>2, HolderRank, RankRange
  <2>3. CASE req[r].kind # "order"
    <3>1. Rank(r) = 2
      BY <1>4, <2>1, <2>3 DEF Rank, Books
    <3> QED BY <2>1, <3>1, HolderRank, RankRange
  <2> QED BY <2>2, <2>3
<1>5. CASE req[r].pc = "mark"
  <2>1. q \in RowBlockers(r, req[r].of) /\ req[r].kind = "cancel"
    BY <1>1, <1>5 DEF BlockersOf, FieldsOK, Path, Request, Kinds
  <2>2. q \in Reqs /\ req[r].of \in TxIds /\ Rank(r) = 0
    BY <1>1, <1>5, <2>1 DEF RowBlockers, Others, FieldsOK, Request, Rank, HoldsAdvisory
  <2> QED BY <2>1, <2>2, HolderRank DEF RowBlockers
<1>6. CASE req[r].pc = "advisory"
  <2>1. q \in AdvisoryBlockers(r) /\ Rank(r) = 0
    BY <1>6 DEF BlockersOf, Rank, HoldsAdvisory
  <2> QED BY <2>1, HolderRank DEF AdvisoryBlockers, Others
<1>7. CASE req[r].pc = "update"
  <2>1. HoldsAdvisory(r) /\ Rank(r) = 1
    BY <1>7, Updating, HolderRank DEF HoldsAdvisory
  <2>2. \/ \E t \in TxIds : q \in RowBlockers(r, t)
        \/ \E u \in Users : q \in NoKeyBlockers(r, u)
    <3> DEFINE A == UNION {RowBlockers(r, t) : t \in RowsLeft(r)}
               B == UNION {NoKeyBlockers(r, u) : u \in OwnersLeft(r)}
    <3>1. BlockersOf(r) = A \cup B
      BY <1>7 DEF BlockersOf
    <3>2. RowsLeft(r) \subseteq TxIds /\ OwnersLeft(r) \subseteq Users
      BY DEF RowsLeft, OwnersLeft
    <3>3. CASE q \in A
      BY <3>2, <3>3
    <3>4. CASE q \in B
      BY <3>2, <3>4
    <3> HIDE DEF A, B
    <3> QED BY <3>1, <3>3, <3>4
  <2>3. q \in Reqs /\ q # r
    BY <2>2 DEF RowBlockers, NoKeyBlockers, Others
  <2>4. ~HoldsAdvisory(q)
    BY <2>1, <2>3 DEF IInv, LocksExclude, Apart
  <2> QED BY <2>1, <2>2, <2>3, <2>4, HolderRank, RankRange DEF RowBlockers, NoKeyBlockers
<1> QED BY <1>2, <1>3, <1>4, <1>5, <1>6, <1>7 DEF BlockersOf

\* Of any set of requests the one of the highest rank waits for none of them.
LEMMA NoCycle == IInv => NoWaitCycle
<1> SUFFICES ASSUME IInv, NEW S \in (SUBSET Reqs) \ {{}}
             PROVE  \E r \in S : BlockersOf(r) \cap S = {}
  BY DEF NoWaitCycle
<1>1. \E r \in S : \A q \in S : Rank(q) <= Rank(r)
  <2>1. \A r \in S : Rank(r) \in 0..4
    BY RankRange
  <2>2. CASE \E r \in S : Rank(r) = 4
    BY <2>1, <2>2
  <2>3. CASE ~(\E r \in S : Rank(r) = 4) /\ \E r \in S : Rank(r) = 3
    BY <2>1, <2>3
  <2>4. CASE ~(\E r \in S : Rank(r) \in 3..4) /\ \E r \in S : Rank(r) = 2
    BY <2>1, <2>4
  <2>5. CASE ~(\E r \in S : Rank(r) \in 2..4) /\ \E r \in S : Rank(r) = 1
    BY <2>1, <2>5
  <2>6. CASE ~(\E r \in S : Rank(r) \in 1..4)
    <3>1. \A r \in S : Rank(r) = 0
      BY <2>1, <2>6
    <3>2. PICK r \in S : TRUE
      OBVIOUS
    <3> QED BY <3>1, <3>2
  <2> QED BY <2>2, <2>3, <2>4, <2>5, <2>6
<1>2. PICK r \in S : \A q \in S : Rank(q) <= Rank(r)
  BY <1>1
<1>3. ASSUME NEW q \in BlockersOf(r) \cap S PROVE FALSE
  BY <1>2, <1>3, WaitsUpwards, RankRange
<1> QED BY <1>2, <1>3

\* The handlers take their locks in one order, so no set of requests, of any
\* size, ever waits for itself: PostgreSQL never has to break a deadlock.
THEOREM NoDeadlock == Spec => []NoWaitCycle
<1> QED BY NoCycle, Inductive, PTL

-----------------------------------------------------------------------------
(* Deleting an account, while nothing is anonymized. *)

NoRuns == \A r \in Reqs : req[r].kind # "anonymize"

\* The bookings a deletion has summed up stay the account's; once it has the
\* lock, the account stays inactive and settled as far as these bookings go.
DeletionOK(r) ==
  req[r].kind = "delete" =>
    /\ req[r].seen \subseteq RowsOf(req[r].who)
    /\ req[r].pc \in {"count", "commit"} =>
         ~users[req[r].who].active /\ users[req[r].who].carry + SumOf(req[r].seen) = 0

DInv == IInv /\ NoRuns /\ \A r \in Reqs : DeletionOK(r)

\* A handler that begins writes no table,
LEMMA StartReads == ASSUME NEW r \in Reqs, Start(r) PROVE UNCHANGED Tables
<1>1. ASSUME NEW row, Begin(r, row) PROVE UNCHANGED Tables
  BY <1>1 DEF Begin
<1>2. ASSUME NEW k, NEW u, NEW t, Debit(r, k, u, t) PROVE UNCHANGED Tables
  BY <1>1, <1>2 DEF Debit
<1>3. ASSUME NEW u, NEW t, NEW n, Cancel(r, u, t, n) PROVE UNCHANGED Tables
  BY <1>1, <1>3 DEF Cancel
<1>4. ASSUME NEW a, NEW u, NEW t, RegisterDeposit(r, a, u, t) PROVE UNCHANGED Tables
  BY <1>1, <1>4 DEF RegisterDeposit
<1>5. ASSUME NEW a, NEW u, DeleteUser(r, a, u) PROVE UNCHANGED Tables
  BY <1>1, <1>5 DEF DeleteUser
<1>6. ASSUME NEW a, RunAnonymization(r, a) PROVE UNCHANGED Tables
  BY <1>1, <1>6 DEF RunAnonymization
<1> QED BY <1>2, <1>3, <1>4, <1>5, <1>6
        DEF Start, PlaceOrder, CreateCustomTransaction, KioskPlaceOrder, CancelTransaction,
            KioskCancelTransaction, AdminCancelTransaction

\* and of the statements only the commits write one.
LEMMA OnlyCommitsWrite ==
  ASSUME NEW r \in Reqs, Proceed(r) \/ Abort(r),
         ~CommitBooking(r), ~CommitDelete(r), ~CommitAnonymization(r)
  PROVE  UNCHANGED Tables
<1>1. CASE LockUser(r) \/ ReadBalance(r) \/ InsertBooking(r) \/ CheckCreator(r) \/ MarkCancelled(r)
  BY <1>1 DEF LockUser, ReadBalance, InsertBooking, CheckCreator, MarkCancelled
<1>2. CASE LockForDelete(r) \/ CountReferences(r) \/ TakeAdvisoryLock(r) \/ Scan(r)
  BY <1>2 DEF LockForDelete, CountReferences, TakeAdvisoryLock, Scan
<1>3. CASE ClaimRow(r) \/ CreditOwner(r) \/ LogRun(r) \/ Abort(r)
  BY <1>3 DEF ClaimRow, CreditOwner, LogRun, Abort
<1> QED BY <1>1, <1>2, <1>3 DEF Proceed

\* A handler that begins touches its own slot only.
LEMMA StartsAlone ==
  ASSUME IInv, NEW r \in Reqs, Start(r)
  PROVE  UNCHANGED Tables /\ OnlyReq(r)
<1>1. ASSUME NEW row, Begin(r, row) PROVE UNCHANGED Tables /\ OnlyReq(r)
  BY <1>1 DEF Begin, OnlyReq, IInv, TypeOK
<1>2. ASSUME NEW k, NEW u, NEW t, Debit(r, k, u, t) PROVE UNCHANGED Tables /\ OnlyReq(r)
  BY <1>1, <1>2 DEF Debit
<1>3. ASSUME NEW u, NEW t, NEW n, Cancel(r, u, t, n) PROVE UNCHANGED Tables /\ OnlyReq(r)
  BY <1>1, <1>3 DEF Cancel
<1>4. ASSUME NEW a, NEW u, NEW t, RegisterDeposit(r, a, u, t) PROVE UNCHANGED Tables /\ OnlyReq(r)
  BY <1>1, <1>4 DEF RegisterDeposit
<1>5. ASSUME NEW a, NEW u, DeleteUser(r, a, u) PROVE UNCHANGED Tables /\ OnlyReq(r)
  BY <1>1, <1>5 DEF DeleteUser
<1>6. ASSUME NEW a, RunAnonymization(r, a) PROVE UNCHANGED Tables /\ OnlyReq(r)
  BY <1>1, <1>6 DEF RunAnonymization
<1> QED BY <1>2, <1>3, <1>4, <1>5, <1>6
        DEF Start, PlaceOrder, CreateCustomTransaction, KioskPlaceOrder, CancelTransaction,
            KioskCancelTransaction, AdminCancelTransaction

\* What a step of r does to the requests.
LEMMA DeletionSteps ==
  ASSUME DInv, "anonymize" \notin Ops, NEW r \in Reqs, Start(r) \/ Proceed(r) \/ Abort(r)
  PROVE  /\ OnlyReq(r) /\ req'[r].kind # "anonymize"
         /\ \/ req'[r].kind # "delete"
            \/ \E a, u \in Users : DeleteUser(r, a, u)
            \/ LockForDelete(r)
            \/ CountReferences(r)
         /\ \/ UNCHANGED Tables
            \/ CommitBooking(r)
            \/ CommitDelete(r)
<1>1. req[r] \in Request /\ RequestOK(r) /\ req[r].kind # "anonymize"
  BY DEF DInv, IInv, TypeOK, NoRuns
<1>2. FieldsOK(r)
  BY <1>1 DEF RequestOK
<1>3. CASE Start(r)
  <2>1. UNCHANGED Tables /\ OnlyReq(r)
    BY <1>3, StartsAlone DEF DInv
  <2>2. req'[r].kind \in {"order", "deposit", "cancel"} \/ \E a, u \in Users : DeleteUser(r, a, u)
    <3>1. ASSUME NEW k \in Users, NEW u \in Users, NEW t \in TxIds, Debit(r, k, u, t)
          PROVE  req'[r].kind = "order"
      BY <3>1 DEF Debit, Begin, Idle, DInv, IInv, TypeOK
    <3>2. ASSUME NEW a \in Users, NEW u \in Users, NEW t \in TxIds, RegisterDeposit(r, a, u, t)
          PROVE  req'[r].kind = "deposit"
      BY <3>2 DEF RegisterDeposit, Begin, Idle, DInv, IInv, TypeOK
    <3>3. ASSUME NEW u \in Users, NEW t \in TxIds, NEW n \in TxIds, Cancel(r, u, t, n)
          PROVE  req'[r].kind = "cancel"
      BY <3>3 DEF Cancel, Begin, Idle, DInv, IInv, TypeOK
    <3> QED BY <1>3, <3>1, <3>2, <3>3
            DEF Start, RunAnonymization, PlaceOrder, CreateCustomTransaction, KioskPlaceOrder,
                CancelTransaction, KioskCancelTransaction, AdminCancelTransaction
  <2>3. ASSUME NEW a \in Users, NEW u \in Users, DeleteUser(r, a, u) PROVE req'[r].kind = "delete"
    BY <2>3 DEF DeleteUser, Begin, Idle, DInv, IInv, TypeOK
  <2> QED BY <2>1, <2>2, <2>3
<1>4. CASE Abort(r)
  BY <1>4, Over DEF Abort, Drop, Idle, DInv
<1>5. CASE LockUser(r) \/ ReadBalance(r) \/ InsertBooking(r) \/ CheckCreator(r) \/ MarkCancelled(r)
  <2>1. req[r].kind \in {"order", "deposit", "cancel"} /\ UNCHANGED Tables
    BY <1>1, <1>2, <1>5 DEF LockUser, ReadBalance, InsertBooking, CheckCreator, MarkCancelled,
       FieldsOK, Path, Request, Kinds
  <2>2. OnlyReq(r) /\ req'[r].kind \in {req[r].kind, "none"}
    BY <1>1, <1>5 DEF LockUser, ReadBalance, InsertBooking, CheckCreator, MarkCancelled, Goto, Drop,
       Idle, OnlyReq, DInv, IInv, TypeOK, Request
  <2> QED BY <2>1, <2>2
<1>6. CASE LockForDelete(r) \/ CountReferences(r)
  <2>1. OnlyReq(r) /\ req'[r].kind \in {req[r].kind, "none"} /\ UNCHANGED Tables
    BY <1>1, <1>6 DEF LockForDelete, CountReferences, Goto, Drop, Idle, OnlyReq, DInv, IInv, TypeOK, Request
  <2> QED BY <1>1, <1>6, <2>1
<1>7. CASE CommitBooking(r) \/ CommitDelete(r)
  <2>1. Drop(r)
    BY <1>7 DEF CommitBooking, CommitDelete
  <2> QED BY <1>7, <2>1, Over DEF DInv, Idle
<1>8. CASE TakeAdvisoryLock(r) \/ Scan(r) \/ ClaimRow(r) \/ CreditOwner(r) \/ LogRun(r)
           \/ CommitAnonymization(r)
  BY <1>1, <1>2, <1>8 DEF TakeAdvisoryLock, Scan, ClaimRow, CreditOwner, LogRun, CommitAnonymization,
     FieldsOK, Path, Request, Kinds
<1> QED BY <1>3, <1>4, <1>5, <1>6, <1>7, <1>8 DEF Proceed

\* A deletion that goes on keeps what it knows when its bookings and its
\* locked account stay.
LEMMA DeletionFrame ==
  ASSUME NEW q \in Reqs, DeletionOK(q), req'[q] = req[q],
         \A u \in Users : RowsOf(u) \subseteq RowsOf(u)',
         \A t \in TxIds : txs[t].used => txs'[t].amt = txs[t].amt,
         req[q].kind = "delete" => req[q].who \in Users,
         req[q].kind = "delete" /\ req[q].pc \in {"count", "commit"} =>
           /\ users'[req[q].who].active = users[req[q].who].active
           /\ users'[req[q].who].carry = users[req[q].who].carry
  PROVE  DeletionOK(q)'
<1> SUFFICES ASSUME req[q].kind = "delete" PROVE DeletionOK(q)'
  BY DEF DeletionOK
<1>1. req[q].seen \subseteq RowsOf(req[q].who)'
  BY DEF DeletionOK
<1>2. SumOf(req[q].seen)' = SumOf(req[q].seen)
  <2>1. \A t \in req[q].seen : txs'[t].amt = txs[t].amt
    BY DEF DeletionOK, RowsOf
  <2> QED BY <2>1 DEF SumOf
<1> QED BY <1>1, <1>2 DEF DeletionOK

\* At the start no account is being deleted.
LEMMA DeletionInit == Init => DInv
<1> SUFFICES ASSUME Init PROVE DInv
  OBVIOUS
<1>1. IInv
  BY InitOK
<1> QED BY <1>1 DEF Init, Idle, DInv, NoRuns, DeletionOK

\* An account that a request holds FOR UPDATE changes only when it is deleted.
LEMMA LockedAccount ==
  ASSUME DInv, "anonymize" \notin Ops, Next, NEW q \in Reqs, NEW u \in Users, HoldsUpdate(q, u),
         ~CommitDelete(q)
  PROVE  users'[u].active = users[u].active /\ users'[u].carry = users[u].carry
<1>1. Live(u) /\ users \in [Users -> UserRow]
  BY DEF DInv, IInv, TypeOK, RequestOK, LockedLive
<1>2. CASE Environment
  BY <1>1, <1>2 DEF Environment, CreateUser, ToggleActive, ToggleSpendingLimit, Writable, SaveSettings, Tick, Live
<1>3. ASSUME NEW r \in Reqs, Start(r) \/ Proceed(r) \/ Abort(r)
      PROVE  users'[u].active = users[u].active /\ users'[u].carry = users[u].carry
  <2>1. CASE UNCHANGED Tables \/ CommitBooking(r)
    BY <2>1 DEF Tables, CommitBooking
  <2>2. CASE CommitDelete(r)
    <3>1. r # q
      BY <2>2
    <3>2. req[r].who \in Users /\ HoldsUpdate(r, req[r].who)
      BY <2>2 DEF CommitDelete, HoldsUpdate, DInv, IInv, RequestOK, FieldsOK
    <3>3. req[r].who # u
      BY <3>1, <3>2 DEF DInv, IInv, LocksExclude, Apart
    <3> QED BY <1>1, <2>2, <3>3 DEF CommitDelete
  <2> QED BY <1>3, <2>1, <2>2, DeletionSteps
<1> QED BY <1>2, <1>3 DEF Next

\* Without anonymization a booking is there for good, with its owner.
LEMMA RowsStay ==
  ASSUME DInv, "anonymize" \notin Ops, Next
  PROVE  /\ \A u \in Users : RowsOf(u) \subseteq RowsOf(u)'
         /\ \A t \in TxIds : txs[t].used => txs'[t].amt = txs[t].amt
<1>1. CASE txs' = txs
  BY <1>1 DEF RowsOf
<1>2. ASSUME NEW r \in Reqs, CommitBooking(r)
      PROVE  /\ \A u \in Users : RowsOf(u) \subseteq RowsOf(u)'
             /\ \A t \in TxIds : txs[t].used => txs'[t].amt = txs[t].amt
  <2>1. IInv
    BY DEF DInv
  <2> QED BY <1>2, <2>1, Booked DEF RowsOf
<1>3. txs' = txs \/ \E r \in Reqs : CommitBooking(r)
  <2>1. CASE Environment
    BY <2>1 DEF Environment, CreateUser, ToggleActive, ToggleSpendingLimit, SaveSettings, Tick
  <2>2. ASSUME NEW r \in Reqs, Start(r) \/ Proceed(r) \/ Abort(r)
        PROVE  txs' = txs \/ CommitBooking(r)
    BY <2>2, DeletionSteps DEF Tables, CommitDelete
  <2> QED BY <2>1, <2>2 DEF Next
<1> QED BY <1>1, <1>2, <1>3

\* Without anonymization every step keeps what deletions have checked.
LEMMA DeletionStep ==
  ASSUME DInv, "anonymize" \notin Ops, Next
  PROVE  DInv'
<1>1. IInv' /\ IInv
  BY StepOK DEF DInv
<1>2. ASSUME NEW q \in Reqs, req'[q] = req[q], ~CommitDelete(q) PROVE DeletionOK(q)'
  <2>1. DeletionOK(q) /\ RequestOK(q)
    BY DEF DInv, IInv
  <2>2. req[q].kind = "delete" => req[q].who \in Users
    BY <2>1 DEF RequestOK, FieldsOK
  <2>3. req[q].kind = "delete" /\ req[q].pc \in {"count", "commit"} => HoldsUpdate(q, req[q].who)
    BY DEF HoldsUpdate
  <2> QED BY <1>2, <2>1, <2>2, <2>3, LockedAccount, RowsStay, DeletionFrame
<1>3. CASE Environment
  <2>1. req' = req
    BY <1>3 DEF Environment, CreateUser, ToggleActive, ToggleSpendingLimit, SaveSettings, Tick
  <2>2. \A q \in Reqs : ~CommitDelete(q)
    <3> SUFFICES ASSUME NEW q \in Reqs, CommitDelete(q) PROVE FALSE
      OBVIOUS
    <3> QED BY <1>1, <2>1, Over DEF CommitDelete, Idle
  <2> QED BY <1>1, <1>2, <2>1, <2>2 DEF DInv, NoRuns
<1>4. ASSUME NEW r \in Reqs, Start(r) \/ Proceed(r) \/ Abort(r) PROVE DInv'
  <2>1. OnlyReq(r) /\ req'[r].kind # "anonymize"
    BY <1>4, DeletionSteps
  <2>2. NoRuns'
    BY <2>1 DEF OnlyReq, DInv, NoRuns
  <2>3. ASSUME NEW q \in Reqs, q # r PROVE DeletionOK(q)'
    <3>1. req'[q] = req[q]
      BY <2>1, <2>3 DEF OnlyReq
    <3>2. ~CommitDelete(q)
      <4> SUFFICES ASSUME CommitDelete(q) PROVE FALSE
        OBVIOUS
      <4> QED BY <1>1, <3>1, Over DEF CommitDelete, Idle
    <3> QED BY <1>2, <3>1, <3>2
  <2>4. DeletionOK(r)'
    <3>1. CASE req'[r].kind # "delete"
      BY <3>1 DEF DeletionOK
    <3>2. CASE \E a, u \in Users : DeleteUser(r, a, u)
      <4>1. PICK a \in Users, u \in Users : DeleteUser(r, a, u)
        BY <3>2
      <4>2. req'[r].pc = "lock" /\ req'[r].who = u /\ req'[r].seen = RowsOf(u) /\ txs' = txs
        BY <1>1, <4>1 DEF DeleteUser, Begin, Idle, Tables, IInv, TypeOK
      <4> QED BY <4>2 DEF DeletionOK, RowsOf
    <3>3. CASE LockForDelete(r)
      <4>1. CASE Drop(r)
        BY <1>1, <4>1, Over DEF DeletionOK, Idle
      <4>2. CASE /\ Goto(r, "count") /\ ~users[req[r].who].active
                 /\ users[req[r].who].carry + SumOf(req[r].seen) = 0
        <5>1. "count" \in Pcs /\ users' = users /\ txs' = txs
          BY <3>3 DEF Pcs, LockForDelete, Tables
        <5>2. req'[r].who = req[r].who /\ req'[r].seen = req[r].seen /\ req[r].kind = "delete"
          BY <1>1, <3>3, <4>2 DEF LockForDelete, Goto, IInv, TypeOK, Request
        <5>3. SumOf(req[r].seen)' = SumOf(req[r].seen) /\ RowsOf(req[r].who)' = RowsOf(req[r].who)
          BY <5>1, <5>2 DEF SumOf, RowsOf
        <5> QED BY <4>2, <5>1, <5>2, <5>3 DEF DeletionOK, DInv
      <4> QED BY <3>3, <4>1, <4>2 DEF LockForDelete
    <3>4. CASE CountReferences(r)
      <4>1. CASE Drop(r)
        BY <1>1, <4>1, Over DEF DeletionOK, Idle
      <4>2. CASE Goto(r, "commit")
        <5>1. "commit" \in Pcs /\ users' = users /\ txs' = txs /\ req[r].pc = "count"
          BY <3>4 DEF Pcs, CountReferences, Tables
        <5>2. req'[r].who = req[r].who /\ req'[r].seen = req[r].seen /\ req'[r].kind = req[r].kind
          BY <1>1, <4>2 DEF Goto, IInv, TypeOK, Request
        <5>3. SumOf(req[r].seen)' = SumOf(req[r].seen) /\ RowsOf(req[r].who)' = RowsOf(req[r].who)
          BY <5>1, <5>2 DEF SumOf, RowsOf
        <5> QED BY <5>1, <5>2, <5>3 DEF DeletionOK, DInv
      <4> QED BY <3>4, <4>1, <4>2 DEF CountReferences
    <3> QED BY <1>4, <3>1, <3>2, <3>3, <3>4, DeletionSteps
  <2> QED BY <1>1, <2>2, <2>3, <2>4 DEF DInv
<1> QED BY <1>3, <1>4 DEF Next

\* What the commit of a deletion finds: an inactive account with an empty tab.
LEMMA SettledAtCommit ==
  ASSUME DInv, NEW r \in Reqs, CommitDelete(r)
  PROVE  ~users[req[r].who].active /\ Balance(req[r].who) = 0
<1>1. req[r].kind = "delete" /\ req[r].pc = "commit" /\ RequestOK(r) /\ DeletionOK(r)
  BY DEF CommitDelete, DInv, IInv
<1>2. References(req[r].who) = {}
  BY <1>1 DEF RequestOK, Unreferenced
<1>3. RowsOf(req[r].who) = {}
  BY <1>2 DEF RowsOf, References
<1>4. req[r].seen = RowsOf(req[r].who)
  BY <1>1, <1>3 DEF DeletionOK
<1> QED BY <1>1, <1>4 DEF DeletionOK, Balance

\* An account goes only by the commit of a deletion.
LEMMA OnlyDeletionCloses ==
  ASSUME DInv, "anonymize" \notin Ops, Next, NEW u \in Users, Live(u), ~Live(u)'
  PROVE  \E r \in Reqs : CommitDelete(r) /\ req[r].who = u
<1>1. users \in [Users -> UserRow] /\ users'[u].st # "live" /\ users[u].st = "live"
  BY DEF DInv, IInv, TypeOK, Live
<1>2. CASE Environment
  BY <1>1, <1>2 DEF Environment, CreateUser, ToggleActive, ToggleSpendingLimit, SaveSettings, Tick, UserRow
<1>3. ASSUME NEW r \in Reqs, Start(r) \/ Proceed(r) \/ Abort(r)
      PROVE  CommitDelete(r) /\ req[r].who = u
  <2>1. users' # users
    BY <1>1
  <2>2. CommitDelete(r)
    BY <1>3, <2>1, DeletionSteps DEF Tables, CommitBooking
  <2> QED BY <1>1, <2>2 DEF CommitDelete
<1> QED BY <1>2, <1>3 DEF Next

LEMMA DeletionKept ==
  ASSUME DInv, "anonymize" \notin Ops, [Next]_vars
  PROVE  DInv'
<1>1. CASE UNCHANGED vars
  <2>1. IInv'
    BY <1>1, StepOK DEF DInv
  <2>2. users' = users /\ txs' = txs /\ req' = req
    BY <1>1 DEF vars
  <2> QED BY <2>1, <2>2, DeletionFrame DEF DInv, NoRuns, RowsOf, IInv, RequestOK, FieldsOK
<1> QED BY <1>1, DeletionStep

\* While nothing is anonymized, an account is deleted only when it is inactive
\* and its balance is zero at that moment, whatever has been booked since the
\* sum was read (delete_user.go:92-130).
THEOREM DeleteCorrect ==
  ASSUME "anonymize" \notin Ops
  PROVE  Spec => DeletedSettled
<1>1. DInv /\ [Next]_vars => DInv'
  BY DeletionKept
<1>2. DInv /\ [Next]_vars =>
        [\A u \in Users : Live(u) /\ ~Live(u)' => ~users[u].active /\ Balance(u) = 0]_vars
  <2> SUFFICES ASSUME DInv, Next, NEW u \in Users, Live(u), ~Live(u)'
               PROVE  ~users[u].active /\ Balance(u) = 0
    OBVIOUS
  <2> QED BY OnlyDeletionCloses, SettledAtCommit
<1> QED BY <1>1, <1>2, DeletionInit, PTL DEF Spec, DeletedSettled

-----------------------------------------------------------------------------
(* A booking and its storno lose their owner together: what the           *)
(* cancellation window, the retention and the age of a request have to do  *)
(* with one another.                                                       *)

\* The settings a request under way may have read.
Chosen == IF "settings" \in Ops THEN SettingsChoices ELSE {settings}

\* Whatever two of them a cancellation and a run have read, the run leaves alone
\* the bookings that the cancellation may still be busy with.
Patient == \A a, b \in Chosen : b.retention > 0 => a.window + MaxStall <= b.retention

SameOwner(rows) == \A t \in TxIds : \A s \in StornosIn(rows, t) : rows[s].user = rows[t].user

\* No request is older than the longest stall.
AgeOK(r) == Busy(r) => req[r].at <= now /\ now <= req[r].at + MaxStall

\* A cancellation has begun within the window ...
WindowOK(r) ==
  req[r].kind = "cancel" => \E s \in Chosen : req[r].at - txs[req[r].of].at <= s.window

\* ... and a run has its cutoff from the retention.
CutoffOK(r) ==
  req[r].kind = "anonymize" =>
    \E s \in Chosen : s.retention > 0 /\ req[r].cutoff = req[r].at - s.retention

\* What a run has found due is old, and is pairs as far as it is cancelled.
DuePairs(r) ==
  Anonymizing(r) =>
    \A t \in TxIds :
      /\ req[r].due[t] # Nobody => txs[t].at < req[r].cutoff
      /\ \A s \in Stornos(t) : req[r].due[t] # Nobody <=> req[r].due[s] # Nobody

PairOK(r) == AgeOK(r) /\ WindowOK(r) /\ CutoffOK(r) /\ DuePairs(r)

PInv == IInv /\ (Patient => SameOwner(txs) /\ \A r \in Reqs : PairOK(r))

-----------------------------------------------------------------------------
(* Why a cancellation and a run do not meet.                               *)

\* No run has found due what a cancellation is busy with: the cancellation is
\* too young, whichever of the two began first.
LEMMA NoRace ==
  ASSUME IInv, Patient, NEW r \in Reqs, NEW q \in Reqs, PairOK(r), PairOK(q),
         req[r].kind = "anonymize", req[q].kind = "cancel"
  PROVE  req[r].cutoff <= txs[req[q].of].at
<1>1. Busy(r) /\ Busy(q) /\ req[q].of \in TxIds
  BY DEF IInv, TypeOK, Request, RequestOK, FieldsOK, Path, Busy
<1>2. PICK a \in Chosen : req[q].at - txs[req[q].of].at <= a.window
  BY DEF PairOK, WindowOK
<1>3. PICK b \in Chosen : b.retention > 0 /\ req[r].cutoff = req[r].at - b.retention
  BY DEF PairOK, CutoffOK
<1>4. a.window + MaxStall <= b.retention
  BY <1>2, <1>3 DEF Patient
<1>5. a.window \in Nat /\ b.retention \in Nat /\ MaxStall \in Nat
  BY ConstantsOK DEF Chosen, SettingsRow, IInv, TypeOK
<1>6. req[q].at \in Nat /\ req[r].at \in Nat /\ txs[req[q].of].at \in Nat /\ now \in Nat
  BY <1>1 DEF IInv, TypeOK, Request, TxRow
<1>7. req[r].at <= now /\ now <= req[q].at + MaxStall
  BY <1>1 DEF PairOK, AgeOK
<1> QED BY <1>2, <1>3, <1>4, <1>5, <1>6, <1>7

\* A booking has one storno, and a storno is no booking that has one.
LEMMA OnePartner ==
  ASSUME IInv, NEW t \in TxIds, NEW s \in Stornos(t)
  PROVE  /\ s \in TxIds /\ txs[t].used /\ txs[s].used
         /\ Partners(t) = {s} /\ Partners(s) = {t}
<1>1. s \in TxIds /\ txs[s].used /\ txs[s].cancels = t
  BY DEF Stornos, StornosIn
<1>2. /\ txs[t].used /\ txs[t].cancels = NoTx
      /\ \A s2 \in TxIds : txs[s2].used /\ txs[s2].cancels = t => s2 = s
  BY DEF IInv, CancelledOnce, ReversedOnce, Stornos, StornosIn
<1>3. \A p \in TxIds : ~(txs[p].used /\ txs[p].cancels = s)
  <2> SUFFICES ASSUME NEW p \in TxIds, txs[p].used, txs[p].cancels = s PROVE FALSE
    OBVIOUS
  <2>1. txs[s].cancels = NoTx
    BY <1>1 DEF IInv, CancelledOnce, ReversedOnce, StornosIn
  <2> QED BY <1>1, <2>1, ConstantsOK
<1> QED BY <1>1, <1>2, <1>3, ConstantsOK DEF Partners

-----------------------------------------------------------------------------
(* Steps that leave the bookings alone.                                    *)

\* The settings that may have been read stay the same.
LEMMA ChosenStays == ASSUME Next PROVE Chosen' = Chosen
<1>1. "settings" \notin Ops => settings' = settings
  <2>1. CASE Environment
    BY <2>1 DEF Environment, CreateUser, ToggleActive, ToggleSpendingLimit, SaveSettings, Tick
  <2>2. ASSUME NEW r \in Reqs, Start(r) PROVE settings' = settings
    BY <2>2, StartReads DEF Tables
  <2>3. ASSUME NEW r \in Reqs, Proceed(r) \/ Abort(r) PROVE settings' = settings
    BY <2>3, OnlyCommitsWrite DEF CommitBooking, CommitDelete, CommitAnonymization, Tables
  <2> QED BY <2>1, <2>2, <2>3 DEF Next
<1> QED BY <1>1 DEF Chosen

\* A request that stays as it is, while its bookings keep owner and age.
LEMMA PairFrame ==
  ASSUME NEW q \in Reqs, PairOK(q), req'[q] = req[q], UNCHANGED <<txs, now>>, Chosen' = Chosen
  PROVE  PairOK(q)'
BY DEF PairOK, AgeOK, WindowOK, CutoffOK, DuePairs, Busy, Anonymizing, Stornos, StornosIn

\* A request that has just begun.
Begun(row) ==
  /\ row.at = now /\ row.pc \in {"lock", "insert", "mark", "advisory"}
  /\ row.kind = "cancel" => now - txs[row.of].at <= settings.window
  /\ row.kind = "anonymize" => settings.retention > 0 /\ row.cutoff = now - settings.retention
  /\ row.kind \in {"delete", "anonymize"} => row.kind \in Ops
  /\ row.kind = "deposit" => row.amt >= 0
  /\ row.kind = "order" =>
       /\ row.amt <= 0 /\ row.limit = settings.limit
       /\ Live(row.who) /\ row.enforce = (settings.enforce /\ ~users[row.who].exempt)

LEMMA StartBegins ==
  ASSUME IInv, NEW r \in Reqs, Start(r)
  PROVE  UNCHANGED Tables /\ ~Busy(r) /\ OnlyReq(r) /\ Begun(req'[r])
<1> DEFINE Done == UNCHANGED Tables /\ ~Busy(r) /\ OnlyReq(r) /\ Begun(req'[r])
<1>1. ASSUME NEW row, Begin(r, row), Begun(row) PROVE Done
  BY <1>1 DEF Begin, OnlyReq, IInv, TypeOK
<1> HIDE DEF Done
<1>2. ASSUME NEW k \in Users, NEW u \in Users, NEW t \in TxIds, LoggedIn(u), Debit(r, k, u, t)
      PROVE  Done
  <2>1. PICK price \in Prices :
          Begin(r, [Idle EXCEPT !.kind = "order", !.pc = "lock", !.by = k, !.who = u,
                                !.amt = -price, !.new = t, !.at = now,
                                !.enforce = settings.enforce /\ ~users[u].exempt,
                                !.limit = settings.limit])
    BY <1>2 DEF Debit
  <2>2. Begun([Idle EXCEPT !.kind = "order", !.pc = "lock", !.by = k, !.who = u,
                           !.amt = -price, !.new = t, !.at = now,
                           !.enforce = settings.enforce /\ ~users[u].exempt,
                           !.limit = settings.limit])
    <3> DEFINE e == settings.enforce /\ ~users[u].exempt
               row == [Idle EXCEPT !.kind = "order", !.pc = "lock", !.by = k, !.who = u,
                                   !.amt = -price, !.new = t, !.at = now,
                                   !.enforce = e, !.limit = settings.limit]
    <3>1. -price \in Int /\ -price <= 0 /\ Live(u)
      BY <1>2, ConstantsOK DEF LoggedIn
    <3> HIDE DEF e
    <3>2. /\ row.at = now /\ row.pc = "lock" /\ row.kind = "order" /\ row.amt = -price
          /\ row.limit = settings.limit /\ row.who = u /\ row.enforce = e
      BY DEF Idle
    <3> HIDE DEF row
    <3>3. Begun(row)
      BY <3>1, <3>2 DEF Begun, e
    <3> QED BY <3>3 DEF row, e
  <2> QED BY <1>1, <2>1, <2>2
<1>3. ASSUME NEW u \in Users, NEW t \in TxIds, NEW n \in TxIds, Cancel(r, u, t, n) PROVE Done
  <2>1. now - txs[t].at <= settings.window
    BY <1>3 DEF Cancel
  <2>2. Begun([Idle EXCEPT !.kind = "cancel", !.pc = "mark", !.by = u, !.of = t,
                           !.new = n, !.at = now])
    BY <2>1 DEF Begun, Idle
  <2> QED BY <1>1, <1>3, <2>2 DEF Cancel
<1>4. ASSUME NEW a \in Users, NEW u \in Users, NEW t \in TxIds, RegisterDeposit(r, a, u, t) PROVE Done
  <2>1. PICK paid \in Deposits :
          Begin(r, [Idle EXCEPT !.kind = "deposit", !.pc = "insert", !.by = a, !.who = u,
                                !.amt = paid, !.new = t, !.at = now])
    BY <1>4 DEF RegisterDeposit
  <2>2. Begun([Idle EXCEPT !.kind = "deposit", !.pc = "insert", !.by = a, !.who = u,
                           !.amt = paid, !.new = t, !.at = now])
    BY ConstantsOK DEF Begun, Idle
  <2> QED BY <1>1, <2>1, <2>2
<1>5. ASSUME NEW a \in Users, NEW u \in Users, DeleteUser(r, a, u) PROVE Done
  <2>1. Begun([Idle EXCEPT !.kind = "delete", !.pc = "lock", !.by = a, !.who = u,
                           !.at = now, !.seen = RowsOf(u)])
    BY <1>5 DEF Begun, Idle, DeleteUser
  <2> QED BY <1>1, <1>5, <2>1 DEF DeleteUser
<1>6. ASSUME NEW a \in Users, RunAnonymization(r, a) PROVE Done
  <2>1. settings.retention > 0 /\ "anonymize" \in Ops
    BY <1>6 DEF RunAnonymization
  <2>2. Begun([Idle EXCEPT !.kind = "anonymize", !.pc = "advisory", !.by = a,
                           !.at = now, !.cutoff = now - settings.retention])
    BY <2>1 DEF Begun, Idle
  <2> QED BY <1>1, <1>6, <2>2 DEF RunAnonymization
<1>7. Done
  BY <1>2, <1>3, <1>4, <1>5, <1>6
     DEF Start, PlaceOrder, CreateCustomTransaction, KioskPlaceOrder, CancelTransaction,
         KioskCancelTransaction, AdminCancelTransaction
<1> QED BY <1>7 DEF Done

\* A slot that has just been taken up, or has become free.
LEMMA BegunOK ==
  ASSUME PInv, Patient, NEW r \in Reqs, UNCHANGED Tables, Begun(req'[r]), Chosen' = Chosen
  PROVE  PairOK(r)'
<1>1. settings \in Chosen /\ now' = now /\ txs' = txs
  BY DEF Chosen, Tables, PInv, IInv, TypeOK
<1>2. now \in Nat /\ MaxStall \in Nat
  BY ConstantsOK DEF PInv, IInv, TypeOK
<1> QED BY <1>1, <1>2 DEF Begun, PairOK, AgeOK, WindowOK, CutoffOK, DuePairs, Anonymizing

LEMMA IdlePairOK == ASSUME NEW r \in Reqs, req'[r] = Idle PROVE PairOK(r)'
  BY DEF Idle, PairOK, AgeOK, WindowOK, CutoffOK, DuePairs, Anonymizing, Busy
\* A request that goes on to a statement that finds nothing due.
Moved(r) ==
  /\ Busy(r) /\ (Anonymizing(r)' => Anonymizing(r))
  /\ req'[r].kind = req[r].kind /\ req'[r].at = req[r].at /\ req'[r].of = req[r].of
  /\ req'[r].cutoff = req[r].cutoff /\ req'[r].due = req[r].due
  /\ req'[r].enforce = req[r].enforce /\ req'[r].limit = req[r].limit
  /\ req[r].kind # "cancel" => req'[r].amt = req[r].amt /\ req'[r].who = req[r].who

\* The statements that write no table, all but the scan.
Quiet(r) ==
  \/ LockUser(r) \/ ReadBalance(r) \/ InsertBooking(r) \/ CheckCreator(r) \/ MarkCancelled(r)
  \/ LockForDelete(r) \/ CountReferences(r)
  \/ TakeAdvisoryLock(r) \/ ClaimRow(r) \/ CreditOwner(r) \/ LogRun(r)

LEMMA QuietMoves ==
  ASSUME IInv, NEW r \in Reqs, Quiet(r)
  PROVE  UNCHANGED Tables /\ OnlyReq(r) /\ (req'[r] = Idle \/ Moved(r))
<1>1. /\ req[r] \in Request /\ req[r].pc \in Path(req[r].kind)
      /\ \A row : req' = [req EXCEPT ![r] = row] => OnlyReq(r) /\ req'[r] = row
  BY DEF IInv, TypeOK, RequestOK, FieldsOK, OnlyReq
<1>2. UNCHANGED Tables /\ Busy(r)
  BY DEF Quiet, LockUser, ReadBalance, InsertBooking, CheckCreator, MarkCancelled, LockForDelete,
     CountReferences, TakeAdvisoryLock, ClaimRow, CreditOwner, LogRun, Busy
<1>3. CASE Drop(r)
  BY <1>1, <1>2, <1>3 DEF Drop
<1>4. ASSUME NEW p, Goto(r, p), req[r].kind = "anonymize" /\ p \in {"update", "commit"} => Anonymizing(r)
      PROVE  OnlyReq(r) /\ Moved(r)
  <2>1. req' = [req EXCEPT ![r] = [req[r] EXCEPT !.pc = p]]
    BY <1>4 DEF Goto
  <2>2. OnlyReq(r) /\ req'[r] = [req[r] EXCEPT !.pc = p]
    BY <1>1, <2>1
  <2> QED BY <1>1, <1>2, <1>4, <2>2 DEF Moved, Anonymizing, Request
<1>5. CASE LockUser(r) \/ InsertBooking(r) \/ CheckCreator(r) \/ LockForDelete(r) \/ CountReferences(r)
           \/ TakeAdvisoryLock(r) \/ LogRun(r)
  BY <1>1, <1>2, <1>3, <1>4, <1>5
     DEF LockUser, InsertBooking, CheckCreator, LockForDelete, CountReferences, TakeAdvisoryLock,
         LogRun, Path, Request, Kinds, Anonymizing
<1>6. CASE ReadBalance(r)
  <2>1. CASE req' = [req EXCEPT ![r].pc = "insert", ![r].bal = Balance(req[r].who)]
    <3>1. OnlyReq(r) /\ req'[r] = [req[r] EXCEPT !.pc = "insert", !.bal = Balance(req[r].who)]
      BY <2>1 DEF IInv, TypeOK, OnlyReq
    <3> QED BY <1>1, <1>2, <3>1 DEF Moved, Anonymizing, Request
  <2> QED BY <1>2, <1>3, <1>6, <2>1 DEF ReadBalance
<1>7. CASE MarkCancelled(r)
  <2> DEFINE row == txs[req[r].of]
  <2>1. CASE req' = [req EXCEPT ![r].pc = "insert", ![r].who = row.user, ![r].amt = -row.amt]
    <3>1. OnlyReq(r) /\ req'[r] = [req[r] EXCEPT !.pc = "insert", !.who = row.user, !.amt = -row.amt]
      BY <2>1 DEF IInv, TypeOK, OnlyReq
    <3>2. req[r].kind = "cancel"
      BY <1>1, <1>7 DEF MarkCancelled, Path, Request, Kinds
    <3> QED BY <1>1, <1>2, <3>1, <3>2 DEF Moved, Anonymizing, Request
  <2> QED BY <1>2, <1>3, <1>7, <2>1 DEF MarkCancelled
<1>8. CASE ClaimRow(r)
  <2>1. PICK t \in RowsLeft(r) : req' = [req EXCEPT ![r].rows = @ \cup {t}]
    BY <1>8 DEF ClaimRow
  <2>2. OnlyReq(r) /\ req'[r] = [req[r] EXCEPT !.rows = @ \cup {t}]
    BY <2>1 DEF IInv, TypeOK, OnlyReq
  <2> QED BY <1>1, <1>2, <2>2 DEF Moved, Anonymizing, Request
<1>9. CASE CreditOwner(r)
  <2>1. CASE \E u \in OwnersLeft(r) : req' = [req EXCEPT ![r].credited = @ \cup {u}]
    <3>1. PICK u \in OwnersLeft(r) : req' = [req EXCEPT ![r].credited = @ \cup {u}]
      BY <2>1
    <3>2. OnlyReq(r) /\ req'[r] = [req[r] EXCEPT !.credited = @ \cup {u}]
      BY <3>1 DEF IInv, TypeOK, OnlyReq
    <3> QED BY <1>1, <1>2, <3>2 DEF Moved, Anonymizing, Request
  <2> QED BY <1>2, <1>3, <1>9, <2>1 DEF CreditOwner
<1> QED BY <1>5, <1>6, <1>7, <1>8, <1>9 DEF Quiet

LEMMA MovedOK ==
  ASSUME NEW r \in Reqs, PairOK(r), Moved(r), UNCHANGED Tables, Chosen' = Chosen
  PROVE  PairOK(r)'
<1>1. txs' = txs /\ now' = now
  BY DEF Tables
<1>2. AgeOK(r)' /\ CutoffOK(r)'
  BY <1>1 DEF Moved, PairOK, AgeOK, CutoffOK
<1>3. WindowOK(r)'
  BY <1>1 DEF Moved, PairOK, WindowOK
<1>4. DuePairs(r)'
  <2>1. \A t \in TxIds : Stornos(t)' = Stornos(t)
    BY <1>1 DEF Stornos, StornosIn
  <2> QED BY <1>1, <2>1 DEF Moved, PairOK, DuePairs
<1> QED BY <1>2, <1>3, <1>4 DEF PairOK

\* The scan finds a booking due exactly when it finds its storno due.
LEMMA ScanOK ==
  ASSUME PInv, Patient, NEW r \in Reqs, Scan(r), Chosen' = Chosen
  PROVE  UNCHANGED Tables /\ OnlyReq(r) /\ PairOK(r)'
<1>1. /\ UNCHANGED Tables /\ txs' = txs /\ now' = now /\ IInv /\ PairOK(r) /\ SameOwner(txs)
      /\ req[r] \in Request /\ Busy(r)
  BY DEF Scan, Tables, PInv, IInv, TypeOK, Busy
<1>2. CASE Drop(r)
  BY <1>1, <1>2, IdlePairOK, Over
<1>3. CASE ~Drop(r)
  <2> DEFINE d == [t \in TxIds |-> IF Due(t, req[r].cutoff) THEN txs[t].user ELSE Nobody]
             q == [req[r] EXCEPT !.pc = "update", !.due = d]
  <2>1. OnlyReq(r) /\ req'[r] = q
    BY <1>1, <1>3 DEF Scan, OnlyReq, IInv, TypeOK
  <2>2. \A t \in TxIds : d[t] # Nobody <=> Due(t, req[r].cutoff)
    BY DEF Due
  <2> HIDE DEF d
  <2>3. /\ q.kind = req[r].kind /\ q.at = req[r].at /\ q.of = req[r].of
        /\ q.cutoff = req[r].cutoff /\ q.due = d /\ q.pc = "update"
    BY <1>1 DEF Request
  <2> HIDE DEF q
  <2>4. AgeOK(r)' /\ WindowOK(r)' /\ CutoffOK(r)'
    BY <1>1, <2>1, <2>3 DEF PairOK, AgeOK, WindowOK, CutoffOK
  <2>5. \A t \in TxIds : \A s \in Stornos(t) : Due(t, req[r].cutoff) <=> Due(s, req[r].cutoff)
    <3> SUFFICES ASSUME NEW t \in TxIds, NEW s \in Stornos(t)
                 PROVE  Due(t, req[r].cutoff) <=> Due(s, req[r].cutoff)
      OBVIOUS
    <3>1. txs[s].user = txs[t].user
      BY <1>1 DEF SameOwner, Stornos
    <3> QED BY <1>1, <3>1, OnePartner DEF Due
  <2>6. DuePairs(r)'
    BY <1>1, <2>1, <2>2, <2>3, <2>5 DEF DuePairs, Due, Stornos, StornosIn
  <2> QED BY <1>1, <2>1, <2>4, <2>6 DEF PairOK
<1> QED BY <1>2, <1>3

-----------------------------------------------------------------------------
(* Steps that write bookings, and the clock.                               *)

\* Nothing that a request knows of bookings changes when they keep their age
\* and no booking becomes the storno of one found due.
LEMMA CommitFrame ==
  ASSUME NEW q \in Reqs, IInv, PairOK(q), req'[q] = req[q], now' = now, Chosen' = Chosen,
         \A t \in TxIds : txs[t].used => txs'[t].at = txs[t].at,
         \A t \in TxIds : Anonymizing(q) => \A s \in Stornos(t)' :
           s \in Stornos(t) \/ (req[q].due[t] = Nobody /\ req[q].due[s] = Nobody)
  PROVE  PairOK(q)'
<1>1. RequestOK(q) /\ req[q] \in Request
  BY DEF IInv, TypeOK
<1>2. AgeOK(q)' /\ CutoffOK(q)'
  BY DEF PairOK, AgeOK, CutoffOK, Busy
<1>3. WindowOK(q)'
  <2> SUFFICES ASSUME req[q].kind = "cancel" PROVE WindowOK(q)'
    BY DEF WindowOK
  <2>1. req[q].of \in TxIds /\ txs[req[q].of].used
    BY <1>1 DEF RequestOK, FieldsOK, MarkedOK, Request
  <2> QED BY <2>1 DEF PairOK, WindowOK
<1>4. DuePairs(q)'
  <2> SUFFICES ASSUME Anonymizing(q) PROVE DuePairs(q)'
    BY DEF DuePairs, Anonymizing
  <2>1. \A t \in TxIds : req[q].due[t] # Nobody => txs[t].used
    BY <1>1 DEF RequestOK, DueOK
  <2>2. \A t \in TxIds : req[q].due[t] # Nobody => txs'[t].at < req[q].cutoff
    BY <2>1 DEF PairOK, DuePairs
  <2>3. \A t \in TxIds : \A s \in Stornos(t)' : req[q].due[t] # Nobody <=> req[q].due[s] # Nobody
    BY DEF PairOK, DuePairs
  <2> QED BY <2>2, <2>3 DEF DuePairs
<1> QED BY <1>2, <1>3, <1>4 DEF PairOK

\* A storno is given the owner of its booking, which no run is about to forget.
LEMMA CommitBookingPairs ==
  ASSUME PInv, Patient, NEW r \in Reqs, CommitBooking(r), Chosen' = Chosen
  PROVE  SameOwner(txs)' /\ \A q \in Reqs : PairOK(q)'
<1> DEFINE n == req[r].new
           o == req[r].of
<1>1. IInv /\ SameOwner(txs) /\ now' = now /\ (\A q \in Reqs : PairOK(q)) /\ n \in TxIds
      /\ Books(r) /\ req[r].pc = "commit" /\ RequestOK(r) /\ ~txs[n].used /\ o # n
      /\ txs'[n].user = req[r].who /\ txs'[n].cancels = o /\ txs'[n].used
      /\ \A t \in TxIds : t # n =>
           /\ txs'[t].used = txs[t].used /\ txs'[t].user = txs[t].user
           /\ txs'[t].cancels = txs[t].cancels /\ txs'[t].at = txs[t].at
  BY Booked DEF PInv, CommitBooking
<1>2. Drop(r)
  BY DEF CommitBooking
<1>3. ASSUME NEW t \in TxIds, NEW s \in Stornos(t)'
      PROVE  \/ s \in Stornos(t) /\ s # n /\ t # n
             \/ s = n /\ t = o /\ req[r].kind = "cancel" /\ txs[o].user = req[r].who
  <2>1. s \in TxIds /\ txs'[s].used /\ txs'[s].cancels = t
    BY DEF Stornos, StornosIn
  <2>2. CASE s = n
    <3>1. t = o /\ req[r].kind = "cancel"
      BY <1>1, <2>1, <2>2, ConstantsOK DEF RequestOK, FieldsOK
    <3> QED BY <1>1, <2>2, <3>1 DEF RequestOK, MarkedOK
  <2>3. CASE s # n
    <3>1. s \in Stornos(t)
      BY <1>1, <2>1, <2>3 DEF Stornos, StornosIn
    <3>2. txs[t].used
      BY <1>1, <3>1, OnePartner
    <3> QED BY <1>1, <2>3, <3>1, <3>2
  <2> QED BY <2>2, <2>3
<1>4. SameOwner(txs)'
  <2> SUFFICES ASSUME NEW t \in TxIds, NEW s \in Stornos(t)' PROVE txs'[s].user = txs'[t].user
    BY DEF SameOwner, Stornos
  <2>1. CASE s \in Stornos(t) /\ s # n /\ t # n
    BY <1>1, <2>1 DEF SameOwner, Stornos, StornosIn
  <2>2. CASE s = n /\ t = o /\ txs[o].user = req[r].who
    BY <1>1, <2>2
  <2> QED BY <1>3, <2>1, <2>2
<1>5. ASSUME NEW q \in Reqs, q # r PROVE PairOK(q)'
  <2>1. req'[q] = req[q]
    BY <1>1, <1>2, <1>5, Over DEF OnlyReq
  <2>2. \A t \in TxIds : txs[t].used => txs'[t].at = txs[t].at
    BY <1>1
  <2>3. ASSUME NEW t \in TxIds, Anonymizing(q), NEW s \in Stornos(t)', s \notin Stornos(t)
        PROVE  req[q].due[t] = Nobody /\ req[q].due[s] = Nobody
    <3>1. s = n /\ t = o /\ req[r].kind = "cancel"
      BY <1>3, <2>3
    <3>2. req[q].due[n] = Nobody
      BY <1>1, <2>3 DEF IInv, RequestOK, DueOK
    <3>3. req[q].cutoff <= txs[o].at
      BY <1>1, <2>3, <3>1, NoRace DEF Anonymizing
    <3>4. req[q].due[o] # Nobody => txs[o].at < req[q].cutoff
      BY <1>1, <2>3, <3>1 DEF PairOK, DuePairs
    <3>5. req[q].cutoff \in Int /\ txs[o].at \in Int
      BY <1>1, <3>1 DEF IInv, TypeOK, Request, TxRow
    <3> QED BY <3>1, <3>2, <3>3, <3>4, <3>5
  <2> QED BY <1>1, <2>1, <2>2, <2>3, CommitFrame
<1> QED BY <1>1, <1>2, <1>4, <1>5, Over, IdlePairOK

\* The commit of a run takes the owner from both or from neither.
LEMMA CommitAnonymizationPairs ==
  ASSUME PInv, Patient, NEW r \in Reqs, CommitAnonymization(r), Chosen' = Chosen
  PROVE  SameOwner(txs)' /\ \A q \in Reqs : PairOK(q)'
<1>1. IInv /\ SameOwner(txs) /\ (\A q \in Reqs : PairOK(q)) /\ req[r].pc = "commit"
      /\ Drop(r) /\ Anonymizing(r) /\ RequestOK(r) /\ req[r] \in Request /\ now' = now
      /\ \A t \in TxIds :
           /\ txs'[t].used = txs[t].used /\ txs'[t].cancels = txs[t].cancels
           /\ txs'[t].at = txs[t].at
           /\ t \in req[r].rows => txs'[t].user = Nobody
           /\ t \notin req[r].rows => txs'[t].user = txs[t].user
  BY RunCommitted DEF PInv, CommitAnonymization
<1>2. \A t \in TxIds : t \in req[r].rows <=> req[r].due[t] # Nobody
  BY <1>1 DEF RequestOK, DueOK, RowsLeft
<1>3. \A t \in TxIds : Stornos(t)' = Stornos(t)
  BY <1>1 DEF Stornos, StornosIn
<1>4. SameOwner(txs)'
  <2> SUFFICES ASSUME NEW t \in TxIds, NEW s \in Stornos(t) PROVE txs'[s].user = txs'[t].user
    BY <1>3 DEF SameOwner, Stornos
  <2>1. s \in TxIds /\ txs[s].user = txs[t].user
    BY <1>1 DEF SameOwner, Stornos, StornosIn
  <2>2. t \in req[r].rows <=> s \in req[r].rows
    BY <1>1, <1>2, <2>1 DEF PairOK, DuePairs
  <2> QED BY <1>1, <2>1, <2>2
<1>5. ASSUME NEW q \in Reqs, q # r PROVE PairOK(q)'
  <2>1. req'[q] = req[q]
    BY <1>1, <1>5, Over DEF OnlyReq
  <2> QED BY <1>1, <1>3, <2>1, CommitFrame
<1> QED BY <1>1, <1>4, <1>5, Over, IdlePairOK

LEMMA CommitDeletePairs ==
  ASSUME PInv, Patient, NEW r \in Reqs, CommitDelete(r) \/ Abort(r), Chosen' = Chosen
  PROVE  SameOwner(txs)' /\ \A q \in Reqs : PairOK(q)'
<1>1. IInv /\ SameOwner(txs) /\ (\A q \in Reqs : PairOK(q)) /\ Drop(r) /\ UNCHANGED <<txs, now>>
  BY DEF PInv, CommitDelete, Abort, Tables
<1>2. \A q \in Reqs : q # r => PairOK(q)'
  BY <1>1, Over, PairFrame DEF OnlyReq
<1> QED BY <1>1, <1>2, Over, IdlePairOK

\* The clock waits for a request that is about to outlast the longest stall.
LEMMA EnvironmentPairs ==
  ASSUME PInv, Patient, Environment, Chosen' = Chosen
  PROVE  SameOwner(txs)' /\ \A q \in Reqs : PairOK(q)'
<1>1. /\ txs' = txs /\ req' = req /\ SameOwner(txs) /\ (\A q \in Reqs : PairOK(q))
      /\ now' = now \/ Tick
  BY DEF Environment, CreateUser, ToggleActive, ToggleSpendingLimit, SaveSettings, PInv, Tick
<1>2. CASE now' = now
  BY <1>1, <1>2, PairFrame
<1>3. CASE Tick
  <2> SUFFICES ASSUME NEW q \in Reqs PROVE PairOK(q)'
    BY <1>1
  <2>1. req[q].at \in Nat /\ now \in Nat /\ MaxStall \in Nat
    BY ConstantsOK DEF PInv, IInv, TypeOK, Request
  <2>2. AgeOK(q)'
    BY <1>1, <1>3, <2>1 DEF Tick, PairOK, AgeOK, Busy
  <2>3. WindowOK(q)' /\ CutoffOK(q)' /\ DuePairs(q)'
    BY <1>1 DEF PairOK, WindowOK, CutoffOK, DuePairs, Anonymizing, Stornos, StornosIn
  <2> QED BY <2>2, <2>3 DEF PairOK
<1> QED BY <1>1, <1>2, <1>3

-----------------------------------------------------------------------------
(* The theorem.                                                            *)

LEMMA PairsStep == PInv /\ [Next]_vars => PInv'
<1> SUFFICES ASSUME PInv, [Next]_vars PROVE PInv'
  OBVIOUS
<1>1. IInv /\ IInv'
  BY StepOK DEF PInv
<1>2. Chosen' = Chosen
  <2>1. CASE UNCHANGED vars
    BY <2>1 DEF vars, Chosen
  <2> QED BY <2>1, ChosenStays
<1>3. Patient' <=> Patient
  BY <1>2 DEF Patient
<1> SUFFICES ASSUME Patient PROVE SameOwner(txs)' /\ \A q \in Reqs : PairOK(q)'
  BY <1>1, <1>3 DEF PInv
<1>4. SameOwner(txs) /\ \A q \in Reqs : PairOK(q)
  BY DEF PInv
<1>5. CASE UNCHANGED vars
  BY <1>2, <1>4, <1>5, PairFrame DEF vars
<1>6. ASSUME NEW r \in Reqs, UNCHANGED Tables, OnlyReq(r), PairOK(r)'
      PROVE  SameOwner(txs)' /\ \A q \in Reqs : PairOK(q)'
  <2>1. UNCHANGED <<txs, now>>
    BY <1>6 DEF Tables
  <2>2. \A q \in Reqs : q # r => PairOK(q)'
    BY <1>2, <1>4, <1>6, <2>1, PairFrame DEF OnlyReq
  <2> QED BY <1>4, <1>6, <2>1, <2>2
<1>7. ASSUME NEW r \in Reqs, Start(r) PROVE SameOwner(txs)' /\ \A q \in Reqs : PairOK(q)'
  BY <1>1, <1>2, <1>6, <1>7, StartBegins, BegunOK
<1>8. ASSUME NEW r \in Reqs, Quiet(r) PROVE SameOwner(txs)' /\ \A q \in Reqs : PairOK(q)'
  BY <1>1, <1>2, <1>4, <1>6, <1>8, QuietMoves, MovedOK, IdlePairOK
<1>9. ASSUME NEW r \in Reqs, Scan(r) PROVE SameOwner(txs)' /\ \A q \in Reqs : PairOK(q)'
  BY <1>2, <1>6, <1>9, ScanOK
<1>10. ASSUME NEW r \in Reqs, Proceed(r) \/ Abort(r)
       PROVE  SameOwner(txs)' /\ \A q \in Reqs : PairOK(q)'
  BY <1>2, <1>8, <1>9, <1>10, CommitBookingPairs, CommitAnonymizationPairs, CommitDeletePairs
     DEF Proceed, Quiet
<1> QED BY <1>2, <1>5, <1>7, <1>10, EnvironmentPairs DEF Next

\* A booking and its storno lose their owner together (anonymization.go:11-19),
\* for any number of requests, bookings and runs, while no transaction outlasts
\* the difference between retention and cancellation window; when the settings
\* may change, of any retention and any window that are chosen.
THEOREM PairsCorrect ==
  ASSUME SameOwner(InitTxs),
         "settings" \in Ops => \A a, b \in SettingsChoices :
                                  b.retention > 0 => a.window + MaxStall <= b.retention
  PROVE  Spec => []PairsTogether
<1>1. Init => PInv
  <2> SUFFICES ASSUME Init PROVE PInv
    OBVIOUS
  <2>1. \A r \in Reqs : PairOK(r)
    BY DEF Init, Idle, PairOK, AgeOK, WindowOK, CutoffOK, DuePairs, Anonymizing, Busy
  <2> QED BY <2>1, InitOK DEF PInv, Init
<1>2. PInv => PairsTogether
  <2> SUFFICES ASSUME PInv, settings.window + MaxStall <= settings.retention PROVE SameOwner(txs)
    BY DEF PairsTogether, SameOwner, Stornos
  <2>1. Patient
    BY DEF Patient, Chosen
  <2> QED BY <2>1 DEF PInv
<1> QED BY <1>1, <1>2, PairsStep, PTL DEF Spec

-----------------------------------------------------------------------------
(* Deleting an account, with anonymization runs under way.                 *)

\* The shape of a step of r: it begins, goes on, ends, or has found what is due.
LEMMA StepShapes ==
  ASSUME IInv, IInv', NEW r \in Reqs, Start(r) \/ Proceed(r) \/ Abort(r)
  PROVE  /\ OnlyReq(r)
         /\ \/ UNCHANGED Tables /\ Start(r) /\ ~Busy(r) /\ Begun(req'[r])
            \/ Drop(r)
            \/ /\ UNCHANGED Tables
               /\ req'[r].kind = req[r].kind
               /\ req[r].kind # "cancel" =>
                    /\ req'[r].who = req[r].who /\ req'[r].amt = req[r].amt
                    /\ req'[r].enforce = req[r].enforce /\ req'[r].limit = req[r].limit
<1>1. CASE Start(r)
  BY <1>1, StartBegins
<1>2. CASE Drop(r)
  BY <1>2, Over
<1>3. CASE Quiet(r) /\ ~Drop(r)
  <2>1. UNCHANGED Tables /\ OnlyReq(r) /\ (req'[r] = Idle \/ Moved(r))
    BY <1>3, QuietMoves
  <2>2. CASE req'[r] = Idle
    <3>1. req' \in [Reqs -> Request] /\ req \in [Reqs -> Request]
      BY DEF IInv, TypeOK
    <3>2. Drop(r)
      BY <2>1, <2>2, <3>1 DEF OnlyReq, Drop
    <3> QED BY <1>3, <3>2
  <2>3. CASE Moved(r)
    BY <2>1, <2>3 DEF Moved
  <2> QED BY <2>1, <2>2, <2>3
<1>4. CASE Scan(r) /\ ~Drop(r)
  <2>1. req' = [req EXCEPT ![r] = [req[r] EXCEPT !.pc = "update",
                   !.due = [t \in TxIds |-> IF Due(t, req[r].cutoff) THEN txs[t].user ELSE Nobody]]]
    BY <1>4 DEF Scan
  <2>2. req[r] \in Request /\ req \in [Reqs -> Request] /\ UNCHANGED Tables
    BY <1>4 DEF Scan, IInv, TypeOK
  <2>3. OnlyReq(r)
    BY <2>1, <2>2 DEF OnlyReq
  <2>4. req'[r].kind = req[r].kind /\ req'[r].amt = req[r].amt /\ req'[r].who = req[r].who
        /\ req'[r].limit = req[r].limit /\ req'[r].enforce = req[r].enforce
    BY <2>1, <2>2 DEF Request
  <2> QED BY <2>2, <2>3, <2>4
<1> QED BY <1>1, <1>2, <1>3, <1>4
        DEF Proceed, Quiet, Abort, CommitBooking, CommitDelete, CommitAnonymization

\* A deletion is under way from DeleteUser on.
LEMMA DeletionMoves ==
  ASSUME IInv, IInv', NEW r \in Reqs, Start(r) \/ Proceed(r) \/ Abort(r), req'[r].kind = "delete"
  PROVE  \/ \E a, u \in Users : DeleteUser(r, a, u)
         \/ LockForDelete(r) /\ ~Drop(r)
         \/ CountReferences(r) /\ ~Drop(r)
<1>1. req[r] \in Request /\ FieldsOK(r) /\ req \in [Reqs -> Request]
  BY DEF IInv, TypeOK, RequestOK
<1>2. ~Drop(r)
  BY Over DEF Idle
<1>3. CASE Start(r)
  <2>1. ASSUME NEW k \in Users, NEW u \in Users, NEW t \in TxIds, Debit(r, k, u, t)
        PROVE  req'[r].kind = "order"
    BY <1>1, <2>1 DEF Debit, Begin, Idle
  <2>2. ASSUME NEW a \in Users, NEW u \in Users, NEW t \in TxIds, RegisterDeposit(r, a, u, t)
        PROVE  req'[r].kind = "deposit"
    BY <1>1, <2>2 DEF RegisterDeposit, Begin, Idle
  <2>3. ASSUME NEW u \in Users, NEW t \in TxIds, NEW n \in TxIds, Cancel(r, u, t, n)
        PROVE  req'[r].kind = "cancel"
    BY <1>1, <2>3 DEF Cancel, Begin, Idle
  <2>4. ASSUME NEW a \in Users, RunAnonymization(r, a) PROVE req'[r].kind = "anonymize"
    BY <1>1, <2>4 DEF RunAnonymization, Begin, Idle
  <2> QED BY <1>3, <2>1, <2>2, <2>3, <2>4
          DEF Start, PlaceOrder, CreateCustomTransaction, KioskPlaceOrder,
              CancelTransaction, KioskCancelTransaction, AdminCancelTransaction
<1>4. CASE (Proceed(r) \/ Abort(r)) /\ ~Start(r)
  <2>1. req[r].kind = "delete" /\ req[r].pc \in {"lock", "count", "commit"}
    BY <1>1, <1>2, <1>4, StepShapes DEF FieldsOK, Path
  <2>2. ~CommitBooking(r) /\ ~CommitDelete(r) /\ ~CommitAnonymization(r) /\ ~Abort(r)
    BY <1>2 DEF CommitBooking, CommitDelete, CommitAnonymization, Abort
  <2>3. /\ ~LockUser(r) /\ ~ReadBalance(r) /\ ~InsertBooking(r) /\ ~CheckCreator(r) /\ ~MarkCancelled(r)
        /\ ~TakeAdvisoryLock(r) /\ ~Scan(r) /\ ~ClaimRow(r) /\ ~CreditOwner(r) /\ ~LogRun(r)
    BY <2>1 DEF LockUser, ReadBalance, InsertBooking, CheckCreator, MarkCancelled, TakeAdvisoryLock,
       Scan, ClaimRow, CreditOwner, LogRun
  <2> QED BY <1>2, <1>4, <2>2, <2>3 DEF Proceed
<1> QED BY <1>3, <1>4

\* A booking is there for good, and its owner does not change, but may be forgotten.
LEMMA RowsPersist ==
  ASSUME IInv, Next
  PROVE  \A t \in TxIds : txs[t].used =>
           txs'[t].used /\ txs'[t].amt = txs[t].amt /\ txs'[t].user \in {txs[t].user, Nobody}
<1>1. CASE txs' = txs
  BY <1>1
<1>2. ASSUME NEW r \in Reqs, CommitBooking(r)
      PROVE  \A t \in TxIds : txs[t].used =>
               txs'[t].used /\ txs'[t].amt = txs[t].amt /\ txs'[t].user \in {txs[t].user, Nobody}
  BY <1>2, Booked
<1>3. ASSUME NEW r \in Reqs, CommitAnonymization(r)
      PROVE  \A t \in TxIds : txs[t].used =>
               txs'[t].used /\ txs'[t].amt = txs[t].amt /\ txs'[t].user \in {txs[t].user, Nobody}
  BY <1>3, RunCommitted
<1>4. CASE Environment
  BY <1>1, <1>4 DEF Environment, CreateUser, ToggleActive, ToggleSpendingLimit, SaveSettings, Tick
<1>5. ASSUME NEW r \in Reqs, Start(r) \/ Proceed(r) \/ Abort(r)
      PROVE  txs' = txs \/ CommitBooking(r) \/ CommitAnonymization(r)
  <2>1. CASE CommitDelete(r)
    BY <2>1 DEF CommitDelete
  <2>2. CASE ~CommitDelete(r)
    BY <1>5, <2>2, StartReads, OnlyCommitsWrite DEF Tables
  <2> QED BY <2>1, <2>2
<1> QED BY <1>1, <1>2, <1>3, <1>4, <1>5 DEF Next

\* An account that is held FOR UPDATE is not touched, not even by a run.
LEMMA HeldAccount ==
  ASSUME IInv, Next, NEW q \in Reqs, NEW u \in Users, HoldsUpdate(q, u), ~CommitDelete(q)
  PROVE  users'[u].active = users[u].active /\ users'[u].carry = users[u].carry
<1>1. Live(u) /\ users \in [Users -> UserRow]
  BY DEF IInv, TypeOK, RequestOK, LockedLive
<1>2. CASE Environment
  BY <1>1, <1>2 DEF Environment, CreateUser, ToggleActive, ToggleSpendingLimit, Writable, SaveSettings, Tick, Live
<1>3. ASSUME NEW r \in Reqs, CommitDelete(r)
      PROVE  users'[u].active = users[u].active /\ users'[u].carry = users[u].carry
  <2>1. r # q
    BY <1>3
  <2>2. req[r].who \in Users /\ HoldsUpdate(r, req[r].who)
    BY <1>3 DEF CommitDelete, HoldsUpdate, IInv, RequestOK, FieldsOK
  <2>3. req[r].who # u
    BY <2>1, <2>2 DEF IInv, LocksExclude, Apart
  <2> QED BY <1>1, <1>3, <2>3 DEF CommitDelete
<1>4. ASSUME NEW r \in Reqs, CommitAnonymization(r)
      PROVE  users'[u].active = users[u].active /\ users'[u].carry = users[u].carry
  <2>1. r # q
    BY <1>4 DEF CommitAnonymization, HoldsUpdate
  <2>2. ~HoldsNoKeyUpdate(r, u)
    BY <2>1 DEF IInv, LocksExclude, Apart
  <2>3. users'[u].carry = users[u].carry
    BY <1>4, <2>2, RunCommitted DEF HoldsNoKeyUpdate
  <2>4. users'[u] = users[u] \/ \E c : users'[u] = [users[u] EXCEPT !.carry = c]
    BY <1>4 DEF CommitAnonymization
  <2> QED BY <1>1, <2>3, <2>4 DEF UserRow
<1>5. ASSUME NEW r \in Reqs, Start(r) \/ Proceed(r) \/ Abort(r),
             ~CommitDelete(r), ~CommitAnonymization(r)
      PROVE  users' = users
  <2>1. CASE CommitBooking(r)
    BY <2>1 DEF CommitBooking
  <2>2. CASE ~CommitBooking(r)
    BY <1>5, <2>2, StartReads, OnlyCommitsWrite DEF Tables
  <2> QED BY <2>1, <2>2
<1> QED BY <1>2, <1>3, <1>4, <1>5 DEF Next

\* The bookings a deletion has summed up are the account's, or a run has taken
\* them since; the carryover it has locked offsets what they came to.
SeenOK(r) ==
  req[r].kind = "delete" =>
    /\ \A t \in req[r].seen : txs[t].used /\ txs[t].user \in {req[r].who, Nobody}
    /\ req[r].pc \in {"count", "commit"} =>
         ~users[req[r].who].active /\ users[req[r].who].carry + SumOf(req[r].seen) = 0

SInv == IInv /\ \A r \in Reqs : SeenOK(r)

LEMMA SeenFrame ==
  ASSUME SInv, Next, NEW q \in Reqs, req'[q] = req[q], ~CommitDelete(q)
  PROVE  SeenOK(q)'
<1> SUFFICES ASSUME req[q].kind = "delete" PROVE SeenOK(q)'
  BY DEF SeenOK
<1>1. /\ IInv /\ SeenOK(q) /\ req[q].who \in Users /\ req[q].seen \subseteq TxIds
      /\ req[q].pc \in {"count", "commit"} => HoldsUpdate(q, req[q].who)
  BY DEF SInv, IInv, TypeOK, Request, RequestOK, FieldsOK, HoldsUpdate
<1>2. \A t \in req[q].seen : txs'[t].used /\ txs'[t].amt = txs[t].amt
                             /\ txs'[t].user \in {req[q].who, Nobody}
  BY <1>1, RowsPersist DEF SeenOK
<1>3. SumOf(req[q].seen)' = SumOf(req[q].seen)
  BY <1>2 DEF SumOf
<1>4. CASE req[q].pc \in {"count", "commit"}
  <2>1. /\ users'[req[q].who].active = users[req[q].who].active
        /\ users'[req[q].who].carry = users[req[q].who].carry
    BY <1>1, <1>4, HeldAccount
  <2> QED BY <1>1, <1>2, <1>3, <1>4, <2>1 DEF SeenOK
<1>5. CASE req[q].pc \notin {"count", "commit"}
  BY <1>2, <1>5 DEF SeenOK
<1> QED BY <1>4, <1>5

LEMMA SeenStep ==
  ASSUME SInv, [Next]_vars
  PROVE  SInv'
<1>1. IInv /\ IInv' /\ req \in [Reqs -> Request]
  BY StepOK DEF SInv, IInv, TypeOK
<1>2. CASE UNCHANGED vars
  BY <1>1, <1>2 DEF vars, SInv, SeenOK, SumOf
<1>3. ASSUME NEW q \in Reqs, CommitDelete(q) PROVE req'[q] # req[q]
  <2>1. Drop(q) /\ req[q].kind = "delete"
    BY <1>3 DEF CommitDelete
  <2> QED BY <1>1, <2>1, Over DEF Idle
<1>4. CASE Environment
  <2>1. req' = req
    BY <1>4 DEF Environment, CreateUser, ToggleActive, ToggleSpendingLimit, SaveSettings, Tick
  <2> QED BY <1>1, <1>3, <1>4, <2>1, SeenFrame DEF SInv, Next
<1>5. ASSUME NEW r \in Reqs, Start(r) \/ Proceed(r) \/ Abort(r) PROVE SInv'
  <2>1. OnlyReq(r) /\ Next
    BY <1>1, <1>5, StepShapes DEF Next
  <2>2. \A q \in Reqs : q # r => SeenOK(q)'
    BY <1>3, <2>1, SeenFrame DEF OnlyReq
  <2>3. ASSUME req'[r].kind = "delete" PROVE SeenOK(r)'
    <3>1. CASE \E a, u \in Users : DeleteUser(r, a, u)
      <4>1. PICK a \in Users, u \in Users : DeleteUser(r, a, u)
        BY <3>1
      <4>2. req'[r].pc = "lock" /\ req'[r].who = u /\ req'[r].seen = RowsOf(u) /\ txs' = txs
        BY <1>1, <4>1 DEF DeleteUser, Begin, Idle, Tables
      <4> QED BY <4>2 DEF SeenOK, RowsOf
    <3>2. CASE LockForDelete(r) /\ ~Drop(r)
      <4>1. /\ Goto(r, "count") /\ ~users[req[r].who].active
            /\ users[req[r].who].carry + SumOf(req[r].seen) = 0
            /\ users' = users /\ txs' = txs /\ req[r].kind = "delete"
        BY <3>2 DEF LockForDelete, Tables
      <4>2. req'[r].who = req[r].who /\ req'[r].seen = req[r].seen
        BY <1>1, <4>1 DEF Goto, Request
      <4> QED BY <4>1, <4>2 DEF SeenOK, SInv, SumOf
    <3>3. CASE CountReferences(r) /\ ~Drop(r)
      <4>1. Goto(r, "commit") /\ req[r].pc = "count" /\ users' = users /\ txs' = txs
        BY <3>3 DEF CountReferences, Tables
      <4>2. req'[r].who = req[r].who /\ req'[r].seen = req[r].seen /\ req'[r].kind = req[r].kind
        BY <1>1, <4>1 DEF Goto, Request
      <4> QED BY <2>3, <4>1, <4>2 DEF SeenOK, SInv, SumOf
    <3> QED BY <1>1, <1>5, <2>3, <3>1, <3>2, <3>3, DeletionMoves
  <2>4. SeenOK(r)'
    BY <2>3 DEF SeenOK
  <2> QED BY <1>1, <2>2, <2>4 DEF SInv
<1> QED BY <1>2, <1>4, <1>5 DEF Next

\* An account goes only by the commit of a deletion, whatever else goes on.
LEMMA DeletionCommits ==
  ASSUME IInv, Next, NEW u \in Users, Live(u), ~Live(u)'
  PROVE  \E r \in Reqs : CommitDelete(r) /\ req[r].who = u
<1>1. users \in [Users -> UserRow] /\ users'[u].st # "live" /\ users[u].st = "live"
  BY DEF IInv, TypeOK, Live
<1>2. CASE Environment
  BY <1>1, <1>2 DEF Environment, CreateUser, ToggleActive, ToggleSpendingLimit, SaveSettings, Tick, UserRow
<1>3. ASSUME NEW r \in Reqs, Start(r) \/ Proceed(r) \/ Abort(r)
      PROVE  CommitDelete(r) /\ req[r].who = u
  <2>1. ~CommitAnonymization(r)
    BY <1>1, RunCommitted
  <2>2. ~CommitBooking(r)
    BY <1>1 DEF CommitBooking
  <2>3. CommitDelete(r)
    BY <1>1, <1>3, <2>1, <2>2, StartReads, OnlyCommitsWrite DEF Tables
  <2> QED BY <1>1, <2>3 DEF CommitDelete
<1> QED BY <1>2, <1>3 DEF Next

\* The account is inactive, nothing names it, and what its carryover lacks to
\* zero is exactly what the bookings of its deletion's snapshot came to, all of
\* which have lost their owner since.
SettledOrForgotten(u) ==
  /\ ~users[u].active /\ References(u) = {}
  /\ \E r \in Reqs :
       /\ req[r].kind = "delete" /\ req[r].who = u
       /\ \A t \in req[r].seen : txs[t].used /\ txs[t].user = Nobody
       /\ users[u].carry + SumOf(req[r].seen) = 0

LEMMA ClosedAtCommit ==
  ASSUME SInv, NEW r \in Reqs, CommitDelete(r)
  PROVE  SettledOrForgotten(req[r].who)
<1>1. req[r].kind = "delete" /\ req[r].pc = "commit" /\ RequestOK(r) /\ SeenOK(r)
      /\ req[r].seen \subseteq TxIds
  BY DEF CommitDelete, SInv, IInv, TypeOK, Request
<1>2. References(req[r].who) = {}
  BY <1>1 DEF RequestOK, Unreferenced
<1>3. \A t \in req[r].seen : txs[t].used /\ txs[t].user = Nobody
  BY <1>1, <1>2 DEF SeenOK, References
<1> QED BY <1>1, <1>2, <1>3 DEF SeenOK, SettledOrForgotten

\* Anonymization runs may be under way: an account is still deleted only when it
\* is inactive and no booking names it, and when a balance is lost with it, that
\* is the counterpart of bookings that were its own when the statement of the
\* deletion began and that a run has anonymized since (delete_user.go:92-130).  This is all that can go wrong: where no run comes in
\* between, there are no such bookings, and the carryover is zero.
THEOREM DeletedUnlessForgotten ==
  Spec => [][\A u \in Users : Live(u) /\ ~Live(u)' => SettledOrForgotten(u)]_vars
<1>1. Init => SInv
  <2> SUFFICES ASSUME Init PROVE SInv
    OBVIOUS
  <2> QED BY InitOK DEF Init, Idle, SInv, SeenOK
<1>2. SInv /\ [Next]_vars => SInv'
  BY SeenStep
<1>3. SInv /\ [Next]_vars => [\A u \in Users : Live(u) /\ ~Live(u)' => SettledOrForgotten(u)]_vars
  <2> SUFFICES ASSUME SInv, Next, NEW u \in Users, Live(u), ~Live(u)'
               PROVE  SettledOrForgotten(u)
    OBVIOUS
  <2>1. PICK r \in Reqs : CommitDelete(r) /\ req[r].who = u
    BY DeletionCommits DEF SInv
  <2> QED BY <2>1, ClosedAtCommit
<1> QED BY <1>1, <1>2, <1>3, PTL DEF Spec
=============================================================================
