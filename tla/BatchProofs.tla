---------------------------- MODULE BatchProofs ----------------------------
(* Proofs about the batch edit of the menu, for any number of items, files, *)
(* sessions and requests: types, and that it implements the catalogue.      *)
EXTENDS BatchCatalogue, TLAPS

Applying(q) == q.pc \in {"get", "update", "commit"}

\* The number of changes an application has written.
Done(q) == Len(q.all) - Len(q.changes)

\* What is left is the rest of the session.
RestOK(q) ==
  /\ q.pc \in {"get", "update"} => q.changes # <<>>
  /\ q.pc = "commit" => q.changes = <<>>
  /\ Applying(q) =>
       /\ q.token \in Tokens /\ Done(q) \in Nat
       /\ \A k \in 1..Len(q.changes) : q.changes[k] = q.all[Done(q) + k]
  /\ ~Applying(q) => q.token = Unused /\ \A i \in Items : q.wrote[i] = NoContent

\* What is written is what the last of the changes so far says.
WroteOK(q, i) ==
  IF q.wrote[i] = NoContent
    THEN \A k \in 1..Done(q) : q.all[k].item # i
    ELSE \E k \in 1..Done(q) :
           /\ q.all[k].item = i /\ q.all[k].new = q.wrote[i]
           /\ \A j \in 1..Done(q) : q.all[j].item = i => j <= k

\* Nobody deletes an item that a transaction has updated.
WrittenLive(q, it) == \A i \in Items : q.wrote[i] # NoContent => ~it[i].deleted

BatchOK(q, it) ==
  RestOK(q) /\ WrittenLive(q, it) /\ (Applying(q) => \A i \in Items : WroteOK(q, i))

\* A session that is applied is in memory no more, and applied once.
TakenOnce(rq, ss) ==
  /\ \A r \in Reqs : Applying(rq[r]) => ss[rq[r].token] = Taken
  /\ \A r, s \in Reqs : r # s /\ Applying(rq[r]) /\ Applying(rq[s]) => rq[r].token # rq[s].token

BatchInv ==
  /\ TypeOK /\ sessions = [t \in Tokens |-> sessions[t]]
  /\ TakenOnce(req, sessions) /\ \A r \in Reqs : BatchOK(req[r], items)

-----------------------------------------------------------------------------
LEMMA IdleOK ==
  /\ Idle \in Request /\ ~Applying(Idle) /\ Idle.token = Unused
  /\ \A it : BatchOK(Idle, it)
<1> DEFINE none == [i \in Items |-> NoContent]
<1>1. none \in [Items -> Contents \cup {NoContent}] /\ \A i \in Items : none[i] = NoContent
  OBVIOUS
<1>2. Idle = [pc |-> "idle", file |-> <<>>, changes |-> <<>>, all |-> <<>>,
              token |-> Unused, wrote |-> none]
  BY DEF Idle
<1> HIDE DEF none
<1>3. <<>> \in Seq(Line) /\ <<>> \in Seq(Change)
  OBVIOUS
<1>4. Idle \in Request
  BY <1>1, <1>2, <1>3 DEF Request
<1>5. /\ Idle.pc = "idle" /\ Idle.token = Unused /\ \A i \in Items : Idle.wrote[i] = NoContent
  BY <1>1, <1>2
<1> QED
  BY <1>4, <1>5 DEF Applying, BatchOK, RestOK, WrittenLive

LEMMA BatchInvInit == ASSUME Init PROVE BatchInv
<1>1. \A r \in Reqs : req[r] = Idle
  BY DEF Init
<1>2. items \in [Items -> ItemRow]
  <2>1. [deleted : {FALSE}, content : Contents] \subseteq ItemRow
    BY DEF ItemRow
  <2> QED
    BY <2>1 DEF Init
<1>3. sessions = [t \in Tokens |-> sessions[t]] /\ \A t \in Tokens : ~HasSession(t)
  BY DEF Init, HasSession
<1>4. now \in 0..MaxTime /\ req \in [Reqs -> Request]
  BY IdleOK, BatchConstants DEF Init
<1>5. TypeOK
  BY <1>2, <1>3, <1>4 DEF TypeOK
<1> QED
  BY <1>1, <1>3, <1>5, IdleOK DEF BatchInv, TakenOnce

LEMMA SessionType ==
  ASSUME BatchInv, NEW t \in Tokens, HasSession(t)
  PROVE  sessions[t].changes \in Seq(Change) /\ sessions[t].at \in Nat
  BY DEF BatchInv, TypeOK, Session

\* A step of request r that leaves items and sessions alone.
LEMMA ReqMoves ==
  ASSUME BatchInv, NEW r \in Reqs, NEW q \in Request, req' = [req EXCEPT ![r] = q],
         UNCHANGED <<items, sessions, now>>,
         BatchOK(q, items), Applying(q) => Applying(req[r]) /\ q.token = req[r].token
  PROVE  BatchInv'
<1>1. \A s \in Reqs : req'[s] = IF s = r THEN q ELSE req[s]
  BY DEF BatchInv, TypeOK
<1>2. \A s \in Reqs : BatchOK(req'[s], items)
  BY <1>1 DEF BatchInv
<1>3. TakenOnce(req', sessions)
  BY <1>1 DEF BatchInv, TakenOnce
<1>4. TypeOK'
  BY <1>1 DEF BatchInv, TypeOK, HasSession
<1> QED
  BY <1>2, <1>3, <1>4 DEF BatchInv

LEMMA DropMoves ==
  ASSUME BatchInv, NEW r \in Reqs, Drop(r), UNCHANGED <<items, sessions, now>> PROVE BatchInv'
  BY ReqMoves, IdleOK DEF Drop

-----------------------------------------------------------------------------
(* Uploading. *)

LEMMA UploadStep ==
  ASSUME BatchInv, NEW r \in Reqs, NEW f \in Files, Upload(r, f) PROVE BatchInv'
<1> DEFINE q == [Idle EXCEPT !.pc = "parse", !.file = f]
<1>1. f \in Seq(Line)
  BY BatchConstants
<1>2. /\ q \in Request /\ q.pc = "parse" /\ q.token = Unused
      /\ \A i \in Items : q.wrote[i] = NoContent
  <2>1. Idle \in Request /\ Idle.token = Unused /\ \A i \in Items : Idle.wrote[i] = NoContent
    BY IdleOK DEF BatchOK, RestOK
  <2> QED
    BY <1>1, <2>1 DEF Request
<1>3. req' = [req EXCEPT ![r] = q] /\ UNCHANGED <<items, now>>
  BY DEF Upload
<1>4. sessions' = [t \in Tokens |-> IF Expired(t) THEN Taken ELSE sessions[t]]
  BY DEF Upload
<1> HIDE DEF q
<1>5. \A s \in Reqs : req'[s] = IF s = r THEN q ELSE req[s]
  BY <1>3 DEF BatchInv, TypeOK
<1>6. ~Applying(q) /\ BatchOK(q, items)
  BY <1>2 DEF Applying, BatchOK, RestOK, WrittenLive
<1>7. \A s \in Reqs : BatchOK(req'[s], items)
  BY <1>5, <1>6 DEF BatchInv
<1>8. \A t \in Tokens : sessions[t] = Taken => sessions'[t] = Taken
  BY <1>4
<1>9. TakenOnce(req', sessions')
  <2>1. \A s \in Reqs : Applying(req[s]) => req[s].token \in Tokens
    BY DEF BatchInv, BatchOK, RestOK
  <2> QED
    BY <1>5, <1>6, <1>8, <2>1 DEF BatchInv, TakenOnce
<1>10. \A t \in Tokens : HasSession(t)' => sessions'[t] = sessions[t]
  BY <1>4 DEF HasSession
<1>11. TypeOK'
  BY <1>2, <1>3, <1>10 DEF BatchInv, TypeOK, HasSession
<1>12. sessions' = [t \in Tokens |-> sessions'[t]]
  BY <1>4
<1> QED
  BY <1>3, <1>7, <1>9, <1>11, <1>12 DEF BatchInv

LEMMA ParseLineStep ==
  ASSUME BatchInv, NEW r \in Reqs, ParseLine(r) PROVE BatchInv'
<1> DEFINE line == Head(req[r].file)
           warns == line.item = NoItem \/ items[line.item].deleted
           found == IF warns \/ items[line.item].content = line.new
                      THEN req[r].changes ELSE Append(req[r].changes, line)
           q == [req[r] EXCEPT !.file = Tail(@), !.changes = found]
<1>1. req[r] \in Request /\ req[r].pc = "parse" /\ req[r].file # <<>> /\ BatchOK(req[r], items)
  BY DEF BatchInv, TypeOK, ParseLine
<1>2. req[r].file \in Seq(Line) /\ req[r].changes \in Seq(Change)
  BY <1>1 DEF Request
<1>3. line \in Line /\ Tail(req[r].file) \in Seq(Line)
  BY <1>1, <1>2
<1>4. ~warns => line \in Change
  BY <1>3 DEF Line, Change
<1>5. found \in Seq(Change)
  BY <1>2, <1>4
<1>6. req' = [req EXCEPT ![r] = q] /\ UNCHANGED <<items, sessions, now>>
  BY DEF ParseLine
<1> HIDE DEF found
<1>7. q \in Request /\ q.pc = "parse" /\ q.token = req[r].token /\ q.wrote = req[r].wrote
  BY <1>1, <1>3, <1>5 DEF Request
<1> HIDE DEF q
<1>8. ~Applying(q) /\ BatchOK(q, items)
  BY <1>1, <1>7 DEF Applying, BatchOK, RestOK, WrittenLive
<1> QED
  BY <1>6, <1>7, <1>8, ReqMoves

LEMMA StoreSessionStep ==
  ASSUME BatchInv, NEW r \in Reqs, NEW t \in Tokens, StoreSession(r, t) PROVE BatchInv'
<1> DEFINE e == [changes |-> req[r].changes, at |-> now]
<1>1. e \in Session
  BY DEF BatchInv, TypeOK, Request, Session
<1>2. /\ sessions' = [sessions EXCEPT ![t] = e] /\ req' = [req EXCEPT ![r] = Idle]
      /\ sessions[t] = Unused /\ UNCHANGED <<items, now>>
  BY DEF StoreSession, Drop
<1> HIDE DEF e
<1>3. \A s \in Reqs : req'[s] = IF s = r THEN Idle ELSE req[s]
  BY <1>2 DEF BatchInv, TypeOK
<1>4. \A s \in Reqs : BatchOK(req'[s], items)
  BY <1>3, IdleOK DEF BatchInv
<1>5. /\ sessions' = [u \in Tokens |-> sessions'[u]]
      /\ \A u \in Tokens : sessions'[u] = IF u = t THEN e ELSE sessions[u]
  BY <1>2 DEF BatchInv
<1>6. \A u \in Tokens : sessions[u] = Taken => sessions'[u] = Taken
  BY <1>2, <1>5, BatchConstants
<1>7. TakenOnce(req', sessions')
  <2>1. \A s \in Reqs : Applying(req[s]) => req[s].token \in Tokens
    BY DEF BatchInv, BatchOK, RestOK
  <2> QED
    BY <1>3, <1>6, <2>1, IdleOK DEF BatchInv, TakenOnce
<1>8. \A u \in Tokens : HasSession(u)' => sessions'[u] \in Session
  BY <1>1, <1>5 DEF BatchInv, TypeOK, HasSession
<1>9. TypeOK'
  BY <1>2, <1>8, IdleOK DEF BatchInv, TypeOK
<1> QED
  BY <1>2, <1>4, <1>5, <1>7, <1>9 DEF BatchInv

-----------------------------------------------------------------------------
(* Applying. *)

LEMMA TakeSessionStep ==
  ASSUME BatchInv, NEW r \in Reqs, NEW t \in Tokens, TakeSession(r, t) PROVE BatchInv'
<1> DEFINE cs == sessions[t].changes
           q == [Idle EXCEPT !.pc = "get", !.token = t, !.changes = cs, !.all = cs]
<1>1. /\ sessions' = [sessions EXCEPT ![t] = Taken] /\ UNCHANGED <<items, now>>
      /\ HasSession(t) /\ cs \in Seq(Change)
  BY SessionType DEF TakeSession
<1>2. /\ sessions' = [u \in Tokens |-> sessions'[u]]
      /\ \A u \in Tokens : sessions'[u] = IF u = t THEN Taken ELSE sessions[u]
  BY <1>1 DEF BatchInv
<1>3. \A s \in Reqs : Applying(req[s]) => req[s].token \in Tokens /\ req[s].token # t
  BY <1>1 DEF BatchInv, BatchOK, RestOK, TakenOnce, HasSession
<1>4. \A u \in Tokens : HasSession(u)' => sessions'[u] \in Session
  BY <1>2 DEF BatchInv, TypeOK, HasSession
<1>5. CASE req' = req
  BY <1>1, <1>2, <1>3, <1>4, <1>5 DEF BatchInv, TypeOK, TakenOnce
<1>6. CASE req' # req
  <2>1. req' = [req EXCEPT ![r] = q] /\ cs # <<>>
    BY <1>6 DEF TakeSession
  <2>2. Idle \in Request /\ \A i \in Items : Idle.wrote[i] = NoContent
    BY IdleOK DEF BatchOK, RestOK
  <2>3. /\ q \in Request /\ q.pc = "get" /\ q.token = t /\ q.changes = cs /\ q.all = cs
        /\ \A i \in Items : q.wrote[i] = NoContent
    BY <1>1, <2>2 DEF Request
  <2> HIDE DEF q
  <2>4. Applying(q) /\ Done(q) = 0
    BY <1>1, <2>3 DEF Applying, Done
  <2>5. RestOK(q)
    BY <1>1, <2>1, <2>3, <2>4 DEF RestOK
  <2>6. BatchOK(q, items)
    BY <2>3, <2>4, <2>5 DEF BatchOK, WroteOK, WrittenLive
  <2>7. \A s \in Reqs : req'[s] = IF s = r THEN q ELSE req[s]
    BY <2>1 DEF BatchInv, TypeOK
  <2>8. TakenOnce(req', sessions')
    BY <1>2, <1>3, <2>3, <2>7 DEF BatchInv, TakenOnce
  <2>9. \A s \in Reqs : BatchOK(req'[s], items)
    BY <2>6, <2>7 DEF BatchInv
  <2>10. TypeOK'
    BY <1>1, <1>4, <2>1, <2>3 DEF BatchInv, TypeOK
  <2> QED
    BY <1>1, <1>2, <2>8, <2>9, <2>10 DEF BatchInv
<1> QED
  BY <1>5, <1>6

LEMMA GetItemStep ==
  ASSUME BatchInv, NEW r \in Reqs, GetItem(r) PROVE BatchInv'
<1> DEFINE q == [req[r] EXCEPT !.pc = "update"]
<1>1. CASE Drop(r)
  BY <1>1, DropMoves DEF GetItem
<1>2. CASE req' = [req EXCEPT ![r] = q]
  <2>1. req[r] \in Request /\ BatchOK(req[r], items) /\ req[r].pc = "get"
    BY DEF BatchInv, TypeOK, GetItem
  <2>2. /\ q \in Request /\ q.pc = "update" /\ q.token = req[r].token /\ q.all = req[r].all
        /\ q.changes = req[r].changes /\ q.wrote = req[r].wrote
    BY <2>1 DEF Request
  <2> HIDE DEF q
  <2>3. Applying(q) /\ Applying(req[r]) /\ Done(q) = Done(req[r])
    BY <2>1, <2>2 DEF Applying, Done
  <2>4. BatchOK(q, items)
    BY <2>1, <2>2, <2>3 DEF BatchOK, RestOK, WroteOK, WrittenLive
  <2> QED
    BY <1>2, <2>2, <2>3, <2>4, ReqMoves DEF GetItem
<1> QED
  BY <1>1, <1>2 DEF GetItem

\* One change more is written.
LEMMA UpdateItemStep ==
  ASSUME BatchInv, NEW r \in Reqs, UpdateItem(r) PROVE BatchInv'
<1> DEFINE o == req[r]
           n == Done(o)
           i == Head(o.changes).item
           c == Head(o.changes).new
           w == [o.wrote EXCEPT ![i] = c]
           p == IF Tail(o.changes) = <<>> THEN "commit" ELSE "get"
           q == [o EXCEPT !.pc = p, !.changes = Tail(o.changes), !.wrote = w]
<1>1. CASE Drop(r)
  BY <1>1, DropMoves DEF UpdateItem
<1>2. CASE ~Drop(r)
  <2>1. o \in Request /\ BatchOK(o, items) /\ o.pc = "update" /\ Applying(o)
    BY DEF BatchInv, TypeOK, UpdateItem, Applying
  <2>2. o.changes \in Seq(Change) /\ o.all \in Seq(Change) /\ o.wrote \in [Items -> Contents \cup {NoContent}]
    BY <2>1 DEF Request
  <2>3. o.changes # <<>> /\ n \in Nat /\ \A k \in 1..Len(o.changes) : o.changes[k] = o.all[n + k]
    BY <2>1 DEF BatchOK, RestOK
  <2>4. i \in Items /\ c \in Contents /\ c # NoContent
    <3>1. Head(o.changes) \in Change
      BY <2>2, <2>3
    <3> QED
      BY <3>1, BatchConstants DEF Change
  <2>5. req' = [req EXCEPT ![r] = q] /\ UNCHANGED <<items, sessions, now>> /\ ~items[i].deleted
    BY <1>2 DEF UpdateItem
  <2>6. /\ w \in [Items -> Contents \cup {NoContent}] /\ w[i] = c
        /\ \A j \in Items \ {i} : w[j] = o.wrote[j]
    BY <2>2, <2>4
  <2>7. /\ Tail(o.changes) \in Seq(Change) /\ Len(Tail(o.changes)) = Len(o.changes) - 1
        /\ \A k \in 1..Len(Tail(o.changes)) : Tail(o.changes)[k] = o.changes[k + 1]
    BY <2>2, <2>3
  <2>8. p \in {"commit", "get"} /\ (p = "commit" <=> Tail(o.changes) = <<>>)
    OBVIOUS
  <2> HIDE DEF w, p
  <2>9. /\ q \in Request /\ q.pc = p /\ q.token = o.token /\ q.all = o.all
        /\ q.changes = Tail(o.changes) /\ q.wrote = w
    BY <2>1, <2>6, <2>7, <2>8 DEF Request
  <2> HIDE DEF q
  <2>10. Applying(q) /\ Done(q) = n + 1 /\ Len(o.changes) \in Nat /\ Len(o.all) \in Nat
    <3>1. Len(o.changes) \in Nat /\ Len(o.all) \in Nat
      BY <2>2
    <3>2. Applying(q)
      BY <2>8, <2>9 DEF Applying
    <3>3. Done(q) = Len(o.all) - (Len(o.changes) - 1)
      BY <2>7, <2>9 DEF Done
    <3>4. n = Len(o.all) - Len(o.changes)
      BY DEF Done
    <3> HIDE DEF n, o
    <3> QED
      BY <3>1, <3>2, <3>3, <3>4
  <2>11. Head(o.changes) = o.all[n + 1] /\ o.all[n + 1].item = i /\ o.all[n + 1].new = c
    <3>1. 1 \in 1..Len(o.changes) /\ Head(o.changes) = o.changes[1]
      BY <2>2, <2>3
    <3> QED
      BY <2>3, <3>1
  <2> HIDE DEF i, c
  <2>12. RestOK(q)
    <3>1. q.token \in Tokens
      BY <2>1, <2>9 DEF BatchOK, RestOK
    <3>2. \A k \in 1..Len(q.changes) : q.changes[k] = q.all[Done(q) + k]
      <4> SUFFICES ASSUME NEW k \in 1..Len(q.changes) PROVE q.changes[k] = q.all[Done(q) + k]
        OBVIOUS
      <4>1. k \in Int /\ k + 1 \in 1..Len(o.changes)
        BY <2>7, <2>9, <2>10
      <4>2. q.changes[k] = o.changes[k + 1]
        BY <2>7, <2>9
      <4>3. o.changes[k + 1] = o.all[n + (k + 1)]
        BY <2>3, <4>1
      <4>4. Done(q) + k = n + (k + 1)
        BY <2>3, <2>10, <4>1
      <4> QED
        BY <2>9, <4>2, <4>3, <4>4
    <3> HIDE DEF n
    <3> QED
      BY <2>3, <2>8, <2>9, <2>10, <3>1, <3>2 DEF RestOK
  <2>13. WrittenLive(q, items)
    BY <2>1, <2>5, <2>6, <2>9 DEF BatchOK, WrittenLive
  <2>14. ASSUME NEW j \in Items PROVE WroteOK(q, j)
    <3>0. WroteOK(o, j)
      BY <2>1 DEF BatchOK
    <3> HIDE DEF o
    <3>1. CASE j = i
      <4>1. q.wrote[j] = c /\ n + 1 \in 1..Done(q) /\ \A k \in 1..Done(q) : k <= n + 1
        BY <2>3, <2>6, <2>9, <2>10, <3>1
      <4> QED
        BY <2>4, <2>9, <2>11, <3>1, <4>1 DEF WroteOK
    <3>2. CASE j # i
      <4>1. q.wrote[j] = o.wrote[j]
        BY <2>6, <2>9, <3>2
      <4>2. \A k \in 1..Done(q) : k \in 1..n \/ k = n + 1
        BY <2>3, <2>10
      <4>3. \A k \in 1..n : k \in 1..Done(q)
        BY <2>3, <2>10
      <4>4. \A k \in 1..Done(q) : q.all[k].item = j => k \in 1..n
        BY <2>9, <2>11, <3>2, <4>2
      <4> QED
        BY <2>9, <3>0, <4>1, <4>3, <4>4 DEF WroteOK
    <3> QED
      BY <3>1, <3>2
  <2>15. BatchOK(q, items)
    BY <2>12, <2>13, <2>14 DEF BatchOK
  <2> QED
    BY <2>1, <2>5, <2>9, <2>15, ReqMoves
<1> QED
  BY <1>1, <1>2

\* A step that changes the contents, or deletes what nobody has written.
LEMMA ItemsMove ==
  ASSUME BatchInv, NEW rq, rq = req \/ (\E r \in Reqs : rq = [req EXCEPT ![r] = Idle]),
         req' = rq, items' \in [Items -> ItemRow], UNCHANGED <<sessions, now>>,
         \A i \in Items : items'[i].deleted => items[i].deleted \/ Holders(i) = {}
  PROVE  BatchInv'
<1>1. req' \in [Reqs -> Request] /\ \A s \in Reqs : req'[s] = req[s] \/ req'[s] = Idle
  BY IdleOK DEF BatchInv, TypeOK
<1>2. ASSUME NEW s \in Reqs PROVE BatchOK(req'[s], items')
  <2>1. CASE req'[s] = Idle
    BY <2>1, IdleOK
  <2>2. CASE req'[s] = req[s]
    <3>1. BatchOK(req[s], items)
      BY DEF BatchInv
    <3>2. WrittenLive(req[s], items')
      BY <3>1 DEF BatchOK, WrittenLive, Holders
    <3> QED
      BY <2>2, <3>1, <3>2 DEF BatchOK
  <2> QED
    BY <1>1, <2>1, <2>2
<1>3. TakenOnce(req', sessions')
  BY <1>1, IdleOK DEF BatchInv, TakenOnce
<1>4. TypeOK'
  BY <1>1 DEF BatchInv, TypeOK, HasSession
<1> QED
  BY <1>2, <1>3, <1>4 DEF BatchInv

LEMMA CommitStep ==
  ASSUME BatchInv, NEW r \in Reqs, Commit(r) PROVE BatchInv'
<1> DEFINE rq == [req EXCEPT ![r] = Idle]
<1>1. req' = rq /\ UNCHANGED <<sessions, now>>
  BY DEF Commit, Drop
<1>2. \A i \in Items : items[i] \in ItemRow /\ req[r].wrote[i] \in Contents \cup {NoContent}
  BY DEF BatchInv, TypeOK, Request
<1>3. ASSUME NEW i \in Items
      PROVE  items'[i] \in ItemRow /\ items'[i].deleted = items[i].deleted
  <2>1. items'[i] = IF req[r].wrote[i] = NoContent THEN items[i]
                    ELSE [items[i] EXCEPT !.content = req[r].wrote[i]]
    BY DEF Commit
  <2>2. CASE req[r].wrote[i] = NoContent
    BY <1>2, <2>1, <2>2
  <2>3. CASE req[r].wrote[i] # NoContent
    BY <1>2, <2>1, <2>3 DEF ItemRow
  <2> QED
    BY <2>2, <2>3
<1>4. items' \in [Items -> ItemRow]
  BY <1>3 DEF Commit
<1> QED
  BY <1>1, <1>3, <1>4, ItemsMove

LEMMA OthersStep ==
  ASSUME BatchInv,
         \/ \E i \in Items : SoftDeleteItem(i) \/ \E c \in Contents : EditItem(i, c)
         \/ Tick
  PROVE  BatchInv'
<1>1. ASSUME NEW i \in Items, SoftDeleteItem(i) PROVE BatchInv'
  <2> DEFINE e == [items[i] EXCEPT !.deleted = TRUE]
  <2>1. items \in [Items -> ItemRow] /\ items[i] \in ItemRow
    BY DEF BatchInv, TypeOK
  <2>2. e \in ItemRow
    BY <2>1 DEF ItemRow
  <2>3. items' = [items EXCEPT ![i] = e] /\ Holders(i) = {} /\ UNCHANGED <<sessions, now, req>>
    BY <1>1 DEF SoftDeleteItem
  <2> HIDE DEF e
  <2>4. items' \in [Items -> ItemRow] /\ \A j \in Items \ {i} : items'[j] = items[j]
    BY <2>1, <2>2, <2>3
  <2> QED
    BY <2>3, <2>4, ItemsMove
<1>2. ASSUME NEW i \in Items, NEW c \in Contents, EditItem(i, c) PROVE BatchInv'
  <2> DEFINE e == [items[i] EXCEPT !.content = c]
  <2>1. items \in [Items -> ItemRow] /\ items[i] \in ItemRow
    BY DEF BatchInv, TypeOK
  <2>2. e \in ItemRow /\ e.deleted = items[i].deleted
    BY <2>1 DEF ItemRow
  <2>3. items' = [items EXCEPT ![i] = e] /\ UNCHANGED <<sessions, now, req>>
    BY <1>2 DEF EditItem
  <2> HIDE DEF e
  <2>4. items' \in [Items -> ItemRow] /\ items'[i] = e /\ \A j \in Items \ {i} : items'[j] = items[j]
    BY <2>1, <2>2, <2>3
  <2> QED
    BY <2>2, <2>3, <2>4, ItemsMove
<1>3. CASE Tick
  <2>1. UNCHANGED <<items, sessions, req>> /\ now' \in 0..MaxTime
    BY <1>3, BatchConstants DEF Tick, BatchInv, TypeOK
  <2> QED
    BY <2>1 DEF BatchInv, TypeOK, HasSession
<1> QED
  BY <1>1, <1>2, <1>3

LEMMA RestartStep == ASSUME BatchInv, Restart PROVE BatchInv'
<1>1. /\ sessions' = [t \in Tokens |-> sessions'[t]] /\ \A t \in Tokens : ~HasSession(t)'
      /\ UNCHANGED <<items, now>> /\ req' = [r \in Reqs |-> Idle]
  BY DEF Restart, HasSession
<1>2. \A r \in Reqs : req'[r] = Idle
  BY <1>1
<1>3. TypeOK'
  BY <1>1, <1>2, IdleOK DEF BatchInv, TypeOK
<1> QED
  BY <1>1, <1>2, <1>3, IdleOK DEF BatchInv, TakenOnce

LEMMA BatchInvStep == BatchInv /\ [Next]_vars => BatchInv'
<1> SUFFICES ASSUME BatchInv, [Next]_vars PROVE BatchInv'
  OBVIOUS
<1>1. ASSUME NEW r \in Reqs, NEW f \in Files, Upload(r, f) PROVE BatchInv'
  BY <1>1, UploadStep
<1>2. ASSUME NEW r \in Reqs, NEW t \in Tokens, TakeSession(r, t) PROVE BatchInv'
  BY <1>2, TakeSessionStep
<1>3. ASSUME NEW r \in Reqs, Proceed(r) PROVE BatchInv'
  BY <1>3, ParseLineStep, StoreSessionStep, GetItemStep, UpdateItemStep, CommitStep DEF Proceed
<1>4. ASSUME NEW r \in Reqs, BreakDeadlock(r) \/ Abort(r) PROVE BatchInv'
  BY <1>4, DropMoves DEF BreakDeadlock, Abort
<1>5. CASE \/ \E i \in Items : SoftDeleteItem(i) \/ \E c \in Contents : EditItem(i, c)
           \/ Tick
  BY <1>5, OthersStep
<1>6. CASE Restart
  BY <1>6, RestartStep
<1>7. CASE UNCHANGED vars
  BY <1>7 DEF vars, BatchInv, TypeOK, HasSession
<1> QED
  BY <1>1, <1>2, <1>3, <1>4, <1>5, <1>6, <1>7 DEF Next

-----------------------------------------------------------------------------
(* The theorems.                                                            *)

LEMMA Inductive == Spec => []BatchInv
  BY BatchInvInit, BatchInvStep, PTL DEF Spec

\* Every variable keeps its type.
THEOREM BatchTypeCorrect == Spec => []TypeOK
<1>1. BatchInv => TypeOK
  BY DEF BatchInv
<1> QED
  BY <1>1, Inductive, PTL

-----------------------------------------------------------------------------
(* The catalogue.                                                           *)

OfferIn(t, rq, ss) ==
  IF {r \in Reqs : rq[r].token = t} # {} THEN rq[CHOOSE r \in {r \in Reqs : rq[r].token = t} : TRUE].all
  ELSE IF ss[t] \notin {Unused, Taken} THEN ss[t].changes
  ELSE ss[t]

\* Request r applies session t.
Applies(r, t, rq) == Applying(rq[r]) /\ rq[r].token = t

TokensOK(rq, ss) ==
  /\ TakenOnce(rq, ss)
  /\ \A r \in Reqs : IF Applying(rq[r]) THEN rq[r].token \in Tokens ELSE rq[r].token = Unused

LEMMA TokensFromInv == BatchInv => TokensOK(req, sessions)
  BY DEF BatchInv, TokensOK, BatchOK, RestOK

LEMMA TokensFromInvNext == BatchInv' => TokensOK(req', sessions')
  BY DEF BatchInv, TokensOK, BatchOK, RestOK

LEMMA OfferApplied ==
  ASSUME NEW rq, NEW ss, TokensOK(rq, ss), NEW r \in Reqs, NEW t \in Tokens, Applies(r, t, rq)
  PROVE  OfferIn(t, rq, ss) = rq[r].all
<1>1. {s \in Reqs : rq[s].token = t} = {r}
  BY BatchConstants DEF TokensOK, TakenOnce, Applies
<1> QED
  BY <1>1 DEF OfferIn

LEMMA OfferStored ==
  ASSUME NEW rq, NEW ss, TokensOK(rq, ss), NEW t \in Tokens, \A r \in Reqs : ~Applies(r, t, rq)
  PROVE  OfferIn(t, rq, ss) = IF ss[t] \notin {Unused, Taken} THEN ss[t].changes ELSE ss[t]
<1>1. {s \in Reqs : rq[s].token = t} = {}
  BY BatchConstants DEF TokensOK, Applies
<1> QED
  BY <1>1 DEF OfferIn

LEMMA OfferSame ==
  ASSUME NEW rq, NEW ss, NEW qq, NEW tt, TokensOK(rq, ss), TokensOK(qq, tt), NEW t \in Tokens,
         tt[t] = ss[t],
         \A r \in Reqs : /\ Applies(r, t, rq) <=> Applies(r, t, qq)
                         /\ Applies(r, t, rq) => qq[r].all = rq[r].all
  PROVE  OfferIn(t, qq, tt) = OfferIn(t, rq, ss)
<1>1. CASE \E r \in Reqs : Applies(r, t, rq)
  <2>1. PICK r \in Reqs : Applies(r, t, rq)
    BY <1>1
  <2>2. Applies(r, t, qq) /\ qq[r].all = rq[r].all
    BY <2>1
  <2> QED
    BY <2>1, <2>2, OfferApplied
<1>2. CASE \A r \in Reqs : ~Applies(r, t, rq)
  <2>1. \A r \in Reqs : ~Applies(r, t, qq)
    BY <1>2
  <2> QED
    BY <1>2, <2>1, OfferStored
<1> QED
  BY <1>1, <1>2

\* A batch on offer is a batch.
LEMMA OfferType ==
  ASSUME BatchInv, NEW t \in Tokens
  PROVE  /\ Offers[t] = OfferIn(t, req, sessions)
         /\ HasSession(t) \/ (\E r \in Reqs : Applies(r, t, req)) =>
              Offers[t] \in Seq(Change) /\ Offers[t] # Unused /\ Offers[t] # Taken
<1>1. Offers[t] = OfferIn(t, req, sessions)
  BY DEF Offers, OfferOf, OfferIn, AppliedBy, HasSession
<1>2. TokensOK(req, sessions)
  BY TokensFromInv
<1>3. ASSUME NEW r \in Reqs, Applies(r, t, req) PROVE Offers[t] \in Seq(Change)
  <2>1. req[r] \in Request
    BY DEF BatchInv, TypeOK
  <2> QED
    BY <1>1, <1>2, <1>3, <2>1, OfferApplied DEF Request
<1>4. ASSUME HasSession(t), \A r \in Reqs : ~Applies(r, t, req) PROVE Offers[t] \in Seq(Change)
  BY <1>1, <1>2, <1>4, OfferStored, SessionType DEF HasSession
<1> QED
  BY <1>1, <1>3, <1>4, BatchConstants

\* A step that leaves the items alone and ends the offers of T.
LEMMA Closes ==
  ASSUME BatchInv, NEW T \in SUBSET Tokens, UNCHANGED items,
         \A t \in T : HasSession(t) \/ \E r \in Reqs : Applies(r, t, req),
         \A t \in Tokens : OfferIn(t, req', sessions') = IF t \in T THEN Taken ELSE OfferIn(t, req, sessions)
  PROVE  C!CatNext
<1>1. Card' = Card
  BY DEF Card
<1>2. \A t \in T : Offers[t] # Unused
  BY OfferType
<1>3. Offers' = [t \in Tokens |-> OfferIn(t, req', sessions')]
  BY DEF Offers, OfferOf, OfferIn, AppliedBy, HasSession
<1>4. Offers' = [t \in Tokens |-> IF t \in T THEN Taken ELSE Offers[t]]
  BY <1>3, OfferType
<1>5. T \in SUBSET {t \in Tokens : Offers[t] # Unused}
  BY <1>2
<1> QED
  BY <1>1, <1>4, <1>5 DEF C!CatNext, C!Close

\* A step that changes nothing on offer.
LEMMA Stutters ==
  ASSUME UNCHANGED items,
         \A t \in Tokens : OfferIn(t, req', sessions') = OfferIn(t, req, sessions)
  PROVE  UNCHANGED C!cvars
<1>1. /\ Offers' = [t \in Tokens |-> OfferIn(t, req', sessions')]
      /\ Offers = [t \in Tokens |-> OfferIn(t, req, sessions)]
  BY DEF Offers, OfferOf, OfferIn, AppliedBy, HasSession
<1>2. Offers' = Offers
  BY <1>1
<1> QED
  BY <1>2 DEF C!cvars, Card

LEMMA DropCloses ==
  ASSUME BatchInv, BatchInv', NEW r \in Reqs, Drop(r), UNCHANGED <<items, sessions>>
  PROVE  C!CatNext
<1> DEFINE T == {t \in Tokens : Applies(r, t, req)}
<1>1. TokensOK(req, sessions) /\ TokensOK(req', sessions')
  BY TokensFromInv, TokensFromInvNext
<1>2. \A s \in Reqs : req'[s] = IF s = r THEN Idle ELSE req[s]
  BY DEF Drop, BatchInv, TypeOK
<1>3. ASSUME NEW t \in Tokens, t \notin T
      PROVE  OfferIn(t, req', sessions') = OfferIn(t, req, sessions)
  <2>1. \A s \in Reqs : /\ Applies(s, t, req) <=> Applies(s, t, req')
                        /\ Applies(s, t, req) => req'[s].all = req[s].all
    BY <1>2, <1>3, IdleOK DEF Applies
  <2> QED
    BY <1>1, <2>1, OfferSame
<1>4. ASSUME NEW t \in Tokens, t \in T
      PROVE  OfferIn(t, req', sessions') = Taken
  <2>1. \A s \in Reqs : ~Applies(s, t, req')
    BY <1>1, <1>2, <1>4, IdleOK DEF Applies, TokensOK, TakenOnce
  <2>2. sessions'[t] = Taken
    BY <1>1, <1>4 DEF Applies, TokensOK, TakenOnce
  <2> QED
    BY <1>1, <2>1, <2>2, OfferStored
<1> QED
  BY <1>3, <1>4, Closes

\* Nobody begins or ends an application, and no session changes.
LEMMA SameOffers ==
  ASSUME BatchInv, BatchInv', UNCHANGED items, sessions' = sessions,
         \A s \in Reqs : /\ Applying(req'[s]) <=> Applying(req[s])
                         /\ req'[s].token = req[s].token /\ req'[s].all = req[s].all
  PROVE  UNCHANGED C!cvars
<1>1. TokensOK(req, sessions) /\ TokensOK(req', sessions')
  BY TokensFromInv, TokensFromInvNext
<1>2. \A t \in Tokens, s \in Reqs : /\ Applies(s, t, req) <=> Applies(s, t, req')
                                    /\ Applies(s, t, req) => req'[s].all = req[s].all
  BY DEF Applies
<1>3. \A t \in Tokens : OfferIn(t, req', sessions') = OfferIn(t, req, sessions)
  BY <1>1, <1>2, OfferSame
<1> QED
  BY <1>3, Stutters

\* A step of one request that neither begins nor ends an application.
LEMMA RequestStutters ==
  ASSUME BatchInv, BatchInv', NEW r \in Reqs, NEW q, req' = [req EXCEPT ![r] = q],
         UNCHANGED <<items, sessions>>,
         Applying(q) <=> Applying(req[r]), q.token = req[r].token, q.all = req[r].all
  PROVE  UNCHANGED C!cvars
<1>1. \A s \in Reqs : req'[s] = IF s = r THEN q ELSE req[s]
  BY DEF BatchInv, TypeOK
<1>2. \A s \in Reqs : /\ Applying(req'[s]) <=> Applying(req[s])
                      /\ req'[s].token = req[s].token /\ req'[s].all = req[s].all
  BY <1>1
<1> QED
  BY <1>2, SameOffers

\* Expired sessions are no more on offer.
LEMMA UploadCloses ==
  ASSUME BatchInv, BatchInv', NEW r \in Reqs, NEW f \in Files, Upload(r, f)
  PROVE  C!CatNext
<1> DEFINE T == {t \in Tokens : Expired(t)}
           q == [Idle EXCEPT !.pc = "parse", !.file = f]
<1>1. TokensOK(req, sessions) /\ TokensOK(req', sessions')
  BY TokensFromInv, TokensFromInvNext
<1>2. /\ req' = [req EXCEPT ![r] = q] /\ UNCHANGED items /\ ~Applying(req[r])
      /\ sessions' = [t \in Tokens |-> IF Expired(t) THEN Taken ELSE sessions[t]]
  BY DEF Upload, Busy, Applying
<1>3. ~Applying(q)
  BY IdleOK DEF Request, Applying
<1> HIDE DEF q
<1>4. \A s \in Reqs : req'[s] = IF s = r THEN q ELSE req[s]
  BY <1>2 DEF BatchInv, TypeOK
<1>5. \A t \in Tokens, s \in Reqs : /\ Applies(s, t, req) <=> Applies(s, t, req')
                                    /\ Applies(s, t, req) => req'[s].all = req[s].all
  BY <1>2, <1>3, <1>4 DEF Applies
<1>6. ASSUME NEW t \in Tokens, t \notin T
      PROVE  OfferIn(t, req', sessions') = OfferIn(t, req, sessions)
  <2>1. sessions'[t] = sessions[t]
    BY <1>2, <1>6
  <2> QED
    BY <1>1, <1>5, <2>1, OfferSame
<1>7. ASSUME NEW t \in Tokens, t \in T
      PROVE  OfferIn(t, req', sessions') = Taken /\ HasSession(t)
  <2>1. sessions'[t] = Taken /\ HasSession(t)
    BY <1>2, <1>7 DEF Expired
  <2>2. \A s \in Reqs : ~Applies(s, t, req')
    BY <1>1, <1>5, <2>1 DEF TokensOK, TakenOnce, Applies, HasSession
  <2> QED
    BY <1>1, <2>1, <2>2, OfferStored
<1> QED
  BY <1>2, <1>6, <1>7, Closes

LEMMA StoreOffers ==
  ASSUME BatchInv, BatchInv', NEW r \in Reqs, NEW t \in Tokens, StoreSession(r, t)
  PROVE  C!CatNext
<1> DEFINE cs == req[r].changes
           e == [changes |-> cs, at |-> now]
<1>1. TokensOK(req, sessions) /\ TokensOK(req', sessions')
  BY TokensFromInv, TokensFromInvNext
<1>2. /\ sessions' = [sessions EXCEPT ![t] = e] /\ req' = [req EXCEPT ![r] = Idle]
      /\ sessions[t] = Unused /\ UNCHANGED <<items, now>> /\ ~Applying(req[r])
  BY DEF StoreSession, Drop, Applying
<1>3. cs \in Seq(Change) /\ e \in Session /\ e.changes = cs
  BY DEF BatchInv, TypeOK, Request, Session
<1> HIDE DEF e, cs
<1>4. \A s \in Reqs : req'[s] = IF s = r THEN Idle ELSE req[s]
  BY <1>2 DEF BatchInv, TypeOK
<1>5. \A u \in Tokens : sessions'[u] = IF u = t THEN e ELSE sessions[u]
  BY <1>2 DEF BatchInv
<1>6. \A u \in Tokens, s \in Reqs : /\ Applies(s, u, req) <=> Applies(s, u, req')
                                    /\ Applies(s, u, req) => req'[s].all = req[s].all
  BY <1>2, <1>4, IdleOK DEF Applies
<1>7. \A s \in Reqs : ~Applies(s, t, req) /\ ~Applies(s, t, req')
  BY <1>1, <1>2, <1>6, BatchConstants DEF TokensOK, TakenOnce, Applies
<1>8. OfferIn(t, req, sessions) = Unused
  BY <1>1, <1>2, <1>7, OfferStored
<1>9. OfferIn(t, req', sessions') = cs
  <2>1. e \notin {Unused, Taken}
    BY <1>3, BatchConstants
  <2> QED
    BY <1>1, <1>3, <1>5, <1>7, <2>1, OfferStored
<1>10. \A u \in Tokens \ {t} : OfferIn(u, req', sessions') = OfferIn(u, req, sessions)
  BY <1>1, <1>5, <1>6, OfferSame
<1>11. /\ Offers' = [u \in Tokens |-> OfferIn(u, req', sessions')]
       /\ Offers = [u \in Tokens |-> OfferIn(u, req, sessions)]
  BY DEF Offers, OfferOf, OfferIn, AppliedBy, HasSession
<1>12. Offers[t] = Unused /\ Offers'[t] = cs /\ Offers' = [Offers EXCEPT ![t] = cs]
  BY <1>8, <1>9, <1>10, <1>11
<1>13. cs \in C!Batches
  BY <1>3 DEF C!Batches, Change
<1> QED
  BY <1>2, <1>12, <1>13 DEF C!CatNext, C!Offer, Card

LEMMA TakeCloses ==
  ASSUME BatchInv, BatchInv', NEW r \in Reqs, NEW t \in Tokens, TakeSession(r, t)
  PROVE  [C!CatNext]_(C!cvars)
<1> DEFINE cs == sessions[t].changes
           q == [Idle EXCEPT !.pc = "get", !.token = t, !.changes = cs, !.all = cs]
<1>1. TokensOK(req, sessions) /\ TokensOK(req', sessions')
  BY TokensFromInv, TokensFromInvNext
<1>2. /\ sessions' = [sessions EXCEPT ![t] = Taken] /\ UNCHANGED items
      /\ HasSession(t) /\ ~Applying(req[r])
  BY DEF TakeSession, Busy, Applying
<1>3. \A u \in Tokens : sessions'[u] = IF u = t THEN Taken ELSE sessions[u]
  BY <1>2 DEF BatchInv
<1>4. \A s \in Reqs : ~Applies(s, t, req)
  BY <1>1, <1>2 DEF TokensOK, TakenOnce, Applies, HasSession
<1>5. CASE req' = req
  <2>1. OfferIn(t, req', sessions') = Taken
    BY <1>1, <1>3, <1>4, <1>5, OfferStored
  <2>2. \A u \in Tokens \ {t} : OfferIn(u, req', sessions') = OfferIn(u, req, sessions)
    BY <1>1, <1>3, <1>5, OfferSame
  <2> DEFINE T == {t}
  <2>3. T \in SUBSET Tokens /\ \A u \in T : HasSession(u)
    BY <1>2
  <2>4. \A u \in Tokens : OfferIn(u, req', sessions') = IF u \in T THEN Taken ELSE OfferIn(u, req, sessions)
    BY <2>1, <2>2
  <2> HIDE DEF T
  <2> QED
    BY <1>2, <2>3, <2>4, Closes
<1>6. CASE req' # req
  <2>1. req' = [req EXCEPT ![r] = q]
    BY <1>6 DEF TakeSession
  <2>2. q.pc = "get" /\ q.token = t /\ q.all = cs
    BY IdleOK DEF Request
  <2> HIDE DEF q
  <2>3. \A s \in Reqs : req'[s] = IF s = r THEN q ELSE req[s]
    BY <2>1 DEF BatchInv, TypeOK
  <2>4. Applies(r, t, req') /\ req'[r].all = cs
    BY <2>2, <2>3 DEF Applies, Applying
  <2>5. OfferIn(t, req', sessions') = OfferIn(t, req, sessions)
    BY <1>1, <1>2, <1>4, <2>4, OfferApplied, OfferStored DEF HasSession
  <2>6. ASSUME NEW u \in Tokens \ {t} PROVE OfferIn(u, req', sessions') = OfferIn(u, req, sessions)
    <3>1. \A s \in Reqs : /\ Applies(s, u, req) <=> Applies(s, u, req')
                          /\ Applies(s, u, req) => req'[s].all = req[s].all
      BY <1>2, <2>2, <2>3 DEF Applies
    <3> QED
      BY <1>1, <1>3, <3>1, OfferSame
  <2> QED
    BY <1>2, <2>5, <2>6, Stutters
<1> QED
  BY <1>5, <1>6

\* The changes of a session are all applied when the transaction commits.
LEMMA CommitAccepts ==
  ASSUME BatchInv, BatchInv', NEW r \in Reqs, Commit(r)
  PROVE  C!CatNext
<1> DEFINE o == req[r]
           t == o.token
<1>1. TokensOK(req, sessions) /\ TokensOK(req', sessions')
  BY TokensFromInv, TokensFromInvNext
<1>2. /\ Applying(o) /\ o.pc = "commit" /\ BatchOK(o, items) /\ o \in Request /\ Drop(r)
      /\ UNCHANGED sessions
  BY DEF Commit, Applying, BatchInv, TypeOK
<1>3. o.all \in Seq(Change) /\ o.wrote \in [Items -> Contents \cup {NoContent}]
  BY <1>2 DEF Request
<1>4. o.changes = <<>> /\ t \in Tokens
  BY <1>2 DEF BatchOK, RestOK
<1>5. Done(o) = Len(o.all) /\ Len(o.all) \in Nat /\ DOMAIN o.all = 1..Len(o.all)
  BY <1>3, <1>4 DEF Done
<1>6. Applies(r, t, req) /\ Offers[t] = o.all
  BY <1>1, <1>2, <1>4, OfferApplied, OfferType DEF Applies
<1>7. Offers[t] # Unused /\ Offers[t] # Taken
  BY <1>4, <1>6, OfferType
<1>8. \A i \in Items : WroteOK(o, i) /\ (o.wrote[i] # NoContent => ~items[i].deleted)
  BY <1>2 DEF BatchOK, WrittenLive
<1>9. \A k \in DOMAIN o.all : o.all[k] \in Change
  BY <1>3
<1>10. \A i \in Items : items[i] \in ItemRow
  BY DEF BatchInv, TypeOK
<1>11. \A k \in DOMAIN o.all : Card[o.all[k].item] # NoContent
  <2> SUFFICES ASSUME NEW k \in DOMAIN o.all PROVE Card[o.all[k].item] # NoContent
    OBVIOUS
  <2>1. o.all[k].item \in Items
    BY <1>9 DEF Change
  <2>2. o.wrote[o.all[k].item] # NoContent
    BY <1>5, <1>8, <2>1 DEF WroteOK
  <2>3. ~items[o.all[k].item].deleted /\ items[o.all[k].item].content \in Contents
    BY <1>8, <1>10, <2>1, <2>2 DEF ItemRow
  <2> QED
    BY <2>1, <2>3, BatchConstants DEF Card
<1>12. ASSUME NEW i \in Items
       PROVE  Card'[i] = C!Applied(o.all)[i]
  <2> DEFINE K == {k \in DOMAIN o.all : o.all[k].item = i}
  <2>1. C!Applied(o.all)[i] = IF K = {} THEN Card[i] ELSE o.all[C!Max(K)].new
    BY DEF C!Applied
  <2>2. items'[i] = IF o.wrote[i] = NoContent THEN items[i] ELSE [items[i] EXCEPT !.content = o.wrote[i]]
    BY DEF Commit
  <2>3. Card'[i] = IF items'[i].deleted THEN NoContent ELSE items'[i].content
    BY DEF Card
  <2>4. CASE o.wrote[i] = NoContent
    <3>1. K = {}
      BY <1>5, <1>8, <2>4 DEF WroteOK
    <3> QED
      BY <2>1, <2>2, <2>3, <2>4, <3>1 DEF Card
  <2>5. CASE o.wrote[i] # NoContent
    <3>1. PICK k \in 1..Len(o.all) :
            /\ o.all[k].item = i /\ o.all[k].new = o.wrote[i]
            /\ \A j \in 1..Len(o.all) : o.all[j].item = i => j <= k
      BY <1>5, <1>8, <2>5 DEF WroteOK
    <3>2. k \in K /\ \A j \in K : j \in Int /\ j <= k
      BY <1>5, <3>1
    <3> HIDE DEF K
    <3>3. k \in K /\ \A y \in K : k >= y
      BY <3>2
    <3>4. \A x \in K : (\A y \in K : x >= y) => x = k
      BY <3>2, <3>3
    <3>5. C!Max(K) = k
      <4>1. C!Max(K) = CHOOSE x \in K : \A y \in K : x >= y
        BY DEF C!Max
      <4> QED
        BY <3>3, <3>4, <4>1
    <3>6. items'[i].content = o.wrote[i] /\ ~items'[i].deleted
      BY <1>8, <1>10, <2>2, <2>5 DEF ItemRow
    <3> QED
      BY <2>1, <2>3, <3>1, <3>2, <3>5, <3>6
  <2> QED
    BY <2>4, <2>5
<1>13. Card' = C!Applied(o.all)
  <2>1. Card' = [i \in Items |-> Card'[i]]
    BY DEF Card
  <2>2. C!Applied(o.all) = [i \in Items |-> C!Applied(o.all)[i]]
    BY DEF C!Applied
  <2> QED
    BY <1>12, <2>1, <2>2
<1>14. \A s \in Reqs : req'[s] = IF s = r THEN Idle ELSE req[s]
  BY <1>2 DEF Drop, BatchInv, TypeOK
<1>15. OfferIn(t, req', sessions') = Taken
  <2>1. \A s \in Reqs : ~Applies(s, t, req')
    BY <1>1, <1>2, <1>14, IdleOK DEF Applies, TokensOK, TakenOnce
  <2>2. sessions'[t] = Taken
    BY <1>1, <1>2 DEF TokensOK, TakenOnce
  <2> QED
    BY <1>1, <1>4, <2>1, <2>2, OfferStored
<1>16. ASSUME NEW u \in Tokens, u # t PROVE OfferIn(u, req', sessions') = OfferIn(u, req, sessions)
  <2>1. \A s \in Reqs : /\ Applies(s, u, req) <=> Applies(s, u, req')
                        /\ Applies(s, u, req) => req'[s].all = req[s].all
    BY <1>14, <1>16, IdleOK DEF Applies
  <2>2. sessions'[u] = sessions[u]
    BY <1>2
  <2> QED
    BY <1>1, <2>1, <2>2, OfferSame
<1>17. /\ Offers' = [u \in Tokens |-> OfferIn(u, req', sessions')]
       /\ Offers = [u \in Tokens |-> OfferIn(u, req, sessions)]
  BY DEF Offers, OfferOf, OfferIn, AppliedBy, HasSession
<1>18. PICK tk \in Tokens : tk = t
  BY <1>4
<1>19. Offers' = [Offers EXCEPT ![tk] = Taken]
  BY <1>15, <1>16, <1>17, <1>18
<1>20. C!Accept(tk)
  BY <1>6, <1>7, <1>11, <1>13, <1>18, <1>19 DEF C!Accept
<1> QED
  BY <1>20 DEF C!CatNext

LEMMA RestartCloses ==
  ASSUME BatchInv, BatchInv', Restart
  PROVE  C!CatNext
<1> DEFINE T == {t \in Tokens : HasSession(t) \/ \E r \in Reqs : Applies(r, t, req)}
<1>1. TokensOK(req, sessions) /\ TokensOK(req', sessions')
  BY TokensFromInv, TokensFromInvNext
<1>2. /\ UNCHANGED items /\ \A r \in Reqs : req'[r] = Idle
      /\ \A t \in Tokens : sessions'[t] = IF HasSession(t) THEN Taken ELSE sessions[t]
  BY DEF Restart
<1>3. \A t \in Tokens, r \in Reqs : ~Applies(r, t, req')
  BY <1>2, IdleOK DEF Applies
<1>4. ASSUME NEW t \in Tokens
      PROVE  OfferIn(t, req', sessions') = IF t \in T THEN Taken ELSE OfferIn(t, req, sessions)
  <2>1. OfferIn(t, req', sessions') = sessions'[t]
    BY <1>1, <1>2, <1>3, OfferStored DEF HasSession
  <2>2. CASE t \in T
    <3>1. sessions'[t] = Taken
      BY <1>1, <1>2, <2>2 DEF TokensOK, TakenOnce, Applies
    <3> QED
      BY <2>1, <2>2, <3>1
  <2>3. CASE t \notin T
    <3>1. ~HasSession(t) /\ \A r \in Reqs : ~Applies(r, t, req)
      BY <2>3
    <3>2. OfferIn(t, req, sessions) = sessions[t]
      BY <1>1, <3>1, OfferStored DEF HasSession
    <3> QED
      BY <1>2, <2>1, <2>3, <3>1, <3>2
  <2> QED
    BY <2>2, <2>3
<1> QED
  BY <1>2, <1>4, Closes

\* A single edit, and a single deletion.
LEMMA OthersEdit ==
  ASSUME BatchInv, NEW i \in Items,
         SoftDeleteItem(i) \/ \E c \in Contents : EditItem(i, c)
  PROVE  C!CatNext
<1>1. items \in [Items -> ItemRow] /\ items[i] \in ItemRow /\ ~items[i].deleted
  BY DEF BatchInv, TypeOK, SoftDeleteItem, EditItem
<1>2. Card[i] # NoContent
  BY <1>1, BatchConstants DEF Card, ItemRow
<1>3. Offers' = Offers
  <2>1. req' = req /\ sessions' = sessions
    BY DEF SoftDeleteItem, EditItem
  <2>2. /\ Offers' = [t \in Tokens |-> OfferIn(t, req', sessions')]
        /\ Offers = [t \in Tokens |-> OfferIn(t, req, sessions)]
    BY DEF Offers, OfferOf, OfferIn, AppliedBy, HasSession
  <2> QED
    BY <2>1, <2>2
<1>4. CASE SoftDeleteItem(i)
  <2> DEFINE e == [items[i] EXCEPT !.deleted = TRUE]
  <2>1. e.deleted /\ items' = [items EXCEPT ![i] = e]
    BY <1>1, <1>4 DEF SoftDeleteItem, ItemRow
  <2> HIDE DEF e
  <2>2. items'[i].deleted /\ \A j \in Items \ {i} : items'[j] = items[j]
    BY <1>1, <2>1
  <2>3. Card' = [Card EXCEPT ![i] = NoContent]
    BY <2>2 DEF Card
  <2> QED
    BY <1>2, <1>3, <2>3 DEF C!CatNext, C!Remove
<1>5. ASSUME NEW c \in Contents, EditItem(i, c) PROVE C!CatNext
  <2> DEFINE e == [items[i] EXCEPT !.content = c]
  <2>1. e.content = c /\ e.deleted = items[i].deleted /\ items' = [items EXCEPT ![i] = e]
    BY <1>1, <1>5 DEF EditItem, ItemRow
  <2> HIDE DEF e
  <2>2. items'[i].content = c /\ ~items'[i].deleted /\ \A j \in Items \ {i} : items'[j] = items[j]
    BY <1>1, <2>1
  <2>3. Card' = [Card EXCEPT ![i] = c]
    BY <2>2 DEF Card
  <2> QED
    BY <1>2, <1>3, <2>3 DEF C!CatNext, C!Edit
<1> QED
  BY <1>4, <1>5

LEMMA ProceedStep ==
  ASSUME BatchInv, BatchInv', NEW r \in Reqs, Proceed(r)
  PROVE  [C!CatNext]_(C!cvars)
<1>1. req[r] \in Request
  BY DEF BatchInv, TypeOK
<1>2. CASE ParseLine(r)
  <2> DEFINE line == Head(req[r].file)
             found == IF line.item = NoItem \/ items[line.item].deleted
                         \/ items[line.item].content = line.new
                        THEN req[r].changes ELSE Append(req[r].changes, line)
             q == [req[r] EXCEPT !.file = Tail(@), !.changes = found]
  <2>1. req' = [req EXCEPT ![r] = q] /\ UNCHANGED <<items, sessions>>
    BY <1>2 DEF ParseLine
  <2> HIDE DEF found
  <2>2. q.pc = req[r].pc /\ q.token = req[r].token /\ q.all = req[r].all
    BY <1>1 DEF Request
  <2> HIDE DEF q
  <2> QED
    BY <2>1, <2>2, RequestStutters DEF Applying
<1>3. CASE \E t \in Tokens : StoreSession(r, t)
  BY <1>3, StoreOffers
<1>4. CASE GetItem(r)
  <2> DEFINE q == [req[r] EXCEPT !.pc = "update"]
  <2>1. CASE Drop(r)
    BY <1>4, <2>1, DropCloses DEF GetItem
  <2>2. CASE ~Drop(r)
    <3>1. req' = [req EXCEPT ![r] = q] /\ UNCHANGED <<items, sessions>> /\ req[r].pc = "get"
      BY <1>4, <2>2 DEF GetItem
    <3>2. q.pc = "update" /\ q.token = req[r].token /\ q.all = req[r].all
      BY <1>1 DEF Request
    <3> HIDE DEF q
    <3> QED
      BY <3>1, <3>2, RequestStutters DEF Applying
  <2> QED
    BY <2>1, <2>2
<1>5. CASE UpdateItem(r)
  <2> DEFINE i == Head(req[r].changes).item
             w == [req[r].wrote EXCEPT ![i] = Head(req[r].changes).new]
             p == IF Tail(req[r].changes) = <<>> THEN "commit" ELSE "get"
             q == [req[r] EXCEPT !.pc = p, !.changes = Tail(req[r].changes), !.wrote = w]
  <2>1. CASE Drop(r)
    BY <1>5, <2>1, DropCloses DEF UpdateItem
  <2>2. CASE ~Drop(r)
    <3>1. req' = [req EXCEPT ![r] = q] /\ UNCHANGED <<items, sessions>> /\ req[r].pc = "update"
      BY <1>5, <2>2 DEF UpdateItem
    <3>2. p \in {"commit", "get"}
      OBVIOUS
    <3> HIDE DEF p, w
    <3>3. q.pc = p /\ q.token = req[r].token /\ q.all = req[r].all
      BY <1>1 DEF Request
    <3> HIDE DEF q
    <3> QED
      BY <3>1, <3>2, <3>3, RequestStutters DEF Applying
  <2> QED
    BY <2>1, <2>2
<1>6. CASE Commit(r)
  BY <1>6, CommitAccepts
<1> QED
  BY <1>2, <1>3, <1>4, <1>5, <1>6 DEF Proceed

LEMMA StepIsCatalogueStep == BatchInv /\ BatchInv' /\ [Next]_vars => [C!CatNext]_(C!cvars)
<1> SUFFICES ASSUME BatchInv, BatchInv', [Next]_vars PROVE [C!CatNext]_(C!cvars)
  OBVIOUS
<1>1. ASSUME NEW r \in Reqs, NEW f \in Files, Upload(r, f) PROVE C!CatNext
  BY <1>1, UploadCloses
<1>2. ASSUME NEW r \in Reqs, NEW t \in Tokens, TakeSession(r, t) PROVE [C!CatNext]_(C!cvars)
  BY <1>2, TakeCloses
<1>3. ASSUME NEW r \in Reqs, Proceed(r) PROVE [C!CatNext]_(C!cvars)
  BY <1>3, ProceedStep
<1>4. ASSUME NEW r \in Reqs, BreakDeadlock(r) \/ Abort(r) PROVE C!CatNext
  BY <1>4, DropCloses DEF BreakDeadlock, Abort
<1>5. ASSUME NEW i \in Items, SoftDeleteItem(i) \/ \E c \in Contents : EditItem(i, c) PROVE C!CatNext
  BY <1>5, OthersEdit
<1>6. CASE Tick \/ UNCHANGED vars
  <2>1. UNCHANGED items /\ sessions' = sessions /\ req' = req
    BY <1>6 DEF Tick, vars
  <2> QED
    BY <2>1, SameOffers
<1>7. CASE Restart
  BY <1>7, RestartCloses
<1> QED
  BY <1>1, <1>2, <1>3, <1>4, <1>5, <1>6, <1>7 DEF Next

\* A session is applied all at once when its transaction commits, or never; it
\* is never applied twice, and not when one of its items has been deleted.
THEOREM CatalogueImplemented == Spec => ImplementsCatalogue
<1>1. Init => C!CatInit
  <2> SUFFICES ASSUME Init PROVE C!CatInit
    OBVIOUS
  <2>1. \A r \in Reqs : req[r].token = Unused
    BY IdleOK DEF Init
  <2>2. Offers = [t \in Tokens |-> Unused]
    <3>1. ASSUME NEW t \in Tokens PROVE OfferOf(t) = Unused
      BY <2>1, BatchConstants DEF OfferOf, AppliedBy, HasSession, Init
    <3> QED
      BY <3>1 DEF Offers
  <2>3. Card \in [Items -> Contents \cup {NoContent}]
    BY DEF Card, Init
  <2> QED
    BY <2>2, <2>3 DEF C!CatInit
<1>2. BatchInv /\ BatchInv' /\ [Next]_vars => [C!CatNext]_(C!cvars)
  BY StepIsCatalogueStep
<1>3. Spec => C!CatSpec
  BY <1>1, <1>2, Inductive, PTL DEF Spec, C!CatSpec
<1> QED
  BY <1>3 DEF ImplementsCatalogue
=============================================================================
