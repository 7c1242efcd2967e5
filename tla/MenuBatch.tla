----------------------------- MODULE MenuBatch -----------------------------
(***************************************************************************)
(* The batch edit of the menu: an uploaded CSV file is compared with the   *)
(* items and kept as a session in the memory of the server; later a form   *)
(* with the token of the session applies its changes in one database       *)
(* transaction, while other admins apply theirs, edit and delete items.    *)
(* PostgreSQL (READ COMMITTED) keeps a row that a transaction has updated  *)
(* locked until its end, and ends one transaction of a circle of waiters.  *)
(***************************************************************************)
EXTENDS Integers, Sequences, FiniteSets, Relation

CONSTANTS
  Items,
  Contents,     \* name and the two prices of an item
  NoContent,    \* an item a transaction has not written
  NoItem,       \* in a line that does not parse or names no item
  Tokens,       \* session tokens, by number: bounds the number of uploads
  Unused, Taken,\* a token not drawn yet, or with no session any more
  Files,        \* the files an admin may upload
  Reqs,         \* slots for concurrent requests: bounds their number
  MaxAge,       \* the age at which a session expires
  MaxTime       \* the clock stops here

VARIABLES
  items,     \* table items: name and prices, and whether deleted_at is set
  sessions,  \* MenuBatchSessions
  now,       \* the clock
  req        \* the request each slot runs

vars == <<items, sessions, now, req>>

ItemRow == [deleted : BOOLEAN, content : Contents]
Change == [item : Items, new : Contents]

Line == [item : Items \cup {NoItem}, new : Contents]

Session == [changes : Seq(Change), at : Nat]

\* file: what is left of an upload; changes: those found, or left to apply;
\* all: those of the session that is applied; wrote: what its transaction has.
Request ==
  [pc : {"idle", "parse", "get", "update", "commit"}, file : Seq(Line), changes : Seq(Change),
   all : Seq(Change), token : Tokens \cup {Unused},
   wrote : [Items -> Contents \cup {NoContent}]]

Idle == [pc |-> "idle", file |-> <<>>, changes |-> <<>>, all |-> <<>>,
         token |-> Unused, wrote |-> [i \in Items |-> NoContent]]

ASSUME BatchConstants ==
  /\ NoContent \notin Contents /\ NoItem \notin Items
  /\ Tokens \subseteq Nat /\ Unused \notin Tokens
  /\ Unused # Taken /\ \A u \in {Unused, Taken} : u \notin Session /\ u \notin Seq(Change)
  /\ \A f \in Files : f \in Seq(Line)
  /\ MaxAge \in Nat /\ MaxTime \in Nat

-----------------------------------------------------------------------------

Busy(r) == req[r].pc # "idle"
Drop(r) == req' = [req EXCEPT ![r] = Idle]

HasSession(t) == sessions[t] \notin {Unused, Taken}
Expired(t) == HasSession(t) /\ now - sessions[t].at > MaxAge

\* Who has updated item i and not committed.
Holders(i) == {q \in Reqs : req[q].wrote[i] # NoContent}

-----------------------------------------------------------------------------
(* Uploading a file. *)

Parsing == {r \in Reqs : req[r].pc = "parse"}

\* MenuBatchUpload: cleanupMenuBatchSessions first.  As long as there are tokens.
Upload(r, f) ==
  /\ ~Busy(r)
  /\ Cardinality(Parsing) < Cardinality({t \in Tokens : sessions[t] = Unused})
  /\ sessions' = [t \in Tokens |-> IF Expired(t) THEN Taken ELSE sessions[t]]
  /\ req' = [req EXCEPT ![r] = [Idle EXCEPT !.pc = "parse", !.file = f]]
  /\ UNCHANGED <<items, now>>

\* Faulty: nobody looks whether the item of a line exists.
ParseUnknown(r) ==
  /\ req[r].pc = "parse" /\ req[r].file # <<>>
  /\ req' = [req EXCEPT ![r] = [@ EXCEPT !.file = Tail(@), !.changes = Append(@, Head(req[r].file))]]
  /\ UNCHANGED <<items, sessions, now>>

\* A line that does not parse, or for no item or a deleted one, only gives a warning;
\* one that changes nothing is left out.
ParseLine(r) ==
  /\ req[r].pc = "parse" /\ req[r].file # <<>>
  /\ LET line == Head(req[r].file)
         warns == line.item = NoItem \/ items[line.item].deleted
     IN req' = [req EXCEPT ![r] = [req[r] EXCEPT
                  !.file = Tail(@),
                  !.changes = IF warns \/ items[line.item].content = line.new
                                THEN @ ELSE Append(@, line)]]
  /\ UNCHANGED <<items, sessions, now>>

\* The session gets a token nobody has seen; which one does not matter.
StoreSession(r, t) ==
  /\ req[r].pc = "parse" /\ req[r].file = <<>>
  /\ sessions[t] = Unused /\ \A s \in Tokens : sessions[s] = Unused => t <= s
  /\ sessions' = [sessions EXCEPT ![t] =
       [changes |-> req[r].changes, at |-> now]]
  /\ Drop(r)
  /\ UNCHANGED <<items, now>>

-----------------------------------------------------------------------------
(* Applying a session. *)

\* Faulty: Load instead of LoadAndDelete.
LoadOnly(r, t) ==
  /\ ~Busy(r) /\ HasSession(t)
  /\ UNCHANGED sessions
  /\ req' = IF Expired(t) \/ sessions[t].changes = <<>> THEN req
            ELSE [req EXCEPT ![r] = [Idle EXCEPT !.pc = "get", !.token = t,
                    !.changes = sessions[t].changes, !.all = sessions[t].changes]]
  /\ UNCHANGED <<items, now>>

\* MenuBatchApply: LoadAndDelete takes the session, whether it has expired,
\* has no changes, or is applied.
TakeSession(r, t) ==
  /\ ~Busy(r) /\ HasSession(t)
  /\ sessions' = [sessions EXCEPT ![t] = Taken]
  /\ req' = IF Expired(t) \/ sessions[t].changes = <<>> THEN req
            ELSE [req EXCEPT ![r] = [Idle EXCEPT !.pc = "get", !.token = t,
                    !.changes = sessions[t].changes, !.all = sessions[t].changes]]
  /\ UNCHANGED <<items, now>>

\* A deleted item rolls everything back.
GetItem(r) ==
  /\ req[r].pc = "get"
  /\ IF items[Head(req[r].changes).item].deleted
       THEN Drop(r)
       ELSE req' = [req EXCEPT ![r].pc = "update"]
  /\ UNCHANGED <<items, sessions, now>>

\* The UPDATE waits for the row's lock, then looks at deleted_at again.
UpdateItem(r) ==
  LET i == Head(req[r].changes).item IN
  /\ req[r].pc = "update" /\ Holders(i) \subseteq {r}
  /\ IF items[i].deleted
       THEN Drop(r)
       ELSE req' = [req EXCEPT ![r] = [req[r] EXCEPT
                      !.pc = IF Tail(req[r].changes) = <<>> THEN "commit" ELSE "get",
                      !.changes = Tail(@),
                      !.wrote[i] = Head(req[r].changes).new]]
  /\ UNCHANGED <<items, sessions, now>>

Commit(r) ==
  /\ req[r].pc = "commit"
  /\ items' = [i \in Items |-> IF req[r].wrote[i] = NoContent THEN items[i]
                               ELSE [items[i] EXCEPT !.content = req[r].wrote[i]]]
  /\ Drop(r)
  /\ UNCHANGED <<sessions, now>>

\* r needs a row q has updated.
Waits(r, q) ==
  r # q /\ req[r].pc = "update" /\ q \in Holders(Head(req[r].changes).item)

\* Faulty: nobody looks for circles.
NoDetector(r) == FALSE /\ UNCHANGED vars

WaitsInCircle(r) == TransitiveClosure([p, q \in Reqs |-> Waits(p, q)], Reqs)[r, r]

\* The deadlock detector of PostgreSQL fails the statement of one of a circle.
BreakDeadlock(r) ==
  /\ WaitsInCircle(r)
  /\ Drop(r)
  /\ UNCHANGED <<items, sessions, now>>

-----------------------------------------------------------------------------
(* The other admins, and the environment. *)

\* The edit form writes what was typed, whatever the item is by then.
EditItem(i, c) ==
  /\ ~items[i].deleted /\ Holders(i) = {}
  /\ items' = [items EXCEPT ![i].content = c]
  /\ UNCHANGED <<sessions, now, req>>

SoftDeleteItem(i) ==
  /\ ~items[i].deleted /\ Holders(i) = {}
  /\ items' = [items EXCEPT ![i].deleted = TRUE]
  /\ UNCHANGED <<sessions, now, req>>

Tick ==
  /\ now < MaxTime
  /\ now' = now + 1
  /\ UNCHANGED <<items, sessions, req>>

\* The client goes away: the request's context ends, WithTx rolls back.
Abort(r) == Busy(r) /\ Drop(r) /\ UNCHANGED <<items, sessions, now>>

\* The sessions are in memory only.
Restart ==
  /\ sessions' = [t \in Tokens |-> IF HasSession(t) THEN Taken ELSE sessions[t]]
  /\ req' = [r \in Reqs |-> Idle]
  /\ UNCHANGED <<items, now>>

Init ==
  /\ items \in [Items -> [deleted : {FALSE}, content : Contents]]
  /\ sessions = [t \in Tokens |-> Unused]
  /\ now = 0
  /\ req = [r \in Reqs |-> Idle]

Proceed(r) ==
  \/ ParseLine(r) \/ \E t \in Tokens : StoreSession(r, t)
  \/ GetItem(r) \/ UpdateItem(r) \/ Commit(r)

Next ==
  \/ \E r \in Reqs :
       \/ \E f \in Files : Upload(r, f)
       \/ \E t \in Tokens : TakeSession(r, t)
       \/ Proceed(r) \/ BreakDeadlock(r) \/ Abort(r)
  \/ \E i \in Items : SoftDeleteItem(i) \/ \E c \in Contents : EditItem(i, c)
  \/ Tick \/ Restart

Spec == Init /\ [][Next]_vars

\* Requests go on, waiters of a row are served in turn, and the deadlock
\* detector runs after deadlock_timeout.
FairSpec == Spec /\ \A r \in Reqs : SF_vars(Proceed(r)) /\ WF_vars(BreakDeadlock(r))

-----------------------------------------------------------------------------
(* Properties. *)

\* Every variable keeps its type.
TypeOK ==
  /\ items \in [Items -> ItemRow]
  /\ \A t \in Tokens : HasSession(t) => sessions[t] \in Session
  /\ now \in 0..MaxTime
  /\ req \in [Reqs -> Request]

\* Two batches that update the same items in different orders wait for each
\* other (menu_batch.go:347-361), and a transaction waits for whoever is ahead:
\* yet every upload and every application comes to an end.
BatchesFinish == \A r \in Reqs : Busy(r) ~> ~Busy(r)
=============================================================================
