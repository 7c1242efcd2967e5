------------------------------ MODULE PagesInv ------------------------------
(* The inductive invariant of the paginated lists: how what the reader has *)
(* been shown relates, at every statement, to what the list holds by now.  *)
EXTENDS Pages

Busy == req.pc # "idle"

\* The list under way, or on the screen.
TheList == IF Busy THEN req.list ELSE screen.list
TheUser == IF Busy THEN req.user ELSE screen.user
Current == Entries(TheList, TheUser)

\* How many pages the reader has left behind.
Passed == IF Busy THEN req.page - 1 ELSE screen.no

\* The place of k in the list.
Rank(S, k) == Cardinality({j \in S : j >= k})

Settled(k) == row[k].st \in {"booked", "anonymized"}

\* What was a booking of u's: still is, or has been anonymized.
OnceOf(u) == Owned(u) \cup {k \in Keys : row[k].st = "anonymized"}

RequestOK ==
  Busy =>
    /\ req.list \in Lists /\ req.page >= 1 /\ req.user \in Subjects(req.list)
    /\ screen.list \in {"none", req.list}
    /\ screen.list # "none" => screen.user = req.user
    /\ req.pc = "target" => req.list = "user"
    /\ req.pc = "settings" => req.clamp
    /\ req.pc = "carryover" => req.list = "member" /\ req.rows \subseteq OnceOf(req.user)
    /\ req.pc \in {"count", "list", "carryover"} \/ ~req.clamp => req.limit \in Sizes

ScreenOK ==
  /\ screen.list \in Lists \cup {"none"}
  /\ screen.list # "none" => screen.no >= 1 /\ screen.user \in Subjects(screen.list)
  /\ screen.list = "none" => screen = Blank
  /\ screen.list \in {"member", "user"} => screen.rows \subseteq OnceOf(screen.user)
  /\ screen.list = "user" => screen.rows \cap screen.carry = {}

\* The Anfangsbestand consists of anonymized bookings.
CarriedOK ==
  /\ \A u \in Users : \A k \in carried[u] : row[k].st = "anonymized"
  /\ \A k \in req.carry : row[k].st = "anonymized"

\* A walk goes on in the list it began in, with the page size last read.
WalkOK ==
  /\ walk.limit \in Sizes \cup {0} /\ walk.late \in Nat
  /\ walk.on =>
       /\ walk.seen # {} => screen.list # "none"
       /\ ~Busy => screen.list # "none"
       /\ walk.limit = 0 => Busy /\ req.page = 1 /\ req.pc \in {"target", "settings"} /\ req.clamp
       /\ req.pc \in {"count", "list", "carryover"} \/ (Busy /\ ~req.clamp) => req.limit = walk.limit
       /\ TheList = "users" => walk.known = Users
       /\ TheList # "users" => \A k \in walk.known : k \in Keys /\ Settled(k)
       /\ TheList \in {"member", "user"} => walk.known \subseteq Owned(TheUser) \cup carried[TheUser]

\* What a walk could still miss without an excuse.
Behind == {k \in walk.known \cap Current : (TheList = "all" \/ k >= cutoff) /\ k \notin walk.seen}

\* All of it is below everything seen and on a later page.
GapsOK ==
  walk.on /\ ~walk.grew /\ TheList # "users" =>
    /\ \A k \in Behind : Rank(Current, k) > Passed * walk.limit /\ \A s \in walk.seen : k < s
    /\ req.pc = "carryover" =>
         \A k \in Behind \ req.rows :
           Rank(Current, k) > req.page * req.limit /\ \A s \in req.rows : k < s

\* What is listed beyond the count has been booked since the count.
CountOK ==
  walk.on /\ TheList # "users" =>
    /\ req.pc = "list" => Cardinality(Current) <= req.total + walk.late
    /\ ~walk.grew /\ req.pc = "carryover" /\ req.page * req.limit >= req.total =>
         Cardinality(Behind \ req.rows) <= walk.late

\* The place of an entry in a list that nobody changes.
Place(list, S, e) ==
  IF list = "users" THEN Cardinality({v \in S : Balance(v) <= Balance(e)}) ELSE Rank(S, e)

\* While nobody changes anything, what has been seen is what the pages left
\* behind hold.
QuietOK ==
  walk.on /\ walk.quiet /\ (TheList = "users" => DistinctBalances) =>
    /\ walk.limit \in {0, size} /\ walk.again = {}
    /\ walk.seen = {e \in Current : Place(TheList, Current, e) <= Passed * walk.limit}
    /\ req.pc \in {"list", "carryover"} => req.total = Cardinality(Current)
    /\ req.pc = "carryover" =>
         req.rows = {e \in Current : /\ Passed * req.limit < Place(TheList, Current, e)
                                     /\ Place(TheList, Current, e) <= req.page * req.limit}
    /\ req.list = "user" /\ req.pc \in {"settings", "count", "list"} => req.carry = carried[req.user]

IInv ==
  TypeOK /\ RequestOK /\ ScreenOK /\ CarriedOK /\ WalkOK /\ GapsOK /\ CountOK /\ QuietOK
=============================================================================
