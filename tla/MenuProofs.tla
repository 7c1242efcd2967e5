------------------------------ MODULE MenuProofs ------------------------------
(***************************************************************************)
(* No category goes that an item refers to, whoever creates and deletes.   *)
(* And as long as one request at a time arranges rows and none ends in the *)
(* middle of a swap, the positions of a list stay different, a move that   *)
(* does nothing had nothing to do, and the tables implement the lists of   *)
(* module MenuList.                                                        *)
(***************************************************************************)
EXTENDS MenuLists, WellFoundedInduction, TLAPS

-----------------------------------------------------------------------------
(* The first and the last position of a list. *)

\* A set of positions that is not empty has a least and a greatest one.
LEMMA PositionsBounded ==
  ASSUME NEW S, S \subseteq Int4, S # {}
  PROVE  /\ Max(S) \in S /\ \A y \in S : Max(S) >= y
         /\ Min(S) \in S /\ \A y \in S : Min(S) <= y
<1>1. PICK lo \in Int4, hi \in Int4 : Int4 = lo..hi
  BY MenuConstants
<1>2. lo \in Int /\ hi \in Int /\ \A s \in S : s \in Int /\ lo <= s /\ s <= hi
  BY <1>1, MenuConstants
<1>3. \E x \in S : \A y \in S : x >= y
  <2> DEFINE T == {hi - s : s \in S}
  <2>1. T \subseteq Nat /\ T # {}
    <3>1. \A s \in S : hi - s \in Nat
      BY <1>2
    <3> QED BY <3>1
  <2>2. PICK t \in T : \A u \in T : ~(<<u, t>> \in OpToRel(<, Nat))
    BY <2>1, WFMin, NatLessThanWellFounded
  <2>3. \A u \in T : ~(u < t)
    BY <2>1, <2>2 DEF OpToRel
  <2>4. PICK x \in S : t = hi - x
    OBVIOUS
  <2>5. ASSUME NEW y \in S PROVE x >= y
    <3>1. ~(hi - y < hi - x)
      BY <2>3, <2>4
    <3> QED BY <3>1, <1>2
  <2> QED BY <2>5
<1>4. \E x \in S : \A y \in S : x <= y
  <2> DEFINE T == {s - lo : s \in S}
  <2>1. T \subseteq Nat /\ T # {}
    <3>1. \A s \in S : s - lo \in Nat
      BY <1>2
    <3> QED BY <3>1
  <2>2. PICK t \in T : \A u \in T : ~(<<u, t>> \in OpToRel(<, Nat))
    BY <2>1, WFMin, NatLessThanWellFounded
  <2>3. \A u \in T : ~(u < t)
    BY <2>1, <2>2 DEF OpToRel
  <2>4. PICK x \in S : t = x - lo
    OBVIOUS
  <2>5. ASSUME NEW y \in S PROVE x <= y
    <3>1. ~(y - lo < x - lo)
      BY <2>3, <2>4
    <3> QED BY <3>1, <1>2
  <2> QED BY <2>5
<1> QED BY <1>3, <1>4 DEF Max, Min

\* No row lies beyond the first or last position.
LEMMA EdgesBeyond ==
  ASSUME TypeOK, NEW l, NEW z \in Shown(l)
  PROVE  rows[z].pos < Last(l) + 1 /\ First(l) - 1 < rows[z].pos
<1>1. Positions(l) \subseteq Int4 /\ rows[z].pos \in Positions(l) /\ Shown(l) # {}
  BY DEF Positions, Shown, TypeOK, Row
<1>2. /\ Max(Positions(l)) \in Int4 /\ Max(Positions(l)) >= rows[z].pos
      /\ Min(Positions(l)) \in Int4 /\ Min(Positions(l)) <= rows[z].pos
  <2> HIDE DEF Positions
  <2> QED BY <1>1, PositionsBounded
<1>3. rows[z].pos \in Int /\ Max(Positions(l)) \in Int /\ Min(Positions(l)) \in Int
  BY <1>1, <1>2, MenuConstants
<1>4. Last(l) = Max(Positions(l)) /\ First(l) = Min(Positions(l))
  BY <1>1 DEF Last, First
<1> QED BY <1>2, <1>3, <1>4

\* The position after the last and the one before the first are vacant.
LEMMA EdgesVacant ==
  ASSUME TypeOK, NEW l, NEW z \in Shown(l)
  PROVE  rows[z].pos # Last(l) + 1 /\ rows[z].pos # First(l) - 1
<1>1. rows[z].pos \in Int
  BY MenuConstants DEF Shown, TypeOK, Row
<1> QED BY <1>1, EdgesBeyond
-----------------------------------------------------------------------------
(* Types. *)

\* A request that has just begun has its type.
LEMMA StartTyped ==
  ASSUME TypeOK, NEW r \in Reqs, Start(r)
  PROVE  TypeOK'
<1>1. ASSUME NEW x \in Ids, NEW dir \in Directions, Reorder(r, x, dir) PROVE TypeOK'
  <2>1. rows[x].list \in Lists /\ rows[x].pos \in Int4
    BY DEF TypeOK, Row
  <2> DEFINE q == [Idle EXCEPT !.pc = IF dir \in {"up", "down"} THEN "neighbor" ELSE "edge",
                     !.id = x, !.dir = dir, !.list = rows[x].list, !.cur = rows[x].pos]
  <2>2. q \in Request
    BY <2>1, MenuConstants DEF Request, Idle
  <2>3. req' \in [Reqs -> Request]
    <3>1. req' = [req EXCEPT ![r] = q]
      BY <1>1 DEF Reorder
    <3> HIDE DEF q
    <3> QED BY <2>2, <3>1 DEF TypeOK
  <2> QED BY <1>1, <2>3 DEF Reorder, TypeOK
<1>2. ASSUME NEW x \in Ids, NEW l \in Lists, Insert(r, x, l) PROVE TypeOK'
  BY <1>2, MenuConstants DEF Insert, TypeOK, Request, Idle, Directions, Lists
<1>3. ASSUME NEW c \in Cats, DeleteCategory(r, c) PROVE TypeOK'
  BY <1>3, MenuConstants DEF DeleteCategory, TypeOK, Request, Idle, Directions, Lists, Ids
<1> QED
  BY <1>1, <1>2, <1>3 DEF Start, ReorderCategory, ReorderItem, CreateCategory, CreateItem, Lists, Ids

\* Every statement keeps the types.
LEMMA ProceedTyped ==
  ASSUME TypeOK, NEW r \in Reqs, Proceed(r)
  PROVE  TypeOK'
<1>1. Idle \in Request /\ Gone \in Row
  BY MenuConstants DEF Idle, Request, Gone, Row, Directions, Lists
<1>2. /\ req[r] \in Request
      /\ req[r].cur \in Int4 /\ req[r].new \in Int4 /\ req[r].list \in Lists
  BY DEF TypeOK, Request
<1>3. Drop(r) => req' \in [Reqs -> Request]
  BY <1>1 DEF Drop, TypeOK
<1>4. ASSUME NEW x, NEW p \in Int4, Place(x, p) PROVE rows' \in [Ids -> Row]
  <2>1. ASSUME NEW y \in Ids PROVE [rows[y] EXCEPT !.pos = p] \in Row
    BY DEF TypeOK, Row
  <2> QED BY <1>4, <2>1 DEF Place, TypeOK
<1>5. CASE StayAtEdge(r) \/ RefuseDelete(r)
  BY <1>3, <1>5 DEF StayAtEdge, RefuseDelete, TypeOK
<1>6. CASE FindNeighbor(r)
  <2>1. PICK y \in Nearest(r) :
          req' = [req EXCEPT ![r] = [@ EXCEPT !.pc = "target", !.with = y, !.new = rows[y].pos]]
    BY <1>6 DEF FindNeighbor
  <2>2. y \in Ids /\ rows[y].pos \in Int4
    BY DEF Nearest, Beyond, Shown, TypeOK, Row
  <2>3. req' \in [Reqs -> Request]
    BY <1>2, <2>1, <2>2 DEF TypeOK, Request
  <2> QED BY <1>6, <2>3 DEF FindNeighbor, TypeOK
<1>7. CASE FindEdge(r)
  <2> DEFINE p == IF req[r].dir = "top" THEN First(req[r].list) - 1 ELSE Last(req[r].list) + 1
  <2>1. IF p \in Int4 THEN req' = [req EXCEPT ![r] = [@ EXCEPT !.pc = "target", !.new = p]] ELSE Drop(r)
    BY <1>7 DEF FindEdge
  <2> HIDE DEF p
  <2>2. CASE p \in Int4
    <3> DEFINE q == [req[r] EXCEPT !.pc = "target", !.new = p]
    <3>1. q \in Request
      BY <1>2, <2>2 DEF Request
    <3>2. req' = [req EXCEPT ![r] = q]
      BY <2>1, <2>2
    <3> HIDE DEF q
    <3> QED BY <1>7, <3>1, <3>2 DEF FindEdge, TypeOK
  <2>3. CASE p \notin Int4
    BY <1>3, <1>7, <2>1, <2>3 DEF FindEdge, TypeOK
  <2> QED BY <2>2, <2>3
<1>8. CASE PlaceTarget(r)
  <2>1. req' \in [Reqs -> Request]
    BY <1>2, <1>3, <1>8 DEF PlaceTarget, Goto, TypeOK, Request
  <2> QED BY <1>2, <1>4, <1>8, <2>1 DEF PlaceTarget, TypeOK
<1>9. CASE PlaceOther(r)
  BY <1>2, <1>3, <1>4, <1>9 DEF PlaceOther, TypeOK
<1>10. CASE CommitInsert(r)
  BY <1>2, <1>3, <1>10 DEF CommitInsert, TypeOK, Row
<1>11. CASE CheckEmpty(r)
  BY <1>2, <1>3, <1>11 DEF CheckEmpty, Goto, TypeOK, Request
<1>12. CASE RemoveCategory(r)
  BY <1>1, <1>3, <1>12 DEF RemoveCategory, TypeOK
<1> QED BY <1>5, <1>6, <1>7, <1>8, <1>9, <1>10, <1>11, <1>12 DEF Proceed

\* So does every step.
LEMMA StepTyped == TypeOK /\ [Next]_vars => TypeOK'
<1> SUFFICES ASSUME TypeOK, [Next]_vars PROVE TypeOK'
  OBVIOUS
<1>1. ASSUME NEW i \in Items, SoftDeleteItem(i) PROVE TypeOK'
  BY <1>1 DEF SoftDeleteItem, TypeOK, Row
<1>2. ASSUME NEW r \in Reqs, Abort(r) PROVE TypeOK'
  BY <1>2, MenuConstants DEF Abort, Drop, TypeOK, Request, Idle, Directions, Lists
<1>3. CASE UNCHANGED vars
  BY <1>3 DEF vars, TypeOK
<1> QED BY <1>1, <1>2, <1>3, StartTyped, ProceedTyped DEF Next

\* Every variable of every reachable state keeps its type.
THEOREM TypeCorrect == Spec => []TypeOK
<1>1. Init => TypeOK
  BY MenuConstants DEF Init, TypeOK, Request, Idle, Directions, Lists
<1> QED BY <1>1, StepTyped, PTL DEF Spec
-----------------------------------------------------------------------------
(* Categories.  The check that a category is empty says nothing by the time of *)
(* the DELETE: what counts is the lock of an INSERT, and the foreign key.      *)

\* The category of an item that is being created is locked, so it lives.
InsertIntoLive(r) ==
  req[r].pc = "insert" /\ req[r].id \in Items
    => req[r].list \in Cats /\ rows[req[r].list].st = "live"

CatInv == TypeOK /\ ItemsHaveCategory /\ \A r \in Reqs : InsertIntoLive(r)

\* It does not depend on a request that is not creating an item.
LEMMA CatInvFrame ==
  ASSUME CatInv, NEW r \in Reqs, UNCHANGED rows, TypeOK',
         \A q \in Reqs \ {r} : req'[q] = req[q],
         req'[r].pc # "insert" \/ req'[r].id \notin Items
  PROVE  CatInv'
<1>1. ItemsHaveCategory'
  BY DEF CatInv, ItemsHaveCategory, CategoryLives
<1>2. ASSUME NEW q \in Reqs PROVE InsertIntoLive(q)'
  BY DEF CatInv, InsertIntoLive
<1> QED BY <1>1, <1>2 DEF CatInv

\* Moving rows leaves it alone.
LEMMA CatInvPlace ==
  ASSUME CatInv, NEW r \in Reqs, PlaceTarget(r) \/ PlaceOther(r), TypeOK'
  PROVE  CatInv'
<1>1. \A x \in Ids : rows'[x].st = rows[x].st /\ rows'[x].list = rows[x].list
  BY DEF PlaceTarget, PlaceOther, Place, CatInv, TypeOK, Row
<1>2. ItemsHaveCategory'
  BY <1>1 DEF CatInv, ItemsHaveCategory, CategoryLives, Ids
<1>3. ASSUME NEW q \in Reqs PROVE InsertIntoLive(q)'
  <2>1. req'[q] = req[q] \/ req'[q].pc \in {"idle", "other"}
    BY DEF PlaceTarget, PlaceOther, Goto, Drop, Idle, CatInv, TypeOK, Request
  <2> QED BY <1>1, <2>1 DEF CatInv, InsertIntoLive, Ids
<1> QED BY <1>2, <1>3 DEF CatInv

\* An item that has been created has its category: it was locked meanwhile.
LEMMA CatInvCommitInsert ==
  ASSUME CatInv, NEW r \in Reqs, CommitInsert(r), TypeOK'
  PROVE  CatInv'
<1>1. \A x \in Ids : x # req[r].id => rows'[x] = rows[x]
  BY DEF CommitInsert, CatInv, TypeOK
<1>2. req[r].id \in Ids =>
        rows'[req[r].id].st = "live" /\ rows'[req[r].id].list = req[r].list
  BY DEF CommitInsert, CatInv, TypeOK
<1>3. InsertIntoLive(r) /\ req[r].pc = "insert"
  BY DEF CatInv, CommitInsert
<1>4. \A c \in Cats : rows[c].st = "live" => rows'[c].st = "live"
  BY <1>1, <1>2 DEF Ids
<1>5. ItemsHaveCategory'
  BY <1>1, <1>2, <1>3, <1>4 DEF CatInv, ItemsHaveCategory, CategoryLives, InsertIntoLive, Ids
<1>6. ASSUME NEW q \in Reqs PROVE InsertIntoLive(q)'
  <2>1. req'[q] = req[q] \/ req'[q].pc = "idle"
    BY DEF CommitInsert, Drop, Idle, CatInv, TypeOK
  <2> QED BY <1>4, <2>1 DEF CatInv, InsertIntoLive
<1> QED BY <1>5, <1>6 DEF CatInv

\* A category that goes had no item, and none was on its way.
LEMMA CatInvRemove ==
  ASSUME CatInv, NEW r \in Reqs, RemoveCategory(r), TypeOK'
  PROVE  CatInv'
<1>1. \A x \in Ids : rows'[x] = rows[x] \/ (x = req[r].id /\ rows'[x].st = "gone")
  BY DEF RemoveCategory, Gone, CatInv, TypeOK
<1>2. \A i \in Items : rows[i].st \in {"live", "hidden"} => rows[i].list # req[r].id
  BY DEF RemoveCategory, KeptBy
<1>3. \A q \in Reqs : req[q].pc = "insert" => req[q].list # req[r].id
  BY DEF RemoveCategory, InsertersInto
<1>4. ItemsHaveCategory'
  BY <1>1, <1>2 DEF CatInv, ItemsHaveCategory, CategoryLives, Ids
<1>5. ASSUME NEW q \in Reqs PROVE InsertIntoLive(q)'
  <2>1. req'[q] = req[q] \/ req'[q].pc = "idle"
    BY DEF RemoveCategory, Drop, Idle, CatInv, TypeOK
  <2> QED BY <1>1, <1>3, <2>1 DEF CatInv, InsertIntoLive, Ids
<1> QED BY <1>4, <1>5 DEF CatInv

\* Creating an item finds its category.
LEMMA CatInvCreateItem ==
  ASSUME CatInv, NEW r \in Reqs, NEW i \in Items, NEW c \in Cats, CreateItem(r, i, c), TypeOK'
  PROVE  CatInv'
<1>1. /\ UNCHANGED rows /\ rows[c].st = "live"
      /\ \A q \in Reqs \ {r} : req'[q] = req[q]
      /\ req'[r].list = c
  BY DEF CreateItem, Insert, CatInv, TypeOK, Idle
<1>2. ItemsHaveCategory'
  BY <1>1 DEF CatInv, ItemsHaveCategory, CategoryLives
<1>3. ASSUME NEW q \in Reqs PROVE InsertIntoLive(q)'
  BY <1>1 DEF CatInv, InsertIntoLive
<1> QED BY <1>2, <1>3 DEF CatInv

\* Every step keeps the invariant.
LEMMA CatInvStep == CatInv /\ [Next]_vars => CatInv'
<1> SUFFICES ASSUME CatInv, [Next]_vars PROVE CatInv'
  OBVIOUS
<1>1. TypeOK /\ TypeOK'
  BY StepTyped DEF CatInv
<1>2. ASSUME NEW r \in Reqs, Start(r) PROVE CatInv'
  <2>1. ASSUME NEW x \in Ids, NEW dir \in Directions, Reorder(r, x, dir) PROVE CatInv'
    <3>1. /\ UNCHANGED rows /\ \A q \in Reqs \ {r} : req'[q] = req[q]
          /\ req'[r].pc # "insert"
      BY <1>1, <2>1 DEF Reorder, Idle, TypeOK
    <3> QED BY <1>1, <3>1, CatInvFrame
  <2>2. ASSUME NEW c \in Cats, CreateCategory(r, c) PROVE CatInv'
    <3>1. /\ UNCHANGED rows /\ \A q \in Reqs \ {r} : req'[q] = req[q]
          /\ req'[r].id = c /\ c \notin Items
      BY <1>1, <2>2, MenuConstants DEF CreateCategory, Insert, Idle, TypeOK
    <3> QED BY <1>1, <3>1, CatInvFrame
  <2>3. ASSUME NEW c \in Cats, DeleteCategory(r, c) PROVE CatInv'
    <3>1. /\ UNCHANGED rows /\ \A q \in Reqs \ {r} : req'[q] = req[q]
          /\ req'[r].pc # "insert"
      BY <1>1, <2>3 DEF DeleteCategory, Idle, TypeOK
    <3> QED BY <1>1, <3>1, CatInvFrame
  <2> QED BY <1>1, <1>2, <2>1, <2>2, <2>3, CatInvCreateItem DEF Start, ReorderCategory, ReorderItem
<1>3. ASSUME NEW r \in Reqs, Proceed(r) PROVE CatInv'
  <2>1. CASE StayAtEdge(r) \/ FindNeighbor(r) \/ FindEdge(r) \/ CheckEmpty(r) \/ RefuseDelete(r)
    <3>1. UNCHANGED rows /\ \A q \in Reqs \ {r} : req'[q] = req[q]
      BY <1>1, <2>1 DEF StayAtEdge, FindNeighbor, FindEdge, CheckEmpty, RefuseDelete, Drop, Goto, TypeOK
    <3>2. req'[r].pc # "insert"
      <4>1. req[r] \in Request /\ req \in [Reqs -> Request]
        BY <1>1 DEF TypeOK
      <4>2. Drop(r) => req'[r].pc = "idle"
        BY <4>1 DEF Drop, Idle
      <4>3. CASE FindNeighbor(r)
        BY <4>1, <4>3 DEF FindNeighbor, Request
      <4>4. CASE FindEdge(r)
        BY <4>1, <4>2, <4>4 DEF FindEdge, Request
      <4>5. CASE CheckEmpty(r)
        BY <4>1, <4>2, <4>5 DEF CheckEmpty, Goto, Request
      <4> QED BY <2>1, <4>2, <4>3, <4>4, <4>5 DEF StayAtEdge, RefuseDelete
    <3> QED BY <1>1, <3>1, <3>2, CatInvFrame
  <2> QED BY <1>1, <1>3, <2>1, CatInvPlace, CatInvCommitInsert, CatInvRemove DEF Proceed
<1>4. ASSUME NEW i \in Items, SoftDeleteItem(i) PROVE CatInv'
  <2>1. /\ \A x \in Ids : rows'[x] = rows[x]
                          \/ (x = i /\ rows[x].st = "live" /\ rows'[x].list = rows[x].list)
        /\ UNCHANGED req
    BY <1>1, <1>4 DEF SoftDeleteItem, TypeOK, Row
  <2>2. \A c \in Cats : rows'[c] = rows[c]
    BY <2>1, MenuConstants DEF Ids
  <2>3. ItemsHaveCategory'
    BY <2>1, <2>2 DEF CatInv, ItemsHaveCategory, CategoryLives, Ids
  <2>4. ASSUME NEW r \in Reqs PROVE InsertIntoLive(r)'
    BY <2>1, <2>2 DEF CatInv, InsertIntoLive
  <2> QED BY <1>1, <2>3, <2>4 DEF CatInv
<1>5. ASSUME NEW r \in Reqs, Abort(r) PROVE CatInv'
  <2>1. /\ UNCHANGED rows /\ \A q \in Reqs \ {r} : req'[q] = req[q]
        /\ req'[r].pc # "insert"
    BY <1>1, <1>5 DEF Abort, Drop, Idle, TypeOK
  <2> QED BY <1>1, <2>1, CatInvFrame
<1>6. CASE UNCHANGED vars
  BY <1>6 DEF vars, CatInv, TypeOK, ItemsHaveCategory, CategoryLives, InsertIntoLive
<1> QED BY <1>2, <1>3, <1>4, <1>5, <1>6 DEF Next

\* However the requests of admins interleave, every item, shown or soft-deleted,
\* names a category that exists.
THEOREM ItemsKeepCategory == Spec => []ItemsHaveCategory
<1>1. Init => CatInv
  BY MenuConstants, ConsistentMenu
  DEF Init, CatInv, TypeOK, Request, Idle, Directions, Lists, ItemsHaveCategory, InsertIntoLive
<1>2. CatInv => ItemsHaveCategory
  BY DEF CatInv
<1> QED BY <1>1, <1>2, CatInvStep, PTL DEF Spec
-----------------------------------------------------------------------------
(* Positions.  Nothing but the habits of the admins keeps two requests from    *)
(* arranging rows at the same time, or one from ending between the two UPDATEs *)
(* of a swap: what follows assumes both.                                       *)

OneAtATime == (\A r, q \in Writers : r = q) /\ "halfSwap" \notin Ops

LiveIn(x, l) == rows[x].st = "live" /\ rows[x].list = l

Arranging(r) == req[r].pc \in {"neighbor", "edge", "target", "other", "insert"}

\* A position of the list of r at which no row (but those of S) is shown.
Free(r, p, S) == \A z \in Ids \ S : LiveIn(z, req[r].list) => rows[z].pos # p

\* Only the two rows of a swap are shown at its two positions.
Between(r) ==
  /\ req[r].id # req[r].with /\ req[r].with \in Ids /\ req[r].cur # req[r].new
  /\ \A p \in {req[r].cur, req[r].new} : Free(r, p, {req[r].id, req[r].with})
  /\ rows[req[r].with].st = "live" => rows[req[r].with].list = req[r].list

WriterOK(r) ==
  Arranging(r) =>
    /\ r \in Writers /\ req[r].id \in Ids
    /\ req[r].pc # "insert" => (rows[req[r].id].st = "live" => rows[req[r].id].list = req[r].list)

NeighborOK(r) ==
  req[r].pc = "neighbor" =>
    /\ req[r].dir \in {"up", "down"}
    /\ rows[req[r].id].st = "live" => rows[req[r].id].pos = req[r].cur
    /\ Free(r, req[r].cur, {req[r].id})

EdgeOK(r) == req[r].pc = "edge" => req[r].dir \notin {"up", "down"}

TargetOK(r) ==
  req[r].pc = "target" =>
    IF req[r].dir \in {"up", "down"}
      THEN Between(r) /\ (rows[req[r].with].st = "live" => rows[req[r].with].pos = req[r].new)
      ELSE Free(r, req[r].new, {})

OtherOK(r) ==
  req[r].pc = "other" =>
    Between(r) /\ (rows[req[r].id].st = "live" => rows[req[r].id].pos = req[r].new)

InsertOK(r) == req[r].pc = "insert" => Free(r, req[r].new, {})

\* What a request knows of the rows it will write, although others delete.
ArrangeOK(r) ==
  WriterOK(r) /\ NeighborOK(r) /\ EdgeOK(r) /\ TargetOK(r) /\ OtherOK(r) /\ InsertOK(r)

\* Two rows share a position only while a swap has moved one of the two.
TiesOfSwaps ==
  \A x, y \in Ids :
    x # y /\ rows[x].st = "live" /\ LiveIn(y, rows[x].list) /\ rows[x].pos = rows[y].pos
    => \E r \in Reqs : req[r].pc = "other" /\ {x, y} = {req[r].id, req[r].with}

ArrInv == TypeOK /\ TiesOfSwaps /\ \A r \in Reqs : ArrangeOK(r)

\* While the writer is not in the middle of a swap there are no ties.
LEMMA NoTies ==
  ASSUME OneAtATime, ArrInv, NEW r \in Writers, req[r].pc # "other"
  PROVE  Distinct(rows)
<1>1. ASSUME NEW q \in Reqs PROVE req[q].pc # "other"
  BY DEF OneAtATime, ArrInv, ArrangeOK, WriterOK, Arranging
<1> QED BY <1>1 DEF ArrInv, TiesOfSwaps, Distinct, LiveIn

\* A step of the writer keeps the invariant if it leaves it in order.
LEMMA WriterStep ==
  ASSUME OneAtATime, ArrInv, NEW r \in Writers, \A q \in Reqs \ {r} : req'[q] = req[q],
         TypeOK', ArrangeOK(r)',
         Distinct(rows)' \/ TiesOfSwaps'
  PROVE  ArrInv'
<1>1. ASSUME NEW q \in Reqs \ {r} PROVE ArrangeOK(q)'
  <2>1. ~Arranging(q)
    BY DEF OneAtATime, ArrInv, ArrangeOK, WriterOK
  <2>2. ~Arranging(q)'
    BY <2>1 DEF Arranging
  <2> QED BY <2>2 DEF ArrangeOK, Arranging, WriterOK, NeighborOK, EdgeOK, TargetOK, OtherOK, InsertOK
<1>2. TiesOfSwaps'
  BY DEF TiesOfSwaps, Distinct, LiveIn
<1> QED BY <1>1, <1>2 DEF ArrInv

\* A row leaves its list, or nothing happens to it.
Shrinks == \A x \in Ids : rows'[x] = rows[x] \/ rows'[x].st # "live"

\* What the writer knows is not disturbed by rows that leave.
LEMMA ShrinkKeeps ==
  ASSUME ArrInv, Shrinks, NEW q \in Reqs, req'[q] = req[q]
  PROVE  ArrangeOK(q)'
<1>1. ArrangeOK(q)
  BY DEF ArrInv
<1>2. \A x \in Ids : rows'[x].st = "live" => rows'[x] = rows[x]
  BY DEF Shrinks
<1>3. WriterOK(q)'
  BY <1>1, <1>2 DEF ArrangeOK, WriterOK, Arranging
<1>4. ASSUME NEW p, NEW S, Free(q, p, S)
      PROVE  \A z \in Ids \ S : LiveIn(z, req[q].list)' => rows'[z].pos # p
  BY <1>2, <1>4 DEF Free, LiveIn
<1>5. NeighborOK(q)' /\ EdgeOK(q)'
  BY <1>1, <1>2, <1>4 DEF ArrangeOK, WriterOK, Arranging, NeighborOK, EdgeOK, Free, LiveIn
<1>6. Between(q) => Between(q)'
  BY <1>2 DEF Between, Free, LiveIn
<1>7. TargetOK(q)'
  BY <1>1, <1>2, <1>6 DEF ArrangeOK, TargetOK, Between, Free, LiveIn
<1>8. OtherOK(q)'
  BY <1>1, <1>2, <1>6 DEF ArrangeOK, WriterOK, Arranging, OtherOK
<1>9. InsertOK(q)'
  BY <1>1, <1>2 DEF ArrangeOK, InsertOK, Free, LiveIn
<1> QED BY <1>3, <1>5, <1>7, <1>8, <1>9 DEF ArrangeOK

\* A step of a request that deletes keeps the invariant.
LEMMA DeleterStep ==
  ASSUME ArrInv, NEW r \in Reqs, \A q \in Reqs \ {r} : req'[q] = req[q],
         req'[r] = req[r] \/ (req[r].pc # "other" /\ ~Arranging(r)'),
         TypeOK', Shrinks
  PROVE  ArrInv'
<1>1. ASSUME NEW q \in Reqs, req'[q] # req[q] PROVE ArrangeOK(q)'
  BY <1>1 DEF ArrangeOK, Arranging, WriterOK, NeighborOK, EdgeOK, TargetOK, OtherOK, InsertOK
<1>2. TiesOfSwaps'
  <2>1. \A x \in Ids : rows'[x].st = "live" => rows'[x] = rows[x]
    BY DEF Shrinks
  <2>2. \A q \in Reqs : req[q].pc = "other" => req'[q] = req[q]
    OBVIOUS
  <2> QED BY <2>1, <2>2 DEF ArrInv, TiesOfSwaps, LiveIn
<1> QED BY <1>1, <1>2, ShrinkKeeps DEF ArrInv
\* UPDATE ... SET sort_order changes the position of one row only.
LEMMA PlaceMoves ==
  ASSUME TypeOK, NEW x, NEW p, Place(x, p)
  PROVE  /\ \A z \in Ids : rows'[z].st = rows[z].st /\ rows'[z].list = rows[z].list
         /\ \A z \in Ids \ {x} : rows'[z] = rows[z]
         /\ x \in Ids /\ rows[x].st = "live" => rows'[x].pos = p
  BY DEF Place, TypeOK, Row

\* Reading the row to move.
LEMMA ReorderArranges ==
  ASSUME OneAtATime, ArrInv, NEW r \in Reqs, NEW x \in Ids, NEW dir \in Directions,
         Reorder(r, x, dir), TypeOK'
  PROVE  ArrInv'
<1>1. r \in Writers /\ req[r].pc = "idle" /\ UNCHANGED rows /\ Distinct(rows)
  BY NoTies DEF Reorder, Busy
<1>2. /\ \A q \in Reqs \ {r} : req'[q] = req[q]
      /\ req'[r].pc = IF dir \in {"up", "down"} THEN "neighbor" ELSE "edge"
      /\ req'[r].id = x /\ req'[r].dir = dir
      /\ req'[r].list = rows[x].list /\ req'[r].cur = rows[x].pos
  BY DEF Reorder, Idle, ArrInv, TypeOK
<1>3. rows[x].st = "live"
  BY DEF Reorder
<1>4. ArrangeOK(r)'
  <2>1. WriterOK(r)' /\ EdgeOK(r)' /\ TargetOK(r)' /\ OtherOK(r)' /\ InsertOK(r)'
    BY <1>1, <1>2 DEF WriterOK, EdgeOK, TargetOK, OtherOK, InsertOK
  <2>2. Free(r, req[r].cur, {req[r].id})'
    BY <1>1, <1>2, <1>3 DEF Free, LiveIn, Distinct
  <2>3. NeighborOK(r)'
    BY <1>1, <1>2, <2>2 DEF NeighborOK
  <2> QED BY <2>1, <2>3 DEF ArrangeOK
<1>5. Distinct(rows)'
  BY <1>1 DEF Distinct
<1> QED BY <1>1, <1>2, <1>4, <1>5, WriterStep

\* Reading its neighbor.
LEMMA FindNeighborArranges ==
  ASSUME OneAtATime, ArrInv, NEW r \in Reqs, FindNeighbor(r), TypeOK'
  PROVE  ArrInv'
<1>1. /\ req[r].pc = "neighbor" /\ UNCHANGED rows /\ r \in Writers /\ req[r].id \in Ids
      /\ WriterOK(r) /\ NeighborOK(r)
  BY DEF FindNeighbor, ArrInv, ArrangeOK, WriterOK, Arranging
<1>2. Distinct(rows)
  BY <1>1, NoTies
<1>3. PICK y \in Nearest(r) :
        req' = [req EXCEPT ![r] = [@ EXCEPT !.pc = "target", !.with = y, !.new = rows[y].pos]]
  BY DEF FindNeighbor
<1>4. /\ \A q \in Reqs \ {r} : req'[q] = req[q]
      /\ req'[r].pc = "target" /\ req'[r].with = y /\ req'[r].new = rows[y].pos
      /\ req'[r].id = req[r].id /\ req'[r].dir = req[r].dir
      /\ req'[r].list = req[r].list /\ req'[r].cur = req[r].cur
  BY <1>3 DEF ArrInv, TypeOK, Request
<1>5. /\ y \in Ids /\ rows[y].st = "live" /\ rows[y].list = req[r].list
      /\ rows[y].pos # req[r].cur
  <2>1. /\ y \in Ids /\ rows[y].st = "live" /\ rows[y].list = req[r].list
        /\ rows[y].pos < req[r].cur \/ rows[y].pos > req[r].cur
    BY DEF Nearest, Beyond, Shown
  <2>2. rows[y].pos \in Int /\ req[r].cur \in Int
    BY <2>1, MenuConstants DEF ArrInv, TypeOK, Row, Request
  <2> QED BY <2>1, <2>2
<1>6. y # req[r].id
  BY <1>1, <1>5 DEF NeighborOK
<1>7. Free(r, rows[y].pos, {req[r].id, y})
  BY <1>2, <1>5 DEF Distinct, Free, LiveIn
<1>8. Free(r, req[r].cur, {req[r].id, y})
  BY <1>1 DEF NeighborOK, Free
<1>9. Between(r)'
  BY <1>1, <1>4, <1>5, <1>6, <1>7, <1>8 DEF Between, Free, LiveIn
<1>10. TargetOK(r)'
  BY <1>1, <1>4, <1>9 DEF TargetOK, NeighborOK
<1>11. ArrangeOK(r)'
  BY <1>1, <1>4, <1>10 DEF ArrangeOK, WriterOK, Arranging, NeighborOK, EdgeOK, OtherOK, InsertOK
<1>12. Distinct(rows)'
  BY <1>1, <1>2 DEF Distinct
<1> QED BY <1>1, <1>4, <1>11, <1>12, WriterStep

\* Reading the first or the last position.
LEMMA FindEdgeArranges ==
  ASSUME OneAtATime, ArrInv, NEW r \in Reqs, FindEdge(r), TypeOK'
  PROVE  ArrInv'
<1>1. /\ req[r].pc = "edge" /\ UNCHANGED rows /\ r \in Writers
      /\ WriterOK(r) /\ EdgeOK(r) /\ TypeOK
  BY DEF FindEdge, ArrInv, ArrangeOK, WriterOK, Arranging
<1>2. Distinct(rows)'
  BY <1>1, NoTies DEF Distinct
<1>3. \A q \in Reqs \ {r} : req'[q] = req[q]
  BY <1>1 DEF FindEdge, Drop, TypeOK
<1> DEFINE p == IF req[r].dir = "top" THEN First(req[r].list) - 1 ELSE Last(req[r].list) + 1
<1>4. IF p \in Int4 THEN req' = [req EXCEPT ![r] = [@ EXCEPT !.pc = "target", !.new = p]] ELSE Drop(r)
  BY DEF FindEdge
<1>5. Free(r, p, {})
  <2> SUFFICES ASSUME NEW z \in Ids, LiveIn(z, req[r].list) PROVE rows[z].pos # p
    BY DEF Free
  <2>1. rows[z].pos # Last(req[r].list) + 1 /\ rows[z].pos # First(req[r].list) - 1
    BY <1>1, EdgesVacant DEF LiveIn, Shown
  <2> QED BY <2>1
<1> HIDE DEF p
<1>6. CASE p \in Int4
  <2>1. /\ req'[r].pc = "target" /\ req'[r].new = p /\ req'[r].id = req[r].id
        /\ req'[r].dir = req[r].dir /\ req'[r].list = req[r].list
    <3> DEFINE q == [req[r] EXCEPT !.pc = "target", !.new = p]
    <3>1. req[r] \in Request
      BY <1>1 DEF TypeOK
    <3>2. /\ q.pc = "target" /\ q.new = p /\ q.id = req[r].id
          /\ q.dir = req[r].dir /\ q.list = req[r].list
      BY <3>1 DEF Request
    <3>3. req' = [req EXCEPT ![r] = q]
      BY <1>4, <1>6
    <3> HIDE DEF q
    <3>4. req'[r] = q
      BY <1>1, <3>3 DEF TypeOK
    <3> QED BY <3>2, <3>4
  <2>2. Free(r, req[r].new, {})'
    BY <1>1, <1>5, <2>1 DEF Free, LiveIn
  <2>3. TargetOK(r)'
    BY <1>1, <2>1, <2>2 DEF TargetOK, EdgeOK
  <2>4. ArrangeOK(r)'
    BY <1>1, <2>1, <2>3 DEF ArrangeOK, WriterOK, Arranging, NeighborOK, EdgeOK, OtherOK, InsertOK
  <2> QED BY <1>1, <1>2, <1>3, <2>4, WriterStep
<1>7. CASE p \notin Int4
  <2>1. req'[r].pc = "idle"
    BY <1>1, <1>4, <1>7 DEF Drop, Idle, TypeOK
  <2>2. ArrangeOK(r)'
    BY <2>1 DEF ArrangeOK, WriterOK, Arranging, NeighborOK, EdgeOK, TargetOK, OtherOK, InsertOK
  <2> QED BY <1>1, <1>2, <1>3, <2>2, WriterStep
<1> QED BY <1>6, <1>7
\* The first UPDATE.
LEMMA PlaceTargetArranges ==
  ASSUME OneAtATime, ArrInv, NEW r \in Reqs, PlaceTarget(r), TypeOK'
  PROVE  ArrInv'
<1>1. /\ req[r].pc = "target" /\ r \in Writers /\ req[r].id \in Ids
      /\ Place(req[r].id, req[r].new)
      /\ WriterOK(r) /\ TargetOK(r) /\ TypeOK
  BY DEF PlaceTarget, ArrInv, ArrangeOK, WriterOK, Arranging
<1>2. Distinct(rows)
  BY <1>1, NoTies
<1>3. /\ \A z \in Ids : rows'[z].st = rows[z].st /\ rows'[z].list = rows[z].list
      /\ \A z \in Ids \ {req[r].id} : rows'[z] = rows[z]
      /\ rows[req[r].id].st = "live" => rows'[req[r].id].pos = req[r].new
  <2> DEFINE x == req[r].id  n == req[r].new
  <2>1. Place(x, n) /\ x \in Ids
    BY <1>1
  <2> HIDE DEF x, n
  <2>2. /\ \A z \in Ids : rows'[z].st = rows[z].st /\ rows'[z].list = rows[z].list
        /\ \A z \in Ids \ {x} : rows'[z] = rows[z]
        /\ rows[x].st = "live" => rows'[x].pos = n
    BY <1>1, <2>1, PlaceMoves
  <2> QED BY <2>2 DEF x, n
<1>4. rows[req[r].id].st = "live" => rows[req[r].id].list = req[r].list
  BY <1>1 DEF WriterOK, Arranging
<1>5. \A q \in Reqs \ {r} : req'[q] = req[q]
  BY <1>1 DEF PlaceTarget, Goto, Drop, TypeOK
<1>6. CASE req[r].dir \in {"up", "down"}
  <2>1. Between(r)
    BY <1>1, <1>6 DEF TargetOK
  <2>2. /\ req'[r].pc = "other" /\ req'[r].id = req[r].id /\ req'[r].with = req[r].with
        /\ req'[r].list = req[r].list /\ req'[r].cur = req[r].cur /\ req'[r].new = req[r].new
    BY <1>1, <1>6 DEF PlaceTarget, Goto, TypeOK, Request
  <2>3. Between(r)'
    BY <1>3, <2>1, <2>2 DEF Between, Free, LiveIn
  <2>4. ArrangeOK(r)'
    BY <1>1, <1>3, <1>4, <2>2, <2>3
    DEF ArrangeOK, WriterOK, Arranging, NeighborOK, EdgeOK, TargetOK, OtherOK, InsertOK
  <2>5. TiesOfSwaps'
    <3> SUFFICES ASSUME NEW x \in Ids, NEW y \in Ids, x # y,
                        rows'[x].st = "live", rows'[y].st = "live",
                        rows'[x].list = rows'[y].list, rows'[x].pos = rows'[y].pos
                 PROVE  {x, y} = {req[r].id, req[r].with}
      BY <2>2 DEF TiesOfSwaps, LiveIn
    <3>1. x = req[r].id \/ y = req[r].id
      BY <1>2, <1>3 DEF Distinct
    <3>2. ASSUME NEW z \in Ids \ {req[r].id, req[r].with}, LiveIn(z, req[r].list)
          PROVE  rows'[z].pos # req[r].new
      BY <1>3, <2>1, <3>2 DEF Between, Free
    <3> QED BY <1>3, <1>4, <3>1, <3>2 DEF LiveIn
  <2> QED BY <1>1, <1>5, <2>4, <2>5, WriterStep
<1>7. CASE req[r].dir \notin {"up", "down"}
  <2>1. req'[r].pc = "idle"
    BY <1>1, <1>7 DEF PlaceTarget, Drop, Idle, TypeOK
  <2>2. ArrangeOK(r)'
    BY <2>1 DEF ArrangeOK, WriterOK, Arranging, NeighborOK, EdgeOK, TargetOK, OtherOK, InsertOK
  <2>3. Free(r, req[r].new, {})
    BY <1>1, <1>7 DEF TargetOK
  <2>4. Distinct(rows)'
    BY <1>2, <1>3, <1>4, <2>3 DEF Distinct, Free, LiveIn
  <2> QED BY <1>1, <1>5, <2>2, <2>4, WriterStep
<1> QED BY <1>6, <1>7

\* The second UPDATE of a swap.
LEMMA PlaceOtherArranges ==
  ASSUME OneAtATime, ArrInv, NEW r \in Reqs, PlaceOther(r), TypeOK'
  PROVE  ArrInv'
<1>1. /\ req[r].pc = "other" /\ r \in Writers /\ req[r].id \in Ids
      /\ Place(req[r].with, req[r].cur) /\ Drop(r)
      /\ WriterOK(r) /\ OtherOK(r) /\ Between(r) /\ TypeOK
  BY DEF PlaceOther, ArrInv, ArrangeOK, WriterOK, OtherOK, Arranging
<1>2. req[r].with \in Ids
  BY <1>1 DEF Between
<1>3. /\ \A z \in Ids : rows'[z].st = rows[z].st /\ rows'[z].list = rows[z].list
      /\ \A z \in Ids \ {req[r].with} : rows'[z] = rows[z]
      /\ rows[req[r].with].st = "live" => rows'[req[r].with].pos = req[r].cur
  <2> DEFINE x == req[r].with  n == req[r].cur
  <2>1. Place(x, n) /\ x \in Ids
    BY <1>1, <1>2
  <2> HIDE DEF x, n
  <2>2. /\ \A z \in Ids : rows'[z].st = rows[z].st /\ rows'[z].list = rows[z].list
        /\ \A z \in Ids \ {x} : rows'[z] = rows[z]
        /\ rows[x].st = "live" => rows'[x].pos = n
    BY <1>1, <2>1, PlaceMoves
  <2> QED BY <2>2 DEF x, n
<1>4. ASSUME NEW q \in Reqs, req[q].pc = "other" PROVE q = r
  BY <1>1, <1>4 DEF OneAtATime, ArrInv, ArrangeOK, WriterOK, Arranging
<1>5. /\ req'[r].pc = "idle" /\ \A q \in Reqs \ {r} : req'[q] = req[q]
  BY <1>1 DEF Drop, Idle, TypeOK
<1>6. ArrangeOK(r)'
  BY <1>5 DEF ArrangeOK, WriterOK, Arranging, NeighborOK, EdgeOK, TargetOK, OtherOK, InsertOK
<1>7. ASSUME NEW z \in Ids \ {req[r].with}, rows[z].st = "live",
             rows[req[r].with].st = "live", rows[z].list = rows[req[r].with].list
      PROVE  rows[z].pos # req[r].cur
  <2>1. rows[z].list = req[r].list
    BY <1>1, <1>7 DEF Between
  <2>2. CASE z = req[r].id
    BY <1>1, <1>7, <2>2 DEF OtherOK, Between
  <2>3. CASE z # req[r].id
    BY <1>1, <1>7, <2>1, <2>3 DEF Between, Free, LiveIn
  <2> QED BY <2>2, <2>3
<1>8. ASSUME NEW x \in Ids \ {req[r].with}, NEW y \in Ids \ {req[r].with}, x # y,
             rows[x].st = "live", rows[y].st = "live", rows[x].list = rows[y].list
      PROVE  rows[x].pos # rows[y].pos
  BY <1>4, <1>8 DEF ArrInv, TiesOfSwaps, LiveIn
<1>9. Distinct(rows)'
  BY <1>3, <1>7, <1>8 DEF Distinct
<1> QED BY <1>1, <1>5, <1>6, <1>9, WriterStep

\* An INSERT reads the last position ...
LEMMA InsertArranges ==
  ASSUME OneAtATime, ArrInv, NEW r \in Reqs, NEW x \in Ids, NEW l \in Lists, Insert(r, x, l),
         TypeOK'
  PROVE  ArrInv'
<1>1. /\ r \in Writers /\ req[r].pc = "idle" /\ UNCHANGED rows /\ TypeOK /\ Distinct(rows)
  BY NoTies DEF Insert, Busy, ArrInv
<1>2. /\ \A q \in Reqs \ {r} : req'[q] = req[q]
      /\ req'[r].pc = "insert" /\ req'[r].id = x /\ req'[r].list = l /\ req'[r].new = Last(l) + 1
  BY <1>1 DEF Insert, Idle, TypeOK
<1>3. \A z \in Ids : LiveIn(z, l) => rows[z].pos # Last(l) + 1
  BY <1>1, EdgesVacant DEF LiveIn, Shown
<1>4. Free(r, req[r].new, {})'
  BY <1>1, <1>2, <1>3 DEF Free, LiveIn
<1>5. ArrangeOK(r)'
  BY <1>1, <1>2, <1>4 DEF ArrangeOK, WriterOK, Arranging, NeighborOK, EdgeOK, TargetOK, OtherOK, InsertOK
<1>6. Distinct(rows)'
  BY <1>1 DEF Distinct
<1> QED BY <1>1, <1>2, <1>5, <1>6, WriterStep

\* ... and appends its row.
LEMMA CommitInsertArranges ==
  ASSUME OneAtATime, ArrInv, NEW r \in Reqs, CommitInsert(r), TypeOK'
  PROVE  ArrInv'
<1>1. /\ req[r].pc = "insert" /\ r \in Writers /\ req[r].id \in Ids /\ TypeOK
      /\ Free(r, req[r].new, {})
  BY DEF CommitInsert, ArrInv, ArrangeOK, WriterOK, InsertOK, Arranging
<1>2. Distinct(rows)
  BY <1>1, NoTies
<1>3. /\ \A z \in Ids \ {req[r].id} : rows'[z] = rows[z]
      /\ rows'[req[r].id].list = req[r].list /\ rows'[req[r].id].pos = req[r].new
  BY <1>1 DEF CommitInsert, TypeOK
<1>4. /\ req'[r].pc = "idle" /\ \A q \in Reqs \ {r} : req'[q] = req[q]
  BY <1>1 DEF CommitInsert, Drop, Idle, TypeOK
<1>5. ArrangeOK(r)'
  BY <1>4 DEF ArrangeOK, WriterOK, Arranging, NeighborOK, EdgeOK, TargetOK, OtherOK, InsertOK
<1>6. Distinct(rows)'
  BY <1>1, <1>2, <1>3 DEF Distinct, Free, LiveIn
<1> QED BY <1>1, <1>4, <1>5, <1>6, WriterStep
\* A request that deletes, and one that ends, disturb nothing.
LEMMA OthersKeep ==
  ASSUME OneAtATime, ArrInv, TypeOK',
         \/ \E i \in Items : SoftDeleteItem(i)
         \/ \E r \in Reqs : \/ \E c \in Cats : DeleteCategory(r, c)
                          \/ CheckEmpty(r) \/ RemoveCategory(r) \/ RefuseDelete(r)
                          \/ StayAtEdge(r) \/ Abort(r)
  PROVE  ArrInv'
<1>1. TypeOK
  BY DEF ArrInv
<1>2. ASSUME NEW i \in Items, SoftDeleteItem(i) PROVE ArrInv'
  <2>1. Shrinks /\ UNCHANGED req
    BY <1>1, <1>2 DEF SoftDeleteItem, Shrinks, TypeOK, Row
  <2>2. TiesOfSwaps'
    BY <2>1 DEF ArrInv, TiesOfSwaps, LiveIn, Shrinks
  <2>3. ASSUME NEW q \in Reqs PROVE ArrangeOK(q)'
    BY <2>1, ShrinkKeeps
  <2> QED BY <2>2, <2>3 DEF ArrInv
<1>3. ASSUME NEW r \in Reqs,
             \/ \E c \in Cats : DeleteCategory(r, c)
             \/ CheckEmpty(r) \/ RemoveCategory(r) \/ RefuseDelete(r) \/ StayAtEdge(r) \/ Abort(r)
      PROVE ArrInv'
  <2>1. Shrinks
    <3>1. CASE RemoveCategory(r)
      BY <1>1, <3>1 DEF RemoveCategory, Shrinks, TypeOK, Gone
    <3>2. CASE ~RemoveCategory(r)
      <4>1. UNCHANGED rows
        BY <1>3, <3>2 DEF DeleteCategory, CheckEmpty, RefuseDelete, StayAtEdge, Abort
      <4> QED BY <4>1 DEF Shrinks
    <3> QED BY <3>1, <3>2
  <2>2. \A q \in Reqs \ {r} : req'[q] = req[q]
    BY <1>1, <1>3 DEF DeleteCategory, CheckEmpty, RemoveCategory, RefuseDelete, StayAtEdge, Abort,
                      Drop, Goto, TypeOK
  <2>3. req[r].pc # "other"
    BY <1>3 DEF DeleteCategory, CheckEmpty, RemoveCategory, RefuseDelete, StayAtEdge, Abort,
                OneAtATime, Busy
  <2>4. req'[r].pc \in {"idle", "check", "delete"}
    <3>1. Drop(r) => req'[r].pc = "idle"
      BY <1>1 DEF Drop, Idle, TypeOK
    <3>2. ASSUME NEW c \in Cats, DeleteCategory(r, c) PROVE req'[r].pc = "check"
      BY <1>1, <3>2 DEF DeleteCategory, Idle, TypeOK
    <3>3. CheckEmpty(r) => Drop(r) \/ req'[r].pc = "delete"
      BY <1>1 DEF CheckEmpty, Goto, TypeOK, Request
    <3> QED BY <1>3, <3>1, <3>2, <3>3 DEF RemoveCategory, RefuseDelete, StayAtEdge, Abort
  <2> QED BY <2>1, <2>2, <2>3, <2>4, DeleterStep DEF Arranging
<1> QED BY <1>2, <1>3

\* Every step keeps the invariant.
LEMMA ArrInvStep == ASSUME OneAtATime PROVE ArrInv /\ [Next]_vars => ArrInv'
<1> SUFFICES ASSUME ArrInv, [Next]_vars PROVE ArrInv'
  OBVIOUS
<1>1. TypeOK'
  BY StepTyped DEF ArrInv
<1>2. ASSUME NEW r \in Reqs, Start(r) PROVE ArrInv'
  <2>1. \/ \E x \in Ids, dir \in Directions : Reorder(r, x, dir)
        \/ \E x \in Ids, l \in Lists : Insert(r, x, l)
        \/ \E c \in Cats : DeleteCategory(r, c)
    BY <1>2 DEF Start, ReorderCategory, ReorderItem, CreateCategory, CreateItem, Ids, Lists
  <2> QED BY <1>1, <2>1, ReorderArranges, InsertArranges, OthersKeep
<1>3. ASSUME NEW r \in Reqs, Proceed(r) PROVE ArrInv'
  BY <1>1, <1>3, FindNeighborArranges, FindEdgeArranges, PlaceTargetArranges, PlaceOtherArranges,
     CommitInsertArranges, OthersKeep DEF Proceed
<1>4. CASE UNCHANGED vars
  <2>1. /\ rows' = rows /\ req' = req
    BY <1>4 DEF vars
  <2>2. TiesOfSwaps'
    BY <2>1 DEF ArrInv, TiesOfSwaps, LiveIn
  <2>3. Shrinks
    BY <2>1 DEF Shrinks
  <2> QED BY <1>1, <2>1, <2>2, <2>3, ShrinkKeeps DEF ArrInv
<1> QED BY <1>1, <1>2, <1>3, <1>4, OthersKeep DEF Next

\* The invariant holds at the start.
LEMMA ArrInvInit == Init => ArrInv
<1> SUFFICES ASSUME Init PROVE ArrInv
  OBVIOUS
<1>1. TypeOK /\ \A r \in Reqs : req[r].pc = "idle"
  BY MenuConstants DEF Init, TypeOK, Request, Idle, Directions, Lists
<1>2. TiesOfSwaps
  BY ConsistentMenu DEF Init, Distinct, TiesOfSwaps, LiveIn
<1>3. ASSUME NEW r \in Reqs PROVE ArrangeOK(r)
  BY <1>1 DEF ArrangeOK, WriterOK, Arranging, NeighborOK, EdgeOK, TargetOK, OtherOK, InsertOK
<1> QED BY <1>1, <1>2, <1>3 DEF ArrInv

\* Where the rows are headed: only a swap that is half done moves a row on.
HeadingsOK ==
  \A x \in Ids :
    /\ Heading(x) \in Int
    /\ (\A r \in Reqs : req[r].pc # "other") => Heading(x) = rows[x].pos
    /\ \A r \in Reqs : req[r].pc = "other" =>
         Heading(x) = IF x = req[r].with THEN req[r].cur ELSE rows[x].pos

LEMMA Headings == ASSUME OneAtATime PROVE ArrInv => HeadingsOK
<1> SUFFICES ASSUME ArrInv, NEW x \in Ids
             PROVE  /\ Heading(x) \in Int
                    /\ (\A r \in Reqs : req[r].pc # "other") => Heading(x) = rows[x].pos
                    /\ \A r \in Reqs : req[r].pc = "other" =>
                         Heading(x) = IF x = req[r].with THEN req[r].cur ELSE rows[x].pos
  BY DEF HeadingsOK
<1> DEFINE swaps == {r \in Reqs : req[r].pc = "other" /\ req[r].with = x}
<1>1. ASSUME NEW r \in Reqs, NEW q \in Reqs, req[r].pc = "other", req[q].pc = "other" PROVE r = q
  BY <1>1 DEF OneAtATime, ArrInv, ArrangeOK, WriterOK, Arranging
<1>2. swaps = {} => Heading(x) = rows[x].pos
  BY DEF Heading
<1>3. ASSUME NEW r \in Reqs, req[r].pc = "other", req[r].with = x PROVE Heading(x) = req[r].cur
  <2>1. swaps = {r}
    BY <1>1, <1>3
  <2> QED BY <2>1 DEF Heading
<1>4. rows[x].pos \in Int /\ \A r \in Reqs : req[r].cur \in Int
  BY MenuConstants DEF ArrInv, TypeOK, Row, Request
<1>5. ASSUME NEW r \in Reqs, req[r].pc = "other"
      PROVE  Heading(x) = IF x = req[r].with THEN req[r].cur ELSE rows[x].pos
  <2>1. CASE req[r].with = x
    BY <1>3, <1>5, <2>1
  <2>2. CASE req[r].with # x
    <3>1. swaps = {}
      BY <1>1, <1>5, <2>2
    <3> QED BY <1>2, <2>2, <3>1
  <2> QED BY <2>1, <2>2
<1>6. (\A r \in Reqs : req[r].pc # "other") => swaps = {}
  OBVIOUS
<1> HIDE DEF swaps
<1>7. (\A r \in Reqs : req[r].pc # "other") => Heading(x) = rows[x].pos
  BY <1>2, <1>6
<1> QED BY <1>4, <1>5, <1>7

\* After a step, too.
LEMMA HeadingsNext == ASSUME OneAtATime PROVE (ArrInv => HeadingsOK)'
<1>1. ArrInv => HeadingsOK
  BY Headings
<1> QED BY <1>1, PTL

\* In the middle of a swap its two rows are on their way to different positions.
LEMMA HeadingDistinct == ASSUME OneAtATime, ArrInv PROVE PositionsDistinct
<1>1. ASSUME NEW r \in Reqs, NEW q \in Reqs, req[r].pc = "other", req[q].pc = "other" PROVE r = q
  BY <1>1 DEF OneAtATime, ArrInv, ArrangeOK, WriterOK, Arranging
<1> SUFFICES ASSUME NEW x \in Ids, NEW y \in Ids, x # y, rows[x].st = "live", rows[y].st = "live",
                    rows[x].list = rows[y].list, Heading(x) = Heading(y)
             PROVE  FALSE
  <2> DEFINE table == [x \in Ids |-> [rows[x] EXCEPT !.pos = Heading(x)]]
  <2>1. \A x \in Ids : /\ table[x].st = rows[x].st /\ table[x].list = rows[x].list
                       /\ table[x].pos = Heading(x)
    BY DEF ArrInv, TypeOK, Row
  <2>2. PositionsDistinct <=> Distinct(table)
    BY DEF PositionsDistinct
  <2> HIDE DEF table
  <2> QED BY <2>1, <2>2 DEF Distinct
<1>2. HeadingsOK
  BY Headings
<1>3. CASE \A r \in Reqs : req[r].pc # "other"
  BY <1>2, <1>3 DEF HeadingsOK, ArrInv, TiesOfSwaps, LiveIn
<1>4. ASSUME NEW r \in Reqs, req[r].pc = "other" PROVE FALSE
  <2>1. OtherOK(r) /\ Between(r)
    BY <1>4 DEF ArrInv, ArrangeOK, OtherOK
  <2>2. \A z \in Ids \ {req[r].with} : Heading(z) = rows[z].pos
    BY <1>2, <1>4 DEF HeadingsOK
  <2>3. Heading(req[r].with) = req[r].cur
    BY <1>2, <1>4, <2>1 DEF HeadingsOK, Between
  <2>4. CASE x = req[r].with
    <3>1. rows[y].pos = req[r].cur /\ rows[y].list = req[r].list
      BY <2>1, <2>2, <2>3, <2>4 DEF Between
    <3> QED BY <1>4, <2>1, <2>4, <3>1 DEF Between, Free, LiveIn, OtherOK
  <2>5. CASE y = req[r].with
    <3>1. rows[x].pos = req[r].cur /\ rows[x].list = req[r].list
      BY <2>1, <2>2, <2>3, <2>5 DEF Between
    <3> QED BY <1>4, <2>1, <2>5, <3>1 DEF Between, Free, LiveIn, OtherOK
  <2>6. CASE x # req[r].with /\ y # req[r].with
    <3>1. rows[x].pos = rows[y].pos
      BY <2>2, <2>6
    <3>2. PICK q \in Reqs : req[q].pc = "other" /\ {x, y} = {req[q].id, req[q].with}
      BY <3>1 DEF ArrInv, TiesOfSwaps, LiveIn
    <3> QED BY <1>1, <1>4, <2>6, <3>2
  <2> QED BY <2>4, <2>5, <2>6
<1> QED BY <1>3, <1>4

\* If one request at a time arranges rows and none ends in the middle of a swap,
\* the rows of a list have different positions, whatever the others delete.
THEOREM PositionsStayDistinct == ASSUME OneAtATime PROVE Spec => []PositionsDistinct
<1> QED BY ArrInvInit, ArrInvStep, HeadingDistinct, PTL DEF Spec

\* Under the same assumptions a move does nothing only for a row that has no
\* other row before it (after it), or that was deleted in the meantime.
THEOREM NothingToDoAtEdge == ASSUME OneAtATime PROVE Spec => NoOpAtEdge
<1>1. ASSUME ArrInv, NEW r \in Reqs, StayAtEdge(r), rows[req[r].id].st = "live" PROVE AtEdge(r)
  <2>1. /\ req[r].pc = "neighbor" /\ Beyond(r) = {} /\ r \in Writers /\ req[r].id \in Ids
        /\ WriterOK(r) /\ NeighborOK(r)
    BY <1>1 DEF StayAtEdge, ArrInv, ArrangeOK, WriterOK, Arranging
  <2>2. Distinct(rows)
    BY <1>1, <2>1, NoTies
  <2>3. /\ rows[req[r].id].list = req[r].list /\ rows[req[r].id].pos = req[r].cur
    BY <1>1, <2>1 DEF WriterOK, NeighborOK, Arranging
  <2> SUFFICES ASSUME NEW y \in Shown(req[r].list)
               PROVE  IF req[r].dir = "up" THEN ~Precedes(y, req[r].id) ELSE ~Precedes(req[r].id, y)
    BY DEF AtEdge
  <2>4. y \in Ids /\ rows[y].st = "live" /\ rows[y].list = req[r].list
    BY DEF Shown
  <2>5. rows[y].pos \in Int /\ req[r].cur \in Int /\ req[r].id \in Int /\ y \in Int
    <3>1. rows[y].pos \in Int4 /\ req[r].cur \in Int4
      BY <1>1, <2>4 DEF ArrInv, TypeOK, Row, Request
    <3>2. \A x \in Ids : x \in Int
      BY MenuConstants
    <3> QED BY <2>1, <2>4, <3>1, <3>2, MenuConstants
  <2>6. IF req[r].dir = "up" THEN ~(rows[y].pos < req[r].cur) ELSE ~(rows[y].pos > req[r].cur)
    BY <2>1 DEF Beyond
  <2>7. y # req[r].id => rows[y].pos # req[r].cur
    BY <1>1, <2>1, <2>2, <2>3, <2>4 DEF Distinct
  <2> QED BY <2>3, <2>5, <2>6, <2>7 DEF Precedes
<1>2. ArrInv /\ [Next]_vars => [\A r \in Reqs : StayAtEdge(r) /\ rows[req[r].id].st = "live" => AtEdge(r)]_vars
  BY <1>1
<1> QED BY <1>2, ArrInvInit, ArrInvStep, PTL DEF Spec, NoOpAtEdge
-----------------------------------------------------------------------------
(* Lists.  Under the same assumptions Menu implements MenuList: what a request *)
(* has read tells more than that positions are vacant - nothing is between the *)
(* two rows of a swap, or beyond a first or last position.                     *)

\* Row z is on one side of both positions of a swap.
Apart(r, z) ==
  \/ rows[z].pos <= req[r].cur /\ rows[z].pos <= req[r].new
  \/ rows[z].pos >= req[r].cur /\ rows[z].pos >= req[r].new

SwapOK(r) ==
  req[r].pc = "target" /\ req[r].dir \in {"up", "down"} =>
    /\ rows[req[r].id].st = "live" => rows[req[r].id].pos = req[r].cur
    /\ \A z \in Ids : LiveIn(z, req[r].list) => Apart(r, z)

BeyondOK(r) ==
  req[r].pc = "target" /\ req[r].dir \notin {"up", "down"} =>
    \A z \in Ids : LiveIn(z, req[r].list) =>
      IF req[r].dir = "top" THEN req[r].new < rows[z].pos ELSE rows[z].pos < req[r].new

NewOK(r) ==
  req[r].pc = "insert" =>
    /\ rows[req[r].id].st = "none"
    /\ \A z \in Ids : LiveIn(z, req[r].list) => rows[z].pos < req[r].new

\* Only a category that has been created is deleted.
DeleteOK(r) ==
  req[r].pc \in {"check", "delete"} => req[r].id \in Cats /\ rows[req[r].id].st # "none"

MoveOK(r) == SwapOK(r) /\ BeyondOK(r) /\ NewOK(r) /\ DeleteOK(r)

ListsInv == ArrInv /\ \A r \in Reqs : MoveOK(r)

\* A step of the writer: the others are not arranging rows.
LEMMA WriterMoves ==
  ASSUME OneAtATime, ListsInv, ArrInv', NEW r \in Writers,
         \A q \in Reqs \ {r} : req'[q] = req[q],
         \A x \in Ids : rows[x].st # "none" => rows'[x].st # "none",
         MoveOK(r)'
  PROVE  ListsInv'
<1>1. ASSUME NEW q \in Reqs \ {r} PROVE MoveOK(q)'
  <2>1. ~Arranging(q)
    BY DEF OneAtATime, ListsInv, ArrInv, ArrangeOK, WriterOK
  <2>2. DeleteOK(q)'
    BY DEF ListsInv, MoveOK, DeleteOK, Ids
  <2> QED BY <2>1, <2>2 DEF Arranging, MoveOK, SwapOK, BeyondOK, NewOK
<1> QED BY <1>1 DEF ListsInv

\* A request that reads or ends, and one that deletes, keep it.
LEMMA DeleterMoves ==
  ASSUME ListsInv, ArrInv', NEW r \in Reqs,
         \A q \in Reqs \ {r} : req'[q] = req[q],
         Shrinks, \A x \in Ids : rows[x].st = "none" <=> rows'[x].st = "none",
         req'[r].pc \in {"target", "insert"} => req'[r] = req[r],
         DeleteOK(r)'
  PROVE  ListsInv'
<1>1. \A x \in Ids : rows'[x].st = "live" => rows'[x] = rows[x]
  BY DEF Shrinks
<1>2. ASSUME NEW q \in Reqs PROVE MoveOK(q)'
  <2>1. MoveOK(q)
    BY DEF ListsInv
  <2>2. DeleteOK(q)'
    BY <2>1 DEF MoveOK, DeleteOK, Ids
  <2>3. CASE req'[q] = req[q]
    <3>1. req[q].pc \in {"target", "insert"} => req[q].id \in Ids
      BY DEF ListsInv, ArrInv, ArrangeOK, WriterOK, Arranging
    <3>2. SwapOK(q)'
      BY <1>1, <2>1, <2>3, <3>1 DEF MoveOK, SwapOK, Apart, LiveIn
    <3>3. BeyondOK(q)'
      BY <1>1, <2>1, <2>3 DEF MoveOK, BeyondOK, LiveIn
    <3>4. NewOK(q)'
      BY <1>1, <2>1, <2>3, <3>1 DEF MoveOK, NewOK, LiveIn
    <3> QED BY <2>2, <3>2, <3>3, <3>4 DEF MoveOK
  <2>4. CASE req'[q] # req[q]
    <3>1. req'[q].pc \notin {"target", "insert"}
      BY <2>4
    <3> QED BY <2>2, <3>1 DEF MoveOK, SwapOK, BeyondOK, NewOK
  <2> QED BY <2>3, <2>4
<1> QED BY <1>2 DEF ListsInv

\* No row that a request has read the position of lies between it and its neighbor.
LEMMA FindNeighborMoves ==
  ASSUME OneAtATime, ListsInv, ArrInv', NEW r \in Reqs, FindNeighbor(r)
  PROVE  ListsInv'
<1>1. /\ req[r].pc = "neighbor" /\ UNCHANGED rows /\ r \in Writers /\ req[r].id \in Ids
      /\ WriterOK(r) /\ NeighborOK(r) /\ TypeOK
  BY DEF FindNeighbor, ListsInv, ArrInv, ArrangeOK, WriterOK, Arranging
<1>2. PICK y \in Nearest(r) :
        req' = [req EXCEPT ![r] = [@ EXCEPT !.pc = "target", !.with = y, !.new = rows[y].pos]]
  BY DEF FindNeighbor
<1>3. /\ \A q \in Reqs \ {r} : req'[q] = req[q]
      /\ req'[r].pc = "target" /\ req'[r].new = rows[y].pos
      /\ req'[r].id = req[r].id /\ req'[r].dir = req[r].dir
      /\ req'[r].list = req[r].list /\ req'[r].cur = req[r].cur
  BY <1>1, <1>2 DEF TypeOK, Request
<1>4. /\ \A z \in Ids : rows[z].pos \in Int
      /\ req[r].cur \in Int
  BY <1>1, MenuConstants DEF TypeOK, Row, Request
<1>5. y \in Beyond(r) /\ y \in Ids
  BY DEF Nearest, Beyond, Shown
<1>6. ASSUME NEW z \in Ids, LiveIn(z, req[r].list)
      PROVE  \/ rows[z].pos <= req[r].cur /\ rows[z].pos <= rows[y].pos
             \/ rows[z].pos >= req[r].cur /\ rows[z].pos >= rows[y].pos
  <2>1. z \in Beyond(r) <=> IF req[r].dir = "up" THEN rows[z].pos < req[r].cur
                                                 ELSE rows[z].pos > req[r].cur
    BY <1>6 DEF Beyond, Shown, LiveIn
  <2>2. IF req[r].dir = "up" THEN rows[y].pos < req[r].cur ELSE rows[y].pos > req[r].cur
    BY <1>5 DEF Beyond
  <2>3. z \in Beyond(r) => IF req[r].dir = "up" THEN rows[z].pos <= rows[y].pos
                                                ELSE rows[z].pos >= rows[y].pos
    BY DEF Nearest
  <2>4. rows[z].pos \in Int /\ rows[y].pos \in Int /\ req[r].cur \in Int
    BY <1>4, <1>5
  <2> QED BY <2>1, <2>2, <2>3, <2>4
<1>7. SwapOK(r)'
  BY <1>1, <1>3, <1>6 DEF SwapOK, Apart, LiveIn, NeighborOK
<1>8. MoveOK(r)'
  BY <1>1, <1>3, <1>7 DEF MoveOK, BeyondOK, NewOK, DeleteOK, NeighborOK
<1> QED BY <1>1, <1>3, <1>8, WriterMoves

LEMMA FindEdgeMoves ==
  ASSUME OneAtATime, ListsInv, ArrInv', NEW r \in Reqs, FindEdge(r)
  PROVE  ListsInv'
<1>1. /\ req[r].pc = "edge" /\ UNCHANGED rows /\ r \in Writers /\ EdgeOK(r) /\ TypeOK
  BY DEF FindEdge, ListsInv, ArrInv, ArrangeOK, WriterOK, Arranging
<1>2. \A q \in Reqs \ {r} : req'[q] = req[q]
  BY <1>1 DEF FindEdge, Drop, TypeOK
<1> DEFINE p == IF req[r].dir = "top" THEN First(req[r].list) - 1 ELSE Last(req[r].list) + 1
<1>3. IF p \in Int4 THEN req' = [req EXCEPT ![r] = [@ EXCEPT !.pc = "target", !.new = p]] ELSE Drop(r)
  BY DEF FindEdge
<1>4. ASSUME NEW z \in Ids, LiveIn(z, req[r].list)
      PROVE  IF req[r].dir = "top" THEN p < rows[z].pos ELSE rows[z].pos < p
  BY <1>1, <1>4, EdgesBeyond DEF LiveIn, Shown
<1> HIDE DEF p
<1>5. CASE p \in Int4
  <2> DEFINE q == [req[r] EXCEPT !.pc = "target", !.new = p]
  <2>1. req[r] \in Request
    BY <1>1 DEF TypeOK
  <2>2. q.pc = "target" /\ q.new = p /\ q.dir = req[r].dir /\ q.list = req[r].list
    BY <2>1 DEF Request
  <2>3. req' = [req EXCEPT ![r] = q]
    BY <1>3, <1>5
  <2> HIDE DEF q
  <2>4. req'[r] = q
    BY <1>1, <2>3 DEF TypeOK
  <2>5. MoveOK(r)'
    BY <1>1, <1>4, <2>2, <2>4
    DEF MoveOK, SwapOK, BeyondOK, NewOK, DeleteOK, EdgeOK, LiveIn
  <2> QED BY <1>1, <1>2, <2>5, WriterMoves
<1>6. CASE p \notin Int4
  <2>1. req'[r].pc = "idle"
    BY <1>1, <1>3, <1>6 DEF Drop, Idle, TypeOK
  <2>2. MoveOK(r)'
    BY <2>1 DEF MoveOK, SwapOK, BeyondOK, NewOK, DeleteOK
  <2> QED BY <1>1, <1>2, <2>2, WriterMoves
<1> QED BY <1>5, <1>6

LEMMA InsertMoves ==
  ASSUME OneAtATime, ListsInv, ArrInv', NEW r \in Reqs, NEW x \in Ids, NEW l \in Lists,
         rows[x].st = "none", Insert(r, x, l)
  PROVE  ListsInv'
<1>1. /\ r \in Writers /\ UNCHANGED rows /\ TypeOK
  BY DEF Insert, ListsInv, ArrInv
<1>2. /\ \A q \in Reqs \ {r} : req'[q] = req[q]
      /\ req'[r].pc = "insert" /\ req'[r].id = x /\ req'[r].list = l /\ req'[r].new = Last(l) + 1
  BY <1>1 DEF Insert, Idle, TypeOK
<1>3. \A z \in Ids : LiveIn(z, l) => rows[z].pos < Last(l) + 1
  BY <1>1, EdgesBeyond DEF LiveIn, Shown
<1>4. MoveOK(r)'
  BY <1>1, <1>2, <1>3 DEF MoveOK, SwapOK, BeyondOK, NewOK, DeleteOK, LiveIn
<1> QED BY <1>1, <1>2, <1>4, WriterMoves

\* The other steps of the writer leave nothing to know.
LEMMA WriterEnds ==
  ASSUME OneAtATime, ListsInv, ArrInv', NEW r \in Reqs,
         \/ \E x \in Ids, dir \in Directions : Reorder(r, x, dir)
         \/ PlaceTarget(r) \/ PlaceOther(r) \/ CommitInsert(r)
  PROVE  ListsInv'
<1>1. r \in Writers /\ TypeOK /\ TypeOK'
  BY DEF Reorder, PlaceTarget, PlaceOther, CommitInsert, ListsInv, ArrInv, ArrangeOK, WriterOK, Arranging
<1>2. \A q \in Reqs \ {r} : req'[q] = req[q]
  BY <1>1 DEF Reorder, PlaceTarget, PlaceOther, CommitInsert, Goto, Drop, TypeOK
<1>3. req'[r].pc \in {"idle", "neighbor", "edge", "other"}
  <2>1. Drop(r) => req'[r].pc = "idle"
    BY <1>1 DEF Drop, Idle, TypeOK
  <2>2. Goto(r, "other") => req'[r].pc = "other"
    BY <1>1 DEF Goto, TypeOK, Request
  <2>3. ASSUME NEW x \in Ids, NEW dir \in Directions, Reorder(r, x, dir)
        PROVE  req'[r].pc \in {"neighbor", "edge"}
    BY <1>1, <2>3 DEF Reorder, Idle, TypeOK
  <2> QED BY <2>1, <2>2, <2>3 DEF PlaceTarget, PlaceOther, CommitInsert
<1>4. \A x \in Ids : rows[x].st # "none" => rows'[x].st # "none"
  <2>1. ASSUME NEW y, NEW p, Place(y, p) PROVE \A x \in Ids : rows'[x].st = rows[x].st
    BY <1>1, <2>1, PlaceMoves
  <2>2. CommitInsert(r) => \A x \in Ids : rows[x].st # "none" => rows'[x].st # "none"
    BY <1>1 DEF CommitInsert, TypeOK
  <2> QED BY <2>1, <2>2 DEF Reorder, PlaceTarget, PlaceOther
<1>5. MoveOK(r)'
  BY <1>3 DEF MoveOK, SwapOK, BeyondOK, NewOK, DeleteOK
<1> QED BY <1>1, <1>2, <1>4, <1>5, WriterMoves

\* Steps of requests that delete, and of those that end.
LEMMA OthersMove ==
  ASSUME OneAtATime, ListsInv, ArrInv',
         \/ \E i \in Items : SoftDeleteItem(i)
         \/ \E r \in Reqs : \/ \E c \in Cats : DeleteCategory(r, c)
                          \/ CheckEmpty(r) \/ RemoveCategory(r) \/ RefuseDelete(r)
                          \/ StayAtEdge(r) \/ Abort(r)
  PROVE  ListsInv'
<1>1. TypeOK
  BY DEF ListsInv, ArrInv
<1>2. ASSUME NEW i \in Items, SoftDeleteItem(i), NEW r \in Reqs PROVE ListsInv'
  <2>1. /\ Shrinks /\ UNCHANGED req
        /\ \A x \in Ids : rows[x].st = "none" <=> rows'[x].st = "none"
    BY <1>1, <1>2 DEF SoftDeleteItem, Shrinks, TypeOK, Row
  <2>2. DeleteOK(r)'
    BY <2>1 DEF ListsInv, MoveOK, DeleteOK, Ids
  <2> QED BY <2>1, <2>2, DeleterMoves
<1>3. ASSUME NEW i \in Items, SoftDeleteItem(i) PROVE ListsInv'
  <2>1. CASE Reqs = {}
    BY <2>1 DEF ListsInv
  <2> QED BY <1>2, <1>3, <2>1
<1>4. ASSUME NEW r \in Reqs,
             \/ \E c \in Cats : DeleteCategory(r, c)
             \/ CheckEmpty(r) \/ RemoveCategory(r) \/ RefuseDelete(r) \/ StayAtEdge(r) \/ Abort(r)
      PROVE  ListsInv'
  <2>1. MoveOK(r)
    BY DEF ListsInv
  <2>2. Shrinks /\ \A x \in Ids : rows[x].st = "none" <=> rows'[x].st = "none"
    <3>1. CASE RemoveCategory(r)
      <4>1. req[r].id \in Ids /\ rows[req[r].id].st # "none"
        BY <2>1, <3>1 DEF RemoveCategory, MoveOK, DeleteOK, Ids
      <4> QED BY <1>1, <3>1, <4>1 DEF RemoveCategory, Shrinks, TypeOK, Gone
    <3>2. CASE ~RemoveCategory(r)
      <4>1. UNCHANGED rows
        BY <1>4, <3>2 DEF DeleteCategory, CheckEmpty, RefuseDelete, StayAtEdge, Abort
      <4> QED BY <4>1 DEF Shrinks
    <3> QED BY <3>1, <3>2
  <2>3. \A q \in Reqs \ {r} : req'[q] = req[q]
    BY <1>1, <1>4 DEF DeleteCategory, CheckEmpty, RemoveCategory, RefuseDelete, StayAtEdge, Abort,
                      Drop, Goto, TypeOK
  <2>4. Drop(r) => req'[r].pc = "idle"
    BY <1>1 DEF Drop, Idle, TypeOK
  <2>5. ASSUME NEW c \in Cats, DeleteCategory(r, c)
        PROVE  req'[r].pc = "check" /\ req'[r].id = c /\ rows'[c].st = "live"
    BY <1>1, <2>5 DEF DeleteCategory, Idle, TypeOK
  <2>6. CheckEmpty(r) => Drop(r) \/ (req'[r].pc = "delete" /\ req'[r].id = req[r].id /\ req[r].pc = "check")
    BY <1>1 DEF CheckEmpty, Goto, TypeOK, Request
  <2>7. req'[r].pc \notin {"target", "insert"}
    BY <1>4, <2>4, <2>5, <2>6 DEF RemoveCategory, RefuseDelete, StayAtEdge, Abort
  <2>8. DeleteOK(r)'
    <3>1. CASE CheckEmpty(r)
      BY <2>1, <2>2, <2>4, <2>6, <3>1 DEF MoveOK, DeleteOK, Ids
    <3>2. CASE ~CheckEmpty(r)
      BY <1>4, <2>4, <2>5, <3>2
      DEF DeleteOK, RemoveCategory, RefuseDelete, StayAtEdge, Abort, Ids
    <3> QED BY <3>1, <3>2
  <2> QED BY <2>2, <2>3, <2>7, <2>8, DeleterMoves
<1> QED BY <1>3, <1>4

\* Every step keeps the invariant.
LEMMA ListsInvStep == ASSUME OneAtATime PROVE ListsInv /\ [Next]_vars => ListsInv'
<1> SUFFICES ASSUME ListsInv, [Next]_vars PROVE ListsInv'
  OBVIOUS
<1>1. ArrInv'
  BY ArrInvStep DEF ListsInv
<1>2. ASSUME NEW r \in Reqs, Start(r) PROVE ListsInv'
  <2>1. \/ \E x \in Ids, dir \in Directions : Reorder(r, x, dir)
        \/ \E x \in Ids, l \in Lists : rows[x].st = "none" /\ Insert(r, x, l)
        \/ \E c \in Cats : DeleteCategory(r, c)
    BY <1>2 DEF Start, ReorderCategory, ReorderItem, CreateCategory, CreateItem, NewId, FreeIds,
                Ids, Lists
  <2> QED BY <1>1, <2>1, WriterEnds, InsertMoves, OthersMove
<1>3. ASSUME NEW r \in Reqs, Proceed(r) PROVE ListsInv'
  BY <1>1, <1>3, FindNeighborMoves, FindEdgeMoves, WriterEnds, OthersMove DEF Proceed
<1>4. CASE UNCHANGED vars
  <2>1. rows' = rows /\ req' = req
    BY <1>4 DEF vars
  <2>2. ASSUME NEW r \in Reqs PROVE MoveOK(r)'
    BY <2>1 DEF ListsInv, MoveOK, SwapOK, BeyondOK, NewOK, DeleteOK, Apart, LiveIn
  <2> QED BY <1>1, <2>2 DEF ListsInv
<1> QED BY <1>1, <1>2, <1>3, <1>4, OthersMove DEF Next

\* It holds at the start.
LEMMA ListsInvInit == Init => ListsInv
<1> SUFFICES ASSUME Init PROVE ListsInv
  OBVIOUS
<1>1. ASSUME NEW r \in Reqs PROVE MoveOK(r)
  BY DEF Init, Idle, MoveOK, SwapOK, BeyondOK, NewOK, DeleteOK
<1> QED BY <1>1, ArrInvInit DEF ListsInv
-----------------------------------------------------------------------------
(* Every step is a step of the lists, or leaves them as they are.              *)

\* No row is shown in another list than before.
Stay ==
  \A x \in Ids : /\ rows'[x].st = "live" <=> rows[x].st = "live"
                 /\ rows[x].st = "live" => rows'[x].list = rows[x].list

\* An order is the pairs it holds.
LEMMA PairsExtensional ==
  ASSUME NEW S, NEW T, S \subseteq Ids \X Ids, T \subseteq Ids \X Ids,
         \A x, y \in Ids : <<x, y>> \in S <=> <<x, y>> \in T
  PROVE  S = T
<1>1. ASSUME NEW p \in Ids \X Ids PROVE p \in S <=> p \in T
  <2>1. PICK x \in Ids, y \in Ids : p = <<x, y>>
    OBVIOUS
  <2> QED BY <2>1
<1> QED BY <1>1

LEMMA OrderPairs ==
  /\ Order \subseteq Ids \X Ids
  /\ \A x, y \in Ids : <<x, y>> \in Order <=> Above(x, y)
BY DEF Order, Below

LEMMA OrderPairsNext ==
  /\ Order' \subseteq Ids \X Ids
  /\ \A x, y \in Ids : <<x, y>> \in Order' <=> Above(x, y)'
BY DEF Order, Below

\* The rows of a list are in a total order.
LEMMA AboveOrders ==
  ASSUME HeadingsOK
  PROVE  /\ \A x \in Ids : ~Above(x, x)
         /\ \A x, y \in Ids : x # y /\ rows[x].st = "live" /\ LiveIn(y, rows[x].list)
                             => Above(x, y) \/ Above(y, x)
         /\ \A x, y, z \in Ids : Above(x, y) /\ Above(y, z) => Above(x, z)
<1>1. \A x \in Ids : x \in Int /\ Heading(x) \in Int
  BY MenuConstants DEF HeadingsOK
<1>2. ASSUME NEW x \in Ids PROVE ~Above(x, x)
  <2>1. x \in Int /\ Heading(x) \in Int
    BY <1>1
  <2> QED BY <2>1 DEF Above
<1>3. ASSUME NEW x \in Ids, NEW y \in Ids, x # y, rows[x].st = "live", LiveIn(y, rows[x].list)
      PROVE  Above(x, y) \/ Above(y, x)
  <2>1. x \in Int /\ Heading(x) \in Int /\ y \in Int /\ Heading(y) \in Int
    BY <1>1
  <2> QED BY <1>3, <2>1 DEF Above, LiveIn
<1>4. ASSUME NEW x \in Ids, NEW y \in Ids, NEW z \in Ids, Above(x, y), Above(y, z)
      PROVE  Above(x, z)
  <2>1. /\ x \in Int /\ Heading(x) \in Int /\ y \in Int /\ Heading(y) \in Int
        /\ z \in Int /\ Heading(z) \in Int
    BY <1>1
  <2> QED BY <1>4, <2>1 DEF Above
<1> QED BY <1>2, <1>3, <1>4

\* If rows stay where they are and keep their order, the lists are unchanged ...
LEMMA NothingMoves ==
  ASSUME Stay, \A x, y \in Ids : Above(x, y)' <=> Above(x, y)
  PROVE  UNCHANGED L!lvars
<1>1. ListOf' = ListOf
  BY DEF Stay, ListOf
<1>2. Order' = Order
  BY OrderPairs, OrderPairsNext, PairsExtensional
<1> QED BY <1>1, <1>2 DEF L!lvars

\* ... as when they are headed for the same positions ...
LEMMA SameHeadings ==
  ASSUME Stay, \A x \in Ids : rows[x].st = "live" => Heading(x)' = Heading(x)
  PROVE  UNCHANGED L!lvars
<1>1. ASSUME NEW x \in Ids, NEW y \in Ids PROVE Above(x, y)' <=> Above(x, y)
  BY DEF Above, Stay
<1> QED BY <1>1, NothingMoves

\* ... or one of them moves to a position past no other row.
LEMMA PastNoOther ==
  ASSUME Stay, HeadingsOK, HeadingsOK', NEW u \in Ids,
         \A z \in Ids \ {u} : rows[z].st = "live" => Heading(z)' = Heading(z),
         \A z \in Ids \ {u} :
           rows[u].st = "live" /\ LiveIn(z, rows[u].list) =>
             \/ Heading(z) < Heading(u) /\ Heading(z) < Heading(u)'
             \/ Heading(z) > Heading(u) /\ Heading(z) > Heading(u)'
  PROVE  UNCHANGED L!lvars
<1>1. ASSUME NEW x \in Ids, NEW y \in Ids PROVE Above(x, y)' <=> Above(x, y)
  <2>1. /\ Heading(x) \in Int /\ Heading(y) \in Int /\ Heading(u) \in Int
        /\ Heading(x)' \in Int /\ Heading(y)' \in Int /\ Heading(u)' \in Int
    BY DEF HeadingsOK
  <2>2. CASE x = u /\ y = u
    BY <2>1, <2>2 DEF Above, Stay
  <2>3. CASE x = u /\ y # u
    BY <2>1, <2>3 DEF Above, Stay, LiveIn
  <2>4. CASE x # u /\ y = u
    BY <2>1, <2>4 DEF Above, Stay, LiveIn
  <2>5. CASE x # u /\ y # u
    BY <2>1, <2>5 DEF Above, Stay
  <2> QED BY <2>2, <2>3, <2>4, <2>5
<1> QED BY <1>1, NothingMoves

\* Two rows that change places, with no other in between, are exchanged.
LEMMA ChangePlaces ==
  ASSUME Stay, HeadingsOK, HeadingsOK', NEW u \in Ids, NEW v \in Ids, u # v,
         rows[u].st = "live", LiveIn(v, rows[u].list),
         Heading(u) < Heading(v), Heading(u)' = Heading(v), Heading(v)' = Heading(u),
         \A z \in Ids \ {u, v} : rows[z].st = "live" => Heading(z)' = Heading(z),
         \A z \in Ids \ {u, v} :
           LiveIn(z, rows[u].list) =>
             \/ Heading(z) < Heading(u) /\ Heading(z) < Heading(v)
             \/ Heading(z) > Heading(u) /\ Heading(z) > Heading(v)
  PROVE  L!Exchange(u, v)
<1>1. ListOf' = ListOf
  BY DEF Stay, ListOf
<1>2. \A z \in Ids : Heading(z) \in Int /\ Heading(z)' \in Int
  BY DEF HeadingsOK
<1>3. Above(u, v) /\ ~Above(v, u)
  <2>1. Heading(u) \in Int /\ Heading(v) \in Int
    BY <1>2
  <2> QED BY <2>1 DEF Above, LiveIn
<1>4. ASSUME NEW z \in Ids, Above(u, z), Above(z, v) PROVE FALSE
  <2>1. Heading(z) \in Int /\ Heading(u) \in Int /\ Heading(v) \in Int
    BY <1>2
  <2>2. z # u /\ z # v
    BY <1>4, AboveOrders
  <2>3. LiveIn(z, rows[u].list) /\ ~(Heading(z) < Heading(u)) /\ ~(Heading(z) > Heading(v))
    BY <1>4, <2>1 DEF Above, LiveIn
  <2>4. \/ Heading(z) < Heading(u) /\ Heading(z) < Heading(v)
        \/ Heading(z) > Heading(u) /\ Heading(z) > Heading(v)
    BY <2>2, <2>3
  <2> QED BY <2>3, <2>4
<1>5. ASSUME NEW x \in Ids, NEW y \in Ids
      PROVE  Above(x, y)' <=> (Above(x, y) /\ <<x, y>> # <<u, v>>) \/ <<x, y>> = <<v, u>>
  <2>1. /\ Heading(x) \in Int /\ Heading(y) \in Int /\ Heading(u) \in Int /\ Heading(v) \in Int
        /\ Heading(x)' \in Int /\ Heading(y)' \in Int
    BY <1>2
  <2>2. CASE x \notin {u, v} /\ y \notin {u, v}
    BY <2>1, <2>2 DEF Above, Stay
  <2>3. CASE x \in {u, v} /\ y \notin {u, v}
    BY <2>1, <2>3 DEF Above, Stay, LiveIn
  <2>4. CASE x \notin {u, v} /\ y \in {u, v}
    BY <2>1, <2>4 DEF Above, Stay, LiveIn
  <2>5. CASE x = y
    BY <2>1, <2>5 DEF Above, Stay
  <2>6. CASE x = u /\ y = v
    BY <2>1, <2>6 DEF Above, Stay, LiveIn
  <2>7. CASE x = v /\ y = u
    BY <2>1, <2>7 DEF Above, Stay, LiveIn
  <2> QED BY <2>2, <2>3, <2>4, <2>5, <2>6, <2>7
<1>6. Order' = (Order \ {<<u, v>>}) \cup {<<v, u>>}
  <2>1. (Order \ {<<u, v>>}) \cup {<<v, u>>} \subseteq Ids \X Ids
    BY OrderPairs
  <2>2. ASSUME NEW x \in Ids, NEW y \in Ids
        PROVE  <<x, y>> \in Order' <=> <<x, y>> \in (Order \ {<<u, v>>}) \cup {<<v, u>>}
    BY <1>5, OrderPairs, OrderPairsNext
  <2> QED BY <2>1, <2>2, OrderPairsNext, PairsExtensional
<1> QED BY <1>1, <1>3, <1>4, <1>6, OrderPairs DEF L!Exchange, L!Adjacent

\* A row that is shown is shown in a list.
LEMMA ShownSomewhere ==
  ASSUME TypeOK
  PROVE  /\ \A x \in Ids : rows[x].st = "live" => ListOf[x] = rows[x].list /\ ListOf[x] # NoId
         /\ \A x \in Ids : rows[x].st # "live" => ListOf[x] = NoId
         /\ \A x, y \in Ids : rows[x].st = "live" =>
              (ListOf[y] = ListOf[x] <=> LiveIn(y, rows[x].list))
<1>1. \A x \in Ids : rows[x].list # NoId
  BY MenuConstants DEF TypeOK, Row, Lists, Ids
<1> QED BY <1>1 DEF ListOf, LiveIn

\* A row that moves before (behind) all others of its list.
LEMMA GoesFirst ==
  ASSUME TypeOK, Stay, HeadingsOK, HeadingsOK', NEW u \in Ids, rows[u].st = "live",
         \A z \in Ids \ {u} : rows[z].st = "live" => Heading(z)' = Heading(z),
         \A z \in Ids \ {u} : LiveIn(z, rows[u].list) => Heading(u)' < Heading(z)
  PROVE  L!ToFront(u)
<1>1. ListOf' = ListOf
  BY DEF Stay, ListOf
<1>2. ASSUME NEW x \in Ids, NEW y \in Ids
      PROVE  Above(x, y)' <=> (Above(x, y) /\ y # u)
                              \/ (x = u /\ y # u /\ LiveIn(y, rows[u].list))
  <2>1. /\ Heading(x) \in Int /\ Heading(y) \in Int /\ Heading(u) \in Int /\ Heading(u)' \in Int
        /\ Heading(x)' \in Int /\ Heading(y)' \in Int /\ x \in Int
    BY MenuConstants DEF HeadingsOK
  <2>2. CASE x # u /\ y # u
    BY <2>1, <2>2 DEF Above, Stay
  <2>3. CASE x = u /\ y # u
    BY <2>1, <2>3 DEF Above, Stay, LiveIn
  <2>4. CASE x # u /\ y = u
    BY <2>1, <2>4 DEF Above, Stay, LiveIn
  <2>5. CASE x = u /\ y = u
    BY <2>1, <2>5 DEF Above
  <2> QED BY <2>2, <2>3, <2>4, <2>5
<1>3. Order' = {p \in Order : p[2] # u} \cup {<<u, y>> : y \in L!Together(u)}
  <2> DEFINE after == {p \in Order : p[2] # u} \cup {<<u, y>> : y \in L!Together(u)}
  <2>1. after \subseteq Ids \X Ids
    BY OrderPairs DEF L!Together
  <2>2. ASSUME NEW x \in Ids, NEW y \in Ids PROVE <<x, y>> \in Order' <=> <<x, y>> \in after
    <3>1. <<x, y>> \in after <=> (Above(x, y) /\ y # u) \/ (x = u /\ y \in L!Together(u))
      BY OrderPairs
    <3>2. y \in L!Together(u) <=> y # u /\ LiveIn(y, rows[u].list)
      BY ShownSomewhere DEF L!Together
    <3> HIDE DEF after
    <3> QED BY <1>2, <3>1, <3>2, OrderPairsNext
  <2> HIDE DEF after
  <2>3. Order' = after
    BY <2>1, <2>2, OrderPairsNext, PairsExtensional
  <2> QED BY <2>3 DEF after
<1> QED BY <1>1, <1>3, ShownSomewhere DEF L!ToFront

LEMMA GoesLast ==
  ASSUME TypeOK, Stay, HeadingsOK, HeadingsOK', NEW u \in Ids, rows[u].st = "live",
         \A z \in Ids \ {u} : rows[z].st = "live" => Heading(z)' = Heading(z),
         \A z \in Ids \ {u} : LiveIn(z, rows[u].list) => Heading(z) < Heading(u)'
  PROVE  L!ToEnd(u)
<1>1. ListOf' = ListOf
  BY DEF Stay, ListOf
<1>2. ASSUME NEW x \in Ids, NEW y \in Ids
      PROVE  Above(x, y)' <=> (Above(x, y) /\ x # u)
                              \/ (y = u /\ x # u /\ LiveIn(x, rows[u].list))
  <2>1. /\ Heading(x) \in Int /\ Heading(y) \in Int /\ Heading(u) \in Int /\ Heading(u)' \in Int
        /\ Heading(x)' \in Int /\ Heading(y)' \in Int /\ x \in Int
    BY MenuConstants DEF HeadingsOK
  <2>2. CASE x # u /\ y # u
    BY <2>1, <2>2 DEF Above, Stay
  <2>3. CASE x = u /\ y # u
    BY <2>1, <2>3 DEF Above, Stay, LiveIn
  <2>4. CASE x # u /\ y = u
    BY <2>1, <2>4 DEF Above, Stay, LiveIn
  <2>5. CASE x = u /\ y = u
    BY <2>1, <2>5 DEF Above
  <2> QED BY <2>2, <2>3, <2>4, <2>5
<1>3. Order' = {p \in Order : p[1] # u} \cup {<<y, u>> : y \in L!Together(u)}
  <2> DEFINE after == {p \in Order : p[1] # u} \cup {<<y, u>> : y \in L!Together(u)}
  <2>1. after \subseteq Ids \X Ids
    BY OrderPairs DEF L!Together
  <2>2. ASSUME NEW x \in Ids, NEW y \in Ids PROVE <<x, y>> \in Order' <=> <<x, y>> \in after
    <3>1. <<x, y>> \in after <=> (Above(x, y) /\ x # u) \/ (y = u /\ x \in L!Together(u))
      BY OrderPairs
    <3>2. x \in L!Together(u) <=> x # u /\ LiveIn(x, rows[u].list)
      BY ShownSomewhere DEF L!Together
    <3> HIDE DEF after
    <3> QED BY <1>2, <3>1, <3>2, OrderPairsNext
  <2> HIDE DEF after
  <2>3. Order' = after
    BY <2>1, <2>2, OrderPairsNext, PairsExtensional
  <2> QED BY <2>3 DEF after
<1> QED BY <1>1, <1>3, ShownSomewhere DEF L!ToEnd

\* A new row behind all others of its list.
LEMMA ComesLast ==
  ASSUME TypeOK, TypeOK', HeadingsOK, HeadingsOK', NEW u \in Ids, NEW l \in Lists,
         rows[u].st # "live", rows'[u].st = "live", rows'[u].list = l,
         \A z \in Ids \ {u} : rows'[z] = rows[z],
         \A z \in Ids \ {u} : rows[z].st = "live" => Heading(z)' = Heading(z),
         \A z \in Ids : LiveIn(z, l) => Heading(z) < Heading(u)'
  PROVE  L!Append(u, l)
<1>1. ListOf[u] = NoId /\ ListOf' = [ListOf EXCEPT ![u] = l]
  BY DEF ListOf
<1>2. ASSUME NEW x \in Ids, NEW y \in Ids
      PROVE  Above(x, y)' <=> Above(x, y) \/ (y = u /\ LiveIn(x, l))
  <2>1. /\ Heading(x) \in Int /\ Heading(y) \in Int /\ Heading(u)' \in Int
        /\ Heading(x)' \in Int /\ Heading(y)' \in Int /\ x \in Int
    BY MenuConstants DEF HeadingsOK
  <2>2. CASE x # u /\ y # u
    <3>1. rows'[x] = rows[x] /\ rows'[y] = rows[y]
      BY <2>2
    <3>2. /\ rows[x].st = "live" => Heading(x)' = Heading(x)
          /\ rows[y].st = "live" => Heading(y)' = Heading(y)
      BY <2>2
    <3>3. Above(x, y)' <=> Above(x, y)
      BY <2>1, <3>1, <3>2 DEF Above
    <3> QED BY <2>2, <3>3
  <2>3. CASE x = u /\ y # u
    <3>1. rows'[y] = rows[y] /\ (rows[y].st = "live" => Heading(y)' = Heading(y))
      BY <2>3
    <3>2. LiveIn(y, l) => Heading(y)' < Heading(u)'
      BY <3>1 DEF LiveIn
    <3>3. ~Above(u, y) /\ ~Above(u, y)'
      BY <2>1, <2>3, <3>1, <3>2 DEF Above, LiveIn
    <3> QED BY <2>3, <3>3
  <2>4. CASE x # u /\ y = u
    BY <2>1, <2>4 DEF Above, LiveIn
  <2>5. CASE x = u /\ y = u
    BY <2>1, <2>5 DEF Above, LiveIn
  <2> QED BY <2>2, <2>3, <2>4, <2>5
<1>3. \A z \in Ids : ListOf[z] = l <=> LiveIn(z, l)
  BY MenuConstants DEF ListOf, LiveIn, Lists, Ids
<1>4. Order' = Order \cup {<<y, u>> : y \in {z \in Ids : ListOf[z] = l}}
  <2> DEFINE after == Order \cup {<<y, u>> : y \in {z \in Ids : ListOf[z] = l}}
  <2>1. after \subseteq Ids \X Ids
    BY OrderPairs
  <2>2. ASSUME NEW x \in Ids, NEW y \in Ids PROVE <<x, y>> \in Order' <=> <<x, y>> \in after
    <3>1. <<x, y>> \in after <=> Above(x, y) \/ (y = u /\ ListOf[x] = l)
      BY OrderPairs
    <3> HIDE DEF after
    <3> QED BY <1>2, <1>3, <3>1, OrderPairsNext
  <2> HIDE DEF after
  <2>3. Order' = after
    BY <2>1, <2>2, OrderPairsNext, PairsExtensional
  <2> QED BY <2>3 DEF after
<1> QED BY <1>1, <1>4 DEF L!Append

\* A row that leaves its list.
LEMMA Leaves ==
  ASSUME TypeOK, NEW u \in Ids, rows[u].st = "live", rows'[u].st # "live",
         \A z \in Ids \ {u} : rows'[z] = rows[z],
         \A z \in Ids \ {u} : rows[z].st = "live" => Heading(z)' = Heading(z)
  PROVE  L!Remove(u)
<1>1. ListOf[u] # NoId
  BY ShownSomewhere
<1>2. ListOf' = [ListOf EXCEPT ![u] = NoId]
  BY DEF ListOf
<1>3. ASSUME NEW x \in Ids, NEW y \in Ids
      PROVE  Above(x, y)' <=> Above(x, y) /\ x # u /\ y # u
  BY DEF Above
<1>4. Order' = {p \in Order : p[1] # u /\ p[2] # u}
  <2> DEFINE after == {p \in Order : p[1] # u /\ p[2] # u}
  <2>1. after \subseteq Ids \X Ids
    BY OrderPairs
  <2>2. ASSUME NEW x \in Ids, NEW y \in Ids PROVE <<x, y>> \in Order' <=> <<x, y>> \in after
    <3>1. <<x, y>> \in after <=> Above(x, y) /\ x # u /\ y # u
      BY OrderPairs
    <3> HIDE DEF after
    <3> QED BY <1>3, <3>1, OrderPairsNext
  <2> HIDE DEF after
  <2>3. Order' = after
    BY <2>1, <2>2, OrderPairsNext, PairsExtensional
  <2> QED BY <2>3 DEF after
<1> QED BY <1>1, <1>2, <1>4 DEF L!Remove

\* Outside a swap rows are headed for where they are.
LEMMA HeadingKept ==
  ASSUME HeadingsOK, HeadingsOK', NEW r \in Reqs,
         req[r].pc # "other", req'[r].pc # "other",
         \A q \in Reqs \ {r} : req'[q] = req[q],
         NEW x \in Ids, rows'[x].pos = rows[x].pos
  PROVE  Heading(x)' = Heading(x)
<1>1. CASE \A q \in Reqs : req[q].pc # "other"
  <2>1. \A q \in Reqs : req'[q].pc # "other"
    BY <1>1
  <2> QED BY <1>1, <2>1 DEF HeadingsOK
<1>2. ASSUME NEW q \in Reqs, req[q].pc = "other" PROVE Heading(x)' = Heading(x)
  <2>1. req'[q] = req[q]
    BY <1>2
  <2> QED BY <1>2, <2>1 DEF HeadingsOK
<1> QED BY <1>1, <1>2

\* A statement that writes no row.
LEMMA ReadKeepsLists ==
  ASSUME HeadingsOK, HeadingsOK', NEW r \in Reqs, UNCHANGED rows,
         req[r].pc # "other", req'[r].pc # "other",
         \A q \in Reqs \ {r} : req'[q] = req[q]
  PROVE  UNCHANGED L!lvars
<1>1. Stay
  BY DEF Stay
<1>2. \A x \in Ids : Heading(x)' = Heading(x)
  BY HeadingKept
<1> QED BY <1>1, <1>2, SameHeadings

\* The first UPDATE of a swap exchanges the two rows, unless one of them is gone ...
LEMMA FirstUpdate ==
  ASSUME OneAtATime, ListsInv, HeadingsOK, HeadingsOK', NEW r \in Reqs,
         PlaceTarget(r), req[r].dir \in {"up", "down"}
  PROVE  L!Exchange(req[r].with, req[r].id) \/ L!Exchange(req[r].id, req[r].with)
         \/ UNCHANGED L!lvars
<1>0. /\ req[r].pc = "target" /\ WriterOK(r) /\ TargetOK(r) /\ Between(r)
  BY DEF PlaceTarget, ListsInv, ArrInv, ArrangeOK, TargetOK
<1> PICK x \in Ids, y \in Ids : x = req[r].id /\ y = req[r].with
  BY <1>0 DEF WriterOK, Between, Arranging
<1>1. /\ req[r].pc = "target" /\ r \in Writers /\ TypeOK
      /\ WriterOK(r) /\ Between(r) /\ SwapOK(r)
      /\ rows[y].st = "live" => rows[y].pos = req[r].new
  BY <1>0 DEF PlaceTarget, ListsInv, ArrInv, ArrangeOK, WriterOK, TargetOK, MoveOK, Arranging
<1>2. x # y /\ req[r].cur # req[r].new
  BY <1>1 DEF Between
<1>3. /\ rows[x].st = "live" => rows[x].list = req[r].list /\ rows[x].pos = req[r].cur
      /\ rows[y].st = "live" => rows[y].list = req[r].list
  BY <1>1 DEF WriterOK, Between, SwapOK, Arranging
<1>4. /\ req'[r].pc = "other" /\ req'[r].with = y /\ req'[r].cur = req[r].cur
  BY <1>1 DEF PlaceTarget, Goto, TypeOK, Request
<1>5. Place(x, req[r].new)
  BY DEF PlaceTarget
<1>6. ASSUME NEW z \in Ids \ {x, y}, LiveIn(z, req[r].list)
      PROVE  \/ rows[z].pos < req[r].cur /\ rows[z].pos < req[r].new
             \/ rows[z].pos > req[r].cur /\ rows[z].pos > req[r].new
  <2>1. Apart(r, z)
    BY <1>1, <1>6 DEF SwapOK
  <2>2. rows[z].pos # req[r].cur /\ rows[z].pos # req[r].new
    BY <1>1, <1>6 DEF Between, Free
  <2>3. rows[z].pos \in Int /\ req[r].cur \in Int /\ req[r].new \in Int
    BY <1>1, MenuConstants DEF TypeOK, Row, Request
  <2> QED BY <2>1, <2>2, <2>3 DEF Apart
<1>7. ASSUME NEW q \in Reqs PROVE req[q].pc # "other"
  <2>1. Arranging(q) => q = r
    BY <1>1 DEF OneAtATime, ListsInv, ArrInv, ArrangeOK, WriterOK
  <2> QED BY <1>1, <2>1 DEF Arranging
<1>8. /\ Stay
      /\ \A z \in Ids \ {x} : rows'[z] = rows[z]
      /\ rows[x].st = "live" => rows'[x].pos = req[r].new
  BY <1>1, <1>5, PlaceMoves DEF Stay
<1>9. \A z \in Ids : Heading(z) = rows[z].pos
  BY <1>7 DEF HeadingsOK
<1>10. \A z \in Ids : Heading(z)' = IF z = y THEN req[r].cur ELSE rows'[z].pos
  BY <1>4 DEF HeadingsOK
<1>11. CASE rows[x].st # "live"
  <2>1. \A z \in Ids \ {y} : rows[z].st = "live" => Heading(z)' = Heading(z)
    BY <1>8, <1>9, <1>10, <1>11
  <2>2. ASSUME NEW z \in Ids \ {y}, rows[y].st = "live", LiveIn(z, rows[y].list)
        PROVE  \/ Heading(z) < Heading(y) /\ Heading(z) < Heading(y)'
               \/ Heading(z) > Heading(y) /\ Heading(z) > Heading(y)'
    <3>1. z # x
      BY <1>11, <2>2 DEF LiveIn
    <3>2. Heading(z) = rows[z].pos /\ Heading(y) = req[r].new /\ Heading(y)' = req[r].cur
      BY <1>1, <1>2, <1>9, <1>10, <2>2
    <3> QED BY <1>3, <1>6, <2>2, <3>1, <3>2
  <2> QED BY <1>2, <1>8, <2>1, <2>2, PastNoOther
<1>12. CASE rows[x].st = "live" /\ rows[y].st # "live"
  <2>1. \A z \in Ids \ {x} : rows[z].st = "live" => Heading(z)' = Heading(z)
    BY <1>8, <1>9, <1>10, <1>12
  <2>2. ASSUME NEW z \in Ids \ {x}, LiveIn(z, rows[x].list)
        PROVE  \/ Heading(z) < Heading(x) /\ Heading(z) < Heading(x)'
               \/ Heading(z) > Heading(x) /\ Heading(z) > Heading(x)'
    <3>1. z # y
      BY <1>12, <2>2 DEF LiveIn
    <3>2. Heading(z) = rows[z].pos /\ Heading(x) = req[r].cur /\ Heading(x)' = req[r].new
      BY <1>1, <1>2, <1>3, <1>8, <1>9, <1>10, <1>12
    <3> QED BY <1>3, <1>6, <1>12, <2>2, <3>1, <3>2
  <2> QED BY <1>1, <1>8, <2>1, <2>2, PastNoOther
<1>13. CASE rows[x].st = "live" /\ rows[y].st = "live"
  <2>1. /\ Heading(x) = req[r].cur /\ Heading(y) = req[r].new
        /\ Heading(x)' = req[r].new /\ Heading(y)' = req[r].cur
    BY <1>1, <1>2, <1>3, <1>8, <1>9, <1>10, <1>13
  <2>2. \A z \in Ids \ {x, y} : rows[z].st = "live" => Heading(z)' = Heading(z)
    BY <1>8, <1>9, <1>10
  <2>3. LiveIn(y, rows[x].list) /\ LiveIn(x, rows[y].list) /\ rows[x].list = req[r].list
        /\ rows[y].list = req[r].list
    BY <1>3, <1>13 DEF LiveIn
  <2>4. \A z \in Ids \ {x, y} : LiveIn(z, req[r].list) =>
          \/ Heading(z) < req[r].cur /\ Heading(z) < req[r].new
          \/ Heading(z) > req[r].cur /\ Heading(z) > req[r].new
    BY <1>6, <1>9
  <2>5. req[r].cur \in Int /\ req[r].new \in Int
    BY <1>1, MenuConstants DEF TypeOK, Request
  <2>6. CASE req[r].new < req[r].cur
    <3>1. L!Exchange(y, x)
      BY <1>1, <1>2, <1>8, <1>13, <2>1, <2>2, <2>3, <2>4, <2>6, ChangePlaces
    <3> QED BY <3>1
  <2>7. CASE req[r].cur < req[r].new
    <3>1. L!Exchange(x, y)
      BY <1>1, <1>2, <1>8, <1>13, <2>1, <2>2, <2>3, <2>4, <2>7, ChangePlaces
    <3> QED BY <3>1
  <2> QED BY <1>2, <2>5, <2>6, <2>7
<1> QED BY <1>11, <1>12, <1>13

\* ... and the second brings the other row to where it is headed already.
LEMMA SecondUpdate ==
  ASSUME OneAtATime, ListsInv, HeadingsOK, HeadingsOK', NEW r \in Reqs, PlaceOther(r)
  PROVE  UNCHANGED L!lvars
<1>0. req[r].with \in Ids
  BY DEF PlaceOther, ListsInv, ArrInv, ArrangeOK, OtherOK, Between
<1> PICK y \in Ids : y = req[r].with
  BY <1>0
<1>1. /\ req[r].pc = "other" /\ r \in Writers /\ TypeOK
      /\ Place(y, req[r].cur) /\ Drop(r)
  BY DEF PlaceOther, ListsInv, ArrInv, ArrangeOK, WriterOK, OtherOK, Between, Arranging
<1>2. ASSUME NEW q \in Reqs PROVE req'[q].pc # "other"
  <2>1. q # r => ~Arranging(q)
    BY <1>1 DEF OneAtATime, ListsInv, ArrInv, ArrangeOK, WriterOK
  <2>2. req'[q] = IF q = r THEN Idle ELSE req[q]
    BY <1>1 DEF Drop, TypeOK
  <2> QED BY <2>1, <2>2 DEF Arranging, Idle
<1>3. \A z \in Ids : Heading(z) = IF z = y THEN req[r].cur ELSE rows[z].pos
  BY <1>1 DEF HeadingsOK
<1>4. \A z \in Ids : Heading(z)' = rows'[z].pos
  BY <1>2 DEF HeadingsOK
<1>5. /\ Stay
      /\ \A z \in Ids \ {y} : rows'[z] = rows[z]
      /\ rows[y].st = "live" => rows'[y].pos = req[r].cur
  BY <1>1, PlaceMoves DEF Stay
<1>6. \A z \in Ids : rows[z].st = "live" => Heading(z)' = Heading(z)
  BY <1>3, <1>4, <1>5
<1> QED BY <1>5, <1>6, SameHeadings

\* Going to the top or to the bottom is one UPDATE.
LEMMA EdgeUpdate ==
  ASSUME OneAtATime, ListsInv, HeadingsOK, HeadingsOK', NEW r \in Reqs,
         PlaceTarget(r), req[r].dir \notin {"up", "down"}
  PROVE  L!ToFront(req[r].id) \/ L!ToEnd(req[r].id) \/ UNCHANGED L!lvars
<1>0. req[r].pc = "target" /\ r \in Writers /\ req[r].id \in Ids
  BY DEF PlaceTarget, ListsInv, ArrInv, ArrangeOK, WriterOK, Arranging
<1> PICK x \in Ids : x = req[r].id
  BY <1>0
<1>1. /\ TypeOK /\ BeyondOK(r) /\ Place(x, req[r].new) /\ Drop(r)
      /\ rows[x].st = "live" => rows[x].list = req[r].list
  BY <1>0 DEF PlaceTarget, ListsInv, ArrInv, ArrangeOK, WriterOK, MoveOK, Arranging
<1>2. ASSUME NEW q \in Reqs PROVE req[q].pc # "other" /\ req'[q].pc # "other"
  <2>1. q # r => ~Arranging(q)
    BY <1>0 DEF OneAtATime, ListsInv, ArrInv, ArrangeOK, WriterOK
  <2>2. req'[q] = IF q = r THEN Idle ELSE req[q]
    BY <1>1 DEF Drop, TypeOK
  <2> QED BY <1>0, <2>1, <2>2 DEF Arranging, Idle
<1>3. \A z \in Ids : Heading(z) = rows[z].pos /\ Heading(z)' = rows'[z].pos
  BY <1>2 DEF HeadingsOK
<1>4. /\ Stay
      /\ \A z \in Ids \ {x} : rows'[z] = rows[z]
      /\ rows[x].st = "live" => rows'[x].pos = req[r].new
  BY <1>1, PlaceMoves DEF Stay
<1>5. \A z \in Ids \ {x} : rows[z].st = "live" => Heading(z)' = Heading(z)
  BY <1>3, <1>4
<1>6. CASE rows[x].st # "live"
  BY <1>4, <1>5, <1>6, SameHeadings
<1>7. CASE rows[x].st = "live" /\ req[r].dir = "top"
  <2>1. \A z \in Ids \ {x} : LiveIn(z, rows[x].list) => Heading(x)' < Heading(z)
    BY <1>0, <1>1, <1>3, <1>4, <1>7 DEF BeyondOK
  <2> QED BY <1>1, <1>4, <1>5, <1>7, <2>1, GoesFirst
<1>8. CASE rows[x].st = "live" /\ req[r].dir # "top"
  <2>1. \A z \in Ids \ {x} : LiveIn(z, rows[x].list) => Heading(z) < Heading(x)'
    BY <1>0, <1>1, <1>3, <1>4, <1>8 DEF BeyondOK
  <2> QED BY <1>1, <1>4, <1>5, <1>8, <2>1, GoesLast
<1> QED BY <1>6, <1>7, <1>8

\* A row is created at the end of its list.
LEMMA InsertAppends ==
  ASSUME OneAtATime, ListsInv, HeadingsOK, HeadingsOK', TypeOK', NEW r \in Reqs, CommitInsert(r)
  PROVE  req[r].id \in Ids /\ req[r].list \in Lists /\ L!Append(req[r].id, req[r].list)
<1>0. /\ req[r].pc = "insert" /\ r \in Writers /\ req[r].id \in Ids /\ req[r].list \in Lists
      /\ TypeOK /\ NewOK(r)
  BY DEF CommitInsert, ListsInv, ArrInv, ArrangeOK, WriterOK, MoveOK, Arranging, TypeOK, Request
<1> PICK x \in Ids, l \in Lists : x = req[r].id /\ l = req[r].list
  BY <1>0
<1>1. /\ rows[x].st = "none" /\ \A z \in Ids : LiveIn(z, l) => rows[z].pos < req[r].new
      /\ rows' = [rows EXCEPT ![x] = [st |-> "live", list |-> l, pos |-> req[r].new]]
      /\ Drop(r)
  BY <1>0 DEF NewOK, CommitInsert
<1>2. ASSUME NEW q \in Reqs PROVE req[q].pc # "other" /\ req'[q].pc # "other"
  <2>1. q # r => ~Arranging(q)
    BY <1>0 DEF OneAtATime, ListsInv, ArrInv, ArrangeOK, WriterOK
  <2>2. req'[q] = IF q = r THEN Idle ELSE req[q]
    BY <1>0, <1>1 DEF Drop, TypeOK
  <2> QED BY <1>0, <2>1, <2>2 DEF Arranging, Idle
<1>3. \A z \in Ids : Heading(z) = rows[z].pos /\ Heading(z)' = rows'[z].pos
  BY <1>2 DEF HeadingsOK
<1>4. /\ \A z \in Ids \ {x} : rows'[z] = rows[z]
      /\ rows'[x].st = "live" /\ rows'[x].list = l /\ rows'[x].pos = req[r].new
  BY <1>0, <1>1 DEF TypeOK
<1>5. /\ \A z \in Ids \ {x} : rows[z].st = "live" => Heading(z)' = Heading(z)
      /\ \A z \in Ids : LiveIn(z, l) => Heading(z) < Heading(x)'
  BY <1>1, <1>3, <1>4
<1>6. rows[x].st # "live"
  BY <1>1
<1>7. L!Append(x, l)
  BY <1>0, <1>4, <1>5, <1>6, ComesLast
<1> QED BY <1>7

\* A category that is deleted leaves the menu, once.
LEMMA DeleteRemoves ==
  ASSUME OneAtATime, ListsInv, HeadingsOK, HeadingsOK', NEW r \in Reqs, RemoveCategory(r)
  PROVE  (req[r].id \in Ids /\ L!Remove(req[r].id)) \/ UNCHANGED L!lvars
<1>0. req[r].pc = "delete" /\ req[r].id \in Ids /\ TypeOK /\ TypeOK
  BY DEF RemoveCategory, ListsInv, ArrInv, MoveOK, DeleteOK, Ids
<1> PICK x \in Ids : x = req[r].id
  BY <1>0
<1>1. /\ \A z \in Ids \ {x} : rows'[z] = rows[z]
      /\ rows'[x] = Gone
      /\ \A q \in Reqs \ {r} : req'[q] = req[q]
      /\ req'[r] = Idle
  BY <1>0 DEF RemoveCategory, Drop, TypeOK
<1>2. \A z \in Ids \ {x} : Heading(z)' = Heading(z)
  BY <1>0, <1>1, HeadingKept DEF Idle
<1>3. CASE rows[x].st = "live"
  <2>1. L!Remove(x)
    BY <1>0, <1>1, <1>2, <1>3, Leaves DEF Gone
  <2> QED BY <2>1
<1>4. CASE rows[x].st # "live"
  <2>1. Stay /\ \A z \in Ids : rows[z].st = "live" => Heading(z)' = Heading(z)
    BY <1>1, <1>2, <1>4 DEF Stay, Gone
  <2> QED BY <2>1, SameHeadings
<1> QED BY <1>3, <1>4

\* So does an item that is soft-deleted.
LEMMA SoftDeleteRemoves ==
  ASSUME OneAtATime, ListsInv, HeadingsOK, HeadingsOK', NEW i \in Items, SoftDeleteItem(i)
  PROVE  i \in Ids /\ L!Remove(i)
<1>1. /\ TypeOK /\ i \in Ids /\ rows[i].st = "live" /\ rows'[i].st = "hidden" /\ UNCHANGED req
      /\ \A z \in Ids \ {i} : rows'[z] = rows[z]
  BY DEF SoftDeleteItem, ListsInv, ArrInv, TypeOK, Row, Ids
<1>2. \A z \in Ids \ {i} : Heading(z)' = Heading(z)
  BY <1>1 DEF Heading
<1> QED BY <1>1, <1>2, Leaves

\* Every step of the tables is a step of the lists.
LEMMA StepOfLists ==
  ASSUME OneAtATime
  PROVE  ListsInv /\ ListsInv' /\ [Next]_vars => [L!ListNext]_(L!lvars)
<1> SUFFICES ASSUME ListsInv, ListsInv', [Next]_vars PROVE L!ListNext \/ UNCHANGED L!lvars
  OBVIOUS
<1>1. TypeOK /\ TypeOK' /\ HeadingsOK /\ HeadingsOK'
  BY Headings, HeadingsNext DEF ListsInv, ArrInv
<1>2. ASSUME NEW u \in Ids, NEW v \in Ids, L!Exchange(u, v) PROVE L!ListNext
  <2>1. <<u, v>> \in Order
    BY <1>2 DEF L!Exchange
  <2>2. \E p \in Order : L!Exchange(p[1], p[2])
    BY <1>2, <2>1
  <2> QED BY <2>2 DEF L!ListNext
<1>3. ASSUME NEW r \in Reqs, UNCHANGED rows, req[r].pc # "other", req'[r].pc # "other",
             \A q \in Reqs \ {r} : req'[q] = req[q]
      PROVE  UNCHANGED L!lvars
  BY <1>1, <1>3, ReadKeepsLists
<1>4. ASSUME NEW r \in Reqs, Start(r) PROVE UNCHANGED L!lvars
  <2>1. \/ \E x \in Ids, dir \in Directions : Reorder(r, x, dir)
        \/ \E x \in Ids, l \in Lists : Insert(r, x, l)
        \/ \E c \in Cats : DeleteCategory(r, c)
    BY <1>4 DEF Start, ReorderCategory, ReorderItem, CreateCategory, CreateItem, Ids, Lists
  <2>2. /\ UNCHANGED rows /\ req[r].pc # "other" /\ req'[r].pc # "other"
        /\ \A q \in Reqs \ {r} : req'[q] = req[q]
    BY <1>1, <2>1 DEF Reorder, Insert, DeleteCategory, Busy, Idle, TypeOK
  <2> QED BY <1>3, <2>2
<1>5. ASSUME NEW r \in Reqs,
             \/ StayAtEdge(r) \/ FindNeighbor(r) \/ FindEdge(r) \/ CheckEmpty(r) \/ RefuseDelete(r)
             \/ Abort(r)
      PROVE  UNCHANGED L!lvars
  <2>1. UNCHANGED rows /\ \A q \in Reqs \ {r} : req'[q] = req[q]
    BY <1>1, <1>5 DEF StayAtEdge, FindNeighbor, FindEdge, CheckEmpty, RefuseDelete, Abort,
                      Drop, Goto, TypeOK
  <2>2. req[r].pc # "other"
    BY <1>5 DEF StayAtEdge, FindNeighbor, FindEdge, CheckEmpty, RefuseDelete, Abort, OneAtATime
  <2>3. req'[r].pc # "other"
    <3>1. Drop(r) => req'[r].pc = "idle"
      BY <1>1 DEF Drop, Idle, TypeOK
    <3>2. FindNeighbor(r) => req'[r].pc = "target"
      BY <1>1 DEF FindNeighbor, TypeOK, Request
    <3>3. FindEdge(r) => Drop(r) \/ req'[r].pc = "target"
      BY <1>1 DEF FindEdge, TypeOK, Request
    <3>4. CheckEmpty(r) => Drop(r) \/ req'[r].pc = "delete"
      BY <1>1 DEF CheckEmpty, Goto, TypeOK, Request
    <3> QED BY <1>5, <3>1, <3>2, <3>3, <3>4 DEF StayAtEdge, RefuseDelete, Abort
  <2> QED BY <1>3, <2>1, <2>2, <2>3
<1>6. ASSUME NEW r \in Reqs, PlaceTarget(r) PROVE L!ListNext \/ UNCHANGED L!lvars
  <2>1. req[r].id \in Ids
    BY <1>6 DEF PlaceTarget, ListsInv, ArrInv, ArrangeOK, WriterOK, Arranging
  <2>2. CASE req[r].dir \in {"up", "down"}
    <3>1. req[r].with \in Ids
      BY <1>6, <2>2 DEF PlaceTarget, ListsInv, ArrInv, ArrangeOK, TargetOK, Between
    <3> QED BY <1>1, <1>2, <1>6, <2>1, <2>2, <3>1, FirstUpdate
  <2>3. CASE req[r].dir \notin {"up", "down"}
    BY <1>1, <1>6, <2>1, <2>3, EdgeUpdate DEF L!ListNext
  <2> QED BY <2>2, <2>3
<1>7. ASSUME NEW r \in Reqs, CommitInsert(r) \/ RemoveCategory(r)
      PROVE  L!ListNext \/ UNCHANGED L!lvars
  BY <1>1, <1>7, InsertAppends, DeleteRemoves DEF L!ListNext
<1>8. ASSUME NEW i \in Items, SoftDeleteItem(i) PROVE L!ListNext
  BY <1>1, <1>8, SoftDeleteRemoves DEF L!ListNext
<1>9. CASE UNCHANGED vars
  BY <1>9 DEF vars, L!lvars, ListOf, Order, Below, Above, Heading
<1> QED BY <1>1, <1>4, <1>5, <1>6, <1>7, <1>8, <1>9, SecondUpdate DEF Next, Proceed

\* The tables start as lists.
LEMMA InitOfLists == ASSUME OneAtATime PROVE ListsInv => L!ListInit
<1> SUFFICES ASSUME ListsInv PROVE L!ListInit
  OBVIOUS
<1>1. TypeOK /\ HeadingsOK
  BY Headings DEF ListsInv, ArrInv
<1>2. ListOf \in [Ids -> Lists \cup {NoId}]
  BY <1>1 DEF ListOf, TypeOK, Row
<1>3. ASSUME NEW x \in Ids, NEW y \in Ids
      PROVE  <<x, y>> \in Order \/ <<y, x>> \in Order
             <=> x # y /\ ListOf[x] = ListOf[y] /\ ListOf[x] # NoId
  <2>1. Above(x, y) \/ Above(y, x)
        <=> x # y /\ rows[x].st = "live" /\ LiveIn(y, rows[x].list)
    BY <1>1, AboveOrders DEF Above, LiveIn
  <2> QED BY <1>1, <2>1, OrderPairs, ShownSomewhere
<1>4. ASSUME NEW x \in Ids, NEW y \in Ids, NEW z \in Ids, <<x, y>> \in Order, <<y, z>> \in Order
      PROVE  <<x, z>> \in Order
  BY <1>1, <1>4, AboveOrders, OrderPairs
<1> QED BY <1>2, <1>3, <1>4, OrderPairs DEF L!ListInit, L!Ordered

\* If one request at a time arranges rows and none ends in the middle of a swap,
\* the two tables implement the lists of the menu, whatever the others delete and
\* however the statements interleave: a swap exchanges two neighbors, top and
\* bottom are the ends of the list, a new row comes last.
THEOREM ListImplemented == ASSUME OneAtATime PROVE Spec => ImplementsList
<1>1. ListsInv /\ [Next]_vars => ListsInv' /\ [L!ListNext]_(L!lvars)
  BY ListsInvStep, StepOfLists
<1>2. Init => ListsInv /\ L!ListInit
  BY ListsInvInit, InitOfLists
<1> QED BY <1>1, <1>2, PTL DEF Spec, ImplementsList, L!ListSpec
=============================================================================
