-------------------------------- MODULE Menu --------------------------------
(***************************************************************************)
(* The menu of deckel: the tables categories and items, and the admin      *)
(* requests that create, remove and reorder their rows.  A list - all      *)
(* categories, or the items of one category - is shown by sort_order, then *)
(* id.  Nothing here runs in a database transaction: every statement of a  *)
(* request commits by itself, and those of other requests come in between. *)
(* Names and prices are the business of module MenuBatch.                  *)
(***************************************************************************)
EXTENDS Integers, FiniteSetsExt

CONSTANTS
  Cats, Items,  \* ids of categories and of items: bounds their number
  Root,         \* the list of the categories; the others are those of a category
  NoId,         \* no row
  Reqs,         \* slots for concurrent requests: bounds their number
  Writers,      \* the slots that create and reorder rows
  Int4,         \* the values of an INTEGER column
  InitRows,     \* the two tables at the start
  Ops           \* the operations enabled in this instance

VARIABLES
  rows,  \* tables categories and items, by id
  req    \* the request each slot runs

vars == <<rows, req>>

Ids == Cats \cup Items
Lists == Cats \cup {Root}
Directions == {"up", "down", "top", "bottom"}

\* "none": not created yet; "hidden": a soft-deleted item, whose row stays;
\* "gone": a deleted category.
Row == [st : {"none", "live", "hidden", "gone"}, list : Lists, pos : Int4]

Gone == [st |-> "gone", list |-> Root, pos |-> 0]

Request == [pc : {"idle", "neighbor", "edge", "target", "other", "insert", "check", "delete"},
            id : Ids \cup {NoId}, dir : Directions, list : Lists,
            cur : Int4, new : Int4, with : Ids \cup {NoId}]

Idle == [pc |-> "idle", id |-> NoId, dir |-> "up", list |-> Root, cur |-> 0, new |-> 0,
         with |-> NoId]

ASSUME MenuConstants ==
  /\ Ids \subseteq Nat /\ Cats \cap Items = {} /\ Root \notin Ids /\ NoId \notin Ids \cup {Root}
  /\ 0 \in Int4 /\ Int4 \subseteq Int /\ \E lo, hi \in Int4 : Int4 = lo..hi
  /\ Writers \subseteq Reqs
  /\ InitRows \in [Ids -> Row]

\* An item's row always names a category that exists.
CategoryLives(table) ==
  \A i \in Items : table[i].st \in {"live", "hidden"} =>
    table[i].list \in Cats /\ table[table[i].list].st = "live"

\* No two rows that are shown in one list have the same position.
Distinct(table) ==
  \A x, y \in Ids :
    /\ x # y /\ table[x].st = "live" /\ table[y].st = "live"
    /\ table[x].list = table[y].list
    => table[x].pos # table[y].pos

\* What creating rows one after the other leaves behind.
ASSUME ConsistentMenu ==
  /\ CategoryLives(InitRows) /\ Distinct(InitRows)
  /\ \A c \in Cats : InitRows[c].list = Root

-----------------------------------------------------------------------------
(* Reading and writing rows. *)

Busy(r) == req[r].pc # "idle"
Drop(r) == req' = [req EXCEPT ![r] = Idle]
Goto(r, pc) == req' = [req EXCEPT ![r].pc = pc]

\* ListCategories and ListItemsByCategory.
Shown(l) == {x \in Ids : rows[x].st = "live" /\ rows[x].list = l}

\* Before in the list: ORDER BY sort_order, id.
Precedes(x, y) ==
  /\ rows[x].list = rows[y].list
  /\ rows[x].pos < rows[y].pos \/ (rows[x].pos = rows[y].pos /\ x < y)

\* The shown rows above (below) the position that was read.
Beyond(r) ==
  {y \in Shown(req[r].list) :
     IF req[r].dir = "up" THEN rows[y].pos < req[r].cur ELSE rows[y].pos > req[r].cur}

\* Faulty: ORDER BY the wrong way round.
Farthest(r) ==
  {y \in Beyond(r) : \A z \in Beyond(r) :
     IF req[r].dir = "up" THEN rows[z].pos >= rows[y].pos ELSE rows[z].pos <= rows[y].pos}

\* ORDER BY sort_order DESC (ASC) LIMIT 1: any row of a tie.
Nearest(r) ==
  {y \in Beyond(r) : \A z \in Beyond(r) :
     IF req[r].dir = "up" THEN rows[z].pos <= rows[y].pos ELSE rows[z].pos >= rows[y].pos}

\* COALESCE(MAX(sort_order), 0) and COALESCE(MIN(sort_order), 0) of a list.
Positions(l) == {rows[x].pos : x \in Shown(l)}
Last(l) == IF Shown(l) = {} THEN 0 ELSE Max(Positions(l))
First(l) == IF Shown(l) = {} THEN 0 ELSE Min(Positions(l))

\* UPDATE ... SET sort_order WHERE id: hits a soft-deleted item too, and no
\* row once a category is gone.
Place(x, p) == rows' = IF rows[x].st = "gone" THEN rows ELSE [rows EXCEPT ![x].pos = p]

-----------------------------------------------------------------------------
(* Reordering. *)

\* The first SELECT finds the row and its position.
Reorder(r, x, dir) ==
  /\ "reorder" \in Ops
  /\ r \in Writers /\ ~Busy(r)
  /\ rows[x].st = "live"
  /\ req' = [req EXCEPT ![r] =
       [Idle EXCEPT !.pc = IF dir \in {"up", "down"} THEN "neighbor" ELSE "edge",
                 !.id = x, !.dir = dir, !.list = rows[x].list, !.cur = rows[x].pos]]
  /\ UNCHANGED rows

ReorderCategory(r, c, dir) == c \in Cats /\ Reorder(r, c, dir)

ReorderItem(r, i, dir) == i \in Items /\ Reorder(r, i, dir)

\* The second SELECT finds nothing beyond the position: the row is at the edge.
StayAtEdge(r) ==
  /\ req[r].pc = "neighbor" /\ Beyond(r) = {}
  /\ Drop(r)
  /\ UNCHANGED rows

FindNeighbor(r) ==
  /\ req[r].pc = "neighbor"
  /\ \E y \in Nearest(r) :
       req' = [req EXCEPT ![r] = [@ EXCEPT !.pc = "target", !.with = y, !.new = rows[y].pos]]
  /\ UNCHANGED rows

\* Faulty: positions leave the range of their column.
FindAnyEdge(r) ==
  /\ req[r].pc = "edge"
  /\ LET p == IF req[r].dir = "top" THEN First(req[r].list) - 1 ELSE Last(req[r].list) + 1 IN
       req' = [req EXCEPT ![r] = [@ EXCEPT !.pc = "target", !.new = p]]
  /\ UNCHANGED rows

\* A position that is no INTEGER fails the SELECT.
FindEdge(r) ==
  /\ req[r].pc = "edge"
  /\ LET p == IF req[r].dir = "top" THEN First(req[r].list) - 1 ELSE Last(req[r].list) + 1 IN
       IF p \in Int4
         THEN req' = [req EXCEPT ![r] = [@ EXCEPT !.pc = "target", !.new = p]]
         ELSE Drop(r)
  /\ UNCHANGED rows

PlaceTarget(r) ==
  /\ req[r].pc = "target"
  /\ Place(req[r].id, req[r].new)
  /\ IF req[r].dir \in {"up", "down"} THEN Goto(r, "other") ELSE Drop(r)

\* Faulty: the neighbor gets the position it had.
PlaceOtherBack(r) ==
  /\ req[r].pc = "other"
  /\ Place(req[r].with, req[r].new)
  /\ Drop(r)

PlaceOther(r) ==
  /\ req[r].pc = "other"
  /\ Place(req[r].with, req[r].cur)
  /\ Drop(r)

-----------------------------------------------------------------------------
(* Creating and removing rows. *)

\* The sequence of a table gives each INSERT an id of its own, in order.
FreeIds(S) ==
  {x \in S : rows[x].st = "none" /\ \A q \in Reqs : ~(req[q].pc = "insert" /\ req[q].id = x)}
NewId(x, S) == x \in FreeIds(S) /\ \A y \in FreeIds(S) : x <= y

\* The INSERT has read its snapshot, found the category by its foreign key and
\* locked it FOR KEY SHARE; it has not committed.
Insert(r, x, l) ==
  /\ "create" \in Ops
  /\ r \in Writers /\ ~Busy(r)
  /\ Last(l) + 1 \in Int4
  /\ req' = [req EXCEPT ![r] = [Idle EXCEPT !.pc = "insert", !.id = x, !.list = l, !.new = Last(l) + 1]]
  /\ UNCHANGED rows

CreateCategory(r, c) == c \in Cats /\ NewId(c, Cats) /\ Insert(r, c, Root)

CreateItem(r, i, c) ==
  /\ i \in Items /\ NewId(i, Items)
  /\ c \in Cats /\ rows[c].st = "live"
  /\ Insert(r, i, c)

CommitInsert(r) ==
  /\ req[r].pc = "insert"
  /\ rows' = [rows EXCEPT ![req[r].id] = [st |-> "live", list |-> req[r].list, pos |-> req[r].new]]
  /\ Drop(r)

SoftDeleteItem(i) ==
  /\ "softDelete" \in Ops
  /\ i \in Items /\ rows[i].st = "live"
  /\ rows' = [rows EXCEPT ![i].st = "hidden"]
  /\ UNCHANGED req

DeleteCategory(r, c) ==
  /\ "delete" \in Ops
  /\ ~Busy(r)
  /\ c \in Cats /\ rows[c].st = "live"
  /\ req' = [req EXCEPT ![r] = [Idle EXCEPT !.pc = "check", !.id = c]]
  /\ UNCHANGED rows

CheckEmpty(r) ==
  /\ req[r].pc = "check"
  /\ IF Shown(req[r].id) = {} THEN Goto(r, "delete") ELSE Drop(r)
  /\ UNCHANGED rows

\* Faulty: the schema lets a category go that rows refer to.
KeptByNone(c) == {}

\* The rows whose foreign key keeps category c: soft-deleted items as well.
KeptBy(c) == {i \in Items : rows[i].st \in {"live", "hidden"} /\ rows[i].list = c}

\* The INSERTs that have locked c.
InsertersInto(c) == {q \in Reqs : req[q].pc = "insert" /\ req[q].list = c}

\* The DELETE waits for them, then the foreign key lets it pass ...
RemoveCategory(r) ==
  /\ req[r].pc = "delete"
  /\ InsertersInto(req[r].id) = {} /\ KeptBy(req[r].id) = {}
  /\ rows' = [rows EXCEPT ![req[r].id] = Gone]
  /\ Drop(r)

\* ... or fails it.
RefuseDelete(r) ==
  /\ req[r].pc = "delete"
  /\ InsertersInto(req[r].id) = {} /\ KeptBy(req[r].id) # {}
  /\ Drop(r)
  /\ UNCHANGED rows

\* The client goes away or the process dies between two statements; those of
\* a swap are the operation "halfSwap".
Abort(r) ==
  /\ "abort" \in Ops /\ (req[r].pc = "other" => "halfSwap" \in Ops)
  /\ Busy(r)
  /\ Drop(r)
  /\ UNCHANGED rows

-----------------------------------------------------------------------------
(* The specification. *)

Init == rows = InitRows /\ req = [r \in Reqs |-> Idle]

Start(r) ==
  \/ \E x \in Ids, dir \in Directions : ReorderCategory(r, x, dir) \/ ReorderItem(r, x, dir)
  \/ \E c \in Cats : CreateCategory(r, c) \/ DeleteCategory(r, c)
  \/ \E i \in Items, c \in Cats : CreateItem(r, i, c)

Proceed(r) ==
  \/ StayAtEdge(r) \/ FindNeighbor(r) \/ FindEdge(r) \/ PlaceTarget(r) \/ PlaceOther(r)
  \/ CommitInsert(r)
  \/ CheckEmpty(r) \/ RemoveCategory(r) \/ RefuseDelete(r)

Next ==
  \/ \E i \in Items : SoftDeleteItem(i)
  \/ \E r \in Reqs : Start(r) \/ Proceed(r) \/ Abort(r)

Spec == Init /\ [][Next]_vars

-----------------------------------------------------------------------------
(* Properties. *)

\* Every variable keeps its type.
TypeOK == rows \in [Ids -> Row] /\ req \in [Reqs -> Request]

\* Deleting a category checks that it is empty in a statement before the
\* DELETE (categories.go:223-232), and items may be created in between: still
\* no item, not even a soft-deleted one, ever names a category that is gone.
ItemsHaveCategory == CategoryLives(rows)

\* Where a row will be once the swap that has moved one of the two is through.
Heading(x) ==
  LET swaps == {r \in Reqs : req[r].pc = "other" /\ req[r].with = x} IN
  IF swaps = {} THEN rows[x].pos ELSE req[CHOOSE r \in swaps : TRUE].cur

\* As long as one request at a time arranges rows, whatever the others delete,
\* the rows of a list have different positions.
PositionsDistinct == Distinct([x \in Ids |-> [rows[x] EXCEPT !.pos = Heading(x)]])

AtEdge(r) ==
  \A y \in Shown(req[r].list) :
    IF req[r].dir = "up" THEN ~Precedes(y, req[r].id) ELSE ~Precedes(req[r].id, y)

\* "already at edge, no-op" (category.go:137, item.go:158): a move does nothing
\* only for a row that is the first, or the last, of its list or was deleted.
NoOpAtEdge ==
  [][\A r \in Reqs : StayAtEdge(r) /\ rows[req[r].id].st = "live" => AtEdge(r)]_vars
=============================================================================
