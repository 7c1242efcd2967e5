------------------------------- MODULE Pages -------------------------------
(* The paginated lists: the history of a member, the bookings of one       *)
(* account and of all accounts as an admin sees them, and the accounts.    *)
(* A page is several statements without a transaction, each with a         *)
(* snapshot of its own, while others book, cancel, anonymize and change    *)
(* the page size.  Reads do not disturb each other: there is one reader.   *)
(*                                                                         *)
(* A booking is its place in ORDER BY created_at, id; the amounts in       *)
(* balance_carryover are the set of the bookings they come from.           *)
EXTENDS Integers, FiniteSets

CONSTANTS Users, Nobody,
          MaxKey,      \* bound: the number of bookings
          Sizes,       \* bound: the page sizes admins set
          Lists,       \* the lists the reader opens
          Watched,     \* bound: the accounts whose bookings the reader lists
          InitRow      \* the bookings at the start

Keys == 1..MaxKey
NoKey == 0

Free == [st |-> "free", user |-> Nobody, cancels |-> NoKey]
Row == [st : {"free", "open", "gone", "booked", "anonymized"},
        user : Users \cup {Nobody}, cancels : Keys \cup {NoKey}]

ASSUME PagesConstants == /\ MaxKey \in Nat /\ IsFiniteSet(Users) /\ Nobody \notin Users
                         /\ Sizes \subseteq Nat \ {0} /\ Sizes # {}
                         /\ Watched \subseteq Users
                         /\ Lists \subseteq {"member", "user", "all", "users"}
                         /\ InitRow \in [Keys -> Row]

VARIABLES
  row,      \* row[k]: a booking, its owner and the booking it cancels
  carried,  \* carried[u]: the anonymized bookings credited to u
  cutoff,   \* the latest cutoff of an anonymization run
  size,     \* settings.pagination_size
  req,      \* the request under way
  screen,   \* the list in the browser
  walk      \* observer: a reader who goes from page 1 on with "next"

tables == <<row, carried, cutoff, size>>
vars == <<row, carried, cutoff, size, req, screen, walk>>

Owned(u) == {k \in Keys : row[k].st = "booked" /\ row[k].user = u}

\* The balance of u, every order being of -1 and every counter booking of 1.
Balance(u) ==
  LET all == Owned(u) \cup carried[u]
      stornos == {k \in all : row[k].cancels # NoKey}
  IN  Cardinality(stornos) - Cardinality(all \ stornos)

-----------------------------------------------------------------------------
(* The statements that list.                                               *)

\* FAULTY: cancelled bookings are left out of the lists.
EntriesInForce(list, u) ==
  LET inForce(S) == {k \in S : \A j \in Keys : row[j].st = "booked" => row[j].cancels # k}
  IN  CASE list \in {"member", "user"} -> inForce(Owned(u))
        [] list = "all" -> inForce({k \in Keys : row[k].st \in {"booked", "anonymized"}})
        [] list = "users" -> Users

\* WHERE user_id = u; no condition; the accounts.
Entries(list, u) ==
  CASE list \in {"member", "user"} -> Owned(u)
    [] list = "all" -> {k \in Keys : row[k].st \in {"booked", "anonymized"}}
    [] list = "users" -> Users

\* ORDER BY created_at DESC, id DESC: one order.
NewestFirst(S) == {[k \in S |-> Cardinality({j \in S : j >= k})]}

\* ORDER BY balance ASC: every order that the balances allow.
PoorestFirst(S) ==
  {pos \in [S -> 1..Cardinality(S)] :
     \A u, v \in S : /\ u # v => pos[u] # pos[v]
                     /\ Balance(u) < Balance(v) => pos[u] < pos[v]}

Orders(list, u) ==
  IF list = "users" THEN PoorestFirst(Users) ELSE NewestFirst(Entries(list, u))

\* LIMIT limit OFFSET offset.
Slice(pos, limit, offset) ==
  {e \in DOMAIN pos : offset < pos[e] /\ pos[e] <= offset + limit}

Offset(page, limit) == (page - 1) * limit

\* FAULTY: rounded down.
TotalPagesDown(total, limit) == total \div limit

TotalPages(total, limit) == (total + limit - 1) \div limit

-----------------------------------------------------------------------------
Entry == Keys \cup Users

Walk == [on : BOOLEAN, known : SUBSET Entry, seen : SUBSET Entry, again : SUBSET Entry,
         limit : Sizes \cup {0}, quiet : BOOLEAN, grew : BOOLEAN, late : Nat]

Reading == [pc : {"idle", "target", "settings", "count", "list", "carryover"},
            list : Lists \cup {"none"}, user : Users \cup {Nobody}, page : Nat,
            limit : Sizes \cup {0}, total : Nat, rows : SUBSET Entry, carry : SUBSET Keys,
            clamp : BOOLEAN]

Screen == [list : Lists \cup {"none"}, user : Users \cup {Nobody}, no : Nat, pages : Nat,
           rows : SUBSET Entry, carry : SUBSET Keys]

NoWalk == [on |-> FALSE, known |-> {}, seen |-> {}, again |-> {},
           limit |-> 0, quiet |-> FALSE, grew |-> FALSE, late |-> 0]
Idle == [pc |-> "idle", list |-> "none", user |-> Nobody, page |-> 0, limit |-> 0,
         total |-> 0, rows |-> {}, carry |-> {}, clamp |-> FALSE]
Blank == [list |-> "none", user |-> Nobody, no |-> 0, pages |-> 0, rows |-> {}, carry |-> {}]

Init == /\ row = InitRow
        /\ carried = [u \in Users |-> {}]
        /\ cutoff = 1
        /\ size \in Sizes
        /\ req = Idle
        /\ screen = Blank
        /\ walk = NoWalk

Disturbed == IF walk.on THEN [walk EXCEPT !.quiet = FALSE] ELSE walk

NewWalk(known, limit) ==
  [NoWalk EXCEPT !.on = TRUE, !.known = known, !.quiet = TRUE, !.limit = limit]

\* The walk when its next page is listed with this limit.
Paced(limit) ==
  IF walk.on THEN [walk EXCEPT !.limit = limit,
                               !.grew = walk.grew \/ (walk.limit # 0 /\ limit > walk.limit)]
  ELSE walk

-----------------------------------------------------------------------------
(* What others do meanwhile.  created_at is fixed when a transaction       *)
(* begins, so a booking may appear below younger ones.                     *)

\* A booking that may be cancelled: no counter booking, and none against it.
Cancellable(k) ==
  /\ row[k].st = "booked" /\ row[k].cancels = NoKey /\ k >= cutoff
  /\ \A j \in Keys : row[j].st \in {"open", "booked"} => row[j].cancels # k

Unused == {k \in Keys : row[k].st = "free"}
NextKey == CHOOSE k \in Unused : \A j \in Unused : k <= j

BeginBooking(u, c) ==
  /\ Unused # {}
  /\ c # NoKey => Cancellable(c) /\ row[c].user = u
  /\ row' = [row EXCEPT ![NextKey] = [st |-> "open", user |-> u, cancels |-> c]]
  /\ UNCHANGED <<carried, cutoff, size, req, screen, walk>>

CommitBooking(k) ==
  /\ row[k].st = "open"
  /\ row' = [row EXCEPT ![k].st = "booked"]
  /\ walk' = [Disturbed EXCEPT
       !.late = IF walk.on /\ req.pc = "list" /\ req.list \in {"all", "member", "user"}
                           /\ (req.list # "all" => row[k].user = req.user)
                THEN @ + 1 ELSE @]
  /\ UNCHANGED <<carried, cutoff, size, req, screen>>

RollbackBooking(k) ==
  /\ row[k].st = "open"
  /\ row' = [row EXCEPT ![k] = [Free EXCEPT !.st = "gone"]]
  /\ UNCHANGED <<carried, cutoff, size, req, screen, walk>>

Partners(k) == {p \in Keys : row[p].st = "booked" /\ (row[p].cancels = k \/ row[k].cancels = p)}
Due(c) == {k \in Keys : row[k].st = "booked" /\ k < c /\ \A p \in Partners(k) : p < c}

\* A cutoff is months ago: no transaction that is still open began before it.
AnonymizeTransactions(c) ==
  /\ c >= cutoff /\ Due(c) # {}
  /\ \A k \in Keys : row[k].st = "open" => k >= c
  /\ row' = [k \in Keys |-> IF k \in Due(c) THEN [row[k] EXCEPT !.st = "anonymized", !.user = Nobody]
                            ELSE row[k]]
  /\ carried' = [u \in Users |-> carried[u] \cup (Due(c) \cap Owned(u))]
  /\ cutoff' = c
  /\ walk' = Disturbed
  /\ UNCHANGED <<size, req, screen>>

SetPageSize(s) ==
  /\ s # size
  /\ size' = s
  /\ walk' = Disturbed
  /\ UNCHANGED <<row, carried, cutoff, req, screen>>

-----------------------------------------------------------------------------
(* The reader.                                                             *)

FirstStatement(list) == IF list = "user" THEN "target" ELSE "settings"

Request(list, u, p) ==
  [Idle EXCEPT !.pc = FirstStatement(list), !.list = list, !.user = u, !.page = p, !.clamp = TRUE]

\* A list is opened at its first page.
OpenList(list, u) ==
  /\ req.pc = "idle"
  /\ req' = Request(list, u, 1)
  /\ walk' = NewWalk(Entries(list, u), 0)
  /\ screen' = Blank
  /\ UNCHANGED tables

\* "next" in the list on the screen.
NextPage ==
  /\ req.pc = "idle" /\ screen.no < screen.pages
  /\ req' = Request(screen.list, screen.user, screen.no + 1)
  /\ UNCHANGED <<tables, screen, walk>>

\* Any other link, and the address of a page once visited.
JumpTo(p) ==
  /\ req.pc = "idle" /\ p \in 1..screen.pages
  /\ req' = Request(screen.list, screen.user, p)
  /\ walk' = NoWalk
  /\ screen' = Blank
  /\ UNCHANGED tables

\* The reader cancels a booking on the screen.  The list that comes back is
\* page 1, as only the link in the list of one account carries the page.
CancelOnPage(k) ==
  LET page == IF screen.list = "user" THEN screen.no ELSE 1
      entries == Entries(screen.list, screen.user) \cup {NextKey}
  IN  /\ req.pc = "idle" /\ screen.list # "users" /\ k \in screen.rows
      /\ Unused # {} /\ Cancellable(k)
      /\ row' = [row EXCEPT ![NextKey] = [st |-> "booked", user |-> row[k].user, cancels |-> k]]
      /\ req' = [Request(screen.list, screen.user, page) EXCEPT
                   !.pc = IF screen.list = "user" THEN "target" ELSE "count",
                   !.limit = size, !.clamp = FALSE]
      /\ walk' = IF screen.list = "user"
                 THEN (IF walk.on THEN [Paced(size) EXCEPT !.quiet = FALSE] ELSE walk)
                 ELSE NewWalk(entries, size)
      /\ UNCHANGED <<carried, cutoff, size, screen>>

\* GetUserWithBalance: the admin's view takes the carryover from here.
GetTargetUser ==
  /\ req.pc = "target"
  /\ req' = [req EXCEPT !.carry = carried[req.user],
                        !.pc = IF req.clamp THEN "settings" ELSE "count"]
  /\ UNCHANGED <<tables, screen, walk>>

GetSettings ==
  /\ req.pc = "settings"
  /\ req' = [req EXCEPT !.limit = size, !.pc = "count"]
  /\ walk' = Paced(size)
  /\ UNCHANGED <<tables, screen>>

\* SELECT COUNT(*).
CountEntries ==
  /\ req.pc = "count"
  /\ req' = [req EXCEPT !.total = Cardinality(Entries(req.list, req.user)), !.pc = "list"]
  /\ walk' = [walk EXCEPT !.late = 0]
  /\ UNCHANGED <<tables, screen>>

\* FAULTY: to the number of pages, also when there are none.
ClampedToZero(page, pages) == IF page > pages THEN pages ELSE page

\* The page number is clamped when the rows have been fetched.
Clamped(page, pages) == IF page > pages /\ pages > 0 THEN pages ELSE page

\* FAULTY: only below bookings.
ShowsCarryoverBelow(no, pages) == pages > 0 /\ no >= pages

\* The carryover row (which is there when the sum is not 0).
ShowsCarryover(no, pages) == pages = 0 \/ no >= pages

\* The fragment replaces the list on the screen.
Show(rows, carry) ==
  LET pages == TotalPages(req.total, req.limit)
      no == IF req.clamp THEN Clamped(req.page, pages) ELSE req.page
  IN  /\ screen' = [list |-> req.list, user |-> req.user, no |-> no, pages |-> pages,
                    rows |-> rows, carry |-> IF ShowsCarryover(no, pages) THEN carry ELSE {}]
      /\ walk' = IF walk.on THEN [walk EXCEPT !.seen = @ \cup rows, !.again = @ \cup (walk.seen \cap rows)]
                 ELSE walk
      /\ req' = Idle

\* FAULTY: in the admin's view, too, the carryover is read after the rows.
ListEntriesFirst ==
  /\ req.pc = "list"
  /\ \E pos \in Orders(req.list, req.user) :
       LET rows == Slice(pos, req.limit, Offset(req.page, req.limit))
       IN  IF req.list \in {"member", "user"}
           THEN req' = [req EXCEPT !.rows = rows, !.pc = "carryover"] /\ UNCHANGED <<screen, walk>>
           ELSE Show(rows, req.carry)
  /\ UNCHANGED tables

\* ListTransactionsByUser, ListAllTransactions, ListUsersWithBalance.
ListEntries ==
  /\ req.pc = "list"
  /\ \E pos \in Orders(req.list, req.user) :
       LET rows == Slice(pos, req.limit, Offset(req.page, req.limit))
       IN  IF req.list = "member"
           THEN req' = [req EXCEPT !.rows = rows, !.pc = "carryover"] /\ UNCHANGED <<screen, walk>>
           ELSE Show(rows, req.carry)
  /\ UNCHANGED tables

\* GetUserBalanceCarryover: the member's view takes the carryover last.
GetCarryover ==
  /\ req.pc = "carryover"
  /\ Show(req.rows, carried[req.user])
  /\ UNCHANGED tables

\* The reader clicks elsewhere, or the connection breaks.
Abandon ==
  /\ req.pc # "idle"
  /\ req' = Idle
  /\ walk' = NoWalk
  /\ screen' = Blank
  /\ UNCHANGED tables

Subjects(list) == IF list \in {"member", "user"} THEN Watched ELSE {Nobody}

Others ==
  \/ \E u \in Users, c \in Keys \cup {NoKey} : BeginBooking(u, c)
  \/ \E k \in Keys : CommitBooking(k) \/ RollbackBooking(k)
  \/ \E c \in 2..MaxKey + 1 : AnonymizeTransactions(c)
  \/ \E s \in Sizes : SetPageSize(s)

Reader ==
  \/ \E list \in Lists : \E u \in Subjects(list) : OpenList(list, u)
  \/ NextPage \/ (\E p \in Keys : JumpTo(p)) \/ (\E k \in Keys : CancelOnPage(k))
  \/ GetTargetUser \/ GetSettings \/ CountEntries \/ ListEntries \/ GetCarryover
  \/ Abandon

Next == Others \/ Reader

Spec == Init /\ [][Next]_vars

-----------------------------------------------------------------------------
(* Properties.                                                             *)

\* Types; a list on the screen has a page number from 1 on.
TypeOK ==
  /\ row \in [Keys -> Row]
  /\ carried \in [Users -> SUBSET Keys]
  /\ cutoff \in 1..MaxKey + 1 /\ size \in Sizes
  /\ req \in Reading /\ screen \in Screen /\ walk \in Walk
  /\ walk.again \subseteq walk.seen
  /\ screen.list # "none" => screen.no >= 1

\* The page that answers the request is shown.
Shown == req.pc \in {"list", "carryover"} /\ req'.pc = "idle"

\* It is the last page of a walk.
LastShown == Shown /\ walk'.on /\ screen'.no >= screen'.pages

DistinctBalances == \A u, v \in Users : Balance(u) = Balance(v) => u = v

(* A reader who goes through all pages while nobody changes anything sees  *)
(* every entry exactly once, and of an account with anonymized bookings    *)
(* the Anfangsbestand, so that the page adds up to the balance.  Offsets,  *)
(* number of pages, clamping and the condition for the extra row have to   *)
(* fit together for that (history.go, transactions.go, users.go).  The     *)
(* accounts need distinct balances: see EveryAccountListed.                *)
QuietWalkExact ==
  [][LastShown /\ walk.quiet /\ (req.list = "users" => DistinctBalances)
     => /\ walk'.seen = Entries(req.list, req.user) /\ walk'.again = {}
        /\ req.list \in {"member", "user"} => screen'.carry = carried[req.user]]_vars

(* Bookings and cancellations that arrive between two pages, even with an  *)
(* earlier created_at, push the list down: a walk may show a booking twice *)
(* but skips none.  Anonymization takes rows out, but only old ones: it    *)
(* may make a walk skip the older half of a pair it keeps, nothing that is *)
(* younger than the cutoff.  (A larger page size makes every walk skip.)   *)
NoGaps ==
  walk.on /\ walk.seen # {} /\ ~walk.grew /\ screen.list # "users" =>
    \A k \in walk.known \cap Entries(screen.list, screen.user) :
      (screen.list = "all" \/ k >= cutoff) /\ k \notin walk.seen
        => \A s \in walk.seen : k < s

(* At the end of a walk every booking from before it is accounted for.  A  *)
(* member finds each one as a row or, anonymized meanwhile, within the     *)
(* Anfangsbestand, since the carryover is read last (history.go:77).  Two  *)
(* things may be missing: the older half of a pair, see NoGaps, and as     *)
(* many of the oldest rows as bookings were committed between COUNT and    *)
(* SELECT of the last page.  Among all accounts' bookings nothing else is  *)
(* missing either, and of one account nothing that is still the account's. *)
NothingLost ==
  [][LastShown /\ ~walk.grew /\ req.list # "users" =>
       LET missing == walk'.known \ (walk'.seen \cup screen'.carry)
           kept == {k \in missing : row[k].st = "booked" /\ k < cutoff}
           taken == {k \in missing : row[k].st = "anonymized"}
           unexplained == CASE req.list = "member" -> missing \ kept
                            [] req.list = "user" -> missing \ (kept \cup taken)
                            [] req.list = "all" -> missing
       IN  Cardinality(unexplained) <= walk.late]_vars

(* An admin who looks at one account never sees an amount twice, as a row  *)
(* and within the Anfangsbestand: the carryover is read before the rows    *)
(* (handler/admin/transactions.go:118), so what it contains is no row any  *)
(* more.  The history of the member reads it afterwards and may show an    *)
(* amount twice when an anonymization commits in between.                  *)
AdminCountsOnce == screen.list = "user" => screen.rows \cap screen.carry = {}

(* "Er sieht alle Benutzer paginiert" (docs/use-cases.md:69): going        *)
(* through the list of accounts while nothing changes shows every account. *)
(* Not so when balances are equal: the SELECT sorts by nothing else        *)
(* (store/user.go:194), and each page may break the tie its own way.       *)
EveryAccountListed ==
  [][LastShown /\ walk.quiet /\ req.list = "users" => walk'.seen = Users]_vars
=============================================================================
