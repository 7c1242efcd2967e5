# Verification of deckel

deckel keeps the bar tab ("Deckel") of a club: members order from a menu or book
custom amounts, a kiosk orders for them, admins register deposits, cancel, delete
accounts and run the anonymization of old bookings. It is a Go program in front of
one PostgreSQL database; every request is a goroutine, and everything that can go
wrong between two requests goes wrong in the database. This directory holds TLA+
modules of that core, TLC configurations that check them on small instances, and
proofs that TLAPS checks for all instances.

Paths below are relative to `src/internal/` unless they start with `src/` or `docs/`.

## 1. Inventory

| Part | State | Operations | Talks to |
|---|---|---|---|
| Bookings (`store/transaction.go`, `handler/member`, `handler/kiosk`, `handler/admin/deposits.go`, `transactions.go`) | table `transactions`: owner, creator, amount, `cancels_id`, `cancelled_at`, `created_at` | order, custom booking, kiosk order, deposit, three cancel handlers | accounts (foreign keys, balance lock), settings (limit, window) |
| Balances and limit (`store/user.go`) | `users.balance_carryover` + sum of bookings, never stored | `GetUserBalanceForUpdate`, the limit check in three handlers | bookings, anonymization |
| Anonymization (`service/anonymize`, `store/anonymization.go`) | `anonymization_runs`, `balance_carryover` | `RunAnonymization`, `Preview` | bookings (takes the owner away), accounts (credits the carryover) |
| Account deletion (`handler/admin/delete_user.go`) | row of `users` | `DeleteUser` and its guards | bookings (references), balances |
| Accounts and sign-on (`auth`, `handler/admin/users.go`) | table `users`: flags, names, role columns refreshed by every request | create on first sight, profile update, three toggles | all handlers |
| Settings (`store/settings.go`, `handler/admin/settings.go`) | one row | read by almost every handler, saved as a whole | all handlers |
| Menu (`store/category.go`, `store/item.go`) | tables `categories`, `items` with positions and soft delete | create, rename, reorder, delete | orders (price, deleted?) |
| Menu batch edit (`handler/admin/menu_batch.go`) | in-memory sessions (`sync.Map`) between upload and apply | export, upload, apply, cleanup | menu |
| Reminders (`handler/admin/settings.go`, `mail`) | none; the question is in the browser | ask how many, send mails to accounts under a limit | settings, balances, SMTP server |
| CSRF (`middleware/csrf.go`) | cookie and token in the browser, secret of the process | check every mutating request | all handlers |
| Lists (`handler/member/history.go`, `handler/admin/transactions.go`, `users.go`, `templates/components/pagination.html`) | none; page number in the browser | count, list a page, carryover row, the list after a cancellation | bookings, balances, settings (page size) |
| Statistics, export | none (reads) | aggregates, CSV | bookings |
| Server (`src/cmd/server`, `router`, `config`) | process | start, migrate, serve, shut down | all |

What is hard, and what makes each part correct:

- **Bookings and the limit.** A limit check is check-then-insert; members can order
  twice at once, at the kiosk too, while a cancellation or an anonymization moves the
  same balance. Correct: the balance compared with the limit is the balance the
  booking is committed on.
- **Cancellation.** Three handlers check `cancelled_at` before their transaction and
  may be overtaken. Correct: at most one counter booking per booking, of the opposite
  amount, for the same owner; never one without the mark or the mark without it.
- **Anonymization.** A statement sees the rows committed when it began and then waits
  for row locks; runs overlap. Correct: no balance changes, every row is credited and
  logged once, pairs stay together.
- **Deletion.** The guards read an account, a sum and a count at different moments.
  Correct: only inactive accounts with balance 0 and without bookings go.
- **Locks.** `FOR UPDATE`, foreign-key checks, row updates and an advisory lock are
  taken in several orders. Correct: no cycle, and every request ends.
- **Menu.** Swapping two positions takes four statements without a transaction, a new
  row's position is read before it is inserted, and a category is checked for items
  before it is deleted. Correct: each request changes the list an admin sees as its
  button says, and no item ever names a category that is gone.
- **Menu batch.** A session waits in memory between preview and apply while items are
  edited and deleted; it may be submitted twice, expire, or die with the process.
  Correct: its changes are made all at once or not at all, and once; two batches over
  the same items do not hang.
- **Accounts.** Two first requests insert one person; a request writes back a profile
  it read a statement earlier; a flag is flipped whatever it is by then. Correct: who
  comes in has an open account, known names stay, a confirmed question means what it
  said (the last one does not hold, see section 4; the second only for one tab).
- **Lists.** A page is three or four statements without a transaction, and the next
  page comes after whatever happened in between. Correct: paging through a list skips
  nothing and loses no money, and who has no disturbance sees every entry once.
- **Settings and reminders.** A form brings amounts there and back as text; question
  and round read limits and accounts separately, with two copies of the rule; a mail
  may be taken and still be reported as an error. Correct: an untouched form changes
  nothing, as many mails are tried as were announced, none is reported that was not
  taken.
- **CSRF.** Tabs share a cookie, each has a token of its own, responses are lost,
  processes come and go. Correct: a page is refused only for a reason.

`PROJECT.json` lists these with their lines under `hazards`.

## 2. Modules

| Module | Contents |
|---|---|
| `Ledger` | the state (tables and request slots), one action per statement, the properties |
| `LedgerInv` | the inductive invariant `IInv` |
| `LedgerProofs` | `IInv` is inductive; type correctness and the safety invariants it implies |
| `LedgerTheorems` | freedom from deadlock; what deletion guarantees, without and with anonymization runs; a booking and its storno are anonymized together |
| `MoneyProofs` | sums over sets; the audit log and the balances add up, and the ledger implements `Tab` |
| `Tab` | the abstract specification: a tab per account, charges that are asked for and made, entries, closing |
| `LedgerTab` | the refinement mapping from `Ledger` to `Tab` |
| `MCLedger` | accounts, bookings and settings for TLC |
| `Menu` | categories and items with their positions, one action per statement |
| `MenuList` | the abstract specification: lists of rows, with an order |
| `MenuLists` | the refinement mapping from `Menu` to `MenuList` |
| `MenuProofs` | theorems about `Menu`, and that it implements `MenuList` |
| `MCMenu` | tables for TLC |
| `MenuBatch` | upload, sessions, the transaction that applies one, with its row locks |
| `Catalogue` | the abstract specification: offers that are accepted as a whole |
| `BatchCatalogue` | the refinement mapping from `MenuBatch` to `Catalogue` |
| `BatchProofs` | theorems about `MenuBatch`, and that it implements `Catalogue` |
| `MCMenuBatch` | files for TLC |
| `Accounts` | the middleware and the switching of flags, one action per statement |
| `Gate` | the abstract specification: open and closed accounts, who is inside |
| `AccountsGate` | the refinement mapping from `Accounts` to `Gate` |
| `AccountsProofs` | types, the flags of kiosks, stored names, and the refinement |
| `MCAccounts` | accounts for TLC |
| `Pages` | a reader of the four paginated lists, one action per statement, and everyone who writes meanwhile |
| `PagesInv` | the inductive invariant `IInv` of the lists |
| `PagesProofs` | `IInv` is inductive; the properties it implies |
| `MCPages` | bookings for TLC |
| `Csrf` | tokens, cookies and secrets between tabs and processes, without handlers |
| `SettingsPage` | the settings form and the reminders behind `Csrf` |
| `SettingsPageProofs` | types and all safety properties of the page; in `Csrf`, what is settled stays settled |
| `MCSettingsPage` | settings, accounts and forms for TLC |

`SettingsPage` is composed with `Csrf`: each of its steps is one of the browser, of the
middleware or of a handler, on the same requests. The other parts share tables but no
property crosses them: the ledger uses
of the menu only the price of an order, and of `users` only that a row exists, is
active and has a balance. Each module therefore stands alone and lets the others act
as an environment (`DeleteUser` in `Accounts`, `CreateUser` and the toggles in
`Ledger`, `ChangeAccount` in `SettingsPage`, `Others` in `Pages`).

### How `Ledger` corresponds to the code

A request is a slot `r` in `Reqs`. `Start(r)` takes up a handler: what the handler
reads before `BEGIN` (the account from the middleware, the settings, the booking to
cancel) is stored in the slot and may be stale from then on. `Proceed(r)` runs its
statements one by one. A statement that has to wait for a lock is disabled while
somebody else holds it. Writes are kept in the slot and installed by the Commit
actions, because READ COMMITTED shows them to nobody else before; `Abort(r)` is a
rollback at any point (client gone, connection lost, process killed).

| Code | Actions |
|---|---|
| `PlaceOrder`, `CreateCustomTransaction`, `KioskPlaceOrder` | the action of the same name (`Debit`), `LockUser`, `ReadBalance`, `InsertBooking`, `CheckCreator`, `CommitBooking` |
| `RegisterDeposit` | `RegisterDeposit`, `InsertBooking`, `CheckCreator`, `CommitBooking` |
| `CancelTransaction` of member, kiosk, admin | `CancelTransaction`, `KioskCancelTransaction`, `AdminCancelTransaction` (`Cancel`), `MarkCancelled`, `InsertBooking`, `CheckCreator`, `CommitBooking` |
| `DeleteUser` | `DeleteUser`, `LockForDelete`, `CountReferences`, `CommitDelete` |
| `RunAnonymization` | `RunAnonymization`, `TakeAdvisoryLock`, `Scan`, `ClaimRow`*, `CreditOwner`*, `LogRun`, `CommitAnonymization` |
| middleware, toggles, `SaveSettings` | `CreateUser`, `ToggleActive`, `ToggleSpendingLimit`, `SaveSettings` (one statement each) |

Locks are not variables: which lock a request holds follows from how far it has come
(`HoldsUpdate`, `HoldsNoKeyUpdate`, `HoldsKeyShare`, `HoldsRow`, `HoldsAdvisory`), as
PostgreSQL keeps every lock until the end of the transaction. A few points where the
database matters:

- `DeleteUser` stores the bookings its sub-select sums (`seen`) when the statement
  *starts*; the locked row, once granted, is the *newest* version (READ COMMITTED
  re-reads the row it waited for, not the sub-select).
- `GetUserBalanceForUpdate` is two statements, so its sum is read *after* the lock.
- `Scan` fixes the due rows and their owners; `ClaimRow` and `CreditOwner` then lock
  bookings and accounts in any order, as the plan of the statement leaves it open.
- The `INSERT` checks `user_id`, then `created_by_user_id`; each waits for `FOR UPDATE`
  on that account, and fails when the account is gone.

Abstractions: a timestamp is a number of ticks and `NOW()` is the tick at which the
request began; `cancelled_at` and `anonymized_at` are whether they are set; who is an
admin or a kiosk does not change; texts, items and quantities are left out, an order
is its amount; all reads a handler makes before `BEGIN` are one step. A new id is the
least free one, which is only a matter of naming.

### How `Menu` corresponds to the code

Handlers here use no transaction: every statement commits by itself, so every action
that writes writes `rows` at once. A slot holds what the request has read so far.

| Code | Actions |
|---|---|
| `ReorderCategory`, `ReorderItem` up, down (`reorder…Swap`) | `ReorderCategory` / `ReorderItem` (the first SELECT), `FindNeighbor` or `StayAtEdge`, `PlaceTarget`, `PlaceOther` |
| the same to top, bottom (`reorder…Edge`) | `ReorderCategory` / `ReorderItem`, `FindEdge`, `PlaceTarget` |
| `CreateCategory`, `CreateItem` | the action of the same name (snapshot of `MAX(sort_order)` and foreign-key lock), `CommitInsert` |
| `DeleteCategory` | `DeleteCategory`, `CheckEmpty`, `RemoveCategory` or `RefuseDelete` |
| `SoftDeleteItem` | `SoftDeleteItem` (one statement) |

Categories and items are one table `rows` with one set of ids, as their code is the
same; a category is a row of the list `Root`, an item one of the list of its category.
Two things of PostgreSQL matter: an INSERT reads its snapshot before it commits, and it
keeps the category from being deleted in between (`InsertersInto`). A soft-deleted item
is shown nowhere, but its foreign key holds (`KeptBy`) and an UPDATE still hits it
(`Place`). `Int4` is the range of the column; MAX + 1 beyond it is an error.

The order of `MenuList` has no numbers. Between the two UPDATEs of a swap two rows have
one position; the mapping (`Heading`) lets the second row already be where it is going,
so that the first UPDATE is the exchange and the second a stutter.

### How `MenuBatch` corresponds to the code

| Code | Actions |
|---|---|
| `MenuBatchUpload` | `Upload` (and `cleanupMenuBatchSessions`), `ParseLine`*, `StoreSession` |
| `MenuBatchApply` | `TakeSession` (`LoadAndDelete`, expiry), then `GetItem`, `UpdateItem` for each change, `Commit` |
| `UpdateItem`, `SoftDeleteItem` of other admins | `EditItem`, `SoftDeleteItem` |
| the process | `Restart` loses all sessions and requests; `Abort` is a rollback |

`UpdateItem` is disabled while another transaction has updated the row (`Holders`);
`BreakDeadlock` is the detector of PostgreSQL, which fails one request of a circle. In
`Catalogue` a session stays on offer until its transaction ends, so that accepting is
one step: the commit.

### How `Accounts` corresponds to the code

A slot is a browser tab, with an owner: the proxy has signed one person in there. Every
request begins in the middleware and brings what the proxy says of the person anew
(`Headers`): a name or none, and whether the person is in the kiosk group, which for the
members of `Kiosks` may be either from one request to the next and which the profile
update stores. `Open` sends a page visit, the request for a question, or a POST that no
question of this tab precedes, from an old page or made by hand; `Confirm` is the button
of a question, at any later time. `Unasked` says which tabs send such POSTs.

| Code | Actions |
|---|---|
| `Middleware` | `LookUp` (part of `Open` and `Confirm`), then `CreateUser`, or `UpdateProfile` / `SkipProfile` (its error is only logged) with `Admit` |
| `RequireAdmin` | `RequireAdmin` (part of `Open`): an admin page asked for by somebody else is a visit to the middleware |
| `ConfirmToggleModal` | `ConfirmToggleModal`, after which the tab shows a question (`sees`) |
| `ToggleActive` | `ToggleActive` |
| `ToggleBarteamer`, `ToggleSpendingLimit` | `RejectKioskTarget` (the test of the POST itself), `ToggleFlag` |

A token gives a name or is missing (`Names`, `NoName`). The `INSERT … ON CONFLICT` of a first request
returns the row that somebody else has inserted, as it is. Who is an admin does not
change. Whatever else a request does
once it is inside belongs to other modules; it ends with `Leave`.

### How `Pages` corresponds to the code

Reads do not disturb each other, so there is one reader, whose request is `req` and
whose browser shows `screen`; the others book, cancel, anonymize and change the page
size between any two of its statements.

| Code | Actions |
|---|---|
| `TransactionHistory` (member) | `OpenList` / `NextPage` / `JumpTo`, `GetSettings`, `CountEntries`, `ListEntries`, `GetCarryover` |
| `AdminUserTransactionList` | the same with `GetTargetUser` first, which also brings the carryover |
| `AdminTransactionList`, `AdminUserList` | `GetSettings`, `CountEntries`, `ListEntries` |
| cancellation from a list | `CancelOnPage`, then the statements of the list that is sent back (its page is not clamped) |
| other requests | `BeginBooking`, `CommitBooking`, `RollbackBooking`, `AnonymizeTransactions`, `SetPageSize` |

A booking is its place in `ORDER BY created_at, id`. As `created_at` is the time its
transaction began, a booking may be committed below younger ones. Amounts are 1 and
-1. `walk` is an observer: what was there when the reader began at page 1, and what
has been seen since.

### How `Csrf` and `SettingsPage` correspond to the code

| Code | Actions |
|---|---|
| the browser | `OpenPage`, `Submit`, `AskReminders`, `ConfirmReminders` (each with `Send`), `Answered` (`Receive`), `Lost` (`Lose`) |
| `CSRF`, `getOrCreateToken` | `Middleware` (`Check`) |
| `AdminSettingsPage`, `SaveSettings` | the action of the same name |
| `SendRemindersModal` | `ModalSettings`, `ModalUsers` |
| `SendReminders` | `RoundUsers`, `RoundSettings`, `SendMail`*, `EndRound` |
| `main` | `Replace` (`Restart`), with a configured or a random secret |

A token is a number, its signature is the secret it was signed with. `doubt` is an
observer: whether at the moment a page was sent for some process would not have
accepted the cookie or a response with another cookie was on its way. A mail has three
outcomes: taken and reported, not taken and reported, taken but reported as failed
(the reply after the body, or to QUIT, is lost). Of the seventeen fields of the form the
two limits and the template are kept, and whether all fields are acceptable.

## 3. Runs

All bounds are constants in the configurations. `TxIds` bounds the number of bookings,
`Reqs` the number of requests at a time, `MaxTime` the clock, `MaxStall` how long a
transaction may take, `Ops` which handlers an instance has.

| Run | Instance | Checks |
|---|---|---|
| `requests` | every kind of request, 2 at a time, limits and accounts switched meanwhile, fair | `TypeOK`, `RequestsFinish`, refinement `ImplementsTab` |
| `anonymize` | 2 orders of different age and room for 2 bookings more, 2 requests, everything may overlap; the retention is longer or shorter than a cancellation may take | `LimitStillHolds`, `CancelledOnce`, `NoWaitCycle`, `IInv`, `PairsTogether`, `AuditComplete`, `NoMoneyLost`, refinement `ImplementsTab` |
| `delete` | 3 requests, two admins who may delete each other, a newcomer | `ReferencesLive`, `DeletedSettled` |
| `delete_anonymize` | a deletion and an anonymization run | `DeletedSettled` is violated: see findings |
| `menu_lists` | 3 categories (one yet to come), 1 item; one admin arranges, another deletes | `TypeOK`, `PositionsDistinct`, `ItemsHaveCategory`, `NoOpAtEdge`, refinement `ImplementsList` |
| `menu_two_admins` | two admins arrange the same categories | `NoOpAtEdge` is violated: see findings |
| `batch` | 2 items, 2 files that change them in opposite orders (one with a bad line), 2 requests, 2 tokens | `TypeOK`, refinement `ImplementsCatalogue`, `BatchesFinish` |
| `accounts` | an admin, and a newcomer with two tabs who is in the kiosk group at times; tokens with and without a name, POSTs with and without a question | `TypeOK`, `KioskFlagsKept`, `NamesKept`, refinement `ImplementsGate` |
| `toggle_twice` | two admins who deactivate one member | `ToggleAsConfirmed` is violated: see findings |
| `pages` | 5 bookings of 2 accounts, page sizes 1 and 2, all four lists | `TypeOK`, `NoGaps`, `AdminCountsOnce`, `QuietWalkExact`, `NothingLost` |
| `users_tied` | 3 accounts, two of them with the same balance | `EveryAccountListed` is violated: see findings |
| `settings_page` | 2 tabs of one browser, one that saves and one that reminds, 2 users around the limits, one process that is replaced once | `TypeOK`, `ToastCountsMails`, `AskedThenSent`, `UntouchedSaveIsHarmless`, `RefusedOnlyInDoubt` |

Why the bounds are enough: all conflicts in this code are between two requests over one
account or one booking; the third request of `delete` is there for what
happens to the loser of such a conflict while somebody else goes on. Three accounts
give every role its own. Where the number matters (lock cycles, the limit, double
cancellation, references), the theorems below hold for any number.

In the menu three rows of a list are the least where "next" and "first" differ, and the
range 0..3 of `Int4` is so small that moves to the top and to the end run out of it.
Two items in two orders are the least that can deadlock; a session is stale after the
only tick of the clock, so each use of it is tried before and after it expires. For
sign-on a newcomer's two tabs race with an admin who closes the account they create
or switches its price group, while they make it a kiosk and no kiosk again; three ids
leave room to delete it and register anew. `toggle_twice` has no POSTs without a question
(`Unasked` is empty), as it is about what questions say. In `pages` five bookings fill
three pages of two, with one page before and one after the page on the screen, and
leave room for a pair that the cutoff splits and two newcomers. Two tabs are the least
that fight over one cookie, and one replacement is enough for a token to outlive its
secret; that more tabs, processes and restarts bring nothing new is proved.

`CHECK_DEADLOCK FALSE` is set where all the bookings, rows or tokens the bounds allow
may be used up and nothing is left to do; `NoWaitCycle`, `RequestsFinish` and
`BatchesFinish` say what matters about waiting. The runs of `Accounts` check deadlock.

Fairness (`FairSpec`): strong fairness for the statements of each request. PostgreSQL
queues the waiters of a lock, so a statement that can run again and again is not passed
over for ever; weak fairness would be too little, as other requests may take the lock
between two chances. Nothing is assumed about users, admins or rollbacks. `MenuBatch`
assumes the same for its requests, and weak fairness of the deadlock detector, which
PostgreSQL runs whenever a wait exceeds `deadlock_timeout`. `Pages`, `Accounts` and
`SettingsPage` state no fairness. For the reminders none could be justified: only the
dialling has a timeout (`mail/mail.go:43`), so a mail server that says nothing holds a
round for ever.

## 4. Findings

- **A debtor can be deleted** (`delete_anonymize`). `delete_user.go:94` reads balance
  and lock in one statement. The sum is that of the statement's snapshot, the carryover
  that of the newest row. If an anonymization run commits while the statement waits,
  the anonymized amounts are in both. An account at -1 with one booking of +1 left
  shows 0, has no bookings any more, and is deleted, against `docs/anonymisierung.md:66`.
  The same handler is correct without anonymization (`DeleteCorrect`), and orders are
  not affected because they lock first and read in a second statement.
- **Arrows that do nothing** (`menu_two_admins`). `store/category.go:59` (and
  `item.go`) reads `MAX(sort_order) + 1` in a statement that other INSERTs do not wait
  for. Two admins create a category each, both rows get one position behind all others.
  The arrow that moves the first of the two down looks for a row with a greater position
  (line 132), finds none although the second is shown after it, and stops as "already at
  edge" (line 137). Overlapping swaps, and a swap that stops between its two
  UPDATEs, leave the same tie. Moving one of the rows to the top or to the end gets rid of it.
- **A deactivation that activates** (`toggle_twice`). The modal asks whether to
  deactivate (`handler/admin/users.go:248`), its button flips the flag (line 132). After
  two admins have both confirmed, the member is active, against `docs/use-cases.md:71`.
- **Accounts that no page shows** (`users_tied`). `store/user.go:194` sorts by balance
  and nothing else. Each page is a query of its own, which may order equal balances
  its own way, so an account may be on two pages and another one on none. The lists of
  bookings sort by `created_at, id` and do not have this.

More places where text and code differ, plain to see without a run of their own:

- A request without a token writes back the names it read (`auth/middleware.go:110`).
  With two tabs of one person, the empty name read before the other tab's UPDATE wipes
  it out, which lines 107-108 mean to prevent; `NamesKept` says where it cannot happen.
- "Diese Aktion ist für Kiosk-Benutzer nicht verfügbar" (`handler/admin/users.go:44`) is
  tested in a statement before the UPDATE (line 192). If the account signs on as a kiosk
  in between (`auth/middleware.go:117`), its flag is switched all the same, once for each
  toggle that had passed the test; `KioskFlagsKept` says that no more than this happens.
- A comment (`store/transaction.go:175`) promises a `cancelled_at` for counter bookings,
  which line 210 does not set.
- A category all of whose items are soft-deleted shows none and passes the check, but
  its DELETE fails (`docs/use-cases.md:53` calls such a category empty).
- The good lines of a CSV file with bad ones are applied (`docs/use-cases.md:65` says
  nothing is).
- `handler/member/transactions.go:332` and `handler/admin/transactions.go:343` say
  "Re-render the transaction list for the current page", but the member's modal
  (`cancel_modal.html:28`) and the list of all accounts post no page, so page 1 comes
  back.
- A page number beyond the end is clamped after the rows were fetched
  (`handler/member/history.go:70`): the last page's number stands over an empty list.
- `docs/use-cases.md:96` sends reminders "an alle aktiven Benutzer", the handler to
  those below a limit; and it reminds below (`<`) while orders stop at or below (`<=`).
- `handler/admin/settings.go:143` calls the limits negative cents; the hard limit is
  stored positive.
- A cancellation that stalls for longer than the retention may see its booking
  anonymized first and fails; it may also leave the halves of a pair on both sides of
  the cutoff. `PairsTogether` excludes such settings, the other properties of the run
  `anonymize` hold for them as well.
- A process that is replaced in the middle of a round leaves no trace of who was mailed.

## 5. What is proved

### The ledger

For every set of accounts, bookings, requests and settings that satisfies
`ConstantsOK` (sets of ids are finite, amounts are integers, NULL is no id) and
`ConsistentStart` (the tables at the start have paired stornos and no dangling owner):

| Theorem | States |
|---|---|
| `Inductive` | `Spec => []IInv` |
| `TypeCorrect`, `LimitCorrect`, `CancelCorrect`, `ReferencesCorrect` | `TypeOK`, `LimitStillHolds`, `CancelledOnce`, `ReferencesLive` |
| `NoDeadlock` | `NoWaitCycle`, for any number of requests |
| `DeleteCorrect` | `DeletedSettled`, if `"anonymize" \notin Ops` |
| `DeletedUnlessForgotten` | what deletion guarantees with anonymization runs under way |
| `PairsCorrect` | `PairsTogether`; if the settings may change, for patient choices of them |
| `AuditCorrect` | `AuditComplete` |
| `MoneyCorrect` | `NoMoneyLost`, if not both `"anonymize"` and `"delete"` are in `Ops` |
| `TabCorrect` | `ImplementsTab`: every step is a step of `Tab` or a stutter; the same condition |

None of the invariants is inductive alone: that the checked balance still holds needs
that nobody commits a booking for a locked account, which needs that locks exclude each
other (`LocksExclude`), that a request which holds an account knows it exists
(`LockedLive`), and that what a run has found due stays as found (`DueOK`). `IInv` is
the conjunction of these. For a step that writes no table, `LocalStep` reduces the
proof to the request that moves; the three kinds of commit have lemmas of their own for
the others. `NoDeadlock` gives each request a rank by the locks it holds (none,
advisory, key share, `FOR UPDATE` for somebody else, `FOR UPDATE` for itself) and shows
that it waits only for higher ranks: the request of highest rank in a set can go on.
This needs that a kiosk never orders for a kiosk (`handler/kiosk/order.go:130`).

`PairsCorrect` is about ages. The statement of a run sees only what was committed when it
began, so a storno that commits after that would keep its owner. But a cancellation
begins within the window of its booking, a run forgets only what is older than the
retention, and neither lives longer than `MaxStall`: if window and stall together are at
most the retention, no run finds due what a cancellation is busy with, whichever of the
two began first (`NoRace`). What is committed before the statement is seen as a pair,
because `dueCondition` asks for the age of the partner too (`ScanOK`). Requests under way
keep the settings they have read; with `SaveSettings` enabled the theorem therefore asks
this of every window and every retention that may be saved (`Patient`), and without it of
the settings in force, as `PairsTogether` does. The tables at the start must have no
separated pair.

`DeleteCorrect` needs that the bookings a deletion has summed stay the account's, which
only a run can change. `DeletedUnlessForgotten` says what is left when runs change it: the
account is inactive and no booking names it, as the row lock and the count of references
see to it, and its carryover offsets the bookings of the snapshot exactly (`SeenOK`), all
of which have lost their owner since. So the flaw of the finding `DeletedSettled` costs
exactly what a run has moved between the start of the locking statement and the lock, and
nothing if no run came in between.

`MoneyProofs` is about sums. `Total` and `SumOf` are folds of the community modules, each
a `CHOOSE` among the functions that satisfy a recursion over subsets. Induction theorems
take an operator and cannot be cited here, so the module proves what it needs from
well-foundedness: a set of subsets of a finite set that is not empty has a smallest
member (`SmallestSet`), and the smallest counterexample gives the contradiction. In this
way come that such a function exists and is unique (`AddsExists`, `AddsAgree`), that any
element may be taken first (`FoldRemove`), that sums over disjoint sets and sums of two
functions add (`FoldUnion`, `FoldPlus`), and that bookings may be summed owner by owner
(`Grouped`).

`AuditCorrect` then needs that what a run has found due is what it commits: its rows are
locked, still have their owners, and are all rows it counted (`RunHolds`, `RunForgets`).
For `MoneyCorrect` the balances together are the carryovers and the bookings that have an
owner (`BalancesTogether`), so it is enough that the carryovers come to what has been
anonymized (`MoneyInv`): a run adds to each carryover exactly what it takes from the
account's bookings (`RunCarries`), everybody else writes no carryover, and an account
that is deleted takes none along (`DeletedEmpty`), which without anonymization is
`DeleteCorrect`. With both in one history it does not hold: `delete_anonymize` deletes
a debtor. `TabCorrect` maps `CommitBooking` of an order to a charge above the floor (the balance
that was compared is still the balance, `LimitStillHolds`), that of a cancellation to a
reversal, deletion to closing, and a run to forgetting. The settings and the exemption an
order compares with are those it read before its transaction (`order.go:103-110`, the
account in the middleware), and an admin may have changed them by the time it commits.
`Tab` says what is promised then: a charge is asked for (`Ask`, the start of an order) at
the floor of that moment, and made (`Charge`, its commit) or withdrawn (its rollback)
later, against the tab of that later moment. Saving settings moves the floor (`SetFloor`)
and toggling the limit of an account spares it (`Spare`), for those who ask afterwards.

### The menu

For every set of categories, items and requests that satisfies `MenuConstants` (ids are
numbers, `Int4` is an interval that contains 0) and `ConsistentMenu` (the tables at the
start have distinct positions and no dangling item):

| Theorem | States |
|---|---|
| `TypeCorrect` | `TypeOK` |
| `ItemsKeepCategory` | `ItemsHaveCategory`, for any number of admins |
| `PositionsStayDistinct`, `NothingToDoAtEdge` | `PositionsDistinct` and `NoOpAtEdge`, if `OneAtATime` |
| `ListImplemented` | `ImplementsList`, if `OneAtATime`: every step is a step of `MenuList` or a stutter |

`ItemsKeepCategory` does not rest on the check of the handler, which says nothing any
more when the DELETE comes, but on the locks: `CatInv` adds that the category of an
INSERT under way is live (`InsertIntoLive`), which holds because the DELETE waits for
such INSERTs and the foreign key then sees their rows.

`OneAtATime` says that one request at a time creates and reorders and finishes its
swaps; `menu_two_admins`, which drops both halves, shows what happens otherwise. Any number of
others may delete meanwhile, and that is what makes them hard: the row to move, or the
neighbor, may go between any two statements. `ArrInv` says what the arranging request
may still rely on at each of them: nobody is shown at the position it is about to
write, except the two rows of a swap, which tie exactly between its two UPDATEs.

`ListImplemented` needs to know more than that positions are vacant. `ListsInv` adds that
no row is shown between the two of a swap (`SwapOK`), none before the position read for
the top or behind that for the bottom (`BeyondOK`), and that a new row is shown nowhere
and comes behind all others (`NewOK`); rows that are deleted meanwhile only make this
easier. A swap then exchanges two neighbors when its first UPDATE commits
(`FirstUpdate`), unless one of the two has been deleted; then the other one passes
nobody and nothing happens to the order (`PastNoOther`). The second UPDATE is a stutter
because `Heading` had it in place already.

### The batch edit

For every set of items, contents, files, sessions and requests that satisfies
`BatchConstants` (a file names known items and contents, and the marks for what is
missing are no such values):

| Theorem | States |
|---|---|
| `BatchTypeCorrect` | `TypeOK` |
| `CatalogueImplemented` | `ImplementsCatalogue`: every step is a step of `Catalogue` or a stutter |

`BatchInv` follows an application through its changes: what is left is the rest of the
session (`RestOK`), what it has written is what the last of the changes so far says
(`WroteOK`), no two applications hold one session (`TakenOnce`), and nobody deletes an
item a transaction has updated (`WrittenLive`). The last one is why `Commit` may write
without a further look: `GetItem` reads without a lock and another admin may delete the
row before the `UPDATE`, whose `WHERE deleted_at IS NULL` then matches nothing and ends
the application; after the `UPDATE` its row lock keeps the deletion out. `Commit` maps to
`Accept`; the `UPDATE`s before it are stutters, and what ends without a commit (a
deadlock, a deleted item, a restart, an expired session) maps to `Close`.

### Accounts

For every set of persons, tabs, ids and flags that satisfies `AccountsConstants` and
`ConsistentUsers` (at the start no email has two rows):

| Theorem | States |
|---|---|
| `AccountsTypeCorrect`, `KiosksCorrect`, `NamesCorrect` | `TypeOK`, `KioskFlagsKept`, `NamesKept` |
| `GateImplemented` | `ImplementsGate`: every step is a step of `Gate` or a stutter |

`AccInv` says what a request may rely on between its statements. The row it has found
keeps its person, even when it is deleted (`OwnRow`). Only admins' requests are about an
account, and if it is their own, the request has found that very row (`TargetRow`),
which needs that no email has two live rows (`OneRow`): this is why
comparing ids keeps admins from switching their own account, as `Gate` demands. A step
of `Accounts` maps to `Enter` when a first statement finds an active row, and the
profile update is a stutter.

`KiosksCorrect` is about the toggles of an account that have passed the test and not yet
come to their UPDATE (`Toggling`). While the row is stored as a kiosk none joins them
(`KioskStep`): the POST's own test reads the row, and it does not matter whether its
question was refused, was shown before the account became a kiosk, or was never asked
for. One that is among them leaves with its UPDATE and flips one flag (`FlipOK`: never
`is_active`); a profile update or anything else leaves price group and limit alone. A
theorem that promised that a kiosk's flags are never switched would be false, for the
sign-on of the account may come between test and UPDATE.

### CSRF, the settings page and reminders

For every set of tabs, processes, users, limits and balances that satisfies
`CsrfConstants` and `SettingsPageConstants`:

| Theorem | States |
|---|---|
| `SettingsTypeCorrect` | `TypeOK` |
| `ToastCorrect`, `AskedCorrect` | `ToastCountsMails`, `AskedThenSent` |
| `UntouchedCorrect` | `UntouchedSaveIsHarmless` |
| `RefusalCorrect` | `RefusedOnlyInDoubt` |

`PageInv` is `TypeOK`, `CsrfInv` and, for each tab, `ModalOK`, `AskOK`, `RoundOK` and
`CountsOK`. `AskOK` and `RoundOK` follow a question through modal, button and round: as
long as `Changed` has not been noted, the number is that of the accounts below the
limit at every step, whichever of the two is read first. `CsrfInv` says that whatever
was loaded without doubt carries the token of the cookie, and that the browser is then
`Calm`: all processes accept the cookie and no response or request in flight can bring
another one. A configured secret keeps this through restarts; a random one puts
everything in doubt. `UntouchedCorrect` needs that `ParseEuroToCents` undoes
`CentsToEuros` for every integer.

### Lists and pagination

For every finite set of accounts, every number of bookings, all page sizes and any
bookings at the start (`PagesConstants`):

| Theorem | States |
|---|---|
| `PagesInductive` | `Spec => []IInv` |
| `PagesTypeCorrect`, `NoGapsHolds`, `AdminCountsOnceHolds` | `TypeOK`, `NoGaps`, `AdminCountsOnce` |
| `QuietWalks`, `NothingLostHolds` | `QuietWalkExact`, `NothingLost` |

`RequestOK`, `ScreenOK`, `CarriedOK` and `WalkOK` say what request, screen and walk have
to do with each other and with the rows. The three parts that carry the properties are
about ranks, the place of a booking in the list as it is now:

- `GapsOK`: what the walk could miss without an excuse (`Behind`) is older than all it has
  seen, and its rank is beyond the pages left behind (`Passed * limit`). A new booking
  raises ranks and a cancellation does too, so pages yet to come still hold it; an
  anonymization lowers ranks only of what is older than its cutoff, or in the list of all
  accounts none. Turning the page shows the next `limit` ranks and leaves the rest
  beyond them.
- `CountOK`: between COUNT and SELECT a list grows only by what is committed in between
  (`late`). With `GapsOK`, what the last page leaves out is at most that much: fewer
  entries lie beyond the first `m` than the list has more than `m` (`FewBelow`).
- `QuietOK`: while nobody writes, what has been seen is exactly what has rank at most
  `Passed * limit`. For the accounts the place is the number of accounts that are not
  richer (`PoorestPlace`): with distinct balances a numbering of the accounts along
  their balances is that number and no other, since both are injections into `1..n`
  that keep the order.

Cardinalities that change and arguments of this kind would be inductions; as in
`MoneyProofs` they are smallest counterexamples or follow from the theorems about finite
sets. `EveryAccountListed` has no theorem, as it does not hold. The run `pages` checks
the properties and leaves out `IInv`, which takes TLC longer than all of them together;
on its instance TLC finds no violation of it either.

### What is only model-checked

`RequestsFinish` and `BatchesFinish`: liveness under fairness is out of the prover's
reach. Every other property of a passing run has a theorem. The theorems do not always
go as far as one might wish, and the conditions above say where: `MoneyCorrect`,
`TabCorrect` and `DeleteCorrect` where runs and deletions do not meet (they fail
otherwise, see findings, `DeletedSettled`), the positions of the menu for one who
arranges (likewise).

## 6. Plan

Done: the ledger, the menu, the batch edit, accounts and sign-on, the lists, the
settings page with reminders and CSRF protection; the proofs of section 5. Left, in
this order:

1. Membership in the admin group that changes from request to request in `Accounts`.
2. The amounts that deposits and custom bookings parse, and those the templates show,
   against reference definitions.

## 7. Not modelled

Statistics and CSV export (single reads without control of their own), the router,
configuration, start-up and shutdown (straight lines; that a process is replaced is
modelled where something depends on it), templates and rendering except for the amounts
of the settings form, parsing of amounts elsewhere, the dialogue with the SMTP server
(one step with three outcomes), logging and recovery, static files.
