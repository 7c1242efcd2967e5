------------------------------ MODULE Accounts ------------------------------
(***************************************************************************)
(* Accounts and sign-on.  Every request is signed in by the proxy, which   *)
(* names an email, the groups and, mostly, a token with the person's name; *)
(* the middleware finds or creates the row of table users, refreshes it    *)
(* and lets the request in if the account is active.  Inside, an admin     *)
(* switches a flag of an account: one request shows a question, a second   *)
(* one, sent by its button, from an old page or by hand, flips the flag.   *)
(* Every statement commits by itself.                                      *)
(***************************************************************************)
EXTENDS Naturals

CONSTANTS
  Emails,
  Admins,          \* the members of the admin group
  Kiosks,          \* who is in the kiosk group, at times
  Names,           \* Names[e]: the names the tokens of a person give
  NoName,          \* no token
  Ids,             \* ids of rows: bounds the number of registrations
  NoId,
  Reqs,            \* browser tabs, each with one request at a time
  Owner,           \* whom the proxy has signed in at each tab
  Unasked,         \* the tabs that also send a POST no question precedes
  Flags,           \* the flags an instance switches
  InitUsers        \* table users at the start

VARIABLES
  users,  \* table users, by id
  req     \* the request of each tab, or the question it shows

vars == <<users, req>>

AllFlags == {"active", "barteamer", "unlimited"}

Name == {NoName} \cup UNION {Names[e] : e \in Emails}

\* "none": not created yet; "gone": deleted.
UserRow == [st : {"none", "live", "gone"}, email : Emails, flags : SUBSET AllFlags,
            kiosk : BOOLEAN, name : Name]

\* id: the row found by the middleware; name, kiosk: what it will store there;
\* target, flag: what the request is about; post: whether it flips; sees: what
\* the question said.
Request == [pc : {"idle", "create", "profile", "inside", "asked", "flip"},
            id : Ids \cup {NoId}, active : BOOLEAN, name : Name, kiosk : BOOLEAN,
            target : Ids \cup {NoId}, flag : AllFlags, post : BOOLEAN, sees : BOOLEAN]

Idle == [pc |-> "idle", id |-> NoId, active |-> FALSE, name |-> NoName, kiosk |-> FALSE,
         target |-> NoId, flag |-> "active", post |-> FALSE, sees |-> FALSE]

ASSUME AccountsConstants ==
  /\ Admins \subseteq Emails /\ Kiosks \subseteq Emails
  /\ Ids \subseteq Nat /\ NoId \notin Ids \cup Emails /\ \A e \in Emails : NoName \notin Names[e]
  /\ Flags \subseteq AllFlags /\ Owner \in [Reqs -> Emails] /\ Unasked \subseteq Reqs
  /\ InitUsers \in [Ids -> UserRow]

Live(x) == x \in Ids /\ users[x].st = "live"

\* users.email is UNIQUE.
RowsOf(e) == {x \in Ids : users[x].st = "live" /\ users[x].email = e}

\* The next number of the sequence.
NewId(x) == users[x].st = "none" /\ \A y \in Ids : users[y].st = "none" => x <= y

ASSUME ConsistentUsers ==
  \A x, y \in Ids : InitUsers[x].st = "live" /\ InitUsers[y].st = "live"
                    /\ InitUsers[x].email = InitUsers[y].email => x = y

Set(r, q) == req' = [req EXCEPT ![r] = q]
Finish(r) == Set(r, Idle)

\* NOT flag.
Flipped(row, f) ==
  [row EXCEPT !.flags = IF f \in @ THEN @ \ {f} ELSE @ \cup {f}]

-----------------------------------------------------------------------------
(* The middleware. *)

\* What the proxy says of the person: every request brings it anew, and the
\* groups of two sessions may differ.
Headers(r) == [name : Names[Owner[r]] \cup {NoName}, kiosk : {k \in BOOLEAN : k => Owner[r] \in Kiosks}]

\* Faulty: without a token there is no name.
LookUpBlank(r, q, h) ==
  LET found == RowsOf(Owner[r])
      p == [q EXCEPT !.name = h.name, !.kiosk = h.kiosk] IN
  Set(r, IF found = {}
           THEN [p EXCEPT !.pc = "create", !.id = NoId, !.active = TRUE]
           ELSE LET x == CHOOSE y \in found : TRUE IN
                [p EXCEPT !.pc = "profile", !.id = x, !.active = "active" \in users[x].flags])

\* GetUserByEmail reads the row.  Without a token the name is the one just read.
LookUp(r, q, h) ==
  LET found == RowsOf(Owner[r])
      p == [q EXCEPT !.name = h.name, !.kiosk = h.kiosk] IN
  Set(r, IF found = {}
           THEN [p EXCEPT !.pc = "create", !.id = NoId, !.active = TRUE]
           ELSE LET x == CHOOSE y \in found : TRUE IN
                [p EXCEPT !.pc = "profile", !.id = x, !.active = "active" \in users[x].flags,
                          !.name = IF @ = NoName THEN users[x].name ELSE @])

\* Nothing but the row, and what is asked for, matters inside.
LetIn(r, x) ==
  Set(r, [req[r] EXCEPT !.pc = "inside", !.id = x, !.name = NoName, !.kiosk = FALSE])

\* A new account, active, for an email that has none.
Enrol(r, x) ==
  /\ NewId(x)
  /\ users' = [users EXCEPT ![x] =
       [st |-> "live", email |-> Owner[r], flags |-> {"active"},
        kiosk |-> req[r].kiosk, name |-> req[r].name]]
  /\ LetIn(r, x)

\* Faulty: goes on with what it wanted to insert.
CreateUserTrusting(r, x) ==
  /\ req[r].pc = "create"
  /\ IF RowsOf(Owner[r]) = {}
       THEN Enrol(r, x)
       ELSE /\ x \in RowsOf(Owner[r])
            /\ LetIn(r, x)
            /\ UNCHANGED users

\* Faulty: ON CONFLICT DO NOTHING returns no row.
CreateUserNoRow(r, x) ==
  /\ req[r].pc = "create"
  /\ IF RowsOf(Owner[r]) = {}
       THEN Enrol(r, x)
       ELSE /\ x \in RowsOf(Owner[r])
            /\ LetIn(r, NoId)
            /\ UNCHANGED users

\* INSERT ... ON CONFLICT returns the row another request has created meanwhile,
\* as it is, and the middleware looks at that row's is_active.
CreateUser(r, x) ==
  /\ req[r].pc = "create"
  /\ IF RowsOf(Owner[r]) = {}
       THEN Enrol(r, x)
       ELSE /\ x \in RowsOf(Owner[r])
            /\ IF "active" \in users[x].flags THEN LetIn(r, x) ELSE Finish(r)
            /\ UNCHANGED users

\* Whether the account is active is what the first statement has read.
Admit(r) == IF req[r].active THEN LetIn(r, req[r].id) ELSE Finish(r)

\* UPDATE users WHERE id: hits nothing when the row has been deleted.
UpdateProfile(r) ==
  /\ req[r].pc = "profile"
  /\ users' = IF Live(req[r].id)
                THEN [users EXCEPT ![req[r].id] =
                       [@ EXCEPT !.name = req[r].name, !.kiosk = req[r].kiosk]]
                ELSE users
  /\ Admit(r)

\* A failing UPDATE is logged, the request goes on.
SkipProfile(r) ==
  /\ req[r].pc = "profile"
  /\ Admit(r)
  /\ UNCHANGED users

-----------------------------------------------------------------------------
(* Switching the flags of an account. *)

\* RequireAdmin looks at the request alone, before any handler: an admin page
\* that somebody else asks for is nothing but a visit to the middleware.
RequireAdmin(r, x, f, post) ==
  IF x # NoId /\ Owner[r] \in Admins
    THEN [Idle EXCEPT !.target = x, !.flag = f, !.post = post]
    ELSE Idle

\* A request that only looks (x = NoId), the one for the question, or a POST
\* that no question precedes: from an old page, or made by hand.
Open(r, h, x, f, post) ==
  /\ req[r].pc = "idle"
  /\ IF x = NoId THEN f = "active" /\ ~post ELSE f \in Flags /\ users[x].st # "none"
  /\ post => r \in Unasked
  /\ LookUp(r, RequireAdmin(r, x, f, post), h)
  /\ UNCHANGED users

\* The button of the question.
Confirm(r, h) ==
  /\ req[r].pc = "asked"
  /\ LookUp(r, [req[r] EXCEPT !.post = TRUE], h)
  /\ UNCHANGED users

Handles(r, post) == req[r].pc = "inside" /\ req[r].post = post /\ req[r].target # NoId

\* Not to be had for a kiosk, as its row has it by now.
KioskTarget(r) == req[r].flag # "active" /\ users[req[r].target].kiosk

\* The question for one's own account has no button.
ConfirmToggleModal(r) ==
  /\ Handles(r, FALSE)
  /\ LET x == req[r].target IN
     IF ~Live(x) \/ KioskTarget(r) \/ (req[r].flag = "active" /\ x = req[r].id)
       THEN Finish(r)
       ELSE Set(r, [Idle EXCEPT !.pc = "asked", !.target = x, !.flag = req[r].flag,
                                !.sees = req[r].flag \in users[x].flags])
  /\ UNCHANGED users

\* UPDATE ... SET flag = NOT flag WHERE id.
Flip(r) ==
  LET x == req[r].target IN
  users' = IF Live(x) THEN [users EXCEPT ![x] = Flipped(@, req[r].flag)] ELSE users

ToggleActive(r) ==
  /\ Handles(r, TRUE) /\ req[r].flag = "active"
  /\ IF req[r].target = req[r].id THEN UNCHANGED users ELSE Flip(r)
  /\ Finish(r)

\* Faulty: trusts in the question, which has refused kiosks.
RejectMissing(r) ==
  /\ Handles(r, TRUE) /\ req[r].flag # "active"
  /\ IF Live(req[r].target) THEN Set(r, [req[r] EXCEPT !.pc = "flip"]) ELSE Finish(r)
  /\ UNCHANGED users

\* The test of the POST itself; the UPDATE does not repeat it.
RejectKioskTarget(r) ==
  /\ Handles(r, TRUE) /\ req[r].flag # "active"
  /\ IF Live(req[r].target) /\ ~KioskTarget(r)
       THEN Set(r, [req[r] EXCEPT !.pc = "flip"])
       ELSE Finish(r)
  /\ UNCHANGED users

\* ToggleBarteamer and ToggleSpendingLimit.
ToggleFlag(r) ==
  /\ req[r].pc = "flip"
  /\ Flip(r)
  /\ Finish(r)

\* Everything else a request may do inside is no concern of this module; the
\* client may go away at any time, and a question is closed without an answer.
Leave(r) ==
  /\ req[r].pc # "idle"
  /\ Finish(r)
  /\ UNCHANGED users

\* Another admin deletes an inactive account (module Ledger).
DeleteUser(x) ==
  /\ Live(x) /\ "active" \notin users[x].flags
  /\ users' = [users EXCEPT ![x] = [@ EXCEPT !.st = "gone", !.flags = {}, !.kiosk = FALSE]]
  /\ UNCHANGED req

-----------------------------------------------------------------------------
(* The specification. *)

Init == users = InitUsers /\ req = [r \in Reqs |-> Idle]

Next ==
  \/ \E r \in Reqs :
       \/ \E h \in Headers(r), x \in Ids \cup {NoId}, f \in AllFlags, post \in BOOLEAN :
            Open(r, h, x, f, post)
       \/ \E h \in Headers(r) : Confirm(r, h)
       \/ \E x \in Ids : CreateUser(r, x)
       \/ UpdateProfile(r) \/ SkipProfile(r)
       \/ ConfirmToggleModal(r) \/ ToggleActive(r) \/ RejectKioskTarget(r) \/ ToggleFlag(r)
       \/ Leave(r)
  \/ \E x \in Ids : DeleteUser(x)

Spec == Init /\ [][Next]_vars

-----------------------------------------------------------------------------
(* Properties. *)

\* Every variable keeps its type; whoever is inside has a row.
TypeOK ==
  /\ users \in [Ids -> UserRow]
  /\ req \in [Reqs -> Request]
  /\ \A r \in Reqs : req[r].pc \in {"inside", "flip"} => req[r].id \in Ids

\* The toggles of a price group or limit that have passed the test.
Toggling(x) == {r \in Reqs : req[r].pc = "flip" /\ req[r].target = x}

\* "Diese Aktion ist für Kiosk-Benutzer nicht verfügbar" (users.go:44): as long
\* as an account is stored as a kiosk no toggle of its price group or limit is
\* admitted, with or without a question before it, and those that had passed the
\* test when its own sign-on made it a kiosk flip one flag each, once.
KioskFlagsKept ==
  [][\A x \in Ids : users[x].st = "live" /\ users[x].kiosk
                     /\ users'[x].st = "live" /\ users'[x].kiosk
       => /\ Toggling(x)' \subseteq Toggling(x)
          /\ \/ users'[x].flags \ {"active"} = users[x].flags \ {"active"}
             \/ \E r \in Toggling(x) :
                  /\ Toggling(x)' = Toggling(x) \ {r}
                  /\ users'[x] = Flipped(users[x], req[r].flag)]_vars

\* "don't let that wipe out previously stored names" (middleware.go:107): of
\* the requests of one tab none wipes out what another has stored, nor does an
\* admin who switches the account's flags.  With two tabs it happens: a request
\* without a token writes back the empty name it has read before the other's
\* UPDATE.
NamesKept ==
  [][\A x \in Ids : Live(x) /\ users[x].name # NoName /\ users'[x].name = NoName
       => \E r, s \in Reqs : r # s /\ Owner[r] = users[x].email /\ Owner[s] = users[x].email]_vars

\* "Der Benutzer wird deaktiviert" (docs/use-cases.md:71): a button that asks to
\* deactivate an account never activates it.
ToggleAsConfirmed ==
  [][\A r \in Reqs : ToggleActive(r) /\ req[r].sees /\ Live(req[r].target)
       => "active" \notin users'[req[r].target].flags]_vars
=============================================================================
