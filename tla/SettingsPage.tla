---------------------------- MODULE SettingsPage ----------------------------
(* The settings page of the admins behind the CSRF middleware: the form    *)
(* with the settings, and the reminders by mail to everyone below a limit. *)
(* Each handler is several statements and mails without a transaction;     *)
(* other admins save, members book and pay, and processes are replaced in  *)
(* between.  The columns of no consequence here are one flag of the form.  *)
EXTENDS Csrf

CONSTANTS Users,
          Accounts,      \* bound: the accounts there may be: balance and is_active
          InitSettings,  \* the settings row at the start
          Edits,         \* bound: the forms an admin types in
          May            \* bound: May[t], the kinds of requests of tab t; a tab that
                         \* does not save forgets the form it shows

Types == {"warning", "hard"}
Templates == {"fine", "unparsable"}
Settings == [warning : Int, hard : Int, template : Templates]

\* What the form holds: each amount as text.
Amount == [minus : BOOLEAN, euros : Nat, cents : 0..99]
Text == [warning : Amount, hard : Amount, template : Templates, valid : BOOLEAN]

ASSUME SettingsPageConstants ==
  /\ IsFiniteSet(Users)
  /\ Kinds = {"load", "modal", "save", "remind"} /\ Mutating = {"save", "remind"}
  /\ Accounts \subseteq [balance : Int, active : BOOLEAN]
  /\ InitSettings \in Settings /\ Edits \subseteq Text
  /\ May \in [Tabs -> SUBSET Kinds]

VARIABLES
  settings, \* warning_limit, hard_spending_limit and email_template
  account,  \* account[u]: the balance, and is_active
  form,     \* form[t]: the row the form in tab t was made from
  modal,    \* modal[t]: the question about reminders in tab t
  work      \* work[t]: the request of tab t, what its handler has read and
            \* done, and what it answers

vars == <<csrfVars, settings, account, form, modal, work>>

\* The number of users in a modal, 0 if it has no button; Changed, as seen by
\* an observer, if accounts or settings have changed since.
Changed == -1
NoModal == [type |-> "warning", count |-> 0]

\* Two observers: got, the mails the server took from this request, and fresh,
\* nothing has changed since the modal's first read.
Zero == [minus |-> FALSE, euros |-> 0, cents |-> 0]
NoText == [warning |-> Zero, hard |-> Zero, template |-> "fine", valid |-> FALSE]
NoWork == [text |-> NoText, type |-> "warning", row |-> InitSettings,
           count |-> 0, list |-> {}, todo |-> {}, ok |-> 0, failed |-> 0,
           error |-> FALSE, fresh |-> FALSE, got |-> 0]

Init ==
  /\ CsrfInit
  /\ settings = InitSettings
  /\ account \in [Users -> Accounts]
  /\ form = [t \in Tabs |-> InitSettings]
  /\ modal = [t \in Tabs |-> NoModal]
  /\ work = [t \in Tabs |-> NoWork]

-----------------------------------------------------------------------------
(* Amounts as text: a sign, euros and cents.                               *)

Abs(n) == IF n < 0 THEN -n ELSE n

\* FAULTY: the sign is the sign of the euros, as formatEuroCents has it.
CentsToEurosBySign(c) ==
  [minus |-> c <= -100, euros |-> Abs(c) \div 100, cents |-> Abs(c) % 100]

CentsToEuros(c) == [minus |-> c < 0, euros |-> Abs(c) \div 100, cents |-> Abs(c) % 100]

ParseEuroToCents(text) ==
  LET magnitude == text.euros * 100 + text.cents
  IN  IF text.minus THEN -magnitude ELSE magnitude

\* The form filled from a row, and the row a form is read as.
FormOf(row) == [warning |-> CentsToEuros(row.warning), hard |-> CentsToEuros(row.hard),
                template |-> row.template, valid |-> TRUE]

RowOf(text) == [warning |-> ParseEuroToCents(text.warning),
                hard |-> ParseEuroToCents(text.hard), template |-> text.template]

-----------------------------------------------------------------------------
(* The browser.                                                            *)

Request(t, kind, w) ==
  /\ kind \in May[t]
  /\ Send(t, kind)
  /\ work' = [work EXCEPT ![t] = w]
  /\ UNCHANGED <<settings, account, form, modal>>

OpenPage(t) == Request(t, "load", NoWork)

\* hx-post of the form, as it was filled or as the admin typed it.
Submit(t) ==
  \E text \in {FormOf(form[t])} \cup Edits :
     Request(t, "save", [NoWork EXCEPT !.text = text])

AskReminders(t) ==
  \E type \in Types : Request(t, "modal", [NoWork EXCEPT !.type = type])

\* The modal has a button when someone was counted.
ConfirmReminders(t) ==
  /\ modal[t].count # 0
  /\ Request(t, "remind", [NoWork EXCEPT !.type = modal[t].type, !.count = modal[t].count])

\* A page replaces what the tab showed; the modal closes after a success.
Answered(t) ==
  LET shown(kind) == wire[t].pc = "answered" /\ wire[t].kind = kind /\ ~work[t].error
      asked == IF work[t].count = 0 THEN NoModal
               ELSE [type |-> work[t].type, count |-> work[t].count]
  IN  /\ Receive(t)
      /\ form' = IF shown("load") /\ "save" \in May[t] THEN [form EXCEPT ![t] = work[t].row] ELSE form
      /\ modal' = IF shown("modal") THEN [modal EXCEPT ![t] = asked]
                  ELSE IF shown("load") \/ shown("remind") THEN [modal EXCEPT ![t] = NoModal]
                  ELSE modal
      /\ work' = [work EXCEPT ![t] = NoWork]
      /\ UNCHANGED <<settings, account>>

Lost(t) ==
  /\ Lose(t)
  /\ work' = [work EXCEPT ![t] = NoWork]
  /\ UNCHANGED <<settings, account, form, modal>>

-----------------------------------------------------------------------------
(* The handlers.                                                           *)

\* A step of the handler of tab t: from one place to the next, with w.
Step(t, kind, from, to, w) ==
  /\ wire[t].pc = from /\ wire[t].kind = kind
  /\ wire' = [wire EXCEPT ![t].pc = to]
  /\ work' = [work EXCEPT ![t] = w]
  /\ UNCHANGED <<configured, secret, secrets, tokens, cookie, page, account, form>>

AdminSettingsPage(t) ==
  /\ Step(t, "load", "handler", "answered", [work[t] EXCEPT !.row = settings])
  /\ UNCHANGED <<settings, modal>>

\* What was counted before is not what will be mailed any more.
Stale(n) == IF n = 0 THEN 0 ELSE Changed
StaleModals == modal' = [t \in Tabs |-> [modal[t] EXCEPT !.count = Stale(@)]]
StaleWork == [t \in Tabs |-> [work[t] EXCEPT !.count = Stale(@), !.fresh = FALSE]]

\* SaveSettings: every column is written, or none when a field is refused.
SaveSettings(t) ==
  LET text == work[t].text
      row == IF text.valid THEN RowOf(text) ELSE settings
  IN  /\ wire[t].pc = "handler" /\ wire[t].kind = "save"
      /\ settings' = row
      /\ wire' = [wire EXCEPT ![t].pc = "answered"]
      /\ work' = IF row = settings THEN [work EXCEPT ![t].error = ~text.valid] ELSE StaleWork
      /\ IF row = settings THEN UNCHANGED modal ELSE StaleModals
      /\ UNCHANGED <<configured, secret, secrets, tokens, cookie, page, account, form>>

\* FAULTY: the hard limit is taken for a balance.
ThresholdUnsigned(type, row) == IF type = "warning" THEN row.warning ELSE row.hard

\* The same lines in the modal and in the round.
ThresholdOfModal(type, row) == IF type = "warning" THEN row.warning ELSE -row.hard
ThresholdOfRound(type, row) == IF type = "warning" THEN row.warning ELSE -row.hard

Active == {u \in Users : account[u].active}

\* SendRemindersModal: the settings, then the users.
ModalSettings(t) ==
  /\ Step(t, "modal", "handler", "list", [work[t] EXCEPT !.row = settings, !.fresh = TRUE])
  /\ UNCHANGED <<settings, modal>>

ModalUsers(t) ==
  LET limit == ThresholdOfModal(work[t].type, work[t].row)
      n == Cardinality({u \in Active : account[u].balance < limit})
  IN  /\ Step(t, "modal", "list", "answered",
              [work[t] EXCEPT !.row = InitSettings, !.fresh = FALSE,
                              !.count = IF work[t].fresh THEN n ELSE Stale(n)])
      /\ UNCHANGED <<settings, modal>>

\* SendReminders: the users, then the settings.
RoundUsers(t) ==
  /\ Step(t, "remind", "handler", "list",
          [work[t] EXCEPT !.list = {[user |-> u, balance |-> account[u].balance] : u \in Active}])
  /\ UNCHANGED <<settings, modal>>

RoundSettings(t) ==
  LET limit == ThresholdOfRound(work[t].type, settings)
      below == {e \in work[t].list : e.balance < limit}
  IN  /\ IF settings.template = "unparsable"
         THEN Step(t, "remind", "list", "answered", [NoWork EXCEPT !.error = TRUE])
         ELSE Step(t, "remind", "list", "mail",
                   [NoWork EXCEPT !.count = work[t].count, !.todo = {e.user : e \in below}])
      /\ UNCHANGED <<settings, modal>>

\* Mailer.Send fails before the server takes the mail, or after: the reply to
\* the body, or to QUIT, does not come.
Outcomes == {o \in [taken : BOOLEAN, err : BOOLEAN] : o.taken \/ o.err}

\* FAULTY: a mail that failed is tried once more.
SendMailTwice(t) ==
  \E u \in work[t].todo, first, second \in Outcomes :
     LET err == first.err /\ second.err
         n == (IF first.taken THEN 1 ELSE 0) + (IF first.err /\ second.taken THEN 1 ELSE 0)
     IN  /\ Step(t, "remind", "mail", "mail",
                 [work[t] EXCEPT !.todo = @ \ {u}, !.got = @ + n,
                                 !.ok = IF err THEN @ ELSE @ + 1,
                                 !.failed = IF err THEN @ + 1 ELSE @])
         /\ UNCHANGED <<settings, modal>>

\* FAULTY: a mail that failed is not done with.
SendMailAgain(t) ==
  \E u \in work[t].todo, o \in Outcomes :
     /\ Step(t, "remind", "mail", "mail",
             [work[t] EXCEPT !.todo = IF o.err THEN @ ELSE @ \ {u},
                             !.got = IF o.taken THEN @ + 1 ELSE @,
                             !.ok = IF o.err THEN @ ELSE @ + 1,
                             !.failed = IF o.err THEN @ + 1 ELSE @])
     /\ UNCHANGED <<settings, modal>>

\* The body is rendered, which may fail, then the mail is sent.
SendMail(t) ==
  \E u \in work[t].todo, o \in Outcomes :
     /\ Step(t, "remind", "mail", "mail",
             [work[t] EXCEPT !.todo = @ \ {u},
                             !.got = IF o.taken THEN @ + 1 ELSE @,
                             !.ok = IF o.err THEN @ ELSE @ + 1,
                             !.failed = IF o.err THEN @ + 1 ELSE @])
     /\ UNCHANGED <<settings, modal>>

EndRound(t) ==
  /\ work[t].todo = {}
  /\ Step(t, "remind", "mail", "answered", work[t])
  /\ UNCHANGED <<settings, modal>>

-----------------------------------------------------------------------------
(* Everyone else.                                                          *)

\* A member books or pays, or is deactivated or activated.
ChangeAccount ==
  \E u \in Users, a \in Accounts :
    /\ a # account[u]
    /\ account' = [account EXCEPT ![u] = a]
    /\ StaleModals /\ work' = StaleWork
    /\ UNCHANGED <<csrfVars, settings, form>>

Middleware(t) ==
  /\ \E s \in Servers : Check(t, s)
  /\ UNCHANGED <<settings, account, form, modal, work>>

\* The rounds of a process end with it.
Replace ==
  /\ \E s \in Servers : Restart(s)
  /\ work' = [t \in Tabs |-> IF wire'[t].pc = "idle" THEN NoWork ELSE work[t]]
  /\ UNCHANGED <<settings, account, form, modal>>

Next ==
  \/ \E t \in Tabs :
       \/ OpenPage(t) \/ Submit(t) \/ AskReminders(t) \/ ConfirmReminders(t)
       \/ Middleware(t) \/ Answered(t) \/ Lost(t)
       \/ AdminSettingsPage(t) \/ SaveSettings(t)
       \/ ModalSettings(t) \/ ModalUsers(t)
       \/ RoundUsers(t) \/ RoundSettings(t) \/ SendMail(t) \/ EndRound(t)
  \/ ChangeAccount
  \/ Replace

Spec == Init /\ [][Next]_vars

-----------------------------------------------------------------------------
Counts == Changed..Cardinality(Users)
Modal == [type : Types, count : Counts]
Work == [text : Text, type : Types, row : Settings, count : Counts,
         list : SUBSET [user : Users, balance : Int], todo : SUBSET Users,
         ok : Nat, failed : Nat, error : BOOLEAN, fresh : BOOLEAN, got : Nat]

(* Each variable has its type; the round never counts more mails than it   *)
(* had users.                                                              *)
TypeOK ==
  /\ CsrfTypeOK
  /\ settings \in Settings
  /\ account \in [Users -> Accounts]
  /\ form \in [Tabs -> Settings]
  /\ modal \in [Tabs -> Modal]
  /\ work \in [Tabs -> Work]
  /\ \A t \in Tabs : work[t].ok + work[t].failed <= Cardinality(Users)

(* The toast (settings.go:303) is not better than what happened: every     *)
(* mail reported as sent has been taken by the server, and no more mails   *)
(* were taken than the round tried, although a reply that is lost after    *)
(* the body makes a delivered mail a failure.                              *)
ToastCountsMails ==
  \A t \in Tabs : work[t].ok <= work[t].got /\ work[t].got <= work[t].ok + work[t].failed

(* "Erinnerungsmail an %d Nutzer senden?" (settings.go:219): the round     *)
(* reads users and limits anew, in the other order, and decides with a     *)
(* copy of the modal's lines; unless an account or the settings changed    *)
(* since the modal was made, it tries exactly as many mails as announced.  *)
AskedThenSent ==
  \A t \in Tabs :
     wire[t].kind = "remind" /\ wire[t].pc = "answered" /\ ~work[t].error /\ work[t].count # Changed
       => work[t].ok + work[t].failed = work[t].count

(* A form that is sent back as the page filled it changes nothing, if no   *)
(* other admin has saved since the page was loaded: the amounts come back  *)
(* from centsToEuros and parseEuroToCents as they were, negative ones too. *)
UntouchedSaveIsHarmless ==
  [][\A t \in Tabs :
       /\ wire[t].kind = "save" /\ wire[t].pc = "handler" /\ wire'[t].pc = "answered"
       /\ work[t].text = FormOf(form[t]) /\ settings = form[t]
       => settings' = settings]_vars
=============================================================================
