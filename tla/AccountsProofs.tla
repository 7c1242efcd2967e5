--------------------------- MODULE AccountsProofs ---------------------------
(* Proofs about accounts and sign-on, for any number of persons, tabs and   *)
(* registrations: types, the flags of kiosks, stored names, and that the    *)
(* middleware and the toggles implement the gate.                           *)
EXTENDS AccountsGate, TLAPS

\* A request keeps to the row of the person who sent it.
OwnRow(q, e, us) ==
  q.pc \in {"profile", "inside", "flip"} =>
    q.id \in Ids /\ us[q.id].st # "none" /\ us[q.id].email = e

\* Only an admin's request is about an account, which exists, or did; if it is the
\* person's own, the request has found the same row.
TargetRow(q, e, us) ==
  q.pc # "idle" /\ q.target # NoId =>
    /\ e \in Admins /\ us[q.target].st # "none"
    /\ q.pc # "asked" /\ us[q.target].st = "live" /\ us[q.target].email = e => q.id = q.target

\* What has passed the test for kiosks switches the price group or the limit.
FlipOK(q) == q.pc = "flip" => q.target \in Ids /\ q.flag # "active"

ReqOK(q, e, us) == OwnRow(q, e, us) /\ TargetRow(q, e, us) /\ FlipOK(q)

\* A name that will be wiped out is empty, or there is another tab.
NameOK(r, q, us) ==
  q.pc = "profile" /\ q.name = NoName =>
    us[q.id].name = NoName \/ \E s \in Reqs : s # r /\ Owner[s] = Owner[r]

OneRow(us) ==
  \A x, y \in Ids : us[x].st = "live" /\ us[y].st = "live" /\ us[x].email = us[y].email => x = y

AccInv ==
  /\ TypeOK /\ OneRow(users)
  /\ \A r \in Reqs : ReqOK(req[r], Owner[r], users) /\ NameOK(r, req[r], users)

-----------------------------------------------------------------------------
LEMMA OwnerType == \A r \in Reqs : Owner[r] \in Emails
  BY AccountsConstants

LEMMA IdleType ==
  /\ Idle \in Request /\ Idle.pc = "idle" /\ Idle.target = NoId
  /\ \A r, e, us : ReqOK(Idle, e, us) /\ NameOK(r, Idle, us)
<1>0. NoName \in Name
  BY DEF Name
<1>1. Idle \in Request /\ Idle.pc = "idle" /\ Idle.target = NoId
  BY <1>0 DEF Idle, Request, AllFlags
<1> QED
  BY <1>1 DEF ReqOK, NameOK, OwnRow, TargetRow, FlipOK

LEMMA AccInvInit == ASSUME Init PROVE AccInv
<1>1. \A r \in Reqs : req[r] = Idle
  BY DEF Init
<1>2. TypeOK
  BY <1>1, IdleType, AccountsConstants DEF Init, TypeOK
<1>3. OneRow(users)
  BY ConsistentUsers DEF Init, OneRow
<1> QED
  BY <1>1, <1>2, <1>3, IdleType DEF AccInv

\* Rows keep their person, and what is gone stays gone.
Stable(us, vs) ==
  \A x \in Ids : us[x].st # "none" =>
    /\ vs[x].st # "none" /\ vs[x].email = us[x].email
    /\ vs[x].st = "live" => us[x].st = "live"

LEMMA ReqStable ==
  ASSUME NEW q \in Request, NEW e, NEW us, NEW vs, Stable(us, vs), ReqOK(q, e, us)
  PROVE  ReqOK(q, e, vs)
<1>1. q.target # NoId => q.target \in Ids
  BY DEF Request
<1>2. OwnRow(q, e, vs)
  BY DEF OwnRow, ReqOK, Stable
<1>3. q.pc # "idle" /\ q.target # NoId => us[q.target].st # "none"
  BY DEF TargetRow, ReqOK
<1>4. TargetRow(q, e, vs)
  BY <1>1, <1>3 DEF TargetRow, ReqOK, Stable
<1> QED
  BY <1>2, <1>4 DEF ReqOK

\* A step of request r that leaves the table alone.
LEMMA ReqMoves ==
  ASSUME AccInv, NEW r \in Reqs, NEW q \in Request, Set(r, q), UNCHANGED users,
         ReqOK(q, Owner[r], users), NameOK(r, q, users)
  PROVE  AccInv'
<1>1. req' = [req EXCEPT ![r] = q]
  BY DEF Set
<1>2. \A s \in Reqs : req'[s] = IF s = r THEN q ELSE req[s]
  BY <1>1 DEF AccInv, TypeOK
<1>3. \A s \in Reqs : ReqOK(req'[s], Owner[s], users) /\ NameOK(s, req'[s], users)
  BY <1>2 DEF AccInv
<1>4. \A s \in Reqs : req'[s].pc \in {"inside", "flip"} => req'[s].id \in Ids
  BY <1>3 DEF ReqOK, OwnRow
<1>5. TypeOK'
  BY <1>1, <1>4 DEF AccInv, TypeOK
<1> QED
  BY <1>3, <1>5 DEF AccInv

\* A step that changes the table.
LEMMA TableMoves ==
  ASSUME AccInv, NEW r \in Reqs, NEW q \in Request, Set(r, q),
         users' \in [Ids -> UserRow], Stable(users, users'), OneRow(users'),
         ReqOK(q, Owner[r], users'), NameOK(r, q, users'),
         \A s \in Reqs \ {r} : req[s].pc = "profile" =>
           users'[req[s].id].name = users[req[s].id].name \/ Owner[s] = Owner[r]
  PROVE  AccInv'
<1>1. req' = [req EXCEPT ![r] = q]
  BY DEF Set
<1>2. \A s \in Reqs : req'[s] = IF s = r THEN q ELSE req[s]
  BY <1>1 DEF AccInv, TypeOK
<1>3. \A s \in Reqs : req[s] \in Request /\ ReqOK(req[s], Owner[s], users)
  BY DEF AccInv, TypeOK
<1>4. \A s \in Reqs : ReqOK(req'[s], Owner[s], users')
  BY <1>2, <1>3, ReqStable
<1>5. ASSUME NEW s \in Reqs
      PROVE  NameOK(s, req'[s], users')
  <2>1. CASE s = r
    BY <1>2, <2>1
  <2>2. CASE s # r
    <3>1. req'[s] = req[s] /\ NameOK(s, req[s], users)
      BY <1>2, <2>2 DEF AccInv
    <3> QED
      BY <2>2, <3>1 DEF NameOK
  <2> QED
    BY <2>1, <2>2
<1>6. \A s \in Reqs : req'[s].pc \in {"inside", "flip"} => req'[s].id \in Ids
  BY <1>4 DEF ReqOK, OwnRow
<1>7. TypeOK'
  BY <1>1, <1>6 DEF AccInv, TypeOK
<1> QED
  BY <1>4, <1>5, <1>7 DEF AccInv

LEMMA FinishMoves == ASSUME AccInv, NEW r \in Reqs, Finish(r), UNCHANGED users PROVE AccInv'
  BY ReqMoves, IdleType DEF Finish

-----------------------------------------------------------------------------
(* The middleware.                                                          *)

LEMMA HeaderType ==
  ASSUME NEW r \in Reqs, NEW h \in Headers(r) PROVE h.name \in Name /\ h.kiosk \in BOOLEAN
<1>1. h.name \in Names[Owner[r]] \cup {NoName} /\ h.kiosk \in {k \in BOOLEAN : k => Owner[r] \in Kiosks}
  BY DEF Headers
<1>2. Owner[r] \in Emails
  BY OwnerType
<1>3. h.name \in Name
  BY <1>1, <1>2 DEF Name
<1>4. h.kiosk \in BOOLEAN
  BY <1>1
<1> QED
  BY <1>3, <1>4

\* The row, or none, that a request begins with.
Begins(r) ==
  \E p \in Request :
    /\ Set(r, p)
    /\ ReqOK(p, Owner[r], users) /\ NameOK(r, p, users)
    /\ \/ p.pc = "create"
       \/ p.pc = "profile" /\ (p.active => \E x \in RowsOf(Owner[r]) : "active" \in users[x].flags)

LEMMA LookUpStep ==
  ASSUME AccInv, NEW r \in Reqs, NEW q \in Request, NEW h \in Headers(r), LookUp(r, q, h),
         q.target # NoId => Owner[r] \in Admins /\ users[q.target].st # "none"
  PROVE  Begins(r)
<1> DEFINE found == RowsOf(Owner[r])
           o == [q EXCEPT !.name = h.name, !.kiosk = h.kiosk]
<1>0. Owner[r] \in Emails
  BY OwnerType
<1>1. h.name \in Name /\ h.kiosk \in BOOLEAN
  BY HeaderType
<1>4. o \in Request /\ o.target = q.target /\ o.name = h.name
  BY <1>1 DEF Request
<1>2. CASE found = {}
  <2> DEFINE p == [o EXCEPT !.pc = "create", !.id = NoId, !.active = TRUE]
  <2>2. Set(r, p)
    BY <1>2 DEF LookUp
  <2> HIDE DEF o
  <2>1. p \in Request /\ p.pc = "create" /\ p.target = q.target /\ p.id = NoId
    BY <1>4 DEF Request
  <2> HIDE DEF p
  <2>3. q.target # NoId => ~(users[q.target].st = "live" /\ users[q.target].email = Owner[r])
    BY <1>2 DEF RowsOf, Request
  <2>4. ReqOK(p, Owner[r], users) /\ NameOK(r, p, users)
    BY <2>1, <2>3 DEF ReqOK, NameOK, OwnRow, TargetRow, FlipOK
  <2> QED
    BY <2>1, <2>2, <2>4 DEF Begins
<1>3. CASE found # {}
  <2> DEFINE x == CHOOSE y \in found : TRUE
             a == "active" \in users[x].flags
             m == IF o.name = NoName THEN users[x].name ELSE o.name
             p == [o EXCEPT !.pc = "profile", !.id = x, !.active = a, !.name = m]
  <2>3. Set(r, p)
    <3>1. Set(r, [o EXCEPT !.pc = "profile", !.id = x, !.active = a,
                           !.name = IF @ = NoName THEN users[x].name ELSE @])
      BY <1>3 DEF LookUp
    <3> QED
      BY <3>1
  <2>1. x \in found
    BY <1>3
  <2> HIDE DEF o
  <2>2. x \in Ids /\ users[x].st = "live" /\ users[x].email = Owner[r]
    BY <2>1 DEF RowsOf
  <2> HIDE DEF x
  <2>4. m \in Name /\ (m = NoName => users[x].name = NoName)
    BY <1>1, <1>4, <2>2 DEF AccInv, TypeOK, UserRow
  <2>5. a \in BOOLEAN /\ (a => \E y \in RowsOf(Owner[r]) : "active" \in users[y].flags)
    BY <2>1
  <2> HIDE DEF a, m
  <2>6. /\ p \in Request /\ p.pc = "profile" /\ p.target = q.target
        /\ p.id = x /\ p.active = a /\ p.name = m
    BY <1>4, <2>2, <2>4, <2>5 DEF Request
  <2> HIDE DEF p
  <2>7. q.target # NoId /\ users[q.target].st = "live" /\ users[q.target].email = Owner[r]
          => x = q.target
    BY <2>2 DEF AccInv, OneRow, Request
  <2>8. ReqOK(p, Owner[r], users)
    BY <2>2, <2>6, <2>7 DEF ReqOK, OwnRow, TargetRow, FlipOK
  <2>9. NameOK(r, p, users)
    BY <2>4, <2>6 DEF NameOK
  <2> QED
    BY <2>3, <2>5, <2>6, <2>8, <2>9 DEF Begins
<1> QED
  BY <1>2, <1>3

LEMMA OpenBegins ==
  ASSUME AccInv, NEW r \in Reqs, NEW h \in Headers(r), NEW x \in Ids \cup {NoId},
         NEW f \in AllFlags, NEW post \in BOOLEAN, Open(r, h, x, f, post)
  PROVE  UNCHANGED users /\ req[r].pc = "idle" /\ Begins(r)
<1> DEFINE q == RequireAdmin(r, x, f, post)
<1>1. /\ q \in Request
      /\ q.target # NoId => Owner[r] \in Admins /\ q.target = x /\ x # NoId
  BY IdleType DEF RequireAdmin, Request
<1>2. LookUp(r, q, h) /\ UNCHANGED users /\ (x # NoId => users[x].st # "none") /\ req[r].pc = "idle"
  BY DEF Open
<1> HIDE DEF q
<1> QED
  BY <1>1, <1>2, LookUpStep

LEMMA OpenStep ==
  ASSUME AccInv, NEW r \in Reqs, NEW h \in Headers(r), NEW x \in Ids \cup {NoId},
         NEW f \in AllFlags, NEW post \in BOOLEAN, Open(r, h, x, f, post)
  PROVE  AccInv'
  BY OpenBegins, ReqMoves DEF Begins

LEMMA ConfirmBegins ==
  ASSUME AccInv, NEW r \in Reqs, NEW h \in Headers(r), Confirm(r, h)
  PROVE  UNCHANGED users /\ req[r].pc = "asked" /\ Begins(r)
<1> DEFINE q == [req[r] EXCEPT !.post = TRUE]
<1>1. req[r] \in Request /\ ReqOK(req[r], Owner[r], users)
  BY DEF AccInv, TypeOK
<1>2. q \in Request /\ q.target = req[r].target
  BY <1>1 DEF Request
<1>3. LookUp(r, q, h) /\ UNCHANGED users /\ req[r].pc = "asked"
  BY DEF Confirm
<1>4. q.target # NoId => Owner[r] \in Admins /\ users[q.target].st # "none"
  BY <1>1, <1>2, <1>3 DEF ReqOK, TargetRow
<1> HIDE DEF q
<1> QED
  BY <1>2, <1>3, <1>4, LookUpStep

LEMMA ConfirmStep ==
  ASSUME AccInv, NEW r \in Reqs, NEW h \in Headers(r), Confirm(r, h)
  PROVE  AccInv'
  BY ConfirmBegins, ReqMoves DEF Begins

\* A new row is the only one of its email.
LEMMA EnrolTable ==
  ASSUME AccInv, NEW r \in Reqs, NEW x \in Ids, req[r].pc = "create", RowsOf(Owner[r]) = {}, Enrol(r, x)
  PROVE  /\ users' \in [Ids -> UserRow] /\ Stable(users, users') /\ OneRow(users')
         /\ users[x].st = "none" /\ users'[x].email = Owner[r] /\ users'[x].st = "live"
         /\ users'[x].flags = {"active"} /\ \A y \in Ids \ {x} : users'[y] = users[y]
<1> DEFINE row == [st |-> "live", email |-> Owner[r], flags |-> {"active"},
                   kiosk |-> req[r].kiosk, name |-> req[r].name]
<1>1. Owner[r] \in Emails /\ req[r].name \in Name /\ req[r].kiosk \in BOOLEAN
  BY OwnerType DEF AccInv, TypeOK, Request
<1>2. row \in UserRow
  BY <1>1 DEF UserRow, AllFlags
<1>3. row.st = "live" /\ row.email = Owner[r] /\ row.flags = {"active"}
  OBVIOUS
<1>4. users' = [users EXCEPT ![x] = row] /\ users[x].st = "none"
  BY DEF Enrol, NewId
<1> HIDE DEF row
<1>5. users' \in [Ids -> UserRow] /\ users'[x] = row /\ \A y \in Ids \ {x} : users'[y] = users[y]
  BY <1>2, <1>4 DEF AccInv, TypeOK
<1>6. \A y \in Ids : ~(users[y].st = "live" /\ users[y].email = Owner[r])
  BY DEF RowsOf
<1>7. Stable(users, users')
  BY <1>4, <1>5 DEF Stable
<1>8. OneRow(users')
  BY <1>3, <1>5, <1>6 DEF OneRow, AccInv
<1> QED
  BY <1>3, <1>4, <1>5, <1>7, <1>8

LEMMA EnrolStep ==
  ASSUME AccInv, NEW r \in Reqs, NEW x \in Ids, req[r].pc = "create", RowsOf(Owner[r]) = {}, Enrol(r, x)
  PROVE  AccInv'
<1> DEFINE q == [req[r] EXCEPT !.pc = "inside", !.id = x, !.name = NoName, !.kiosk = FALSE]
<1>0. req[r] \in Request /\ ReqOK(req[r], Owner[r], users) /\ NoName \in Name
  BY DEF AccInv, TypeOK, Name
<1>1. q \in Request /\ q.pc = "inside" /\ q.id = x /\ q.target = req[r].target /\ Set(r, q)
  BY <1>0 DEF Request, Enrol, LetIn
<1> HIDE DEF q
<1>2. /\ users' \in [Ids -> UserRow] /\ Stable(users, users') /\ OneRow(users')
      /\ users[x].st = "none" /\ users'[x].email = Owner[r] /\ users'[x].st = "live"
      /\ \A y \in Ids \ {x} : users'[y] = users[y]
  BY EnrolTable
<1>3. q.target # NoId => q.target \in Ids /\ Owner[r] \in Admins /\ users[q.target].st # "none"
  BY <1>0, <1>1 DEF ReqOK, TargetRow, Request
<1>4. \A y \in Ids : ~(users[y].st = "live" /\ users[y].email = Owner[r])
  BY DEF RowsOf
<1>5. q.target # NoId => users'[q.target] = users[q.target]
  BY <1>2, <1>3
<1>6. ReqOK(q, Owner[r], users')
  BY <1>1, <1>2, <1>3, <1>4, <1>5 DEF ReqOK, OwnRow, TargetRow, FlipOK
<1>7. NameOK(r, q, users')
  BY <1>1 DEF NameOK
<1>8. \A s \in Reqs \ {r} : req[s].pc = "profile" => users'[req[s].id].name = users[req[s].id].name
  BY <1>2 DEF AccInv, ReqOK, OwnRow
<1> QED
  BY <1>1, <1>2, <1>6, <1>7, <1>8, TableMoves

LEMMA CreateUserStep ==
  ASSUME AccInv, NEW r \in Reqs, NEW x \in Ids, CreateUser(r, x)
  PROVE  AccInv'
<1>1. CASE RowsOf(Owner[r]) = {}
  BY <1>1, EnrolStep DEF CreateUser
<1>2. CASE RowsOf(Owner[r]) # {} /\ "active" \notin users[x].flags
  BY <1>2, FinishMoves DEF CreateUser
<1>3. CASE RowsOf(Owner[r]) # {} /\ "active" \in users[x].flags
  <2> DEFINE q == [req[r] EXCEPT !.pc = "inside", !.id = x, !.name = NoName, !.kiosk = FALSE]
  <2>1. /\ req[r] \in Request /\ ReqOK(req[r], Owner[r], users) /\ req[r].pc = "create"
        /\ NoName \in Name
    BY DEF AccInv, TypeOK, CreateUser, Name
  <2>2. q \in Request /\ q.pc = "inside" /\ q.id = x /\ q.target = req[r].target
    BY <2>1 DEF Request
  <2>3. Set(r, q) /\ UNCHANGED users /\ x \in RowsOf(Owner[r])
    BY <1>3 DEF CreateUser, LetIn
  <2> HIDE DEF q
  <2>4. users[x].st = "live" /\ users[x].email = Owner[r]
    BY <2>3 DEF RowsOf
  <2>5. q.target # NoId => q.target \in Ids /\ Owner[r] \in Admins /\ users[q.target].st # "none"
    BY <2>1, <2>2 DEF ReqOK, TargetRow, Request
  <2>6. ReqOK(q, Owner[r], users)
    BY <2>2, <2>4, <2>5 DEF ReqOK, OwnRow, TargetRow, FlipOK, AccInv, OneRow
  <2>7. NameOK(r, q, users)
    BY <2>2 DEF NameOK
  <2> QED
    BY <2>2, <2>3, <2>6, <2>7, ReqMoves
<1> QED
  BY <1>1, <1>2, <1>3

\* What becomes of a request whose row has been refreshed.
LEMMA AdmitMoves ==
  ASSUME AccInv, NEW r \in Reqs, req[r].pc = "profile", Admit(r)
  PROVE  \E q \in Request :
           /\ Set(r, q) /\ ReqOK(q, Owner[r], users)
           /\ q.pc = IF req[r].active THEN "inside" ELSE "idle"
<1>0. req[r] \in Request /\ ReqOK(req[r], Owner[r], users) /\ NoName \in Name
  BY DEF AccInv, TypeOK, Name
<1>1. CASE req[r].active
  <2> DEFINE q == [req[r] EXCEPT !.pc = "inside", !.id = req[r].id, !.name = NoName, !.kiosk = FALSE]
  <2>1. q \in Request /\ q.pc = "inside" /\ q.id = req[r].id /\ q.target = req[r].target
    BY <1>0 DEF Request
  <2>2. Set(r, q)
    BY <1>1 DEF Admit, LetIn
  <2> HIDE DEF q
  <2>3. ReqOK(q, Owner[r], users)
    BY <1>0, <2>1 DEF ReqOK, OwnRow, TargetRow, FlipOK
  <2> QED
    BY <1>1, <2>1, <2>2, <2>3
<1>2. CASE ~req[r].active
  BY <1>2, IdleType DEF Admit, Finish
<1> QED
  BY <1>1, <1>2

LEMMA SkipProfileStep ==
  ASSUME AccInv, NEW r \in Reqs, SkipProfile(r) PROVE AccInv'
<1>1. PICK q \in Request : Set(r, q) /\ ReqOK(q, Owner[r], users) /\ q.pc # "profile"
  BY AdmitMoves DEF SkipProfile
<1> QED
  BY <1>1, ReqMoves DEF SkipProfile, NameOK

\* Persons, flags and ids stay; the name is the one that has been read, or is
\* that of the token, and no two persons share a row.
LEMMA ProfileTable ==
  ASSUME AccInv, NEW r \in Reqs, UpdateProfile(r)
  PROVE  /\ users' \in [Ids -> UserRow]
         /\ \A x \in Ids : users'[x].st = users[x].st /\ users'[x].email = users[x].email
                           /\ users'[x].flags = users[x].flags
         /\ \A x \in Ids : users'[x].name = users[x].name
                           \/ (x = req[r].id /\ users[x].email = Owner[r] /\ users'[x].name = req[r].name)
<1> DEFINE i == req[r].id
           row == [users[i] EXCEPT !.name = req[r].name, !.kiosk = req[r].kiosk]
<1>1. req[r] \in Request /\ OwnRow(req[r], Owner[r], users) /\ req[r].pc = "profile"
  BY DEF AccInv, TypeOK, ReqOK, UpdateProfile
<1>2. i \in Ids /\ users[i].email = Owner[r] /\ users \in [Ids -> UserRow]
  BY <1>1 DEF OwnRow, AccInv, TypeOK
<1>3. users[i] \in UserRow /\ req[r].name \in Name /\ req[r].kiosk \in BOOLEAN
  BY <1>1, <1>2 DEF Request
<1>5. users' = IF Live(i) THEN [users EXCEPT ![i] = row] ELSE users
  BY DEF UpdateProfile
<1>4. /\ row \in UserRow /\ row.st = users[i].st /\ row.email = users[i].email
      /\ row.flags = users[i].flags /\ row.name = req[r].name
  BY <1>3 DEF UserRow
<1> HIDE DEF row
<1>6. CASE Live(i)
  <2>1. users' = [users EXCEPT ![i] = row]
    BY <1>5, <1>6
  <2>2. users' \in [Ids -> UserRow] /\ users'[i] = row /\ \A x \in Ids \ {i} : users'[x] = users[x]
    BY <1>2, <1>4, <2>1
  <2> QED
    BY <1>2, <1>4, <2>2
<1>7. CASE ~Live(i)
  <2>1. users' = users
    BY <1>5, <1>7
  <2> QED
    BY <1>2, <2>1
<1> QED
  BY <1>6, <1>7

LEMMA SameRows ==
  ASSUME AccInv,
         \A x \in Ids : users'[x].st = users[x].st /\ users'[x].email = users[x].email
  PROVE  Stable(users, users') /\ OneRow(users')
  BY DEF Stable, OneRow, AccInv

LEMMA UpdateProfileStep ==
  ASSUME AccInv, NEW r \in Reqs, UpdateProfile(r) PROVE AccInv'
<1>1. PICK q \in Request : Set(r, q) /\ ReqOK(q, Owner[r], users) /\ q.pc # "profile"
  BY AdmitMoves DEF UpdateProfile
<1>2. users' \in [Ids -> UserRow] /\ Stable(users, users') /\ OneRow(users')
  BY ProfileTable, SameRows
<1>3. ReqOK(q, Owner[r], users') /\ NameOK(r, q, users')
  BY <1>1, <1>2, ReqStable DEF NameOK
<1>4. ASSUME NEW s \in Reqs \ {r}, req[s].pc = "profile"
      PROVE  users'[req[s].id].name = users[req[s].id].name \/ Owner[s] = Owner[r]
  <2>1. req[s].id \in Ids /\ users[req[s].id].email = Owner[s]
    BY <1>4 DEF AccInv, ReqOK, OwnRow
  <2> QED
    BY <2>1, ProfileTable
<1> QED
  BY <1>1, <1>2, <1>3, <1>4, TableMoves

-----------------------------------------------------------------------------
(* Inside.                                                                  *)

LEMMA ConfirmToggleModalStep ==
  ASSUME AccInv, NEW r \in Reqs, ConfirmToggleModal(r) PROVE AccInv'
<1> DEFINE x == req[r].target
           b == req[r].flag \in users[x].flags
           q == [Idle EXCEPT !.pc = "asked", !.target = x, !.flag = req[r].flag, !.sees = b]
           refused == ~Live(x) \/ KioskTarget(r) \/ (req[r].flag = "active" /\ x = req[r].id)
<1>1. CASE refused
  BY <1>1, FinishMoves DEF ConfirmToggleModal
<1>2. CASE ~refused
  <2>1. Set(r, q) /\ UNCHANGED users /\ x \in Ids /\ users[x].st = "live" /\ Owner[r] \in Admins
    BY <1>2 DEF ConfirmToggleModal, Live, Handles, AccInv, ReqOK, TargetRow
  <2>2. req[r].flag \in AllFlags /\ b \in BOOLEAN
    BY DEF AccInv, TypeOK, Request
  <2> HIDE DEF b
  <2>3. q \in Request /\ q.pc = "asked" /\ q.target = x
    BY <2>1, <2>2, IdleType DEF Request
  <2> HIDE DEF q
  <2>4. ReqOK(q, Owner[r], users) /\ NameOK(r, q, users)
    BY <2>1, <2>3 DEF ReqOK, OwnRow, TargetRow, FlipOK, NameOK
  <2> QED
    BY <2>1, <2>3, <2>4, ReqMoves
<1> QED
  BY <1>1, <1>2

LEMMA RejectKioskTargetStep ==
  ASSUME AccInv, NEW r \in Reqs, RejectKioskTarget(r) PROVE AccInv'
<1> DEFINE q == [req[r] EXCEPT !.pc = "flip"]
<1>1. CASE ~(Live(req[r].target) /\ ~KioskTarget(r))
  BY <1>1, FinishMoves DEF RejectKioskTarget
<1>2. CASE Live(req[r].target) /\ ~KioskTarget(r)
  <2>1. /\ req[r] \in Request /\ ReqOK(req[r], Owner[r], users)
        /\ req[r].pc = "inside" /\ req[r].flag # "active"
    BY DEF AccInv, TypeOK, RejectKioskTarget, Handles
  <2>2. /\ q \in Request /\ q.pc = "flip" /\ q.id = req[r].id
        /\ q.target = req[r].target /\ q.flag = req[r].flag
    BY <2>1 DEF Request
  <2>3. Set(r, q) /\ UNCHANGED users
    BY <1>2 DEF RejectKioskTarget
  <2> HIDE DEF q
  <2>4. q.target \in Ids
    BY <1>2, <2>2 DEF Live
  <2>5. ReqOK(q, Owner[r], users) /\ NameOK(r, q, users)
    BY <2>1, <2>2, <2>4 DEF ReqOK, OwnRow, TargetRow, FlipOK, NameOK
  <2> QED
    BY <2>2, <2>3, <2>5, ReqMoves
<1> QED
  BY <1>1, <1>2

LEMMA FlipTable ==
  ASSUME AccInv, NEW r \in Reqs, req[r].target # NoId, Flip(r)
  PROVE  /\ users' \in [Ids -> UserRow]
         /\ \A x \in Ids : users'[x].st = users[x].st /\ users'[x].email = users[x].email
                           /\ users'[x].kiosk = users[x].kiosk /\ users'[x].name = users[x].name
         /\ \A x \in Ids : users'[x].flags = users[x].flags
                           \/ /\ x = req[r].target /\ users[x].st = "live"
                              /\ users'[x].flags = IF req[r].flag \in users[x].flags
                                                     THEN users[x].flags \ {req[r].flag}
                                                     ELSE users[x].flags \cup {req[r].flag}
         /\ users[req[r].target].st # "live" => users' = users
         /\ req[r].target \in Ids
         /\ users[req[r].target].st = "live" => \A x \in Ids \ {req[r].target} : users'[x] = users[x]
<1> DEFINE x == req[r].target
           f == req[r].flag
           fl == IF f \in users[x].flags THEN users[x].flags \ {f} ELSE users[x].flags \cup {f}
           row == Flipped(users[x], f)
<1>1. x \in Ids /\ f \in AllFlags /\ users \in [Ids -> UserRow]
  BY DEF AccInv, TypeOK, Request
<1>2. users[x] \in UserRow
  BY <1>1
<1>3. fl \in SUBSET AllFlags
  BY <1>1, <1>2 DEF UserRow
<1>4. row = [users[x] EXCEPT !.flags = fl]
  BY <1>2 DEF Flipped, UserRow
<1> HIDE DEF fl, row
<1>5. /\ row \in UserRow /\ row.st = users[x].st /\ row.email = users[x].email
      /\ row.kiosk = users[x].kiosk /\ row.name = users[x].name /\ row.flags = fl
  BY <1>2, <1>3, <1>4 DEF UserRow
<1>6. CASE Live(x)
  <2>1. users' = [users EXCEPT ![x] = row]
    BY <1>6 DEF Flip, row
  <2>2. users' \in [Ids -> UserRow] /\ users'[x] = row /\ \A y \in Ids \ {x} : users'[y] = users[y]
    BY <1>1, <1>5, <2>1
  <2> QED
    BY <1>1, <1>5, <1>6, <2>2 DEF Live, fl
<1>7. CASE ~Live(x)
  BY <1>1, <1>7 DEF Flip, Live
<1> QED
  BY <1>6, <1>7

\* A flip, and the request is over.
LEMMA FlipMoves ==
  ASSUME AccInv, NEW r \in Reqs, req[r].target # NoId, Flip(r), Finish(r)
  PROVE  AccInv'
<1>1. /\ users' \in [Ids -> UserRow]
      /\ \A x \in Ids : users'[x].st = users[x].st /\ users'[x].email = users[x].email
                        /\ users'[x].kiosk = users[x].kiosk /\ users'[x].name = users[x].name
  BY FlipTable
<1>2. Stable(users, users') /\ OneRow(users')
  BY <1>1, SameRows
<1>3. \A s \in Reqs : req[s].pc = "profile" => users'[req[s].id].name = users[req[s].id].name
  BY <1>1 DEF AccInv, ReqOK, OwnRow
<1> QED
  BY <1>1, <1>2, <1>3, IdleType, TableMoves DEF Finish

LEMMA ToggleStep ==
  ASSUME AccInv, NEW r \in Reqs, ToggleActive(r) \/ ToggleFlag(r) PROVE AccInv'
<1>1. ToggleFlag(r) => req[r].target # NoId
  BY AccountsConstants DEF ToggleFlag, AccInv, ReqOK, FlipOK
<1>2. ToggleActive(r) => req[r].target # NoId
  BY DEF ToggleActive, Handles
<1>3. CASE ToggleActive(r) /\ req[r].target = req[r].id
  BY <1>3, FinishMoves DEF ToggleActive
<1>4. CASE ToggleActive(r) /\ req[r].target # req[r].id
  BY <1>2, <1>4, FlipMoves DEF ToggleActive
<1>5. CASE ToggleFlag(r)
  BY <1>1, <1>5, FlipMoves DEF ToggleFlag
<1> QED
  BY <1>3, <1>4, <1>5

LEMMA DeleteTable ==
  ASSUME AccInv, NEW x \in Ids, DeleteUser(x)
  PROVE  /\ users' \in [Ids -> UserRow]
         /\ users'[x].st = "gone" /\ users[x].st = "live" /\ users'[x].email = users[x].email
         /\ \A y \in Ids \ {x} : users'[y] = users[y]
         /\ \A y \in Ids : users'[y].email = users[y].email /\ users'[y].name = users[y].name
<1> DEFINE row == [users[x] EXCEPT !.st = "gone", !.flags = {}, !.kiosk = FALSE]
<1>1. users[x] \in UserRow /\ users \in [Ids -> UserRow]
  BY DEF AccInv, TypeOK
<1>2. /\ row \in UserRow /\ row.st = "gone" /\ row.email = users[x].email
      /\ row.name = users[x].name
  BY <1>1 DEF UserRow
<1>3. users' = [users EXCEPT ![x] = row] /\ users[x].st = "live"
  BY DEF DeleteUser, Live
<1> HIDE DEF row
<1>4. users' \in [Ids -> UserRow] /\ users'[x] = row /\ \A y \in Ids \ {x} : users'[y] = users[y]
  BY <1>1, <1>2, <1>3
<1> QED
  BY <1>2, <1>3, <1>4

LEMMA DeleteUserStep ==
  ASSUME AccInv, NEW x \in Ids, DeleteUser(x) PROVE AccInv'
<1>1. Stable(users, users') /\ OneRow(users')
  BY DeleteTable DEF Stable, OneRow, AccInv
<1>2. UNCHANGED req
  BY DEF DeleteUser
<1>3. \A s \in Reqs : ReqOK(req'[s], Owner[s], users')
  BY <1>1, <1>2, ReqStable DEF AccInv, TypeOK
<1>4. \A s \in Reqs : req[s].pc = "profile" => users'[req[s].id].name = users[req[s].id].name
  BY DeleteTable DEF AccInv, ReqOK, OwnRow
<1>5. \A s \in Reqs : NameOK(s, req'[s], users')
  BY <1>2, <1>4 DEF AccInv, NameOK
<1>6. TypeOK'
  BY <1>2, DeleteTable DEF AccInv, TypeOK
<1> QED
  BY <1>1, <1>3, <1>5, <1>6 DEF AccInv

LEMMA AccInvStep == AccInv /\ [Next]_vars => AccInv'
<1> SUFFICES ASSUME AccInv, [Next]_vars PROVE AccInv'
  OBVIOUS
<1>1. ASSUME NEW r \in Reqs, NEW h \in Headers(r),
             NEW x \in Ids \cup {NoId}, NEW f \in AllFlags, NEW post \in BOOLEAN, Open(r, h, x, f, post)
      PROVE  AccInv'
  BY <1>1, OpenStep
<1>2. ASSUME NEW r \in Reqs, NEW x \in Ids, CreateUser(r, x) PROVE AccInv'
  BY <1>2, CreateUserStep
<1>3. ASSUME NEW r \in Reqs, NEW h \in Headers(r), Confirm(r, h) PROVE AccInv'
  BY <1>3, ConfirmStep
<1>4. ASSUME NEW r \in Reqs, UpdateProfile(r) PROVE AccInv'
  BY <1>4, UpdateProfileStep
<1>5. ASSUME NEW r \in Reqs, SkipProfile(r) PROVE AccInv'
  BY <1>5, SkipProfileStep
<1>6. ASSUME NEW r \in Reqs, ConfirmToggleModal(r) PROVE AccInv'
  BY <1>6, ConfirmToggleModalStep
<1>7. ASSUME NEW r \in Reqs, ToggleActive(r) \/ ToggleFlag(r) PROVE AccInv'
  BY <1>7, ToggleStep
<1>8. ASSUME NEW r \in Reqs, RejectKioskTarget(r) PROVE AccInv'
  BY <1>8, RejectKioskTargetStep
<1>9. ASSUME NEW r \in Reqs, Leave(r) PROVE AccInv'
  BY <1>9, FinishMoves DEF Leave
<1>10. ASSUME NEW x \in Ids, DeleteUser(x) PROVE AccInv'
  BY <1>10, DeleteUserStep
<1>11. CASE UNCHANGED vars
  BY <1>11 DEF vars, AccInv, TypeOK, OneRow, ReqOK, OwnRow, TargetRow, FlipOK, NameOK
<1> QED
  BY <1>1, <1>2, <1>3, <1>4, <1>5, <1>6, <1>7, <1>8, <1>9, <1>10, <1>11 DEF Next

-----------------------------------------------------------------------------
(* The theorems.                                                            *)

LEMMA Inductive == Spec => []AccInv
  BY AccInvInit, AccInvStep, PTL DEF Spec

\* Every variable keeps its type, and whoever is inside has a row.
THEOREM AccountsTypeCorrect == Spec => []TypeOK
<1>1. AccInv => TypeOK
  BY DEF AccInv
<1> QED
  BY <1>1, Inductive, PTL

\* A step of one request adds it to the toggles of x, or takes it away.
LEMMA TogglingMoves ==
  ASSUME AccInv, NEW r \in Reqs, NEW q, Set(r, q), NEW x \in Ids
  PROVE  /\ q.pc # "flip" \/ q.target # x => Toggling(x)' = Toggling(x) \ {r}
         /\ Toggling(x)' \subseteq Toggling(x) \cup {r}
<1>1. \A s \in Reqs : req'[s] = IF s = r THEN q ELSE req[s]
  BY DEF AccInv, TypeOK, Set
<1> QED
  BY <1>1 DEF Toggling

\* What a step may do about the account of a kiosk.
KioskStep(x) ==
  /\ Toggling(x)' \subseteq Toggling(x)
  /\ \/ users'[x].flags \ {"active"} = users[x].flags \ {"active"}
     \/ \E r \in Toggling(x) :
          /\ Toggling(x)' = Toggling(x) \ {r}
          /\ users'[x] = Flipped(users[x], req[r].flag)

LEMMA PassesNone ==
  ASSUME AccInv, NEW r \in Reqs, NEW q, Set(r, q), q.pc # "flip", NEW x \in Ids,
         users'[x].flags \ {"active"} = users[x].flags \ {"active"}
  PROVE  KioskStep(x)
  BY TogglingMoves DEF KioskStep

LEMMA FinishPasses ==
  ASSUME AccInv, NEW r \in Reqs, Finish(r), NEW x \in Ids,
         users'[x].flags \ {"active"} = users[x].flags \ {"active"}
  PROVE  KioskStep(x)
  BY PassesNone, IdleType DEF Finish

\* The middleware brings nobody past the test.
LEMMA MiddlewarePasses ==
  ASSUME AccInv, NEW r \in Reqs, NEW x \in Ids, users[x].st = "live",
         \/ \E h \in Headers(r), y \in Ids \cup {NoId}, f \in AllFlags, post \in BOOLEAN :
              Open(r, h, y, f, post)
         \/ \E h \in Headers(r) : Confirm(r, h)
         \/ \E y \in Ids : CreateUser(r, y)
         \/ UpdateProfile(r) \/ SkipProfile(r)
  PROVE  KioskStep(x)
<1>1. ASSUME NEW h \in Headers(r), NEW y \in Ids \cup {NoId}, NEW f \in AllFlags,
             NEW post \in BOOLEAN, Open(r, h, y, f, post)
      PROVE  KioskStep(x)
  BY <1>1, OpenBegins, PassesNone DEF Begins
<1>2. ASSUME NEW h \in Headers(r), Confirm(r, h)
      PROVE  KioskStep(x)
  BY <1>2, ConfirmBegins, PassesNone DEF Begins
<1>3. ASSUME NEW y \in Ids, CreateUser(r, y)
      PROVE  KioskStep(x)
  <2> DEFINE q == [req[r] EXCEPT !.pc = "inside", !.id = y, !.name = NoName, !.kiosk = FALSE]
  <2>1. Finish(r) \/ Set(r, q)
    BY <1>3 DEF CreateUser, Enrol, LetIn
  <2>2. q.pc # "flip"
    BY DEF AccInv, TypeOK, Request
  <2>3. users'[x] = users[x]
    <3>1. CASE RowsOf(Owner[r]) = {}
      <4>1. users[y].st = "none" /\ \A z \in Ids \ {y} : users'[z] = users[z]
        BY <1>3, <3>1, EnrolTable DEF CreateUser
      <4> QED
        BY <4>1
    <3>2. CASE RowsOf(Owner[r]) # {}
      BY <1>3, <3>2 DEF CreateUser
    <3> QED
      BY <3>1, <3>2
  <2> HIDE DEF q
  <2> QED
    BY <2>1, <2>2, <2>3, FinishPasses, PassesNone
<1>4. CASE UpdateProfile(r) \/ SkipProfile(r)
  <2>1. \E q \in Request : Set(r, q) /\ q.pc # "flip"
    BY <1>4, AdmitMoves DEF UpdateProfile, SkipProfile
  <2>2. users'[x].flags = users[x].flags
    BY <1>4, ProfileTable DEF SkipProfile
  <2> QED
    BY <2>1, <2>2, PassesNone
<1> QED
  BY <1>1, <1>2, <1>3, <1>4

\* A POST, whether a question precedes it or not, does not pass the test while its
\* target is stored as a kiosk (users.go:35); whoever has passed it before flips
\* one flag and is done (users.go:192).
THEOREM KiosksCorrect == Spec => KioskFlagsKept
<1> DEFINE A == \A x \in Ids : users[x].st = "live" /\ users[x].kiosk
                               /\ users'[x].st = "live" /\ users'[x].kiosk => KioskStep(x)
<1>1. AccInv /\ [Next]_vars => [A]_vars
  <2> SUFFICES ASSUME AccInv, Next,
                      NEW x \in Ids, users[x].st = "live", users[x].kiosk, users'[x].st = "live"
               PROVE  KioskStep(x)
    OBVIOUS
  <2>1. ASSUME NEW r \in Reqs, ConfirmToggleModal(r) \/ Leave(r)
        PROVE  KioskStep(x)
    <3> DEFINE asked == [Idle EXCEPT !.pc = "asked", !.target = req[r].target, !.flag = req[r].flag,
                                     !.sees = req[r].flag \in users[req[r].target].flags]
    <3>1. (Finish(r) \/ Set(r, asked)) /\ users' = users
      BY <2>1 DEF ConfirmToggleModal, Leave
    <3>2. asked.pc = "asked"
      BY DEF Idle
    <3> HIDE DEF asked
    <3> QED
      BY <3>1, <3>2, FinishPasses, PassesNone
  <2>2. ASSUME NEW r \in Reqs, ToggleActive(r)
        PROVE  KioskStep(x)
    <3>1. users'[x].flags \ {"active"} = users[x].flags \ {"active"}
      <4>1. CASE req[r].target = req[r].id
        BY <2>2, <4>1 DEF ToggleActive
      <4>2. CASE req[r].target # req[r].id
        <5>1. Flip(r) /\ req[r].flag = "active" /\ req[r].target # NoId
          BY <2>2, <4>2 DEF ToggleActive, Handles
        <5> QED
          BY <5>1, FlipTable
      <4> QED
        BY <4>1, <4>2
    <3> QED
      BY <2>2, <3>1, FinishPasses DEF ToggleActive
  <2>3. ASSUME NEW r \in Reqs, RejectKioskTarget(r)
        PROVE  KioskStep(x)
    <3> DEFINE q == [req[r] EXCEPT !.pc = "flip"]
    <3>1. users' = users
      BY <2>3 DEF RejectKioskTarget
    <3>2. CASE Finish(r)
      BY <3>1, <3>2, FinishPasses
    <3>3. CASE Set(r, q) /\ ~KioskTarget(r)
      <4>1. req[r].target # x
        BY <2>3, <3>3 DEF KioskTarget, RejectKioskTarget
      <4>2. q.target = req[r].target
        BY DEF AccInv, TypeOK, Request
      <4> HIDE DEF q
      <4>3. Toggling(x)' \subseteq Toggling(x)
        BY <3>3, <4>1, <4>2, TogglingMoves
      <4> QED
        BY <3>1, <4>3 DEF KioskStep
    <3> QED
      BY <2>3, <3>2, <3>3 DEF RejectKioskTarget
  <2>4. ASSUME NEW r \in Reqs, ToggleFlag(r)
        PROVE  KioskStep(x)
    <3>1. /\ Flip(r) /\ Finish(r) /\ req[r].pc = "flip"
          /\ req[r].target \in Ids /\ req[r].target # NoId
      BY <2>4, AccountsConstants DEF ToggleFlag, AccInv, ReqOK, FlipOK
    <3>2. CASE req[r].target # x
      <4>1. users'[x].flags = users[x].flags
        BY <3>1, <3>2, FlipTable
      <4> QED
        BY <3>1, <4>1, FinishPasses
    <3>3. CASE req[r].target = x
      <4>1. r \in Toggling(x) /\ Toggling(x)' = Toggling(x) \ {r}
        BY <3>1, <3>3, TogglingMoves, IdleType DEF Finish, Toggling
      <4>2. Live(x) /\ users \in [Ids -> UserRow]
        BY DEF Live, AccInv, TypeOK
      <4>3. users' = [users EXCEPT ![x] = Flipped(users[x], req[r].flag)]
        BY <3>1, <3>3, <4>2 DEF Flip
      <4>4. users'[x] = Flipped(users[x], req[r].flag)
        BY <4>2, <4>3
      <4> QED
        BY <4>1, <4>4 DEF KioskStep
    <3> QED
      BY <3>2, <3>3
  <2>5. ASSUME NEW y \in Ids, DeleteUser(y)
        PROVE  KioskStep(x)
    <3>1. users'[x] = users[x] /\ req' = req
      BY <2>5, DeleteTable DEF DeleteUser
    <3> QED
      BY <3>1 DEF KioskStep, Toggling
  <2> QED
    BY <2>1, <2>2, <2>3, <2>4, <2>5, MiddlewarePasses DEF Next
<1>2. Spec => [][A]_vars
  BY <1>1, Inductive, PTL DEF Spec
<1> QED
  BY <1>2 DEF KioskFlagsKept, KioskStep

\* Who has one tab keeps the stored name (middleware.go:107).
THEOREM NamesCorrect == Spec => NamesKept
<1> DEFINE A == \A x \in Ids : Live(x) /\ users[x].name # NoName /\ users'[x].name = NoName
                  => \E r, s \in Reqs : r # s /\ Owner[r] = users[x].email /\ Owner[s] = users[x].email
<1>1. AccInv /\ [Next]_vars => [A]_vars
  <2> SUFFICES ASSUME AccInv, Next,
                      NEW x \in Ids, Live(x), users[x].name # NoName, users'[x].name = NoName
               PROVE  \E r, s \in Reqs : r # s /\ Owner[r] = users[x].email /\ Owner[s] = users[x].email
    OBVIOUS
  <2>1. ASSUME NEW r \in Reqs, NEW y \in Ids, CreateUser(r, y)
        PROVE  FALSE
    <3>1. RowsOf(Owner[r]) = {} => Enrol(r, y) /\ req[r].pc = "create"
      BY <2>1 DEF CreateUser
    <3>2. RowsOf(Owner[r]) # {} => users' = users
      BY <2>1 DEF CreateUser
    <3>3. RowsOf(Owner[r]) = {} => users[y].st = "none" /\ \A z \in Ids \ {y} : users'[z] = users[z]
      BY <3>1, EnrolTable
    <3> QED
      BY <3>2, <3>3 DEF Live
  <2>2. ASSUME NEW r \in Reqs, UpdateProfile(r)
        PROVE  \E s \in Reqs : r # s /\ Owner[r] = users[x].email /\ Owner[s] = users[x].email
    <3>1. x = req[r].id /\ users[x].email = Owner[r] /\ req[r].name = NoName
      BY <2>2, ProfileTable
    <3>2. req[r].pc = "profile" /\ NameOK(r, req[r], users)
      BY <2>2 DEF UpdateProfile, AccInv
    <3> QED
      BY <3>1, <3>2 DEF NameOK
  <2>3. ASSUME NEW r \in Reqs, ToggleActive(r) \/ ToggleFlag(r) PROVE FALSE
    <3>1. req[r].target # NoId
      BY <2>3, AccountsConstants DEF ToggleFlag, ToggleActive, Handles, AccInv, ReqOK, FlipOK
    <3>2. Flip(r) \/ users' = users
      BY <2>3 DEF ToggleFlag, ToggleActive
    <3> QED
      BY <3>1, <3>2, FlipTable
  <2>4. ASSUME NEW y \in Ids, DeleteUser(y) PROVE FALSE
    BY <2>4, DeleteTable
  <2>5. ~UNCHANGED users
    OBVIOUS
  <2> QED
    BY <2>1, <2>2, <2>3, <2>4, <2>5
       DEF Next, Open, Confirm, SkipProfile, ConfirmToggleModal, RejectKioskTarget, Leave
<1>2. Spec => [][A]_vars
  BY <1>1, Inductive, PTL DEF Spec
<1> QED
  BY <1>2 DEF NamesKept

-----------------------------------------------------------------------------
(* The gate.                                                                *)

LEMMA StatusAt ==
  ASSUME NEW e \in Emails
  PROVE  /\ Status[e] = StatusOf(e) /\ Status'[e] = StatusOf(e)'
         /\ Status = [Status EXCEPT ![e] = StatusOf(e)]
  BY DEF Status

\* The status of each account depends on who has a row and on one flag.
LEMMA SameStatus ==
  ASSUME \A x \in Ids : /\ users'[x].st = users[x].st /\ users'[x].email = users[x].email
                        /\ "active" \in users'[x].flags <=> "active" \in users[x].flags
  PROVE  Status' = Status
<1>1. ASSUME NEW e \in Emails PROVE StatusOf(e)' = StatusOf(e)
  <2>1. RowsOf(e)' = RowsOf(e)
    BY DEF RowsOf
  <2>2. (\E x \in RowsOf(e)' : "active" \in users'[x].flags)
          <=> \E x \in RowsOf(e) : "active" \in users[x].flags
    BY <2>1 DEF RowsOf
  <2> QED
    BY <2>1, <2>2 DEF StatusOf
<1> QED
  BY <1>1 DEF Status

\* The status of one account changes.
LEMMA OneStatus ==
  ASSUME NEW e \in Emails, NEW s, StatusOf(e)' = s,
         \A x \in Ids : users[x].email = e \/ users[x].st = "none" \/ users'[x] = users[x],
         \A x \in Ids : users'[x].st = "live" /\ users'[x] # users[x] => users'[x].email = e
  PROVE  Status' = [Status EXCEPT ![e] = s]
<1>1. ASSUME NEW d \in Emails, d # e PROVE StatusOf(d)' = StatusOf(d)
  <2>1. RowsOf(d)' = RowsOf(d)
    BY <1>1 DEF RowsOf
  <2>2. \A x \in RowsOf(d) : users'[x] = users[x]
    BY <1>1 DEF RowsOf
  <2>3. (\E x \in RowsOf(d)' : "active" \in users'[x].flags)
          <=> \E x \in RowsOf(d) : "active" \in users[x].flags
    BY <2>1, <2>2
  <2> QED
    BY <2>1, <2>3 DEF StatusOf
<1> QED
  BY <1>1 DEF Status

\* What is known of a person with a row.
LEMMA StatusLive ==
  ASSUME OneRow(users), NEW x \in Ids, users[x].st = "live"
  PROVE  StatusOf(users[x].email) = IF "active" \in users[x].flags THEN "open" ELSE "closed"
<1>1. RowsOf(users[x].email) = {x}
  BY DEF OneRow, RowsOf
<1> QED
  BY <1>1 DEF StatusOf

LEMMA InsideAt ==
  ASSUME NEW r \in Reqs
  PROVE  Inside[r] = IF LetInside(req[r]) THEN Owner[r] ELSE NoId
  BY DEF Inside

LEMMA InsideMoves ==
  ASSUME AccInv, NEW r \in Reqs, NEW q, Set(r, q)
  PROVE  Inside' = [Inside EXCEPT ![r] = IF LetInside(q) THEN Owner[r] ELSE NoId]
<1>1. \A s \in Reqs : req'[s] = IF s = r THEN q ELSE req[s]
  BY DEF AccInv, TypeOK, Set
<1>2. \A s \in Reqs : LetInside(req[s])' = IF s = r THEN LetInside(q) ELSE LetInside(req[s])
  BY <1>1 DEF LetInside
<1> QED
  BY <1>2 DEF Inside

LEMMA InsideSame ==
  ASSUME AccInv, NEW r \in Reqs, NEW q, Set(r, q), LetInside(q) <=> LetInside(req[r])
  PROVE  Inside' = Inside
  BY InsideMoves, InsideAt DEF Inside

LEMMA OutsideIdle == ~LetInside(Idle)
  BY DEF LetInside, Idle

LEMMA FinishLeaves ==
  ASSUME AccInv, NEW r \in Reqs, Finish(r)
  PROVE  Inside' = [Inside EXCEPT ![r] = NoId]
  BY InsideMoves, OutsideIdle DEF Finish

LEMMA GateLeaves ==
  ASSUME AccInv, NEW r \in Reqs, Finish(r), Status' = Status PROVE G!GateNext
  BY FinishLeaves DEF G!GateNext, G!Leave

\* A first statement lets in only whose account is active.
LEMMA BeginsGate ==
  ASSUME AccInv, NEW r \in Reqs, Begins(r), req[r].pc \in {"idle", "asked"}, UNCHANGED users
  PROVE  [G!GateNext]_(G!gvars)
<1>1. PICK p \in Request :
        /\ Set(r, p)
        /\ \/ p.pc = "create"
           \/ p.pc = "profile" /\ (p.active => \E x \in RowsOf(Owner[r]) : "active" \in users[x].flags)
  BY DEF Begins
<1>2. ~LetInside(req[r]) /\ Inside[r] = NoId
  BY InsideAt DEF LetInside
<1>3. Status' = Status
  BY SameStatus
<1>4. CASE ~LetInside(p)
  <2>1. Inside' = Inside
    BY <1>1, <1>2, <1>4, InsideSame
  <2> QED
    BY <1>3, <2>1 DEF G!gvars
<1>5. CASE LetInside(p)
  <2>1. \E x \in RowsOf(Owner[r]) : "active" \in users[x].flags
    BY <1>1, <1>5 DEF LetInside
  <2>2. Status[Owner[r]] = "open" /\ Owner[r] \in Emails
    BY <2>1, OwnerType, StatusAt DEF StatusOf
  <2>3. Inside' = [Inside EXCEPT ![r] = Owner[r]]
    BY <1>1, <1>5, InsideMoves
  <2> QED
    BY <1>2, <1>3, <2>2, <2>3 DEF G!GateNext, G!Enter
<1> QED
  BY <1>4, <1>5

LEMMA CreateUserGate ==
  ASSUME AccInv, NEW r \in Reqs, NEW x \in Ids, CreateUser(r, x)
  PROVE  [G!GateNext]_(G!gvars)
<1> DEFINE e == Owner[r]
<1>1. req[r].pc = "create" /\ e \in Emails
  BY OwnerType DEF CreateUser
<1>2. ~LetInside(req[r]) /\ Inside[r] = NoId
  BY <1>1, InsideAt DEF LetInside
<1>3. CASE RowsOf(e) = {}
  <2>1. Enrol(r, x)
    BY <1>3 DEF CreateUser
  <2>2. /\ users[x].st = "none" /\ users'[x].email = e /\ users'[x].st = "live"
        /\ users'[x].flags = {"active"} /\ \A y \in Ids \ {x} : users'[y] = users[y]
    BY <1>1, <1>3, <2>1, EnrolTable
  <2>3. Status[e] = "unknown"
    BY <1>1, <1>3, StatusAt DEF StatusOf
  <2>4. x \in RowsOf(e)' /\ "active" \in users'[x].flags
    BY <2>2 DEF RowsOf
  <2>5. StatusOf(e)' = "open"
    BY <2>4 DEF StatusOf
  <2>6. Status' = [Status EXCEPT ![e] = "open"]
    BY <1>1, <2>2, <2>5, OneStatus
  <2> DEFINE q == [req[r] EXCEPT !.pc = "inside", !.id = x, !.name = NoName, !.kiosk = FALSE]
  <2>7. Set(r, q) /\ LetInside(q)
    BY <2>1 DEF Enrol, LetIn, LetInside, AccInv, TypeOK, Request
  <2> HIDE DEF q
  <2>8. Inside' = [Inside EXCEPT ![r] = e]
    BY <2>7, InsideMoves
  <2> QED
    BY <1>1, <1>2, <2>3, <2>6, <2>8 DEF G!GateNext, G!Register
<1>4. CASE RowsOf(e) # {}
  <2>1. x \in RowsOf(e) /\ users' = users
    BY <1>4 DEF CreateUser
  <2>2. Status' = Status
    BY <2>1, SameStatus
  <2>3. CASE "active" \in users[x].flags
    <3> DEFINE q == [req[r] EXCEPT !.pc = "inside", !.id = x, !.name = NoName, !.kiosk = FALSE]
    <3>1. Set(r, q) /\ LetInside(q)
      BY <1>4, <2>3 DEF CreateUser, LetIn, LetInside, AccInv, TypeOK, Request
    <3> HIDE DEF q
    <3>2. Inside' = [Inside EXCEPT ![r] = e]
      BY <3>1, InsideMoves
    <3>3. Status[e] = "open"
      BY <1>1, <2>1, <2>3, StatusAt DEF StatusOf
    <3> QED
      BY <1>1, <1>2, <2>2, <3>2, <3>3 DEF G!GateNext, G!Enter
  <2>4. CASE "active" \notin users[x].flags
    <3>1. Finish(r)
      BY <1>4, <2>4 DEF CreateUser
    <3> QED
      BY <2>2, <3>1, GateLeaves
  <2> QED
    BY <2>3, <2>4
<1> QED
  BY <1>3, <1>4

\* The refresh of the row changes neither who is in nor any status.
LEMMA ProfileGate ==
  ASSUME AccInv, NEW r \in Reqs, UpdateProfile(r) \/ SkipProfile(r)
  PROVE  UNCHANGED G!gvars
<1>1. req[r].pc = "profile" /\ Admit(r)
  BY DEF UpdateProfile, SkipProfile
<1>2. PICK q \in Request : Set(r, q) /\ q.pc = IF req[r].active THEN "inside" ELSE "idle"
  BY <1>1, AdmitMoves
<1>3. LetInside(q) <=> LetInside(req[r])
  BY <1>1, <1>2 DEF LetInside
<1>4. Inside' = Inside
  BY <1>2, <1>3, InsideSame
<1>5. CASE UpdateProfile(r)
  BY <1>4, <1>5, ProfileTable, SameStatus DEF G!gvars
<1>6. CASE SkipProfile(r)
  BY <1>4, <1>6, SameStatus DEF SkipProfile, G!gvars
<1> QED
  BY <1>5, <1>6

\* An admin switches the account of somebody else.
LEMMA ToggleActiveGate ==
  ASSUME AccInv, NEW r \in Reqs, ToggleActive(r)
  PROVE  G!GateNext
<1> DEFINE x == req[r].target
<1>1. /\ req[r].pc = "inside" /\ req[r].flag = "active" /\ x # NoId
      /\ Owner[r] \in Admins /\ Finish(r)
  BY DEF ToggleActive, Handles, AccInv, ReqOK, TargetRow
<1>2. x \in Ids /\ users[x] \in UserRow
  BY <1>1 DEF AccInv, TypeOK, Request
<1>0. PICK e \in Emails : e = users[x].email
  BY <1>2 DEF UserRow
<1>3. CASE x = req[r].id \/ users[x].st # "live"
  <2>1. Flip(r) \/ users' = users
    BY DEF ToggleActive
  <2>2. users' = users
    BY <1>1, <1>2, <1>3, <2>1, FlipTable DEF ToggleActive
  <2> QED
    BY <1>1, <2>2, SameStatus, GateLeaves
<1>4. CASE x # req[r].id /\ users[x].st = "live"
  <2>1. Flip(r)
    BY <1>4 DEF ToggleActive
  <2>2. e # Owner[r] /\ e \in Emails
    BY <1>0, <1>1, <1>2, <1>4 DEF AccInv, ReqOK, TargetRow
  <2>3. Inside[r] = Owner[r] /\ Inside' = [Inside EXCEPT ![r] = NoId]
    BY <1>1, InsideAt, FinishLeaves DEF LetInside
  <2>4. /\ \A y \in Ids : users'[y].st = users[y].st /\ users'[y].email = users[y].email
        /\ \A y \in Ids \ {x} : users'[y] = users[y]
    BY <1>1, <1>4, <2>1, FlipTable
  <2>5. "active" \in users'[x].flags <=> "active" \notin users[x].flags
    <3>1. Live(x)
      BY <1>2, <1>4 DEF Live
    <3>2. users' = [users EXCEPT ![x] = Flipped(users[x], "active")]
      BY <1>1, <2>1, <3>1 DEF Flip
    <3>3. users'[x] = Flipped(users[x], "active")
      BY <1>2, <3>2 DEF AccInv, TypeOK
    <3> QED
      BY <1>2, <3>3 DEF Flipped, UserRow
  <2>6. StatusOf(e) = IF "active" \in users[x].flags THEN "open" ELSE "closed"
    BY <1>0, <1>2, <1>4, StatusLive DEF AccInv
  <2>7. RowsOf(e)' = {x}
    BY <1>0, <1>2, <1>4, <2>4 DEF AccInv, OneRow, RowsOf
  <2>8. StatusOf(e)' = IF "active" \in users'[x].flags THEN "open" ELSE "closed"
    BY <2>7 DEF StatusOf
  <2>9. StatusOf(e)' = IF StatusOf(e) = "open" THEN "closed" ELSE "open"
    BY <2>5, <2>6, <2>8
  <2>10. Status[e] = StatusOf(e) /\ Status[e] # "unknown"
    BY <2>2, <2>6, StatusAt
  <2> DEFINE s == IF StatusOf(e) = "open" THEN "closed" ELSE "open"
  <2>11. Status' = [Status EXCEPT ![e] = s]
    <3>1. \A y \in Ids : users[y].email = e \/ users[y].st = "none" \/ users'[y] = users[y]
      BY <1>0, <2>4
    <3>2. \A y \in Ids : users'[y].st = "live" /\ users'[y] # users[y] => users'[y].email = e
      BY <1>0, <2>4
    <3> QED
      BY <2>2, <2>9, <3>1, <3>2, OneStatus
  <2>12. Status' = [Status EXCEPT ![e] = IF @ = "open" THEN "closed" ELSE "open"]
    BY <2>10, <2>11
  <2> QED
    BY <1>1, <2>2, <2>3, <2>10, <2>12 DEF G!GateNext, G!Switch
<1> QED
  BY <1>3, <1>4

LEMMA DeleteGate ==
  ASSUME AccInv, NEW x \in Ids, DeleteUser(x)
  PROVE  G!GateNext
<1>0. PICK e \in Emails : e = users[x].email
  BY DEF AccInv, TypeOK, UserRow
<1>1. /\ users'[x].st = "gone" /\ users[x].st = "live"
      /\ \A y \in Ids \ {x} : users'[y] = users[y]
      /\ "active" \notin users[x].flags /\ UNCHANGED req
  BY DeleteTable DEF DeleteUser
<1>3. StatusOf(e) = "closed"
  BY <1>0, <1>1, StatusLive DEF AccInv
<1>4. RowsOf(e)' = {}
  BY <1>0, <1>1 DEF AccInv, OneRow, RowsOf
<1>5. StatusOf(e)' = "unknown"
  BY <1>4 DEF StatusOf
<1>6. /\ \A y \in Ids : users[y].email = e \/ users[y].st = "none" \/ users'[y] = users[y]
      /\ \A y \in Ids : users'[y].st = "live" /\ users'[y] # users[y] => users'[y].email = e
  BY <1>0, <1>1
<1>7. Inside' = Inside
  BY <1>1 DEF Inside, LetInside
<1>8. Status[e] = "closed" /\ Status' = [Status EXCEPT ![e] = "unknown"]
  BY <1>3, <1>5, <1>6, OneStatus, StatusAt
<1> QED
  BY <1>7, <1>8 DEF G!GateNext, G!Remove

LEMMA StepIsGateStep == AccInv /\ [Next]_vars => [G!GateNext]_(G!gvars)
<1> SUFFICES ASSUME AccInv, [Next]_vars PROVE [G!GateNext]_(G!gvars)
  OBVIOUS
<1>1. ASSUME NEW r \in Reqs, NEW h \in Headers(r),
             NEW x \in Ids \cup {NoId}, NEW f \in AllFlags, NEW post \in BOOLEAN, Open(r, h, x, f, post)
      PROVE  [G!GateNext]_(G!gvars)
  BY <1>1, OpenBegins, BeginsGate
<1>2. ASSUME NEW r \in Reqs, NEW x \in Ids, CreateUser(r, x)
      PROVE  [G!GateNext]_(G!gvars)
  BY <1>2, CreateUserGate
<1>3. ASSUME NEW r \in Reqs, NEW h \in Headers(r), Confirm(r, h)
      PROVE  [G!GateNext]_(G!gvars)
  BY <1>3, ConfirmBegins, BeginsGate
<1>4. ASSUME NEW r \in Reqs, UpdateProfile(r) \/ SkipProfile(r)
      PROVE  UNCHANGED G!gvars
  BY <1>4, ProfileGate
<1>5. ASSUME NEW r \in Reqs, ConfirmToggleModal(r)
      PROVE  [G!GateNext]_(G!gvars)
  <2>1. users' = users /\ req[r].pc = "inside"
    BY <1>5 DEF ConfirmToggleModal, Handles
  <2> DEFINE x == req[r].target
             asked == [Idle EXCEPT !.pc = "asked", !.target = x, !.flag = req[r].flag,
                                   !.sees = req[r].flag \in users[x].flags]
  <2>5. Finish(r) \/ Set(r, asked)
    BY <1>5 DEF ConfirmToggleModal
  <2>6. asked.pc = "asked"
    BY DEF Idle
  <2> HIDE DEF asked
  <2>2. PICK q : Set(r, q) /\ q.pc \in {"idle", "asked"}
    BY <2>5, <2>6, IdleType DEF Finish
  <2>3. ~LetInside(q)
    BY <2>2 DEF LetInside
  <2>4. Inside' = [Inside EXCEPT ![r] = NoId] /\ Status' = Status
    BY <2>1, <2>2, <2>3, InsideMoves, SameStatus
  <2> QED
    BY <2>4 DEF G!GateNext, G!Leave
<1>6. ASSUME NEW r \in Reqs, ToggleActive(r) PROVE G!GateNext
  BY <1>6, ToggleActiveGate
<1>7. ASSUME NEW r \in Reqs, RejectKioskTarget(r)
      PROVE  [G!GateNext]_(G!gvars)
  <2>1. users' = users /\ req[r].pc = "inside" /\ Status' = Status
    BY <1>7, SameStatus DEF RejectKioskTarget, Handles
  <2>2. CASE Finish(r)
    BY <2>1, <2>2, GateLeaves
  <2>3. CASE Set(r, [req[r] EXCEPT !.pc = "flip"])
    <3> DEFINE q == [req[r] EXCEPT !.pc = "flip"]
    <3>1. LetInside(q) /\ LetInside(req[r])
      BY <2>1 DEF LetInside, AccInv, TypeOK, Request
    <3> HIDE DEF q
    <3>2. Inside' = Inside
      BY <2>3, <3>1, InsideSame DEF q
    <3> QED
      BY <2>1, <3>2 DEF G!gvars
  <2> QED
    BY <1>7, <2>2, <2>3 DEF RejectKioskTarget
<1>8. ASSUME NEW r \in Reqs, ToggleFlag(r) PROVE G!GateNext
  <2>1. Flip(r) /\ Finish(r) /\ req[r].flag # "active" /\ req[r].target # NoId
    BY <1>8, AccountsConstants DEF ToggleFlag, AccInv, ReqOK, FlipOK
  <2>2. \A x \in Ids : /\ users'[x].st = users[x].st /\ users'[x].email = users[x].email
                       /\ "active" \in users'[x].flags <=> "active" \in users[x].flags
    <3> TAKE x \in Ids
    <3>1. users'[x].st = users[x].st /\ users'[x].email = users[x].email
      BY <2>1, FlipTable
    <3>2. users'[x].flags = users[x].flags
          \/ users'[x].flags = users[x].flags \ {req[r].flag}
          \/ users'[x].flags = users[x].flags \cup {req[r].flag}
      BY <2>1, FlipTable
    <3> QED
      BY <2>1, <3>1, <3>2
  <2> QED
    BY <2>1, <2>2, SameStatus, GateLeaves
<1>9. ASSUME NEW r \in Reqs, Leave(r) PROVE G!GateNext
  BY <1>9, SameStatus, GateLeaves DEF Leave
<1>10. ASSUME NEW x \in Ids, DeleteUser(x) PROVE G!GateNext
  BY <1>10, DeleteGate
<1>11. CASE UNCHANGED vars
  BY <1>11, SameStatus DEF vars, G!gvars, Inside, LetInside
<1> QED
  BY <1>1, <1>2, <1>3, <1>4, <1>5, <1>6, <1>7, <1>8, <1>9, <1>10, <1>11 DEF Next

\* The middleware, the registration and the toggles are a gate: whoever comes in
\* has an open account, and only an admin who is in opens or closes one, of others.
THEOREM GateImplemented == Spec => ImplementsGate
<1>1. Init => G!GateInit
  <2> SUFFICES ASSUME Init PROVE G!GateInit
    OBVIOUS
  <2>1. \A e \in Emails : StatusOf(e) \in {"unknown", "open", "closed"}
    BY DEF StatusOf
  <2>2. Status \in [Emails -> {"unknown", "open", "closed"}]
    BY <2>1 DEF Status
  <2>3. Inside = [r \in Reqs |-> NoId]
    BY OutsideIdle DEF Init, Inside
  <2> QED
    BY <2>2, <2>3 DEF G!GateInit
<1>2. AccInv /\ [Next]_vars => [G!GateNext]_(G!gvars)
  BY StepIsGateStep
<1>3. Spec => G!GateSpec
  BY <1>1, <1>2, Inductive, PTL DEF Spec, G!GateSpec
<1> QED
  BY <1>3 DEF ImplementsGate
=============================================================================
