------------------------- MODULE SettingsPageProofs -------------------------
(* Proofs about the settings page, for any number of tabs, processes and    *)
(* accounts: types, the reminders, the form, and the CSRF middleware it is  *)
(* composed with.                                                           *)
EXTENDS SettingsPage, FiniteSetTheorems, TLAPS

-----------------------------------------------------------------------------
(* What every step of the CSRF middleware and of the browser preserves: the *)
(* types, and CsrfInv, from which it follows that only a page in doubt is   *)
(* refused.                                                                 *)

\* Every process accepts the cookie, all requests under way carry it, and no
\* response brings another: a new page would get its token.
Calm ==
  /\ \A s \in Servers : Valid(cookie, s)
  /\ \A t \in Tabs : /\ wire[t].pc = "sent" => wire[t].sent = cookie
                     /\ wire[t].set = NoCookie

\* A page that was sent for while all was settled has the token of the cookie.
PageFits(t) == page[t].token # NoToken /\ ~page[t].doubt => Calm /\ page[t].token = cookie.token

LoadFits(t) ==
  wire[t].kind = "load" /\ ~wire[t].doubt =>
    /\ wire[t].pc # "idle" => Calm
    /\ wire[t].pc \notin {"idle", "sent"} => wire[t].token = cookie.token

PostFits(t) ==
  wire[t].kind # "load" /\ wire[t].pc = "sent" /\ ~wire[t].doubt =>
    Calm /\ wire[t].head = cookie.token /\ wire[t].head # NoToken

CsrfInv ==
  /\ configured => \A s \in Servers : secret[s] = 1
  /\ \A t \in Tabs : PageFits(t) /\ LoadFits(t) /\ PostFits(t)

\* A handler goes on with the request of tab t.
Handle(t, from, to) ==
  /\ wire[t].pc = from /\ from \in {"handler", "list", "mail"} /\ to \in {"list", "mail", "answered"}
  /\ wire' = [wire EXCEPT ![t].pc = to]
  /\ UNCHANGED <<configured, secret, secrets, tokens, cookie, page>>

-----------------------------------------------------------------------------
(* Types.                                                                   *)

LEMMA NoCookieType == NoCookie \in Cookie /\ NoCookie.by = 0 /\ NoCookie.token = 0
  BY DEF Cookie, NoCookie, NoToken

LEMMA CookieType ==
  ASSUME NEW c \in Cookie
  PROVE  c.by \in Nat /\ c.token \in Token
  BY CsrfConstants DEF Cookie, NoCookie, NoToken, Token

LEMMA QuietType ==
  /\ Quiet \in Wire
  /\ Quiet.pc = "idle" /\ Quiet.kind = "load" /\ Quiet.set = NoCookie
<1>1. (CHOOSE s \in Servers : TRUE) \in Servers
  BY CsrfConstants
<1>2. "load" \in Kinds /\ NoToken \in Token
  BY CsrfConstants DEF NoToken, Token
<1> QED
  BY <1>1, <1>2, NoCookieType DEF Quiet, Wire, Places

LEMMA InitType == ASSUME CsrfInit PROVE CsrfTypeOK
<1>1. Cardinality(Servers) \in Nat
  BY FS_CardinalityType, CsrfConstants
<1>2. Cardinality(Servers) # 0
  BY FS_EmptySet, CsrfConstants
<1>3. secrets \in 1..MaxSecret
  BY <1>1, <1>2, CsrfConstants DEF CsrfInit
<1>4. secret \in [Servers -> 1..MaxSecret]
  BY <1>3, CsrfConstants DEF CsrfInit
<1>5. page \in [Tabs -> Page]
  BY CsrfConstants DEF CsrfInit, Page, Token, NoToken
<1>6. wire \in [Tabs -> Wire]
  BY QuietType DEF CsrfInit
<1>7. tokens \in Token /\ cookie \in Cookie
  BY NoCookieType, CsrfConstants DEF CsrfInit, Token
<1>8. configured \in BOOLEAN
  BY DEF CsrfInit
<1> QED
  BY <1>3, <1>4, <1>5, <1>6, <1>7, <1>8 DEF CsrfTypeOK

\* The request that is sent.
LEMMA SendStep ==
  ASSUME CsrfTypeOK, NEW t \in Tabs, NEW kind \in Kinds, Send(t, kind)
  PROVE  \E q \in Wire :
           /\ wire' = [wire EXCEPT ![t] = q]
           /\ q.pc = "sent" /\ q.kind = kind /\ q.sent = cookie /\ q.set = NoCookie
           /\ q.doubt = (IF kind = "load" THEN ~Settled(t) ELSE page[t].doubt)
           /\ kind # "load" => q.head = page[t].token
<1> DEFINE d == IF kind = "load" THEN ~Settled(t) ELSE page[t].doubt
           h == IF kind = "load" THEN NoToken ELSE page[t].token
           q == [Quiet EXCEPT !.pc = "sent", !.kind = kind, !.sent = cookie, !.head = h, !.doubt = d]
<1>1. wire' = [wire EXCEPT ![t] = q]
  BY DEF Send
<1>2. d \in BOOLEAN
  BY DEF CsrfTypeOK, Page, Settled
<1>3. h \in Token
  BY CsrfConstants DEF CsrfTypeOK, Page, Token, NoToken
<1>4. cookie \in Cookie
  BY DEF CsrfTypeOK
<1>5. kind # "load" => h = page[t].token
  OBVIOUS
<1>6. d = (IF kind = "load" THEN ~Settled(t) ELSE page[t].doubt)
  OBVIOUS
<1> HIDE DEF d, h
<1>7. /\ q \in Wire
      /\ q.pc = "sent" /\ q.kind = kind /\ q.sent = cookie /\ q.head = h /\ q.doubt = d
      /\ q.set = Quiet.set
  BY <1>2, <1>3, <1>4, QuietType DEF Wire, Places
<1> HIDE DEF q
<1> QED
  BY <1>1, <1>5, <1>6, <1>7, QuietType

LEMMA SendType ==
  ASSUME CsrfTypeOK, NEW t \in Tabs, NEW kind \in Kinds, Send(t, kind)
  PROVE  CsrfTypeOK'
<1>1. PICK q \in Wire : wire' = [wire EXCEPT ![t] = q]
  BY SendStep
<1>2. UNCHANGED <<configured, secret, secrets, tokens, cookie, page>>
  BY DEF Send
<1> QED
  BY <1>1, <1>2 DEF CsrfTypeOK

\* The token a request comes to, and the response that is begun.
LEMMA CheckStep ==
  ASSUME CsrfTypeOK, NEW t \in Tabs, NEW s \in Servers, Check(t, s)
  PROVE  \E q \in Wire :
           /\ wire' = [wire EXCEPT ![t] = q]
           /\ q.pc \in {"refused", "handler"} /\ q.kind = wire[t].kind
           /\ q.kind = "load" => q.doubt = wire[t].doubt
           /\ Valid(wire[t].sent, s) =>
                /\ q.set = NoCookie
                /\ q.kind = "load" => q.token = wire[t].sent.token
                /\ q.pc = "refused" => \/ wire[t].head = NoToken
                                       \/ wire[t].head # wire[t].sent.token
           /\ tokens' \in Token
<1> DEFINE r == wire[t]
           kept == KeepsToken(r, s)
           token == IF kept THEN r.sent.token ELSE tokens + 1
           refused == r.kind \in Mutating /\ (r.head = NoToken \/ r.head # token)
           pc == IF refused THEN "refused" ELSE "handler"
           tk == IF r.kind = "load" THEN token ELSE NoToken
           d == r.kind = "load" /\ r.doubt
           set == IF kept THEN NoCookie ELSE [by |-> secret[s], token |-> token]
           q == [Quiet EXCEPT !.pc = pc, !.kind = r.kind, !.server = s, !.token = tk,
                              !.doubt = d, !.set = set]
<1>1. wire' = [wire EXCEPT ![t] = q]
  BY DEF Check
<1>2. r \in Wire
  BY DEF CsrfTypeOK
<1>3. kept \/ (tokens + 1 \in 1..MaxToken)
  BY CsrfConstants DEF Check, CsrfTypeOK, Token
<1>4. token \in Token
  <2>1. CASE kept
    <3>1. r.sent \in Cookie
      BY <1>2 DEF Wire
    <3> QED
      BY <2>1, <3>1, CookieType
  <2>2. CASE ~kept
    BY <2>2, <1>3, CsrfConstants DEF Token
  <2> QED
    BY <2>1, <2>2
<1>5. tk \in Token
  BY <1>4, CsrfConstants DEF Token, NoToken
<1>6. set \in Cookie
  <2>1. CASE kept
    BY <2>1, NoCookieType
  <2>2. CASE ~kept
    BY <2>2, <1>3 DEF CsrfTypeOK, Cookie
  <2> QED
    BY <2>1, <2>2
<1>7. tokens' \in Token
  <2>1. CASE kept
    BY <2>1 DEF Check, CsrfTypeOK
  <2>2. CASE ~kept
    BY <2>2, <1>3, CsrfConstants DEF Check, Token
  <2> QED
    BY <2>1, <2>2
<1>8. pc \in {"refused", "handler"} /\ d \in BOOLEAN
  BY <1>2 DEF Wire
<1>9. r.kind \in Kinds
  BY <1>2 DEF Wire
<1>10. r.kind = "load" => d = r.doubt /\ tk = token
  BY <1>2 DEF Wire
<1>11. Valid(r.sent, s) => /\ set = NoCookie /\ token = r.sent.token
                           /\ pc = "refused" => r.head = NoToken \/ r.head # r.sent.token
  BY DEF KeepsToken
<1> HIDE DEF pc, tk, d, set, token, kept, refused
<1>12. /\ q \in Wire
       /\ q.pc = pc /\ q.kind = r.kind /\ q.token = tk /\ q.doubt = d /\ q.set = set
  BY <1>5, <1>6, <1>8, <1>9, QuietType DEF Wire, Places
<1> HIDE DEF q
<1> QED
  BY <1>1, <1>7, <1>8, <1>10, <1>11, <1>12

LEMMA CheckType ==
  ASSUME CsrfTypeOK, NEW t \in Tabs, NEW s \in Servers, Check(t, s)
  PROVE  CsrfTypeOK'
<1>1. PICK q \in Wire : wire' = [wire EXCEPT ![t] = q] /\ tokens' \in Token
  BY CheckStep
<1>2. UNCHANGED <<configured, secret, secrets, cookie, page>>
  BY DEF Check
<1> QED
  BY <1>1, <1>2 DEF CsrfTypeOK

LEMMA ReceiveType ==
  ASSUME CsrfTypeOK, NEW t \in Tabs, Receive(t)
  PROVE  CsrfTypeOK'
<1>1. wire[t] \in Wire
  BY DEF CsrfTypeOK
<1>2. wire' \in [Tabs -> Wire]
  BY QuietType DEF CsrfTypeOK, Receive
<1>3. cookie' \in Cookie
  BY <1>1 DEF CsrfTypeOK, Receive, Wire
<1>4. [token |-> wire[t].token, doubt |-> wire[t].doubt] \in Page
  BY <1>1 DEF Wire, Page
<1>5. page' \in [Tabs -> Page]
  BY <1>4 DEF CsrfTypeOK, Receive
<1> QED
  BY <1>2, <1>3, <1>5 DEF CsrfTypeOK, Receive

LEMMA LoseType ==
  ASSUME CsrfTypeOK, NEW t \in Tabs, Lose(t)
  PROVE  CsrfTypeOK'
<1>1. wire' \in [Tabs -> Wire]
  BY QuietType DEF CsrfTypeOK, Lose
<1> QED
  BY <1>1 DEF CsrfTypeOK, Lose

\* What becomes of a request, and of a page, when a process is replaced.
LEMMA RestartStep ==
  ASSUME CsrfTypeOK, NEW s \in Servers, Restart(s), NEW t \in Tabs
  PROVE  /\ wire'[t] \in Wire
         /\ \/ wire'[t] = Quiet
            \/ /\ wire[t].pc \in {"idle", "sent"} \/ wire[t].server # s
               /\ IF ~configured /\ (wire[t].pc = "sent" \/ (wire[t].pc # "idle" /\ wire[t].kind = "load"))
                    THEN wire'[t] = InDoubt(wire[t]) ELSE wire'[t] = wire[t]
         /\ page'[t] \in Page
         /\ ~configured => page'[t].doubt
<1>1. wire[t] \in Wire /\ page[t] \in Page
  BY DEF CsrfTypeOK
<1>2. InDoubt(wire[t]) \in Wire
  BY <1>1 DEF InDoubt, Wire
<1>3. InDoubt(page[t]) \in Page /\ InDoubt(page[t]).doubt
  BY <1>1 DEF InDoubt, Page
<1> QED
  BY <1>1, <1>2, <1>3, QuietType DEF Restart

LEMMA RestartType ==
  ASSUME CsrfTypeOK, NEW s \in Servers, Restart(s)
  PROVE  CsrfTypeOK'
<1>1. \A t \in Tabs : wire'[t] \in Wire /\ page'[t] \in Page
  BY RestartStep
<1>2. wire' \in [Tabs -> Wire]
  BY <1>1 DEF Restart
<1>3. page' \in [Tabs -> Page]
  BY <1>1 DEF Restart, CsrfTypeOK
<1>4. SecretOfProcess \in 1..MaxSecret
  BY CsrfConstants DEF Restart, SecretOfProcess, CsrfTypeOK
<1>5. secret' \in [Servers -> 1..MaxSecret] /\ secrets' \in 1..MaxSecret
  BY <1>4 DEF Restart, CsrfTypeOK
<1> QED
  BY <1>2, <1>3, <1>5 DEF CsrfTypeOK, Restart

LEMMA HandleType ==
  ASSUME CsrfTypeOK, NEW t \in Tabs, NEW from, NEW to, Handle(t, from, to)
  PROVE  CsrfTypeOK'
<1>1. wire' \in [Tabs -> Wire]
  BY DEF CsrfTypeOK, Handle, Wire, Places
<1> QED
  BY <1>1 DEF CsrfTypeOK, Handle

-----------------------------------------------------------------------------
(* CsrfInv.  A step after which all is calm, with the cookie it was calm    *)
(* with, leaves every other tab what it has; what remains is the tab t that *)
(* moves.                                                                   *)

LEMMA InvInit == ASSUME CsrfInit PROVE CsrfInv
<1>1. configured => secrets = 1
  BY DEF CsrfInit
<1>2. configured => \A s \in Servers : secret[s] = 1
  BY <1>1 DEF CsrfInit
<1>3. \A t \in Tabs : PageFits(t) /\ LoadFits(t) /\ PostFits(t)
  BY QuietType DEF CsrfInit, PageFits, LoadFits, PostFits
<1> QED
  BY <1>2, <1>3 DEF CsrfInv

LEMMA OthersKeep ==
  ASSUME CsrfTypeOK, CsrfInv, NEW t \in Tabs, NEW q, wire' = [wire EXCEPT ![t] = q],
         \A o \in Tabs \ {t} : page'[o] = page[o],
         Calm => Calm' /\ cookie' = cookie,
         NEW o \in Tabs \ {t}
  PROVE  PageFits(o)' /\ LoadFits(o)' /\ PostFits(o)'
<1>1. wire'[o] = wire[o] /\ page'[o] = page[o]
  BY DEF CsrfTypeOK
<1>2. PageFits(o) /\ LoadFits(o) /\ PostFits(o)
  BY DEF CsrfInv
<1>3. PageFits(o)'
  BY <1>1, <1>2 DEF PageFits
<1>4. LoadFits(o)'
  BY <1>1, <1>2 DEF LoadFits
<1>5. PostFits(o)'
  BY <1>1, <1>2 DEF PostFits
<1> QED
  BY <1>3, <1>4, <1>5

LEMMA SendInv ==
  ASSUME CsrfTypeOK, CsrfInv, NEW t \in Tabs, NEW kind \in Kinds, Send(t, kind)
  PROVE  CsrfInv'
<1>1. PICK q \in Wire :
        /\ wire' = [wire EXCEPT ![t] = q]
        /\ q.pc = "sent" /\ q.kind = kind /\ q.sent = cookie /\ q.set = NoCookie
        /\ q.doubt = (IF kind = "load" THEN ~Settled(t) ELSE page[t].doubt)
        /\ kind # "load" => q.head = page[t].token
  BY SendStep
<1>2. UNCHANGED <<configured, secret, cookie, page>>
  BY DEF Send
<1>3. wire'[t] = q /\ \A o \in Tabs \ {t} : wire'[o] = wire[o]
  BY <1>1 DEF CsrfTypeOK
<1>4. Calm => Calm' /\ cookie' = cookie
  BY <1>1, <1>2, <1>3 DEF Calm, Valid
<1>5. Settled(t) => Calm'
  BY <1>1, <1>2, <1>3 DEF Calm, Settled, Valid
<1>6. PageFits(t) /\ (kind # "load" => page[t].token # NoToken)
  BY DEF CsrfInv, Send
<1>7. PageFits(t)'
  BY <1>2, <1>4, <1>6 DEF PageFits
<1>8. LoadFits(t)'
  BY <1>1, <1>3, <1>5 DEF LoadFits
<1>9. PostFits(t)'
  BY <1>1, <1>2, <1>3, <1>4, <1>6 DEF PostFits, PageFits
<1>10. \A o \in Tabs \ {t} : PageFits(o)' /\ LoadFits(o)' /\ PostFits(o)'
  BY <1>1, <1>2, <1>4, OthersKeep
<1> QED
  BY <1>2, <1>7, <1>8, <1>9, <1>10 DEF CsrfInv

LEMMA CheckInv ==
  ASSUME CsrfTypeOK, CsrfInv, NEW t \in Tabs, NEW s \in Servers, Check(t, s)
  PROVE  CsrfInv'
<1>1. PICK q \in Wire :
        /\ wire' = [wire EXCEPT ![t] = q]
        /\ q.pc \in {"refused", "handler"} /\ q.kind = wire[t].kind
        /\ q.kind = "load" => q.doubt = wire[t].doubt
        /\ Valid(wire[t].sent, s) =>
             /\ q.set = NoCookie
             /\ q.kind = "load" => q.token = wire[t].sent.token
  BY CheckStep
<1>2. UNCHANGED <<configured, secret, cookie, page>> /\ wire[t].pc = "sent"
  BY DEF Check
<1>3. wire'[t] = q /\ \A o \in Tabs \ {t} : wire'[o] = wire[o]
  BY <1>1 DEF CsrfTypeOK
<1>4. Calm => Valid(wire[t].sent, s) /\ wire[t].sent = cookie
  BY <1>2 DEF Calm
<1>5. Calm => Calm' /\ cookie' = cookie
  BY <1>1, <1>2, <1>3, <1>4 DEF Calm, Valid
<1>6. PageFits(t) /\ LoadFits(t)
  BY DEF CsrfInv
<1>7. PageFits(t)'
  BY <1>2, <1>5, <1>6 DEF PageFits
<1>8. LoadFits(t)'
  BY <1>1, <1>2, <1>3, <1>4, <1>5, <1>6 DEF LoadFits
<1>9. PostFits(t)'
  BY <1>1, <1>3 DEF PostFits
<1>10. \A o \in Tabs \ {t} : PageFits(o)' /\ LoadFits(o)' /\ PostFits(o)'
  BY <1>1, <1>2, <1>5, OthersKeep
<1> QED
  BY <1>2, <1>7, <1>8, <1>9, <1>10 DEF CsrfInv

LEMMA ReceiveInv ==
  ASSUME CsrfTypeOK, CsrfInv, NEW t \in Tabs, Receive(t)
  PROVE  CsrfInv'
<1>1. wire' = [wire EXCEPT ![t] = Quiet] /\ UNCHANGED <<configured, secret>>
  BY DEF Receive
<1>2. wire'[t] = Quiet /\ \A o \in Tabs \ {t} : wire'[o] = wire[o] /\ page'[o] = page[o]
  BY DEF CsrfTypeOK, Receive
<1>3. Calm => wire[t].set = NoCookie
  BY DEF Calm
<1>4. Calm => cookie' = cookie
  BY <1>3 DEF Receive
<1>5. Calm => Calm'
  BY <1>1, <1>2, <1>4, QuietType DEF Calm, Valid
<1>6. PageFits(t) /\ LoadFits(t)
  BY DEF CsrfInv
<1>7. PageFits(t)'
  <2>1. CASE page'[t] = page[t]
    BY <2>1, <1>4, <1>5, <1>6 DEF PageFits
  <2>2. CASE page'[t] # page[t]
    <3>1. wire[t].kind = "load" /\ wire[t].pc = "answered"
      BY <2>2 DEF Receive
    <3>2. page'[t] = [token |-> wire[t].token, doubt |-> wire[t].doubt]
      BY <3>1 DEF Receive, CsrfTypeOK
    <3> QED
      BY <3>1, <3>2, <1>4, <1>5, <1>6 DEF PageFits, LoadFits
  <2> QED
    BY <2>1, <2>2
<1>8. LoadFits(t)' /\ PostFits(t)'
  BY <1>2, QuietType DEF LoadFits, PostFits
<1>9. \A o \in Tabs \ {t} : PageFits(o)' /\ LoadFits(o)' /\ PostFits(o)'
  BY <1>1, <1>2, <1>4, <1>5, OthersKeep
<1> QED
  BY <1>1, <1>7, <1>8, <1>9 DEF CsrfInv

LEMMA LoseInv ==
  ASSUME CsrfTypeOK, CsrfInv, NEW t \in Tabs, Lose(t)
  PROVE  CsrfInv'
<1>1. wire' = [wire EXCEPT ![t] = Quiet] /\ UNCHANGED <<configured, secret, cookie, page>>
  BY DEF Lose
<1>2. wire'[t] = Quiet /\ \A o \in Tabs \ {t} : wire'[o] = wire[o]
  BY <1>1 DEF CsrfTypeOK
<1>3. Calm => Calm' /\ cookie' = cookie
  BY <1>1, <1>2, QuietType DEF Calm, Valid
<1>4. PageFits(t)'
  BY <1>1, <1>3 DEF CsrfInv, PageFits
<1>5. LoadFits(t)' /\ PostFits(t)'
  BY <1>2, QuietType DEF LoadFits, PostFits
<1>6. \A o \in Tabs \ {t} : PageFits(o)' /\ LoadFits(o)' /\ PostFits(o)'
  BY <1>1, <1>3, OthersKeep
<1> QED
  BY <1>1, <1>4, <1>5, <1>6 DEF CsrfInv

LEMMA HandleInv ==
  ASSUME CsrfTypeOK, CsrfInv, NEW t \in Tabs, NEW from, NEW to, Handle(t, from, to)
  PROVE  CsrfInv'
<1> DEFINE q == [wire[t] EXCEPT !.pc = to]
<1>1. wire' = [wire EXCEPT ![t] = q] /\ UNCHANGED <<configured, secret, cookie, page>>
  BY DEF Handle
<1>2. wire[t] \in Wire /\ wire[t].pc = from /\ from \notin {"idle", "sent"} /\ to \notin {"idle", "sent"}
  BY DEF Handle, CsrfTypeOK
<1>3. /\ q.pc = to /\ q.kind = wire[t].kind /\ q.doubt = wire[t].doubt
      /\ q.token = wire[t].token /\ q.set = wire[t].set
  BY <1>2 DEF Wire
<1> HIDE DEF q
<1>4. wire'[t] = q /\ \A o \in Tabs \ {t} : wire'[o] = wire[o]
  BY <1>1 DEF CsrfTypeOK
<1>5. Calm => Calm' /\ cookie' = cookie
  BY <1>1, <1>2, <1>3, <1>4 DEF Calm, Valid
<1>6. PageFits(t) /\ LoadFits(t)
  BY DEF CsrfInv
<1>7. PageFits(t)' /\ LoadFits(t)'
  BY <1>1, <1>2, <1>3, <1>4, <1>5, <1>6 DEF PageFits, LoadFits
<1>8. PostFits(t)'
  BY <1>2, <1>3, <1>4 DEF PostFits
<1>9. \A o \in Tabs \ {t} : PageFits(o)' /\ LoadFits(o)' /\ PostFits(o)'
  BY <1>1, <1>5, OthersKeep
<1> QED
  BY <1>1, <1>7, <1>8, <1>9 DEF CsrfInv

\* With a configured secret nothing changes but the requests that break off;
\* without one everything is in doubt.
LEMMA RestartInv ==
  ASSUME CsrfTypeOK, CsrfInv, NEW s \in Servers, Restart(s)
  PROVE  CsrfInv'
<1>1. UNCHANGED <<configured, cookie>>
  BY DEF Restart
<1>2. CASE configured
  <2>1. page' = page
    BY <1>2 DEF Restart
  <2>2. \A r \in Servers : secret[r] = 1 /\ secret'[r] = 1
    BY <1>2 DEF Restart, CsrfInv, SecretOfProcess, CsrfTypeOK
  <2>3. \A t \in Tabs : wire'[t] \in {Quiet, wire[t]}
    BY <1>2, RestartStep
  <2>4. Calm => Calm'
    BY <1>1, <2>2, <2>3, QuietType DEF Calm, Valid
  <2>5. ASSUME NEW t \in Tabs
        PROVE  PageFits(t)' /\ LoadFits(t)' /\ PostFits(t)'
    <3>1. PageFits(t) /\ LoadFits(t) /\ PostFits(t)
      BY DEF CsrfInv
    <3>2. PageFits(t)'
      BY <1>1, <2>1, <2>4, <3>1 DEF PageFits
    <3>3. wire'[t] = Quiet \/ wire'[t] = wire[t]
      BY <2>3
    <3>4. LoadFits(t)'
      BY <1>1, <2>4, <3>1, <3>3, QuietType DEF LoadFits
    <3>5. PostFits(t)'
      BY <1>1, <2>4, <3>1, <3>3, QuietType DEF PostFits
    <3> QED
      BY <3>2, <3>4, <3>5
  <2> QED
    BY <1>1, <2>2, <2>5 DEF CsrfInv
<1>3. CASE ~configured
  <2>1. ASSUME NEW t \in Tabs
        PROVE  PageFits(t)' /\ LoadFits(t)' /\ PostFits(t)'
    <3>1. page'[t].doubt
      BY <1>3, RestartStep
    <3>2. wire[t] \in Wire
      BY DEF CsrfTypeOK
    <3>3. InDoubt(wire[t]).doubt
      BY <3>2 DEF InDoubt, Wire
    <3>4. \/ wire'[t] = Quiet
          \/ wire'[t].doubt
          \/ wire'[t] = wire[t] /\ wire[t].pc # "sent" /\ (wire[t].pc = "idle" \/ wire[t].kind # "load")
      BY <1>3, <3>3, RestartStep
    <3>5. LoadFits(t)' /\ PostFits(t)'
      BY <3>4, QuietType DEF LoadFits, PostFits
    <3> QED
      BY <3>1, <3>5 DEF PageFits
  <2> QED
    BY <1>1, <1>3, <2>1 DEF CsrfInv
<1> QED
  BY <1>2, <1>3

\* The middleware refuses no page that is not in doubt.
LEMMA RefusedInDoubt ==
  ASSUME CsrfTypeOK, CsrfInv, NEW t \in Tabs, NEW s \in Servers, Check(t, s),
         wire'[t].pc = "refused"
  PROVE  wire[t].doubt
<1>1. PICK q \in Wire :
        /\ wire' = [wire EXCEPT ![t] = q]
        /\ Valid(wire[t].sent, s) /\ q.pc = "refused"
             => wire[t].head = NoToken \/ wire[t].head # wire[t].sent.token
  BY CheckStep
<1>2. q.pc = "refused"
  BY <1>1 DEF CsrfTypeOK
<1>3. wire[t].pc = "sent" /\ wire[t].kind # "load"
  BY <1>1, <1>2, QuietType, CsrfConstants DEF Check, CsrfTypeOK, Wire
<1>4. SUFFICES ASSUME ~wire[t].doubt PROVE FALSE
  OBVIOUS
<1>5. Calm /\ wire[t].head = cookie.token /\ wire[t].head # NoToken
  BY <1>3, <1>4 DEF CsrfInv, PostFits
<1>6. Valid(wire[t].sent, s) /\ wire[t].sent = cookie
  BY <1>3, <1>5 DEF Calm
<1> QED
  BY <1>1, <1>2, <1>5, <1>6

-----------------------------------------------------------------------------
(* The page: its types, its tabs, the rounds of reminders.                  *)

\* The accounts a round would write to, and how many there are.
Below(type, row, acc) ==
  {u \in Users : acc[u].active /\ acc[u].balance < ThresholdOfRound(type, row)}
Due(type, row, acc) == Cardinality(Below(type, row, acc))

\* What ListActiveUsersWithBalance returns.
Listing(acc) == {[user |-> u, balance |-> acc[u].balance] : u \in {v \in Users : acc[v].active}}

\* A question is up to date, or known not to be.
ModalOK(m, row, acc) == m.count \notin {0, Changed} => m.count = Due(m.type, row, acc)

\* The same of a question that is being prepared.
AskOK(q, w, row, acc) ==
  q.kind = "modal" =>
    /\ q.pc = "list" /\ w.fresh => w.row = row
    /\ q.pc = "answered" /\ w.count \notin {0, Changed} => w.count = Due(w.type, row, acc)

\* A round that has not failed: the number that was confirmed is still to be
\* found, and then is what has been and what remains to be tried.
RoundOK(q, w, row, acc) ==
  /\ q.kind = "remind" /\ q.pc \in {"sent", "handler", "list", "mail"} => ~w.error
  /\ q.kind = "remind" /\ q.pc \notin {"idle", "refused"} /\ ~w.error =>
       /\ w.count # 0
       /\ q.pc = "answered" => w.todo = {}
       /\ w.count # Changed =>
            /\ q.pc \in {"sent", "handler", "list"} => w.count = Due(w.type, row, acc)
            /\ q.pc = "list" => w.list = Listing(acc)
            /\ q.pc \in {"mail", "answered"} => Cardinality(w.todo) + w.ok + w.failed = w.count

\* No user is tried twice, and a mail counted as sent was taken.
CountsOK(w) ==
  /\ Cardinality(w.todo) + w.ok + w.failed <= Cardinality(Users)
  /\ w.ok <= w.got /\ w.got <= w.ok + w.failed

TabOK(q, w, m, row, acc) ==
  ModalOK(m, row, acc) /\ AskOK(q, w, row, acc) /\ RoundOK(q, w, row, acc) /\ CountsOK(w)

PageInv ==
  /\ TypeOK /\ CsrfInv
  /\ \A t \in Tabs : TabOK(wire[t], work[t], modal[t], settings, account)

-----------------------------------------------------------------------------
(* Amounts.                                                                 *)

LEMMA AmountType == ASSUME NEW c \in Int PROVE CentsToEuros(c) \in Amount
<1>1. Abs(c) \in Nat
  BY DEF Abs
<1>2. Abs(c) \div 100 \in Nat /\ Abs(c) % 100 \in 0..99
  BY <1>1
<1> QED
  BY <1>2 DEF CentsToEuros, Amount

LEMMA ParseType == ASSUME NEW a \in Amount PROVE ParseEuroToCents(a) \in Int
  BY DEF ParseEuroToCents, Amount

\* Every amount, negative and below one euro too, comes back as it was.
LEMMA RoundTrip == ASSUME NEW c \in Int PROVE ParseEuroToCents(CentsToEuros(c)) = c
<1>1. Abs(c) \in Nat
  BY DEF Abs
<1>2. (Abs(c) \div 100) * 100 + (Abs(c) % 100) = Abs(c)
  BY <1>1
<1> DEFINE a == CentsToEuros(c)
<1>3. a.minus = (c < 0) /\ a.euros = Abs(c) \div 100 /\ a.cents = Abs(c) % 100
  BY DEF CentsToEuros
<1>4. a.euros * 100 + a.cents = Abs(c)
  BY <1>2, <1>3
<1> HIDE DEF a
<1>5. ParseEuroToCents(a) = IF c < 0 THEN -Abs(c) ELSE Abs(c)
  BY <1>3, <1>4 DEF ParseEuroToCents
<1>6. (IF c < 0 THEN -Abs(c) ELSE Abs(c)) = c
  BY DEF Abs
<1>7. ParseEuroToCents(a) = c
  BY <1>5, <1>6
<1> QED
  BY <1>7 DEF a

LEMMA FormType == ASSUME NEW row \in Settings PROVE FormOf(row) \in Text
<1>1. row.warning \in Int /\ row.hard \in Int /\ row.template \in Templates
  BY DEF Settings
<1>2. CentsToEuros(row.warning) \in Amount /\ CentsToEuros(row.hard) \in Amount
  BY <1>1, AmountType
<1> QED
  BY <1>1, <1>2 DEF FormOf, Text

LEMMA RowType == ASSUME NEW text \in Text PROVE RowOf(text) \in Settings
  BY ParseType DEF RowOf, Text, Settings

\* The form that is sent back untouched.
LEMMA FormRoundTrip == ASSUME NEW row \in Settings PROVE RowOf(FormOf(row)) = row /\ FormOf(row).valid
  BY RoundTrip DEF RowOf, FormOf, Settings

-----------------------------------------------------------------------------
(* Types.                                                                   *)

LEMMA CountsType ==
  /\ Cardinality(Users) \in Nat /\ 0 \in Counts /\ Changed \in Counts
  /\ \A n \in Counts : Stale(n) \in {0, Changed} /\ (n # 0 => Stale(n) = Changed)
<1>1. Cardinality(Users) \in Nat
  BY FS_CardinalityType, SettingsPageConstants
<1> QED
  BY <1>1 DEF Counts, Changed, Stale

LEMMA NoWorkType ==
  /\ NoWork \in Work
  /\ NoWork.count = 0 /\ NoWork.todo = {} /\ NoWork.ok = 0 /\ NoWork.failed = 0
  /\ NoWork.got = 0 /\ ~NoWork.error /\ ~NoWork.fresh
<1>1. NoText \in Text
  BY DEF NoText, Text, Zero, Amount, Templates
<1> QED
  BY <1>1, CountsType, SettingsPageConstants DEF NoWork, Work, Types

LEMMA NoModalType == NoModal \in Modal /\ NoModal.count = 0
  BY CountsType DEF NoModal, Modal, Types

LEMMA BelowType ==
  ASSUME NEW type, NEW row, NEW acc
  PROVE  Due(type, row, acc) \in Counts /\ Due(type, row, acc) \in Nat
<1>1. Below(type, row, acc) \subseteq Users
  BY DEF Below
<1>2. IsFiniteSet(Below(type, row, acc))
  BY <1>1, FS_Subset, SettingsPageConstants
<1>3. Cardinality(Below(type, row, acc)) <= Cardinality(Users)
  BY <1>1, FS_Subset, SettingsPageConstants
<1>4. Cardinality(Below(type, row, acc)) \in Nat
  BY <1>2, FS_CardinalityType
<1> QED
  BY <1>3, <1>4, CountsType DEF Due, Counts, Changed

LEMMA NoCounts == CountsOK(NoWork)
  BY NoWorkType, FS_EmptySet, CountsType DEF CountsOK

\* Whoever is neither busy nor asked is all right.
LEMMA QuietOK ==
  ASSUME NEW row, NEW acc
  PROVE  /\ ModalOK(NoModal, row, acc)
         /\ \A w : AskOK(Quiet, w, row, acc) /\ RoundOK(Quiet, w, row, acc)
  BY NoModalType, QuietType DEF ModalOK, AskOK, RoundOK

LEMMA PageInvInit == ASSUME Init PROVE PageInv
<1>1. CsrfTypeOK /\ CsrfInv
  BY InitType, InvInit DEF Init
<1>2. /\ settings \in Settings /\ account \in [Users -> Accounts] /\ form \in [Tabs -> Settings]
      /\ modal \in [Tabs -> Modal] /\ work \in [Tabs -> Work]
  BY SettingsPageConstants, NoModalType, NoWorkType DEF Init
<1>3. \A t \in Tabs : wire[t] = Quiet /\ work[t] = NoWork /\ modal[t] = NoModal
  BY DEF Init, CsrfInit
<1>4. \A t \in Tabs : TabOK(wire[t], work[t], modal[t], settings, account)
  BY <1>3, QuietOK, NoCounts DEF TabOK
<1>5. \A t \in Tabs : work[t].ok + work[t].failed <= Cardinality(Users)
  BY <1>3, NoWorkType, CountsType
<1> QED
  BY <1>1, <1>2, <1>4, <1>5 DEF PageInv, TypeOK

-----------------------------------------------------------------------------
(* Steps that concern one tab.                                              *)

LEMMA CountsBound ==
  ASSUME NEW w \in Work, CountsOK(w)
  PROVE  w.ok + w.failed <= Cardinality(Users)
<1>1. w.todo \subseteq Users
  BY DEF Work
<1>2. Cardinality(w.todo) \in Nat
  BY <1>1, FS_Subset, FS_CardinalityType, SettingsPageConstants
<1>3. w.ok \in Nat /\ w.failed \in Nat /\ Cardinality(Users) \in Nat
  BY CountsType DEF Work
<1> QED
  BY <1>2, <1>3 DEF CountsOK

LEMMA TabMoves ==
  ASSUME PageInv, CsrfTypeOK', CsrfInv', UNCHANGED <<settings, account>>,
         form' \in [Tabs -> Settings], modal' \in [Tabs -> Modal], work' \in [Tabs -> Work],
         NEW t \in Tabs,
         \A o \in Tabs \ {t} : wire'[o] = wire[o] /\ work'[o] = work[o] /\ modal'[o] = modal[o],
         TabOK(wire'[t], work'[t], modal'[t], settings, account)
  PROVE  PageInv'
<1>1. \A o \in Tabs : TabOK(wire'[o], work'[o], modal'[o], settings', account')
  BY DEF PageInv
<1>2. \A o \in Tabs : work'[o].ok + work'[o].failed <= Cardinality(Users)
  BY <1>1, CountsBound DEF TabOK
<1>3. TypeOK'
  BY <1>2 DEF PageInv, TypeOK
<1> QED
  BY <1>1, <1>3 DEF PageInv

\* Sending a request.
LEMMA RequestMoves ==
  ASSUME PageInv, NEW t \in Tabs, NEW kind \in Kinds, NEW w \in Work, Request(t, kind, w),
         CountsOK(w),
         kind = "remind" => ~w.error /\ w.count # 0 /\ (w.count # Changed => w.count = Due(w.type, settings, account))
  PROVE  PageInv'
<1>1. CsrfTypeOK /\ CsrfInv /\ Send(t, kind)
  BY DEF PageInv, TypeOK, Request
<1>2. PICK q \in Wire : wire' = [wire EXCEPT ![t] = q] /\ q.pc = "sent" /\ q.kind = kind
  BY <1>1, SendStep
<1>3. CsrfTypeOK' /\ CsrfInv'
  BY <1>1, SendType, SendInv
<1>4. wire'[t] = q /\ \A o \in Tabs \ {t} : wire'[o] = wire[o]
  BY <1>1, <1>2 DEF CsrfTypeOK
<1>5. UNCHANGED <<settings, account, form, modal>> /\ work' = [work EXCEPT ![t] = w]
  BY DEF Request
<1>6. /\ work' \in [Tabs -> Work] /\ form' \in [Tabs -> Settings] /\ modal' \in [Tabs -> Modal]
      /\ work'[t] = w /\ \A o \in Tabs \ {t} : work'[o] = work[o]
  BY <1>5 DEF PageInv, TypeOK
<1>7. ModalOK(modal'[t], settings, account)
  BY <1>5 DEF PageInv, TabOK
<1>8. AskOK(q, w, settings, account) /\ RoundOK(q, w, settings, account)
  BY <1>2 DEF AskOK, RoundOK
<1>9. TabOK(wire'[t], work'[t], modal'[t], settings, account)
  BY <1>4, <1>6, <1>7, <1>8 DEF TabOK
<1> QED
  BY <1>3, <1>4, <1>5, <1>6, <1>9, TabMoves

LEMMA OpenPageMoves == ASSUME PageInv, NEW t \in Tabs, OpenPage(t) PROVE PageInv'
  BY RequestMoves, NoWorkType, NoCounts, SettingsPageConstants DEF OpenPage

LEMMA SubmitMoves == ASSUME PageInv, NEW t \in Tabs, Submit(t) PROVE PageInv'
<1>1. PICK text \in {FormOf(form[t])} \cup Edits : Request(t, "save", [NoWork EXCEPT !.text = text])
  BY DEF Submit
<1>2. text \in Text
  BY FormType, SettingsPageConstants DEF PageInv, TypeOK
<1> DEFINE w == [NoWork EXCEPT !.text = text]
<1>3. w \in Work /\ w.todo = {} /\ w.ok = 0 /\ w.failed = 0 /\ w.got = 0
  BY <1>2, NoWorkType DEF Work
<1>4. Request(t, "save", w)
  BY <1>1
<1> HIDE DEF w
<1>5. CountsOK(w)
  BY <1>3, FS_EmptySet, CountsType DEF CountsOK
<1> QED
  BY <1>3, <1>4, <1>5, RequestMoves, SettingsPageConstants

LEMMA AskMoves == ASSUME PageInv, NEW t \in Tabs, AskReminders(t) PROVE PageInv'
<1>1. PICK type \in Types : Request(t, "modal", [NoWork EXCEPT !.type = type])
  BY DEF AskReminders
<1> DEFINE w == [NoWork EXCEPT !.type = type]
<1>2. w \in Work /\ w.todo = {} /\ w.ok = 0 /\ w.failed = 0 /\ w.got = 0
  BY <1>1, NoWorkType DEF Work
<1>3. Request(t, "modal", w)
  BY <1>1
<1> HIDE DEF w
<1>4. CountsOK(w)
  BY <1>2, FS_EmptySet, CountsType DEF CountsOK
<1> QED
  BY <1>2, <1>3, <1>4, RequestMoves, SettingsPageConstants

LEMMA ConfirmMoves == ASSUME PageInv, NEW t \in Tabs, ConfirmReminders(t) PROVE PageInv'
<1>1. modal[t] \in Modal /\ modal[t].count # 0 /\ ModalOK(modal[t], settings, account)
  BY DEF ConfirmReminders, PageInv, TypeOK, TabOK
<1> DEFINE w == [NoWork EXCEPT !.type = modal[t].type, !.count = modal[t].count]
<1>2. /\ w \in Work /\ w.todo = {} /\ w.ok = 0 /\ w.failed = 0 /\ w.got = 0
      /\ ~w.error /\ w.type = modal[t].type /\ w.count = modal[t].count
  BY <1>1, NoWorkType DEF Work, Modal
<1>3. Request(t, "remind", w)
  BY DEF ConfirmReminders
<1> HIDE DEF w
<1>4. CountsOK(w)
  BY <1>2, FS_EmptySet, CountsType DEF CountsOK
<1> QED
  BY <1>1, <1>2, <1>3, <1>4, RequestMoves, SettingsPageConstants DEF ModalOK

\* The response comes, or does not.
LEMMA AnsweredMoves == ASSUME PageInv, NEW t \in Tabs, Answered(t) PROVE PageInv'
<1>1. CsrfTypeOK /\ CsrfInv /\ Receive(t)
  BY DEF PageInv, TypeOK, Answered
<1>2. CsrfTypeOK' /\ CsrfInv'
  BY <1>1, ReceiveType, ReceiveInv
<1>3. wire'[t] = Quiet /\ \A o \in Tabs \ {t} : wire'[o] = wire[o]
  BY <1>1 DEF CsrfTypeOK, Receive
<1>4. /\ wire[t] \in Wire /\ work[t] \in Work /\ modal[t] \in Modal
      /\ modal \in [Tabs -> Modal] /\ work \in [Tabs -> Work] /\ form \in [Tabs -> Settings]
      /\ ModalOK(modal[t], settings, account) /\ AskOK(wire[t], work[t], settings, account)
  BY <1>1 DEF PageInv, TypeOK, CsrfTypeOK, TabOK
<1>5. UNCHANGED <<settings, account>> /\ work' = [work EXCEPT ![t] = NoWork]
  BY DEF Answered
<1>6. form' \in [Tabs -> Settings]
  <2>1. work[t].row \in Settings
    BY <1>4 DEF Work
  <2> QED
    BY <1>4, <2>1 DEF Answered
<1> DEFINE asked == IF work[t].count = 0 THEN NoModal
                    ELSE [type |-> work[t].type, count |-> work[t].count]
<1>7. asked \in Modal
  BY <1>4, NoModalType DEF Modal, Work
<1>8. \/ modal' = modal
      \/ modal' = [modal EXCEPT ![t] = NoModal]
      \/ /\ modal' = [modal EXCEPT ![t] = asked]
         /\ wire[t].kind = "modal" /\ wire[t].pc = "answered"
  BY DEF Answered
<1>9. wire[t].kind = "modal" /\ wire[t].pc = "answered" => ModalOK(asked, settings, account)
  BY <1>4, NoModalType DEF ModalOK, AskOK
<1> HIDE DEF asked
<1>10. /\ modal' \in [Tabs -> Modal]
       /\ \A o \in Tabs \ {t} : modal'[o] = modal[o]
       /\ ModalOK(modal'[t], settings, account)
  BY <1>4, <1>7, <1>8, <1>9, NoModalType, QuietOK
<1>11. /\ work' \in [Tabs -> Work] /\ work'[t] = NoWork
       /\ \A o \in Tabs \ {t} : work'[o] = work[o]
  BY <1>4, <1>5, NoWorkType
<1>12. TabOK(wire'[t], work'[t], modal'[t], settings, account)
  BY <1>3, <1>10, <1>11, QuietOK, NoCounts DEF TabOK
<1> QED
  BY <1>2, <1>3, <1>5, <1>6, <1>10, <1>11, <1>12, TabMoves

LEMMA LostMoves == ASSUME PageInv, NEW t \in Tabs, Lost(t) PROVE PageInv'
<1>1. CsrfTypeOK /\ CsrfInv /\ Lose(t)
  BY DEF PageInv, TypeOK, Lost
<1>2. CsrfTypeOK' /\ CsrfInv'
  BY <1>1, LoseType, LoseInv
<1>3. wire'[t] = Quiet /\ \A o \in Tabs \ {t} : wire'[o] = wire[o]
  BY <1>1 DEF CsrfTypeOK, Lose
<1>4. UNCHANGED <<settings, account, form, modal>> /\ work' = [work EXCEPT ![t] = NoWork]
  BY DEF Lost
<1>5. /\ work' \in [Tabs -> Work] /\ work'[t] = NoWork
      /\ \A o \in Tabs \ {t} : work'[o] = work[o]
      /\ form' \in [Tabs -> Settings] /\ modal' \in [Tabs -> Modal]
  BY <1>4, NoWorkType DEF PageInv, TypeOK
<1>6. ModalOK(modal'[t], settings, account)
  BY <1>4 DEF PageInv, TabOK
<1>7. TabOK(wire'[t], work'[t], modal'[t], settings, account)
  BY <1>3, <1>5, <1>6, QuietOK, NoCounts DEF TabOK
<1> QED
  BY <1>2, <1>3, <1>4, <1>5, <1>7, TabMoves

LEMMA MiddlewareMoves == ASSUME PageInv, NEW t \in Tabs, Middleware(t) PROVE PageInv'
<1>1. PICK s \in Servers : Check(t, s)
  BY DEF Middleware
<1>2. CsrfTypeOK /\ CsrfInv
  BY DEF PageInv, TypeOK
<1>3. PICK q \in Wire : /\ wire' = [wire EXCEPT ![t] = q]
                        /\ q.pc \in {"refused", "handler"} /\ q.kind = wire[t].kind
  BY <1>1, <1>2, CheckStep
<1>4. CsrfTypeOK' /\ CsrfInv'
  BY <1>1, <1>2, CheckType, CheckInv
<1>5. wire'[t] = q /\ \A o \in Tabs \ {t} : wire'[o] = wire[o]
  BY <1>2, <1>3 DEF CsrfTypeOK
<1>6. UNCHANGED <<settings, account, form, modal, work>>
  BY DEF Middleware
<1>7. TabOK(wire[t], work[t], modal[t], settings, account) /\ wire[t].pc = "sent"
  BY <1>1 DEF PageInv, Check
<1>8. AskOK(q, work[t], settings, account) /\ RoundOK(q, work[t], settings, account)
  BY <1>3, <1>7 DEF AskOK, RoundOK, TabOK
<1>9. TabOK(wire'[t], work'[t], modal'[t], settings, account)
  BY <1>5, <1>6, <1>7, <1>8 DEF TabOK
<1>10. form' \in [Tabs -> Settings] /\ modal' \in [Tabs -> Modal] /\ work' \in [Tabs -> Work]
  BY <1>6 DEF PageInv, TypeOK
<1> QED
  BY <1>4, <1>5, <1>6, <1>9, <1>10, TabMoves

-----------------------------------------------------------------------------
(* The handlers.                                                            *)

LEMMA StepMoves ==
  ASSUME PageInv, NEW t \in Tabs, NEW kind, NEW from, NEW to, NEW w \in Work,
         Step(t, kind, from, to, w), UNCHANGED <<settings, modal>>,
         from \in {"handler", "list", "mail"}, to \in {"list", "mail", "answered"},
         CountsOK(w),
         \A q : q.kind = kind /\ q.pc = to
                  => AskOK(q, w, settings, account) /\ RoundOK(q, w, settings, account)
  PROVE  PageInv'
<1>1. CsrfTypeOK /\ CsrfInv /\ Handle(t, from, to)
  BY DEF PageInv, TypeOK, Step, Handle
<1>2. CsrfTypeOK' /\ CsrfInv'
  BY <1>1, HandleType, HandleInv
<1>3. wire[t] \in Wire /\ wire[t].kind = kind
  BY <1>1 DEF CsrfTypeOK, Step
<1>4. wire'[t].pc = to /\ wire'[t].kind = kind
  BY <1>1, <1>3 DEF CsrfTypeOK, Handle, Wire
<1>5. \A o \in Tabs \ {t} : wire'[o] = wire[o]
  BY <1>1 DEF CsrfTypeOK, Handle
<1>6. UNCHANGED <<settings, account, form, modal>> /\ work' = [work EXCEPT ![t] = w]
  BY DEF Step
<1>7. /\ work' \in [Tabs -> Work] /\ work'[t] = w
      /\ \A o \in Tabs \ {t} : work'[o] = work[o]
      /\ form' \in [Tabs -> Settings] /\ modal' \in [Tabs -> Modal]
  BY <1>6 DEF PageInv, TypeOK
<1>8. ModalOK(modal'[t], settings, account)
  BY <1>6 DEF PageInv, TabOK
<1>9. TabOK(wire'[t], work'[t], modal'[t], settings, account)
  BY <1>4, <1>7, <1>8 DEF TabOK
<1> QED
  BY <1>2, <1>5, <1>6, <1>7, <1>9, TabMoves

LEMMA WorkFacts ==
  ASSUME PageInv, NEW t \in Tabs
  PROVE  /\ work[t] \in Work /\ CountsOK(work[t]) /\ settings \in Settings
         /\ AskOK(wire[t], work[t], settings, account)
         /\ RoundOK(wire[t], work[t], settings, account)
         /\ work[t].todo \subseteq Users /\ IsFiniteSet(work[t].todo)
         /\ Cardinality(work[t].todo) \in Nat
         /\ work[t].ok \in Nat /\ work[t].failed \in Nat /\ work[t].got \in Nat
<1>1. work[t] \in Work
  BY DEF PageInv, TypeOK
<1>2. work[t].todo \subseteq Users
  BY <1>1 DEF Work
<1>3. IsFiniteSet(work[t].todo)
  BY <1>2, FS_Subset, SettingsPageConstants
<1> QED
  BY <1>1, <1>2, <1>3, FS_CardinalityType DEF PageInv, TypeOK, TabOK, Work

LEMMA PageMoves == ASSUME PageInv, NEW t \in Tabs, AdminSettingsPage(t) PROVE PageInv'
<1> DEFINE w == [work[t] EXCEPT !.row = settings]
<1>1. /\ w \in Work /\ w.todo = work[t].todo /\ w.ok = work[t].ok
      /\ w.failed = work[t].failed /\ w.got = work[t].got
  BY WorkFacts DEF Work
<1>2. Step(t, "load", "handler", "answered", w) /\ UNCHANGED <<settings, modal>>
  BY DEF AdminSettingsPage
<1> HIDE DEF w
<1>3. CountsOK(w)
  BY <1>1, WorkFacts DEF CountsOK
<1>4. \A q : q.kind = "load" => AskOK(q, w, settings, account) /\ RoundOK(q, w, settings, account)
  BY DEF AskOK, RoundOK
<1> QED
  BY <1>1, <1>2, <1>3, <1>4, StepMoves

LEMMA ModalSettingsMoves == ASSUME PageInv, NEW t \in Tabs, ModalSettings(t) PROVE PageInv'
<1> DEFINE w == [work[t] EXCEPT !.row = settings, !.fresh = TRUE]
<1>1. /\ w \in Work /\ w.todo = work[t].todo /\ w.ok = work[t].ok
      /\ w.failed = work[t].failed /\ w.got = work[t].got /\ w.row = settings
  BY WorkFacts DEF Work
<1>2. Step(t, "modal", "handler", "list", w) /\ UNCHANGED <<settings, modal>>
  BY DEF ModalSettings
<1> HIDE DEF w
<1>3. CountsOK(w)
  BY <1>1, WorkFacts DEF CountsOK
<1>4. \A q : q.kind = "modal" /\ q.pc = "list"
               => AskOK(q, w, settings, account) /\ RoundOK(q, w, settings, account)
  BY <1>1 DEF AskOK, RoundOK
<1> QED
  BY <1>1, <1>2, <1>3, <1>4, StepMoves

\* The modal and the round agree on who is below the limit.
LEMMA SameThreshold ==
  ASSUME NEW type, NEW row
  PROVE  ThresholdOfModal(type, row) = ThresholdOfRound(type, row)
  BY DEF ThresholdOfModal, ThresholdOfRound

LEMMA ModalUsersMoves == ASSUME PageInv, NEW t \in Tabs, ModalUsers(t) PROVE PageInv'
<1> DEFINE limit == ThresholdOfModal(work[t].type, work[t].row)
           n == Cardinality({u \in Active : account[u].balance < limit})
           c == IF work[t].fresh THEN n ELSE Stale(n)
           w == [work[t] EXCEPT !.row = InitSettings, !.fresh = FALSE, !.count = c]
<1>1. n = Due(work[t].type, work[t].row, account)
  <2>1. {u \in Active : account[u].balance < limit} = Below(work[t].type, work[t].row, account)
    BY SameThreshold DEF Active, Below
  <2> QED
    BY <2>1 DEF Due
<1>2. Step(t, "modal", "list", "answered", w) /\ UNCHANGED <<settings, modal>>
  BY DEF ModalUsers
<1> HIDE DEF n
<1>3. n \in Counts
  BY <1>1, BelowType
<1>4. c \in Counts
  BY <1>3, CountsType
<1>5. work[t].fresh => work[t].row = settings
  BY <1>2, WorkFacts DEF AskOK, Step
<1>6. c \notin {0, Changed} => c = Due(work[t].type, settings, account)
  BY <1>1, <1>3, <1>5, CountsType
<1> HIDE DEF c
<1>7. /\ w \in Work /\ w.todo = work[t].todo /\ w.ok = work[t].ok
      /\ w.failed = work[t].failed /\ w.got = work[t].got
      /\ w.count = c /\ w.type = work[t].type
  BY <1>4, WorkFacts, SettingsPageConstants DEF Work
<1> HIDE DEF w
<1>8. CountsOK(w)
  BY <1>7, WorkFacts DEF CountsOK
<1>9. \A q : q.kind = "modal" /\ q.pc = "answered"
               => AskOK(q, w, settings, account) /\ RoundOK(q, w, settings, account)
  BY <1>6, <1>7 DEF AskOK, RoundOK
<1> QED
  BY <1>2, <1>7, <1>8, <1>9, StepMoves

LEMMA RoundUsersMoves == ASSUME PageInv, NEW t \in Tabs, RoundUsers(t) PROVE PageInv'
<1> DEFINE l == {[user |-> u, balance |-> account[u].balance] : u \in Active}
           w == [work[t] EXCEPT !.list = l]
<1>1. l = Listing(account)
  BY DEF Listing, Active
<1>2. l \in SUBSET [user : Users, balance : Int]
  <2>1. \A u \in Users : account[u].balance \in Int
    BY SettingsPageConstants DEF PageInv, TypeOK
  <2> QED
    BY <2>1 DEF Active
<1>3. Step(t, "remind", "handler", "list", w) /\ UNCHANGED <<settings, modal>>
  BY DEF RoundUsers
<1> HIDE DEF l
<1>4. /\ w \in Work /\ w.todo = work[t].todo /\ w.ok = work[t].ok
      /\ w.failed = work[t].failed /\ w.got = work[t].got /\ w.error = work[t].error
      /\ w.count = work[t].count /\ w.type = work[t].type /\ w.list = l
  BY <1>2, WorkFacts DEF Work
<1> HIDE DEF w
<1>5. CountsOK(w)
  BY <1>4, WorkFacts DEF CountsOK
<1>6. \A q : q.kind = "remind" /\ q.pc = "list"
               => AskOK(q, w, settings, account) /\ RoundOK(q, w, settings, account)
  BY <1>1, <1>3, <1>4, WorkFacts DEF AskOK, RoundOK, Step
<1> QED
  BY <1>3, <1>4, <1>5, <1>6, StepMoves

LEMMA RoundSettingsMoves == ASSUME PageInv, NEW t \in Tabs, RoundSettings(t) PROVE PageInv'
<1>1. CASE settings.template = "unparsable"
  <2> DEFINE w == [NoWork EXCEPT !.error = TRUE]
  <2>1. /\ w \in Work /\ w.todo = {} /\ w.ok = 0 /\ w.failed = 0 /\ w.got = 0 /\ w.error
    BY NoWorkType DEF Work
  <2>2. Step(t, "remind", "list", "answered", w) /\ UNCHANGED <<settings, modal>>
    BY <1>1 DEF RoundSettings
  <2> HIDE DEF w
  <2>3. CountsOK(w)
    BY <2>1, FS_EmptySet, CountsType DEF CountsOK
  <2>4. \A q : q.kind = "remind" /\ q.pc = "answered"
                 => AskOK(q, w, settings, account) /\ RoundOK(q, w, settings, account)
    BY <2>1 DEF AskOK, RoundOK
  <2> QED
    BY <2>1, <2>2, <2>3, <2>4, StepMoves
<1>2. CASE settings.template # "unparsable"
  <2> DEFINE limit == ThresholdOfRound(work[t].type, settings)
             below == {e \in work[t].list : e.balance < limit}
             users == {e.user : e \in below}
             w == [NoWork EXCEPT !.count = work[t].count, !.todo = users]
  <2>1. users \subseteq Users
    BY WorkFacts DEF Work
  <2>2. Step(t, "remind", "list", "mail", w) /\ UNCHANGED <<settings, modal>>
    BY <1>2 DEF RoundSettings
  <2>3. ASSUME work[t].list = Listing(account)
        PROVE  users = Below(work[t].type, settings, account)
    <3>1. ASSUME NEW u \in Below(work[t].type, settings, account)
          PROVE  u \in users
      <4>1. [user |-> u, balance |-> account[u].balance] \in below
        BY <2>3, <3>1 DEF Listing, Below
      <4> QED
        BY <4>1
    <3>2. ASSUME NEW u \in users
          PROVE  u \in Below(work[t].type, settings, account)
      <4>1. PICK e \in below : u = e.user
        OBVIOUS
      <4>2. PICK v \in Users : account[v].active /\ e = [user |-> v, balance |-> account[v].balance]
        BY <2>3 DEF Listing
      <4> QED
        BY <4>1, <4>2 DEF Below
    <3> QED
      BY <3>1, <3>2
  <2> HIDE DEF users
  <2>4. work[t].count \in Counts
    BY WorkFacts DEF Work
  <2>5. /\ w \in Work /\ w.todo = users /\ w.ok = 0 /\ w.failed = 0 /\ w.got = 0
        /\ w.count = work[t].count /\ ~w.error
    BY <2>1, <2>4, NoWorkType DEF Work
  <2> HIDE DEF w
  <2>6. Cardinality(users) <= Cardinality(Users) /\ Cardinality(users) \in Nat
    BY <2>1, FS_Subset, FS_CardinalityType, SettingsPageConstants
  <2>7. CountsOK(w)
    BY <2>5, <2>6, CountsType DEF CountsOK
  <2>8. wire[t].kind = "remind" /\ wire[t].pc = "list"
    BY <2>2 DEF Step
  <2>9. ~work[t].error => /\ work[t].count # 0
                          /\ work[t].count # Changed => Cardinality(users) = work[t].count
    BY <2>3, <2>8, WorkFacts DEF RoundOK, Due
  <2>10. ~work[t].error
    BY <2>8, WorkFacts DEF RoundOK
  <2>11. \A q : q.kind = "remind" /\ q.pc = "mail"
                  => AskOK(q, w, settings, account) /\ RoundOK(q, w, settings, account)
    BY <2>5, <2>6, <2>9, <2>10 DEF AskOK, RoundOK
  <2> QED
    BY <2>2, <2>5, <2>7, <2>11, StepMoves
<1> QED
  BY <1>1, <1>2

LEMMA SendMailMoves == ASSUME PageInv, NEW t \in Tabs, SendMail(t) PROVE PageInv'
<1>1. PICK u \in work[t].todo, o \in Outcomes :
        Step(t, "remind", "mail", "mail",
             [work[t] EXCEPT !.todo = @ \ {u},
                             !.got = IF o.taken THEN @ + 1 ELSE @,
                             !.ok = IF o.err THEN @ ELSE @ + 1,
                             !.failed = IF o.err THEN @ + 1 ELSE @])
  BY DEF SendMail
<1> DEFINE left == work[t].todo \ {u}
           got == IF o.taken THEN work[t].got + 1 ELSE work[t].got
           ok == IF o.err THEN work[t].ok ELSE work[t].ok + 1
           failed == IF o.err THEN work[t].failed + 1 ELSE work[t].failed
           w == [work[t] EXCEPT !.todo = left, !.got = got, !.ok = ok, !.failed = failed]
<1>2. Step(t, "remind", "mail", "mail", w) /\ UNCHANGED <<settings, modal>>
  BY <1>1 DEF SendMail
<1>3. o.taken \/ o.err
  BY DEF Outcomes
<1>4. got \in Nat /\ ok \in Nat /\ failed \in Nat
  BY WorkFacts
<1>5. ok + failed = work[t].ok + work[t].failed + 1
  BY WorkFacts
<1>6. ok <= got /\ got <= ok + failed
  BY <1>3, WorkFacts DEF CountsOK
<1>7. left \subseteq Users /\ Cardinality(left) = Cardinality(work[t].todo) - 1
  BY WorkFacts, FS_RemoveElement
<1> HIDE DEF left, got, ok, failed
<1>8. /\ w \in Work /\ w.todo = left /\ w.got = got /\ w.ok = ok /\ w.failed = failed
      /\ w.count = work[t].count /\ w.error = work[t].error
  BY <1>4, <1>7, WorkFacts DEF Work
<1> HIDE DEF w
<1>9. Cardinality(left) + ok + failed = Cardinality(work[t].todo) + work[t].ok + work[t].failed
  BY <1>4, <1>5, <1>7, WorkFacts
<1>10. CountsOK(w)
  BY <1>6, <1>8, <1>9, WorkFacts DEF CountsOK
<1>11. wire[t].kind = "remind" /\ wire[t].pc = "mail"
  BY <1>2 DEF Step
<1>12. \A q : q.kind = "remind" /\ q.pc = "mail"
                => AskOK(q, w, settings, account) /\ RoundOK(q, w, settings, account)
  BY <1>8, <1>9, <1>11, WorkFacts DEF AskOK, RoundOK
<1> QED
  BY <1>2, <1>8, <1>10, <1>12, StepMoves

LEMMA EndRoundMoves == ASSUME PageInv, NEW t \in Tabs, EndRound(t) PROVE PageInv'
<1>1. Step(t, "remind", "mail", "answered", work[t]) /\ UNCHANGED <<settings, modal>>
  BY DEF EndRound
<1>2. work[t].todo = {} /\ wire[t].kind = "remind" /\ wire[t].pc = "mail"
  BY DEF EndRound, Step
<1>3. \A q : q.kind = "remind" /\ q.pc = "answered"
               => AskOK(q, work[t], settings, account) /\ RoundOK(q, work[t], settings, account)
  BY <1>2, WorkFacts DEF AskOK, RoundOK
<1> QED
  BY <1>1, <1>3, WorkFacts, StepMoves

-----------------------------------------------------------------------------
(* What an observer does when an account or the settings change: nothing    *)
(* that was counted counts any more.                                        *)

LEMMA ShakenMoves ==
  ASSUME PageInv, CsrfTypeOK', CsrfInv', StaleModals, work' = StaleWork, form' = form,
         settings' \in Settings, account' \in [Users -> Accounts],
         \A o \in Tabs : /\ wire'[o].kind = wire[o].kind
                         /\ wire'[o].pc = wire[o].pc \/ wire'[o].kind = "save"
  PROVE  PageInv'
<1>1. ASSUME NEW o \in Tabs
      PROVE  /\ modal'[o] \in Modal /\ work'[o] \in Work
             /\ TabOK(wire'[o], work'[o], modal'[o], settings', account')
  <2>1. modal[o] \in Modal
    BY DEF PageInv, TypeOK
  <2> DEFINE c == Stale(modal[o].count)
             d == Stale(work[o].count)
  <2>2. c \in {0, Changed} /\ c \in Counts
    BY <2>1, CountsType DEF Modal
  <2>3. d \in {0, Changed} /\ d \in Counts /\ (work[o].count # 0 => d = Changed)
    BY WorkFacts, CountsType DEF Work
  <2>4. modal'[o] = [modal[o] EXCEPT !.count = c]
    BY DEF StaleModals
  <2>5. work'[o] = [work[o] EXCEPT !.count = d, !.fresh = FALSE]
    BY DEF StaleWork
  <2> HIDE DEF c, d
  <2>6. modal'[o] \in Modal /\ modal'[o].count = c
    BY <2>1, <2>2, <2>4 DEF Modal
  <2>7. /\ work'[o] \in Work /\ work'[o].count = d /\ ~work'[o].fresh
        /\ work'[o].todo = work[o].todo /\ work'[o].ok = work[o].ok
        /\ work'[o].failed = work[o].failed /\ work'[o].got = work[o].got
        /\ work'[o].error = work[o].error
    BY <2>3, <2>5, WorkFacts DEF Work
  <2>8. ModalOK(modal'[o], settings', account')
    BY <2>2, <2>6 DEF ModalOK
  <2>9. AskOK(wire'[o], work'[o], settings', account')
    BY <2>3, <2>7 DEF AskOK
  <2>10. RoundOK(wire'[o], work'[o], settings', account')
    BY <2>3, <2>7, WorkFacts DEF RoundOK, Changed
  <2>11. CountsOK(work'[o])
    BY <2>7, WorkFacts DEF CountsOK
  <2> QED
    BY <2>6, <2>7, <2>8, <2>9, <2>10, <2>11 DEF TabOK
<1>2. modal' \in [Tabs -> Modal] /\ work' \in [Tabs -> Work]
  BY <1>1 DEF StaleModals, StaleWork
<1>3. \A o \in Tabs : work'[o].ok + work'[o].failed <= Cardinality(Users)
  BY <1>1, CountsBound DEF TabOK
<1>4. TypeOK'
  BY <1>2, <1>3 DEF PageInv, TypeOK
<1> QED
  BY <1>1, <1>4 DEF PageInv

LEMMA SaveMoves == ASSUME PageInv, NEW t \in Tabs, SaveSettings(t) PROVE PageInv'
<1> DEFINE row == IF work[t].text.valid THEN RowOf(work[t].text) ELSE settings
<1>1. row \in Settings
  BY WorkFacts, RowType DEF Work
<1>2. CsrfTypeOK /\ CsrfInv /\ Handle(t, "handler", "answered")
  BY DEF PageInv, TypeOK, SaveSettings, Handle
<1>3. CsrfTypeOK' /\ CsrfInv'
  BY <1>2, HandleType, HandleInv
<1>4. /\ settings' = row /\ UNCHANGED <<account, form>>
      /\ row = settings => /\ work' = [work EXCEPT ![t].error = ~work[t].text.valid]
                           /\ UNCHANGED modal
      /\ row # settings => work' = StaleWork /\ StaleModals
  BY DEF SaveSettings
<1> HIDE DEF row
<1>5. wire[t] \in Wire /\ wire[t].kind = "save"
  BY <1>2 DEF CsrfTypeOK, SaveSettings
<1>6. /\ wire'[t].kind = "save"
      /\ \A o \in Tabs \ {t} : wire'[o] = wire[o]
  BY <1>2, <1>5 DEF CsrfTypeOK, Handle, Wire
<1>7. CASE row # settings
  <2>1. settings' \in Settings /\ account' \in [Users -> Accounts]
    BY <1>1, <1>4 DEF PageInv, TypeOK
  <2>2. \A o \in Tabs : /\ wire'[o].kind = wire[o].kind
                        /\ wire'[o].pc = wire[o].pc \/ wire'[o].kind = "save"
    BY <1>5, <1>6
  <2> QED
    BY <1>3, <1>4, <1>7, <2>1, <2>2, ShakenMoves
<1>8. CASE row = settings
  <2> DEFINE e == ~work[t].text.valid
             w == [work[t] EXCEPT !.error = e]
  <2>1. e \in BOOLEAN
    OBVIOUS
  <2>2. work' = [work EXCEPT ![t] = w]
    BY <1>4, <1>8
  <2> HIDE DEF e
  <2>3. /\ w \in Work /\ w.todo = work[t].todo /\ w.ok = work[t].ok
        /\ w.failed = work[t].failed /\ w.got = work[t].got
    BY <2>1, WorkFacts DEF Work
  <2> HIDE DEF w
  <2>4. /\ work' \in [Tabs -> Work] /\ work'[t] = w
        /\ \A o \in Tabs \ {t} : work'[o] = work[o]
    BY <2>2, <2>3 DEF PageInv, TypeOK
  <2>5. CountsOK(w) /\ ModalOK(modal[t], settings, account)
    BY <2>3, WorkFacts DEF CountsOK, PageInv, TabOK
  <2>6. TabOK(wire'[t], work'[t], modal'[t], settings, account)
    BY <1>4, <1>6, <1>8, <2>4, <2>5 DEF TabOK, AskOK, RoundOK
  <2>7. form' \in [Tabs -> Settings] /\ modal' \in [Tabs -> Modal]
    BY <1>4, <1>8 DEF PageInv, TypeOK
  <2> QED
    BY <1>3, <1>4, <1>6, <1>8, <2>4, <2>6, <2>7, TabMoves
<1> QED
  BY <1>7, <1>8

LEMMA ChangeMoves == ASSUME PageInv, ChangeAccount PROVE PageInv'
<1>1. UNCHANGED csrfVars /\ UNCHANGED <<settings, form>> /\ StaleModals /\ work' = StaleWork
  BY DEF ChangeAccount
<1>2. CsrfTypeOK' /\ CsrfInv' /\ wire' = wire
  BY <1>1 DEF csrfVars, PageInv, TypeOK, CsrfTypeOK, CsrfInv, PageFits, LoadFits, PostFits,
                Calm, Valid
<1>3. account' \in [Users -> Accounts] /\ settings' \in Settings
  BY <1>1 DEF ChangeAccount, PageInv, TypeOK
<1> QED
  BY <1>1, <1>2, <1>3, ShakenMoves

LEMMA ReplaceMoves == ASSUME PageInv, Replace PROVE PageInv'
<1>1. PICK s \in Servers : Restart(s)
  BY DEF Replace
<1>2. CsrfTypeOK /\ CsrfInv
  BY DEF PageInv, TypeOK
<1>3. CsrfTypeOK' /\ CsrfInv'
  BY <1>1, <1>2, RestartType, RestartInv
<1>4. UNCHANGED <<settings, account, form, modal>>
  BY DEF Replace
<1>5. ASSUME NEW o \in Tabs
      PROVE  work'[o] \in Work /\ TabOK(wire'[o], work'[o], modal'[o], settings', account')
  <2>1. TabOK(wire[o], work[o], modal[o], settings, account) /\ wire[o] \in Wire
    BY <1>2 DEF PageInv, CsrfTypeOK
  <2>2. InDoubt(wire[o]).pc = wire[o].pc /\ InDoubt(wire[o]).kind = wire[o].kind
    BY <2>1 DEF InDoubt, Wire
  <2>3. wire'[o].pc = "idle" \/ (wire'[o].pc = wire[o].pc /\ wire'[o].kind = wire[o].kind)
    BY <1>1, <1>2, <2>2, RestartStep, QuietType
  <2>4. work'[o] = IF wire'[o].pc = "idle" THEN NoWork ELSE work[o]
    BY DEF Replace
  <2>5. CASE wire'[o].pc = "idle"
    BY <1>4, <2>1, <2>4, <2>5, NoWorkType, NoCounts DEF TabOK, AskOK, RoundOK
  <2>6. CASE wire'[o].pc # "idle"
    BY <1>4, <2>1, <2>3, <2>4, <2>6, WorkFacts DEF TabOK, AskOK, RoundOK
  <2> QED
    BY <2>5, <2>6
<1>6. work' \in [Tabs -> Work]
  BY <1>5 DEF Replace
<1>7. \A o \in Tabs : work'[o].ok + work'[o].failed <= Cardinality(Users)
  BY <1>5, CountsBound DEF TabOK
<1>8. TypeOK'
  BY <1>3, <1>4, <1>6, <1>7 DEF PageInv, TypeOK
<1> QED
  BY <1>3, <1>5, <1>8 DEF PageInv

-----------------------------------------------------------------------------
(* The theorems.                                                            *)

LEMMA PageInvStep == ASSUME PageInv, [Next]_vars PROVE PageInv'
<1>1. ASSUME NEW t \in Tabs,
             \/ OpenPage(t) \/ Submit(t) \/ AskReminders(t) \/ ConfirmReminders(t)
             \/ Middleware(t) \/ Answered(t) \/ Lost(t)
      PROVE  PageInv'
  BY <1>1, OpenPageMoves, SubmitMoves, AskMoves, ConfirmMoves, MiddlewareMoves,
     AnsweredMoves, LostMoves
<1>2. ASSUME NEW t \in Tabs,
             \/ AdminSettingsPage(t) \/ SaveSettings(t) \/ ModalSettings(t) \/ ModalUsers(t)
             \/ RoundUsers(t) \/ RoundSettings(t) \/ SendMail(t) \/ EndRound(t)
      PROVE  PageInv'
  BY <1>2, PageMoves, SaveMoves, ModalSettingsMoves, ModalUsersMoves, RoundUsersMoves,
     RoundSettingsMoves, SendMailMoves, EndRoundMoves
<1>3. CASE UNCHANGED vars
  BY <1>3 DEF vars, csrfVars, PageInv, TypeOK, CsrfTypeOK, CsrfInv, PageFits, LoadFits,
              PostFits, Calm, Valid
<1> QED
  BY <1>1, <1>2, <1>3, ChangeMoves, ReplaceMoves DEF Next

LEMMA Inductive == Spec => []PageInv
  BY PageInvInit, PageInvStep, PTL DEF Spec

\* Every variable keeps its type, and a round never counts more mails than there
\* are users.
THEOREM SettingsTypeCorrect == Spec => []TypeOK
<1>1. PageInv => TypeOK
  BY DEF PageInv
<1> QED
  BY <1>1, Inductive, PTL

\* The toast reports no mail that was not taken and hides none that was tried
\* (settings.go:303), for any number of users and rounds at once.
THEOREM ToastCorrect == Spec => []ToastCountsMails
<1>1. PageInv => ToastCountsMails
  BY DEF PageInv, TabOK, CountsOK, ToastCountsMails
<1> QED
  BY <1>1, Inductive, PTL

\* A round tries exactly as many mails as its question announced, unless an
\* account or the settings changed (settings.go:193-227 and 229-309).
THEOREM AskedCorrect == Spec => []AskedThenSent
<1>1. ASSUME PageInv, NEW t \in Tabs, wire[t].kind = "remind", wire[t].pc = "answered",
             ~work[t].error, work[t].count # Changed
      PROVE  work[t].ok + work[t].failed = work[t].count
  <2>1. work[t].todo = {} /\ Cardinality(work[t].todo) + work[t].ok + work[t].failed = work[t].count
    BY <1>1, WorkFacts DEF RoundOK
  <2>2. Cardinality(work[t].todo) = 0
    BY <2>1, FS_EmptySet
  <2> QED
    BY <1>1, <2>1, <2>2, WorkFacts
<1>2. PageInv => AskedThenSent
  BY <1>1 DEF AskedThenSent
<1> QED
  BY <1>2, Inductive, PTL

\* What a step does to the request of a tab it does not handle.
LEMMA HandlerEnds ==
  ASSUME PageInv, Next, NEW t \in Tabs, wire[t].kind = "save", wire[t].pc = "handler",
         wire'[t].pc = "answered"
  PROVE  settings' = settings \/ SaveSettings(t)
<1>1. SUFFICES ASSUME settings' # settings PROVE SaveSettings(t)
  OBVIOUS
<1>2. PICK x \in Tabs : SaveSettings(x)
  BY <1>1 DEF Next, OpenPage, Submit, AskReminders, ConfirmReminders, Request, Middleware,
              Answered, Lost, AdminSettingsPage, ModalSettings, ModalUsers, RoundUsers,
              RoundSettings, SendMail, EndRound, ChangeAccount, Replace
<1>3. x # t => wire'[t] = wire[t]
  BY <1>2 DEF SaveSettings, PageInv, TypeOK, CsrfTypeOK
<1> QED
  BY <1>2, <1>3

\* A form that comes back as the page filled it, into settings that are still
\* those it was filled from, changes nothing (settings.go:60-68, render/funcs.go:95).
THEOREM UntouchedCorrect == Spec => UntouchedSaveIsHarmless
<1>1. ASSUME PageInv, Next, NEW t \in Tabs, wire[t].kind = "save", wire[t].pc = "handler",
             wire'[t].pc = "answered", work[t].text = FormOf(form[t]), settings = form[t]
      PROVE  settings' = settings
  <2>1. settings \in Settings
    BY <1>1 DEF PageInv, TypeOK
  <2>2. RowOf(FormOf(settings)) = settings
    BY <2>1, FormRoundTrip
  <2>3. CASE SaveSettings(t)
    BY <1>1, <2>2, <2>3 DEF SaveSettings
  <2> QED
    BY <1>1, <2>3, HandlerEnds
<1>2. PageInv /\ [Next]_vars =>
        [\A t \in Tabs :
           /\ wire[t].kind = "save" /\ wire[t].pc = "handler" /\ wire'[t].pc = "answered"
           /\ work[t].text = FormOf(form[t]) /\ settings = form[t]
           => settings' = settings]_vars
  BY <1>1
<1> QED
  BY <1>2, Inductive, PTL DEF Spec, UntouchedSaveIsHarmless

\* Only the middleware refuses a request.
LEMMA OnlyCheckRefuses ==
  ASSUME PageInv, Next, NEW t \in Tabs, wire[t].pc = "sent", wire'[t].pc = "refused"
  PROVE  \E s \in Servers : Check(t, s)
<1>1. CsrfTypeOK /\ wire \in [Tabs -> Wire]
  BY DEF PageInv, TypeOK, CsrfTypeOK
<1>2. ASSUME NEW x \in Tabs, NEW kind \in Kinds, NEW w, Request(x, kind, w)
      PROVE  FALSE
  <2>1. PICK q \in Wire : wire' = [wire EXCEPT ![x] = q] /\ q.pc = "sent"
    BY <1>1, <1>2, SendStep DEF Request
  <2> QED
    BY <1>1, <2>1
<1>3. ASSUME NEW x \in Tabs, NEW kind, NEW from, NEW to, NEW w, Step(x, kind, from, to, w),
             from # "sent"
      PROVE  FALSE
  BY <1>1, <1>3 DEF Step, Wire
<1>4. ASSUME NEW x \in Tabs, Middleware(x)
      PROVE  \E s \in Servers : Check(t, s)
  <2>1. PICK s \in Servers : Check(x, s)
    BY <1>4 DEF Middleware
  <2>2. x # t => wire'[t] = wire[t]
    BY <1>1, <2>1 DEF Check
  <2> QED
    BY <2>1, <2>2
<1>5. ASSUME NEW x \in Tabs, Answered(x) \/ Lost(x)
      PROVE  FALSE
  BY <1>1, <1>5, QuietType DEF Answered, Lost, Receive, Lose
<1>6. ASSUME NEW x \in Tabs, SaveSettings(x)
      PROVE  FALSE
  BY <1>1, <1>6 DEF SaveSettings, Wire
<1>7. CASE ChangeAccount
  BY <1>7 DEF ChangeAccount, csrfVars
<1>8. CASE Replace
  <2>1. PICK s \in Servers : Restart(s)
    BY <1>8 DEF Replace
  <2>2. InDoubt(wire[t]).pc = wire[t].pc
    BY <1>1 DEF InDoubt, Wire
  <2> QED
    BY <1>1, <2>1, <2>2, RestartStep, QuietType
<1>9. ASSUME NEW x \in Tabs, \/ OpenPage(x) \/ Submit(x) \/ AskReminders(x)
                             \/ ConfirmReminders(x)
      PROVE  FALSE
  BY <1>2, <1>9, SettingsPageConstants DEF OpenPage, Submit, AskReminders, ConfirmReminders
<1>10. ASSUME NEW x \in Tabs,
              \/ AdminSettingsPage(x) \/ ModalSettings(x) \/ ModalUsers(x) \/ RoundUsers(x)
              \/ RoundSettings(x) \/ SendMail(x) \/ EndRound(x)
       PROVE  FALSE
  BY <1>3, <1>10 DEF AdminSettingsPage, ModalSettings, ModalUsers, RoundUsers, RoundSettings,
                     SendMail, EndRound
<1> QED
  BY <1>4, <1>5, <1>6, <1>7, <1>8, <1>9, <1>10 DEF Next

\* No page is refused that was sent for while all was settled, unless a random
\* secret has been replaced since (csrf.go:27-90, main.go:77-89): for any number
\* of tabs, processes and restarts.
THEOREM RefusalCorrect == Spec => RefusedOnlyInDoubt
<1>1. PageInv /\ [Next]_vars =>
        [\A t \in Tabs : wire[t].pc = "sent" /\ wire'[t].pc = "refused" => wire[t].doubt]_csrfVars
  <2> SUFFICES ASSUME PageInv, Next, NEW t \in Tabs, wire[t].pc = "sent", wire'[t].pc = "refused"
               PROVE  wire[t].doubt
    BY DEF vars
  <2>1. PICK s \in Servers : Check(t, s)
    BY OnlyCheckRefuses
  <2> QED
    BY <2>1, RefusedInDoubt DEF PageInv, TypeOK
<1> QED
  BY <1>1, Inductive, PTL DEF Spec, RefusedOnlyInDoubt
=============================================================================
