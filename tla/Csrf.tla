-------------------------------- MODULE Csrf --------------------------------
(* The CSRF middleware between the tabs of one browser and the processes   *)
(* that serve them.  A token is kept twice: signed in a cookie all tabs    *)
(* share, and in the meta element of each page, from where htmx copies it  *)
(* into the header of every request of that tab.                           *)
(*                                                                         *)
(* A request carries the cookie of the moment it is sent, a Set-Cookie     *)
(* takes effect when the response arrives, and anything may happen in      *)
(* between.  A secret is a number; a forged signature is left out.         *)
EXTENDS Integers, FiniteSets

CONSTANTS Tabs, Servers,
          MaxToken,   \* bound: the tokens ever generated
          MaxSecret,  \* bound: the secrets ever generated
          Kinds,      \* the kinds of requests: "load" fetches a page
          Mutating    \* the kinds sent as POST

ASSUME CsrfConstants ==
  /\ MaxToken \in Nat /\ MaxSecret \in Nat
  /\ IsFiniteSet(Servers) /\ Servers # {} /\ Cardinality(Servers) <= MaxSecret
  /\ Mutating \subseteq Kinds /\ "load" \in Kinds \ Mutating

VARIABLES
  configured, \* DECKEL_CSRF_SECRET is set, to the same value everywhere
  secret,     \* secret[s]: the secret of process s
  secrets,    \* the number of secrets so far
  tokens,     \* the number of tokens so far
  cookie,     \* the cookie _csrf of the browser
  page,       \* page[t]: the token in the page of tab t, and
              \* observer: whether something was unsettled when it was sent for
  wire        \* wire[t]: the request of tab t, with the response

csrfVars == <<configured, secret, secrets, tokens, cookie, page, wire>>

NoToken == 0
NoCookie == [by |-> 0, token |-> NoToken]
Cookie == [by : 1..MaxSecret, token : 1..MaxToken] \cup {NoCookie}

Quiet == [pc |-> "idle", kind |-> "load", server |-> CHOOSE s \in Servers : TRUE,
          sent |-> NoCookie, head |-> NoToken, token |-> NoToken, set |-> NoCookie,
          doubt |-> FALSE]

CsrfInit ==
  /\ configured \in BOOLEAN
  /\ secrets = IF configured THEN 1 ELSE Cardinality(Servers)
  /\ secret \in [Servers -> 1..secrets]
  /\ configured \/ \A r, s \in Servers : r # s => secret[r] # secret[s]
  /\ tokens = 0
  /\ cookie = NoCookie
  /\ page = [t \in Tabs |-> [token |-> NoToken, doubt |-> FALSE]]
  /\ wire = [t \in Tabs |-> Quiet]

\* validateSignedToken.
Valid(c, s) == c # NoCookie /\ c.by = secret[s]

\* Every process accepts the cookie, and no response brings another one.
Settled(t) ==
  /\ \A s \in Servers : Valid(cookie, s)
  /\ \A o \in Tabs \ {t} : /\ wire[o].pc = "sent" => wire[o].sent = cookie
                           /\ wire[o].set = NoCookie

\* htmx sends the token of the page it runs in; a page is loaded without one.
Send(t, kind) ==
  /\ wire[t].pc = "idle"
  /\ kind # "load" => page[t].token # NoToken
  /\ wire' = [wire EXCEPT ![t] =
       [Quiet EXCEPT !.pc = "sent", !.kind = kind, !.sent = cookie,
                     !.head = IF kind = "load" THEN NoToken ELSE page[t].token,
                     !.doubt = IF kind = "load" THEN ~Settled(t) ELSE page[t].doubt]]
  /\ UNCHANGED <<configured, secret, secrets, tokens, cookie, page>>

\* FAULTY: a new token for every POST.
KeepsTokenOfReads(q, s) == Valid(q.sent, s) /\ q.kind \notin Mutating

\* getOrCreateToken: whether the token of the cookie is kept.
KeepsToken(q, s) == Valid(q.sent, s)

\* The token, and the refusal of a POST whose header does not carry it.  Of
\* the request only what the response needs is kept.
Check(t, s) ==
  LET q == wire[t]
      kept == KeepsToken(q, s)
      token == IF kept THEN q.sent.token ELSE tokens + 1
      refused == q.kind \in Mutating /\ (q.head = NoToken \/ q.head # token)
  IN  /\ q.pc = "sent"
      /\ kept \/ tokens < MaxToken
      /\ tokens' = IF kept THEN tokens ELSE tokens + 1
      /\ wire' = [wire EXCEPT ![t] =
           [Quiet EXCEPT !.pc = IF refused THEN "refused" ELSE "handler",
                         !.kind = q.kind, !.server = s,
                         !.token = IF q.kind = "load" THEN token ELSE NoToken,
                         !.doubt = q.kind = "load" /\ q.doubt,
                         !.set = IF kept THEN NoCookie ELSE [by |-> secret[s], token |-> token]]]
      /\ UNCHANGED <<configured, secret, secrets, cookie, page>>

\* The response reaches the browser.
Receive(t) ==
  LET q == wire[t] IN
  /\ q.pc \in {"refused", "answered"}
  /\ cookie' = IF q.set = NoCookie THEN cookie ELSE q.set
  /\ page' = IF q.kind = "load" /\ q.pc = "answered"
             THEN [page EXCEPT ![t] = [token |-> q.token, doubt |-> q.doubt]] ELSE page
  /\ wire' = [wire EXCEPT ![t] = Quiet]
  /\ UNCHANGED <<configured, secret, secrets, tokens>>

\* The response is lost on its way; whatever the handler did is done.
Lose(t) ==
  /\ wire[t].pc \in {"sent", "refused", "answered"}
  /\ wire' = [wire EXCEPT ![t] = Quiet]
  /\ UNCHANGED <<configured, secret, secrets, tokens, cookie, page>>

\* FAULTY: the configured secret is ignored.
RandomSecret == secrets + 1

\* main.go:77-89: the configured secret, or a random one.
SecretOfProcess == IF configured THEN 1 ELSE secrets + 1

InDoubt(q) == [q EXCEPT !.doubt = TRUE]

\* A process is replaced; its requests break off.  Without a configured secret
\* nothing that is loaded, or on its way, is settled any more.
Restart(s) ==
  /\ SecretOfProcess <= MaxSecret
  /\ secret' = [secret EXCEPT ![s] = SecretOfProcess]
  /\ secrets' = IF SecretOfProcess > secrets THEN SecretOfProcess ELSE secrets
  /\ LET broken(q) == q.pc \notin {"idle", "sent"} /\ q.server = s
         shaken(q) == ~configured /\ (q.pc = "sent" \/ (q.pc # "idle" /\ q.kind = "load"))
     IN  wire' = [t \in Tabs |-> IF broken(wire[t]) THEN Quiet
                                 ELSE IF shaken(wire[t]) THEN InDoubt(wire[t]) ELSE wire[t]]
  /\ page' = IF configured THEN page ELSE [t \in Tabs |-> InDoubt(page[t])]
  /\ UNCHANGED <<configured, tokens, cookie>>

-----------------------------------------------------------------------------
\* The handlers take a request from "handler" to "answered".
Places == {"idle", "sent", "handler", "list", "mail", "answered", "refused"}
Token == 0..MaxToken
Page == [token : Token, doubt : BOOLEAN]
Wire == [pc : Places, kind : Kinds, server : Servers, sent : Cookie, head : Token,
         token : Token, set : Cookie, doubt : BOOLEAN]

CsrfTypeOK ==
  /\ configured \in BOOLEAN
  /\ secret \in [Servers -> 1..MaxSecret] /\ secrets \in 1..MaxSecret
  /\ tokens \in Token
  /\ cookie \in Cookie
  /\ page \in [Tabs -> Page]
  /\ wire \in [Tabs -> Wire]

(* "Tokens survive restarts and are shared across replicas" (main.go:77):  *)
(* a request of a page is refused only when the page was sent for while    *)
(* the browser had no cookie that every process accepts or another tab was *)
(* about to get a new one (two tabs opened at once: the later cookie wins, *)
(* the other tab is refused until it is loaded again), or, with random     *)
(* secrets, when a process has been restarted since.                       *)
RefusedOnlyInDoubt ==
  [][\A t \in Tabs : wire[t].pc = "sent" /\ wire'[t].pc = "refused" => wire[t].doubt]_csrfVars
=============================================================================
