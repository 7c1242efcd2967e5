-------------------------------- MODULE Gate --------------------------------
(***************************************************************************)
(* What sign-on promises: an account is open or closed; whoever comes in   *)
(* has an open account at that moment, a newcomer gets one, and only an    *)
(* admin who is inside opens and closes accounts, those of others.         *)
(***************************************************************************)
CONSTANTS Emails, Admins, Reqs, Nobody

VARIABLES status,  \* of each account
          inside   \* who has been let in by each request

gvars == <<status, inside>>

GateInit ==
  /\ status \in [Emails -> {"unknown", "open", "closed"}]
  /\ inside = [r \in Reqs |-> Nobody]

Enter(r, e) ==
  /\ inside[r] = Nobody /\ status[e] = "open"
  /\ inside' = [inside EXCEPT ![r] = e]
  /\ UNCHANGED status

Register(r, e) ==
  /\ inside[r] = Nobody /\ status[e] = "unknown"
  /\ status' = [status EXCEPT ![e] = "open"]
  /\ inside' = [inside EXCEPT ![r] = e]

Leave(r) ==
  /\ inside' = [inside EXCEPT ![r] = Nobody]
  /\ UNCHANGED status

\* The last thing the request does.
Switch(r, e) ==
  /\ inside[r] \in Admins \ {e} /\ status[e] # "unknown"
  /\ status' = [status EXCEPT ![e] = IF @ = "open" THEN "closed" ELSE "open"]
  /\ inside' = [inside EXCEPT ![r] = Nobody]

Remove(e) ==
  /\ status[e] = "closed"
  /\ status' = [status EXCEPT ![e] = "unknown"]
  /\ UNCHANGED inside

GateNext ==
  \/ \E r \in Reqs : Leave(r) \/ \E e \in Emails : Enter(r, e) \/ Register(r, e) \/ Switch(r, e)
  \/ \E e \in Emails : Remove(e)

GateSpec == GateInit /\ [][GateNext]_gvars
=============================================================================
