--------------------------- MODULE BatchCatalogue ---------------------------
(* The catalogue that MenuBatch implements. *)
EXTENDS MenuBatch

\* The session an application has taken is offered until the application ends.
AppliedBy(t) == {r \in Reqs : req[r].token = t}

Card == [i \in Items |-> IF items[i].deleted THEN NoContent ELSE items[i].content]

OfferOf(t) == IF AppliedBy(t) # {} THEN req[CHOOSE r \in AppliedBy(t) : TRUE].all
              ELSE IF HasSession(t) THEN sessions[t].changes
              ELSE sessions[t]
Offers == [t \in Tokens |-> OfferOf(t)]

C == INSTANCE Catalogue WITH
       Removed <- NoContent, Closed <- Taken, card <- Card, offer <- Offers

\* The changes of a session are applied in one step, all of them or none,
\* never a second time although the button may be clicked twice, and only while
\* no item of it is deleted (menu_batch.go:323-363), whatever other admins do to
\* the items and wherever the server stops.
ImplementsCatalogue == C!CatSpec
=============================================================================
