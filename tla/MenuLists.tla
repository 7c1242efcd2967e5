----------------------------- MODULE MenuLists -----------------------------
(* The lists of module MenuList that Menu implements. *)
EXTENDS Menu

Above(x, y) ==
  /\ x # y /\ rows[x].st = "live" /\ rows[y].st = "live" /\ rows[x].list = rows[y].list
  /\ Heading(x) < Heading(y) \/ (Heading(x) = Heading(y) /\ x < y)

ListOf == [x \in Ids |-> IF rows[x].st = "live" THEN rows[x].list ELSE NoId]

Below(x) == {y \in Ids : Above(x, y)}

Order == UNION {{<<x, y>> : y \in Below(x)} : x \in Ids}

L == INSTANCE MenuList WITH Nowhere <- NoId, at <- ListOf, before <- Order

\* One admin arranges while others delete: every statement is a step of the
\* lists or leaves them as they are, the two UPDATEs of a swap (category.go:142-151,
\* item.go:163-172) together exchanging two neighbors.
ImplementsList == L!ListSpec
=============================================================================
