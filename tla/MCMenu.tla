------------------------------- MODULE MCMenu -------------------------------
(* Small instances of Menu. *)
EXTENDS MenuLists, TLC

CONSTANTS r1, r2, r3

Small == 0..3

At(l, p) == [st |-> "live", list |-> l, pos |-> p]
None(l) == [st |-> "none", list |-> l, pos |-> 0]

\* Two empty categories; one more and an item may come.
TwoCategories == (1 :> At(Root, 1)) @@ (2 :> At(Root, 2)) @@ (3 :> None(Root))
                 @@ (11 :> None(1))

\* One category, and two more to come.
OneCategory == (1 :> At(Root, 1)) @@ (2 :> None(Root)) @@ (3 :> None(Root))
=============================================================================
