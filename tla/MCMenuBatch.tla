---------------------------- MODULE MCMenuBatch ----------------------------
(* Small instances of MenuBatch. *)
EXTENDS BatchCatalogue, TLC

CONSTANTS i1, i2, c1, c2, r1, r2

Set(i, c) == [item |-> i, new |-> c]

\* Two files that change the same items in opposite orders, to different ends;
\* one has a line that does not parse.
CrossedFiles ==
  {<<Set(i1, c1), Set(i2, c1)>>, <<Set(i2, c2), Set(NoItem, c2), Set(i1, c2)>>}
=============================================================================
