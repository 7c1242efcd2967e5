--------------------------- MODULE MCSettingsPage ---------------------------
(* The settings page for TLC: tab 1 reminds, tab 2 saves.                *)
EXTENDS SettingsPage, TLC

CONSTANTS t1, t2

AllKinds == {"load", "modal", "save", "remind"}
Posts == {"save", "remind"}

\* Warn below -0.50, stop at -1.00.
FiftyCents == [warning |-> -50, hard |-> 100, template |-> "fine"]

\* Below both limits, above both, and of no account any more.
AroundLimits == {[balance |-> -120, active |-> TRUE], [balance |-> 30, active |-> TRUE],
                 [balance |-> -120, active |-> FALSE]}

TypedForms ==
  {[FormOf(FiftyCents) EXCEPT !.template = "unparsable"],
   [FormOf(FiftyCents) EXCEPT !.valid = FALSE]}

OneReminds == [t \in Tabs |-> IF t = t1 THEN {"load", "modal", "remind"} ELSE {"load", "save"}]

Symmetry == Permutations(Users)
=============================================================================
