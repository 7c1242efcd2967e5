SPECIFICATION Spec
CONSTANTS
  t1 = t1
  t2 = t2
  Tabs = {t1, t2}
  Servers = {p1}
  MaxToken = 2
  MaxSecret = 2
  Users = {alice, bob}
  Kinds <- AllKinds
  Mutating <- Posts
  Accounts <- AroundLimits
  InitSettings <- FiftyCents
  Edits <- TypedForms
  May <- OneReminds
SYMMETRY Symmetry
INVARIANTS TypeOK ToastCountsMails AskedThenSent
PROPERTIES UntouchedSaveIsHarmless RefusedOnlyInDoubt
CHECK_DEADLOCK FALSE
