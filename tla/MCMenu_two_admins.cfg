\* Two admins create and reorder categories.
CONSTANTS
  r1 = r1
  r2 = r2
  r3 = r3
  Root = Root
  NoId = NoId
  Cats = {1, 2, 3}
  Items = {}
  Reqs = {r1, r2}
  Writers = {r1, r2}
  Int4 <- Small
  InitRows <- OneCategory
  Ops = {"reorder", "create", "abort", "halfSwap"}
SPECIFICATION Spec
PROPERTIES NoOpAtEdge
CHECK_DEADLOCK FALSE
