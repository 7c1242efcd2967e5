\* One admin arranges the menu, another deletes.
CONSTANTS
  r1 = r1
  r2 = r2
  r3 = r3
  Root = Root
  NoId = NoId
  Cats = {1, 2, 3}
  Items = {11}
  Reqs = {r1, r2}
  Writers = {r1}
  Int4 <- Small
  InitRows <- TwoCategories
  Ops = {"reorder", "create", "softDelete", "delete", "abort"}
SPECIFICATION Spec
INVARIANTS TypeOK PositionsDistinct ItemsHaveCategory
PROPERTIES NoOpAtEdge ImplementsList
CHECK_DEADLOCK FALSE
