\* Two batches over the same items, clicked twice, beside other admins.
CONSTANTS
  i1 = i1
  i2 = i2
  c1 = c1
  c2 = c2
  r1 = r1
  r2 = r2
  NoContent = NoContent
  NoItem = NoItem
  Unused = Unused
  Taken = Taken
  Items = {i1, i2}
  Contents = {c1, c2}
  Tokens = {1, 2}
  Files <- CrossedFiles
  Reqs = {r1, r2}
  MaxAge = 0
  MaxTime = 1
SPECIFICATION FairSpec
INVARIANTS TypeOK
PROPERTIES ImplementsCatalogue BatchesFinish
CHECK_DEADLOCK FALSE
