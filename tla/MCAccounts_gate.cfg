\* One admin, and a newcomer with several tabs.
CONSTANTS
  a = a
  b = b
  m = m
  n = n
  r1 = r1
  r2 = r2
  r3 = r3
  NoName = NoName
  NoId = NoId
  Emails = {a, m}
  Admins = {a}
  Kiosks = {m}
  Names <- AdminNamed
  Ids = {1, 2, 3}
  Reqs = {r1, r2, r3}
  Unasked = {r1, r2, r3}
  Flags = {"active", "barteamer"}
  Owner <- OneAdmin
  InitUsers <- AdminOnly
SPECIFICATION Spec
INVARIANTS TypeOK
PROPERTIES KioskFlagsKept NamesKept ImplementsGate
SYMMETRY Symmetry
