\* Two admins who deactivate the same member.
CONSTANTS
  a = a
  b = b
  m = m
  n = n
  r1 = r1
  r2 = r2
  r3 = r3
  NoName = NoName
  NoId = NoId
  Emails = {a, b, m}
  Admins = {a, b}
  Kiosks = {}
  Names <- NoNames
  Ids = {1, 2, 3}
  Reqs = {r1, r2}
  Unasked = {}
  Flags = {"active"}
  Owner <- BothAdmins
  InitUsers <- TwoAdmins
SPECIFICATION Spec
PROPERTIES ToggleAsConfirmed
