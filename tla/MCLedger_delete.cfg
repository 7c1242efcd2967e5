\* Accounts deleted while bookings for them, and by them, are under way.
CONSTANTS
  alice = alice
  admin = admin
  boss = boss
  kiosk = kiosk
  r1 = r1
  r2 = r2
  r3 = r3
  Nobody = Nobody
  NoTx = NoTx
  Users = {alice, admin, boss}
  Admins = {admin, boss}
  Kiosks = {}
  TxIds = {1, 2}
  Reqs = {r1, r2, r3}
  Prices = {0, 1}
  Deposits = {1}
  BigInt <- SmallInts
  SettingsChoices <- LimitedOnly
  InitUsers <- Newcomer
  InitTxs <- NoTxs
  StartTime = 1
  MaxTime = 1
  MaxStall = 1
  Ops = {"order", "deposit", "cancel", "delete", "toggleActive", "register"}
SPECIFICATION Spec
INVARIANTS ReferencesLive
PROPERTIES DeletedSettled
SYMMETRY Symmetry
CHECK_DEADLOCK FALSE
