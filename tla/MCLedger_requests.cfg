\* Every kind of request, under fairness; an order of a member is a custom booking here.
CONSTANTS
  alice = alice
  admin = admin
  boss = boss
  kiosk = kiosk
  r1 = r1
  r2 = r2
  r3 = r3
  Nobody = Nobody
  NoTx = NoTx
  Users = {alice, admin, kiosk}
  Admins = {admin}
  Kiosks = {kiosk}
  TxIds = {1, 2, 3}
  Reqs = {r1, r2}
  Prices = {1}
  Deposits = {1}
  BigInt <- SmallInts
  SettingsChoices <- ShortOrLimited
  InitUsers <- Accounts
  InitTxs <- OldAndNew
  StartTime = 4
  MaxTime = 4
  MaxStall = 1
  Ops = {"custom", "kioskOrder", "deposit", "cancel", "delete", "anonymize", "toggleActive", "toggleLimit", "settings", "abort"}
SPECIFICATION FairSpec
INVARIANTS TypeOK
PROPERTIES RequestsFinish ImplementsTab
CHECK_DEADLOCK FALSE
