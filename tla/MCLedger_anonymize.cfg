\* Anonymization runs beside orders, deposits and cancellations by everybody who may.
CONSTANTS
  alice = alice
  admin = admin
  boss = boss
  kiosk = kiosk
  r1 = r1
  r2 = r2
  r3 = r3
  Nobody = Nobody
  NoTx = NoTx
  Users = {alice, admin, kiosk}
  Admins = {admin}
  Kiosks = {kiosk}
  TxIds = {1, 2, 3, 4}
  Reqs = {r1, r2}
  Prices = {1}
  Deposits = {2}
  BigInt <- SmallInts
  SettingsChoices <- OutlastedOrNot
  InitUsers <- Accounts
  InitTxs <- TwoOrders
  StartTime = 1
  MaxTime = 3
  MaxStall = 1
  Ops = {"order", "deposit", "cancel", "anonymize", "tick", "abort"}
SPECIFICATION Spec
INVARIANTS LimitStillHolds CancelledOnce NoWaitCycle IInv PairsTogether AuditComplete NoMoneyLost
PROPERTIES ImplementsTab
SYMMETRY Symmetry
CHECK_DEADLOCK FALSE
