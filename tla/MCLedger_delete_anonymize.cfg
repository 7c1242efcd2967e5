\* An anonymization run commits while the deletion of a debtor waits for the account.
CONSTANTS
  alice = alice
  admin = admin
  boss = boss
  kiosk = kiosk
  r1 = r1
  r2 = r2
  r3 = r3
  Nobody = Nobody
  NoTx = NoTx
  Users = {alice, admin}
  Admins = {admin}
  Kiosks = {}
  TxIds = {1, 2}
  Reqs = {r1, r2}
  Prices = {1}
  Deposits = {1}
  BigInt <- SmallInts
  SettingsChoices <- ShortOnly
  InitUsers <- Debtor
  InitTxs <- LastTx
  StartTime = 4
  MaxTime = 4
  MaxStall = 1
  Ops = {"delete", "anonymize"}
SPECIFICATION Spec
PROPERTIES DeletedSettled
CHECK_DEADLOCK FALSE
