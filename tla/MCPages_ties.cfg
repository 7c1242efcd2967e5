\* The list of accounts, two of which have the same balance.
CONSTANTS
  alice = alice
  bob = bob
  carol = carol
  Nobody = Nobody
  Users = {alice, bob, carol}
  MaxKey = 2
  Sizes = {1, 2}
  Lists = {"users"}
  Watched = {}
  InitRow <- Debts
SPECIFICATION Spec
PROPERTIES EveryAccountListed
CHECK_DEADLOCK FALSE
