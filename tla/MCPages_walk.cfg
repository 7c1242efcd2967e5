\* A reader goes through the lists while bookings come, are cancelled and are anonymized.
CONSTANTS
  alice = alice
  bob = bob
  carol = carol
  Nobody = Nobody
  Users = {alice, bob}
  MaxKey = 5
  Sizes = {1, 2}
  Lists = {"member", "user", "all", "users"}
  Watched = {alice}
  InitRow <- History
SPECIFICATION Spec
INVARIANTS TypeOK NoGaps AdminCountsOnce
PROPERTIES QuietWalkExact NothingLost
CHECK_DEADLOCK FALSE
