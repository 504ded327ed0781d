\* The command ends when the board has its addresses: the behaviour may stop there.
CONSTANTS
  Id = {i1, i2, i3, i4}
  required_macaddr = 2
  TIMEOUT_COUNT = 1
  AUTOMAC_RETRY_COUNT = 0
  MaxMishaps = 2
SPECIFICATION FairSpec
INVARIANTS
  TypeOK
  SavedAreGranted
  AsksUntilGivenUp
PROPERTIES
  KeepsMacPromise
  GetsAddresses
CHECK_DEADLOCK FALSE
