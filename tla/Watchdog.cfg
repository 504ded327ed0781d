\* A reset board does nothing more.
CONSTANTS
  WATCHDOG_TIMEOUT = 4
  CHIP_TIMEOUT = 3
  MaxOps = 5
SPECIFICATION FairSpec
CHECK_DEADLOCK FALSE
INVARIANTS
  TypeOK
  NoResetUnlessExpired
PROPERTIES
  StopsOnlyUnfed
  HungApplicationIsReset
