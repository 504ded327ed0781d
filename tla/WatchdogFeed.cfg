CONSTANTS
  WATCHDOG_TIMEOUT = 4
  CHIP_TIMEOUT = 3
  MaxOps = 3
SPECIFICATION Spec
CHECK_DEADLOCK FALSE
INVARIANTS
  FedInTime
