CONSTANTS
  MaxFaults = 1
SPECIFICATION Spec
INVARIANTS EnabledIsRegistered
CHECK_DEADLOCK FALSE
