\* The kernel may have crashed.
CONSTANTS
  Input = {i1}
  Samples = 3
  Client = {c1, c2}
  MaxLoads = 2
  MaxFaults = 1
SPECIFICATION FairSpec
INVARIANTS
  TypeOK
  RegistrationsGivenBack
  ResetIsReleased
  TimersLive
PROPERTIES
  ReturnsAfterReset
  PhyStaysUp
  DebouncesButFirstLows
  StableLevelIsReported
CHECK_DEADLOCK FALSE
