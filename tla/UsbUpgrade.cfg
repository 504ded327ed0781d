CONSTANTS
  Version = {v1, v2}
  Factory = v0
  Mac = mac
  None = none
  MaxFaults = 3
SPECIFICATION FairSpec
INVARIANTS TypeOK
PROPERTIES RecordsWholeUpgrade KeepsMacPromise UnrecordedIsInstalled
CHECK_DEADLOCK FALSE
