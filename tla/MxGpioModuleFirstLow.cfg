\* The kernel may have crashed.
CONSTANTS
  Input = {i1}
  Samples = 3
  Client = {c1}
  MaxLoads = 1
  MaxFaults = 0
SPECIFICATION FairSpec
PROPERTIES
  Debounces
CHECK_DEADLOCK FALSE
