CONSTANTS
  Client = {c1, c2}
  NoClient = none
  Short = 1
  Long = 2
  MaxQueue = 2
  MaxFaults = 0
SPECIFICATION FairSpec
PROPERTIES StatusReadEndsConnection
