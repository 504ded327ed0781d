CONSTANTS
  Client = {c1, c2}
  NoClient = none
  Short = 1
  Long = 2
  MaxQueue = 2
  MaxFaults = 1
SPECIFICATION FairSpec
INVARIANTS TypeOK RequestHasSession StaysReachable
PROPERTIES ReachableAgain WriterIsNotified HungPhoneIsDropped BusyPhoneIsDropped
