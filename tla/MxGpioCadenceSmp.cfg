\* Store by store: one ioctl against the timer function, from a table with a response playing.
CONSTANTS
  c1 = c1
  Client = {c1}
  Resp <- MCResp
  IdleResp = "IDLE_RESP"
  MaxPriority <- MCMaxPriority
  accessRespCadMap <- MCCadMap
  accessRespCadCycles <- MCCadCycles
  accessRespCadBits <- MCCadBits
  accessRespCadPriority <- MCCadPriority
  MaxOps = 1
SPECIFICATION FairSpec
INVARIANTS
  TypeOK
  HoldIsTaken
PROPERTIES
  SetIsComplete
  PlayingResumes
