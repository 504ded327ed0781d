\* Two clients whose ioctls overlap, direct writes to the pins, timers anywhere.
CONSTANTS
  c1 = c1
  c2 = c2
  Client = {c1, c2}
  Resp <- MCResp
  IdleResp = "IDLE_RESP"
  MaxPriority <- MCMaxPriority
  accessRespCadMap <- MCCadMap
  accessRespCadCycles <- MCCadCycles
  accessRespCadBits <- MCCadBits
  accessRespCadPriority <- MCCadPriority
  ClearArg <- MCClearArg
  MaxOps = 3
SPECIFICATION FairSpec
INVARIANTS
  TypeOK
  ForeverOnlyByTable
  CurrentIsHighest
PROPERTIES
  KeepsArbiterPromise
  DrainsToForever
  NothingStaysLit
  OutputsFollowCadence
