\* The same instance, for the promise of UpdateCadPriority.
CONSTANTS
  c1 = c1
  Client = {c1}
  Resp <- MCResp
  IdleResp = "IDLE_RESP"
  MaxPriority <- MCMaxPriority
  accessRespCadMap <- MCCadMap
  accessRespCadCycles <- MCCadCycles
  accessRespCadBits <- MCCadBits
  accessRespCadPriority <- MCCadPriority
  MaxOps = 1
SPECIFICATION Spec
INVARIANTS
  QuietCurrentIsHighest
