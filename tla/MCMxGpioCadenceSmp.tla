------------------------- MODULE MCMxGpioCadenceSmp -------------------------
(***************************************************************************)
(* A small instance of MxGpioCadenceSmp: the idle response, and one that   *)
(* plays a single cycle on the buzzer and the green led and pre-empts it.  *)
(***************************************************************************)
EXTENDS MxGpioCadenceSmp

CONSTANT c1

MCResp == {"IDLE_RESP", "TRG_EVT_RESP"}
MCMaxPriority == 1
MCCadPriority == [r \in MCResp |-> IF r = "IDLE_RESP" THEN 1 ELSE 0]
MCCadMap == [r \in MCResp |-> [o \in 0 .. 2 |-> IF r = "IDLE_RESP" \/ o = 1 THEN {} ELSE {0}]]
MCCadBits == [r \in MCResp |-> [o \in 0 .. 2 |-> IF MCCadMap[r][o] = {} THEN 1 ELSE 2]]
MCCadCycles == [r \in MCResp |-> [o \in 0 .. 2 |-> IF r = "IDLE_RESP" THEN INFINITE_CYCLE ELSE 1]]

=============================================================================
