--------------------------- MODULE MCMxGpioCadence ---------------------------
(***************************************************************************)
(* Small instances of MxGpioCadence.  The responses are rows of the        *)
(* driver's own tables, chosen so that priorities pre-empt each other,     *)
(* two responses share one, and finite and infinite cycles meet.           *)
(*                                                                         *)
(* Bounds: a cadence keeps whether it is on at all and whether it has an   *)
(* off tail, in at most two slots; a finite number of cycles becomes 1 or  *)
(* 2, keeping which output of a row ends first; the priorities in use are  *)
(* numbered from 0 without gaps.                                           *)
(***************************************************************************)
EXTENDS MxGpioCadence, FiniteSets

T == INSTANCE MxGpioTables

\* The tables of the driver, unscaled, have what the playing relies on.
ASSUME DriverTables == T!TablesArePlayable

CONSTANTS c1, c2

MCResp == {"IDLE_RESP", "NORMAL_STATE", "NET_DISCONN_RESP", "TRG_EVT_RESP"}

UsedPriorities == {T!RespTable[r].priority : r \in Resp}
MCMaxPriority == Cardinality(UsedPriorities) - 1
MCCadPriority ==
  [r \in Resp |-> Cardinality({p \in UsedPriorities : p < T!RespTable[r].priority})]

Port(r, o) == T!RespTable[r].port[o + 1]
Shortest(r) == CHOOSE n \in {Port(r, o)[2] : o \in 0 .. 2} : \A o \in 0 .. 2 : n <= Port(r, o)[2]

ScaledCycles(r, o) ==
  LET n == Port(r, o)[2] IN
  IF n = T!INFINITE_CYCLE THEN n ELSE IF n > Shortest(r) THEN 2 ELSE 1
ScaledBits(cad) == IF cad.bits = 1 THEN 1 ELSE 2
ScaledCad(cad) ==
  (IF cad.on = {} THEN {} ELSE {0}) \union (IF cad.on = 0 .. (cad.bits - 1) THEN {1} ELSE {})

MCCadMap == [r \in Resp |-> [o \in 0 .. 2 |-> ScaledCad(Port(r, o)[1])]]
MCCadBits == [r \in Resp |-> [o \in 0 .. 2 |-> ScaledBits(Port(r, o)[1])]]
MCCadCycles == [r \in Resp |-> [o \in 0 .. 2 |-> ScaledCycles(r, o)]]

\* One clear of each kind: the present response, everything, one response, and
\* the buzzer or the leds alone, as MxGpioCtl's commands 7 and 6 pass it.
MCClearArg ==
  {<<"PRESENT", "PRESENT">>, <<"ALL", "ALL">>, <<"TRG_EVT_RESP", "TRG_EVT_RESP">>,
   <<"NONE", "NORMAL_STATE">>, <<"NET_DISCONN_RESP", "NONE">>}

=============================================================================
