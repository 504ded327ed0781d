------------------------ MODULE MxGpioTables_proofs ------------------------
(***************************************************************************)
(* The driver's own tables, all seventeen responses unscaled: they have    *)
(* what the playing relies on, and are tables of the kind that the         *)
(* theorems about MxGpioCadence and MxGpioCadenceSmp are about.            *)
(***************************************************************************)
EXTENDS MxGpioTables, TLAPS

Resp == DOMAIN RespTable
Port(r, o) == RespTable[r].port[o + 1]

Driver == INSTANCE MxGpioCadTable
  WITH IdleResp <- "IDLE_RESP", MaxPriority <- MAX_PRIORITY,
       accessRespCadMap <- [r \in Resp |-> [o \in 0 .. 2 |-> Port(r, o)[1].on]],
       accessRespCadCycles <- [r \in Resp |-> [o \in 0 .. 2 |-> Port(r, o)[2]]],
       accessRespCadBits <- [r \in Resp |-> [o \in 0 .. 2 |-> Port(r, o)[1].bits]],
       accessRespCadPriority <- [r \in Resp |-> RespTable[r].priority]

CadFits(cad) == cad.bits \in 1 .. 15 /\ cad.on \subseteq 0 .. (cad.bits - 1)
Finite == {1, 10, 15, 20, 30, 60}  \* the finite numbers of cycles in use
EndsOff(cad) == (cad.bits - 1) \notin cad.on

-----------------------------------------------------------------------------

\* The slots of a cadence that fits are bits of a UINT16.
LEMMA WidthFits ==
  ASSUME NEW cad, CadFits(cad) PROVE cad.on \in SUBSET (0 .. 15) /\ cad.bits \in 1 .. 15
BY DEF CadFits

\* The cadences by themselves.
LEMMA CadencesFit ==
  /\ CadFits(CAD_OFF) /\ CadFits(CAD_ON) /\ CadFits(SMALL_PULSE_CAD) /\ CadFits(SHORT_PULSE_CAD)
  /\ CadFits(DOUBLE_PULSE_CAD) /\ CadFits(LONG_ON_CAD) /\ CadFits(SHORT_LONG_CAD) /\ CadFits(LONG_OFF_CAD)
  /\ CadFits(LONG_PULSE_CAD) /\ CadFits(SHORT_ON_CAD) /\ CadFits(SHORT_OFF_CAD)
BY DEF CadFits, Cad, CAD_OFF, CAD_ON, SMALL_PULSE_CAD, SHORT_PULSE_CAD, DOUBLE_PULSE_CAD, LONG_ON_CAD,
       SHORT_LONG_CAD, LONG_OFF_CAD, LONG_PULSE_CAD, SHORT_ON_CAD, SHORT_OFF_CAD

\* All but the one that is on throughout end their cycle in an off slot.
LEMMA CadencesEndOff ==
  /\ EndsOff(CAD_OFF) /\ EndsOff(SMALL_PULSE_CAD) /\ EndsOff(SHORT_PULSE_CAD) /\ EndsOff(DOUBLE_PULSE_CAD)
  /\ EndsOff(LONG_ON_CAD) /\ EndsOff(SHORT_LONG_CAD) /\ EndsOff(LONG_OFF_CAD) /\ EndsOff(LONG_PULSE_CAD)
  /\ EndsOff(SHORT_ON_CAD) /\ EndsOff(SHORT_OFF_CAD)
BY DEF EndsOff, Cad, CAD_OFF, SMALL_PULSE_CAD, SHORT_PULSE_CAD, DOUBLE_PULSE_CAD, LONG_ON_CAD,
       SHORT_LONG_CAD, LONG_OFF_CAD, LONG_PULSE_CAD, SHORT_ON_CAD, SHORT_OFF_CAD

\* The rows, column by column: priority, cadences, cycles.
LEMMA Priorities ==
  ASSUME NEW r \in Resp
  PROVE  RespTable[r].priority \in 0 .. 8 /\ (RespTable[r].priority = 8 <=> r = "IDLE_RESP")
BY DEF RespTable, Row, Resp

LEMMA CadenceColumns ==
  ASSUME NEW r \in Resp, NEW i \in 1 .. 3 PROVE CadFits(RespTable[r].port[i][1])
<1>1. CadFits(RespTable[r].port[1][1])
  BY CadencesFit, SMTT(30) DEF RespTable, Row, Forever, Times, Resp
<1>2. CadFits(RespTable[r].port[2][1])
  BY CadencesFit, SMTT(30) DEF RespTable, Row, Forever, Times, Resp
<1>3. CadFits(RespTable[r].port[3][1])
  BY CadencesFit, SMTT(30) DEF RespTable, Row, Forever, Times, Resp
<1>4. QED
  BY <1>1, <1>2, <1>3

LEMMA CycleColumns ==
  ASSUME NEW r \in Resp
  PROVE  \/ \A i \in 1 .. 3 : RespTable[r].port[i][2] \in Finite
         \/ \A i \in 1 .. 3 : RespTable[r].port[i][2] = 255
<1>1. \/ /\ RespTable[r].port[1][2] \in Finite
         /\ RespTable[r].port[2][2] \in Finite
         /\ RespTable[r].port[3][2] \in Finite
      \/ /\ RespTable[r].port[1][2] = 255
         /\ RespTable[r].port[2][2] = 255
         /\ RespTable[r].port[3][2] = 255
  BY SMTT(30) DEF Finite, RespTable, Row, Forever, Times, INFINITE_CYCLE, Resp
<1>2. QED
  BY <1>1

LEMMA FiniteEndsOff ==
  ASSUME NEW r \in Resp, NEW i \in 1 .. 3, RespTable[r].port[i][2] # 255
  PROVE  EndsOff(RespTable[r].port[i][1])
<1>1. RespTable[r].port[1][2] # 255 => EndsOff(RespTable[r].port[1][1])
  BY CadencesEndOff, SMTT(30) DEF RespTable, Row, Forever, Times, INFINITE_CYCLE, Resp
<1>2. RespTable[r].port[2][2] # 255 => EndsOff(RespTable[r].port[2][1])
  BY CadencesEndOff, SMTT(30) DEF RespTable, Row, Forever, Times, INFINITE_CYCLE, Resp
<1>3. RespTable[r].port[3][2] # 255 => EndsOff(RespTable[r].port[3][1])
  BY CadencesEndOff, SMTT(30) DEF RespTable, Row, Forever, Times, INFINITE_CYCLE, Resp
<1>4. QED
  BY <1>1, <1>2, <1>3

-----------------------------------------------------------------------------

\* No row of accessRespCadMap and its sister tables leaves an output on after
\* its last cycle, never plays, or is finite on one output only.
THEOREM TablesPlayable == TablesArePlayable
<1> SUFFICES ASSUME NEW r \in Resp
             PROVE  LET row == RespTable[r] IN
                    /\ (row.priority = MAX_PRIORITY) <=> (r = "IDLE_RESP")
                    /\ row.priority \in 0 .. MAX_PRIORITY
                    /\ \A i, j \in 1 .. 3 : (row.port[i][2] = INFINITE_CYCLE) <=> (row.port[j][2] = INFINITE_CYCLE)
                    /\ \A i \in 1 .. 3 :
                         /\ row.port[i][2] \in 1 .. INFINITE_CYCLE
                         /\ row.port[i][1].bits \in 1 .. 15
                         /\ row.port[i][1].on \subseteq 0 .. (row.port[i][1].bits - 1)
                         /\ row.port[i][2] # INFINITE_CYCLE => (row.port[i][1].bits - 1) \notin row.port[i][1].on
  BY DEF TablesArePlayable, Resp
<1>1. RespTable[r].priority \in 0 .. MAX_PRIORITY /\ (RespTable[r].priority = MAX_PRIORITY <=> r = "IDLE_RESP")
  BY Priorities DEF MAX_PRIORITY
<1>2. \A i, j \in 1 .. 3 :
        (RespTable[r].port[i][2] = INFINITE_CYCLE) <=> (RespTable[r].port[j][2] = INFINITE_CYCLE)
  BY CycleColumns DEF INFINITE_CYCLE, Finite
<1>3. ASSUME NEW i \in 1 .. 3
      PROVE  /\ RespTable[r].port[i][2] \in 1 .. INFINITE_CYCLE
             /\ CadFits(RespTable[r].port[i][1])
             /\ RespTable[r].port[i][2] # INFINITE_CYCLE => EndsOff(RespTable[r].port[i][1])
  <2>1. RespTable[r].port[i][2] \in 1 .. INFINITE_CYCLE
    BY CycleColumns DEF INFINITE_CYCLE, Finite
  <2>2. CadFits(RespTable[r].port[i][1])
    BY CadenceColumns
  <2>3. RespTable[r].port[i][2] # INFINITE_CYCLE => EndsOff(RespTable[r].port[i][1])
    BY FiniteEndsOff DEF INFINITE_CYCLE
  <2>4. QED
    BY <2>1, <2>2, <2>3
<1>4. QED
  BY <1>1, <1>2, <1>3 DEF CadFits, EndsOff

\* The assumption on tables under which the cadence theorems are proved is met
\* by the tables that the driver is built with.
THEOREM DriverTablesFit == Driver!TableAssumption
<1>1. /\ Driver!Output = 0 .. 2 /\ Driver!Slot = 0 .. 15 /\ Driver!Priority = 0 .. 8
      /\ Driver!INFINITE_CYCLE = 255 /\ MAX_PRIORITY = 8
  BY DEF Driver!Output, Driver!BUZZER, Driver!RED_LED, Driver!GREEN_LED, Driver!Slot, Driver!Priority,
         Driver!INFINITE_CYCLE, MAX_PRIORITY
<1>2. "IDLE_RESP" \in Resp /\ {"ALL", "PRESENT", "NONE"} \intersect Resp = {}
  BY DEF Resp, RespTable
<1>3. \A r \in Resp, o \in 0 .. 2 : /\ Port(r, o)[1].on \in SUBSET (0 .. 15)
                                    /\ Port(r, o)[1].bits \in 1 .. 15
                                    /\ Port(r, o)[2] \in 1 .. 255
  <2> SUFFICES ASSUME NEW r \in Resp, NEW o \in 0 .. 2
               PROVE  /\ Port(r, o)[1].on \in SUBSET (0 .. 15)
                      /\ Port(r, o)[1].bits \in 1 .. 15
                      /\ Port(r, o)[2] \in 1 .. 255
    OBVIOUS
  <2>1. PICK i \in 1 .. 3 : i = o + 1
    OBVIOUS
  <2>2. CadFits(RespTable[r].port[i][1])
    BY CadenceColumns
  <2>3. RespTable[r].port[i][2] \in 1 .. 255
    BY CycleColumns DEF Finite
  <2>4. Port(r, o) = RespTable[r].port[i]
    BY <2>1 DEF Port
  <2>5. QED
    BY <2>2, <2>3, <2>4, WidthFits
<1>4. RespTable["IDLE_RESP"].priority = 8
  BY <1>2, Priorities
<1>5. QED
  BY <1>1, <1>2, <1>3, <1>4, Priorities
     DEF Driver!TableAssumption, Driver!NVRX_RESP_ALL, Driver!NVRX_RESP_PRESENT, Driver!NVRX_RESP_NONE

=============================================================================
