---------------------------- MODULE MxGpioTables ----------------------------
(***************************************************************************)
(* The four constant tables of MxGpioDrv.c that give every access response *)
(* its cadence on the buzzer and the two leds, as data.  A cadence is the  *)
(* set of 500 ms slots in which the output is on, and the number of slots  *)
(* of one cycle.  The tables accessRespCadMap and accessRespCadBits agree  *)
(* entry by entry, so one value stands for both.                           *)
(***************************************************************************)
EXTENDS Naturals

INFINITE_CYCLE == 255
MAX_PRIORITY == 8

Cad(on, bits) == [on |-> on, bits |-> bits]

CAD_OFF == Cad({}, 1)
CAD_ON == Cad(0 .. 14, 15)
SMALL_PULSE_CAD == Cad({0}, 2)
SHORT_PULSE_CAD == Cad(0 .. 1, 4)
DOUBLE_PULSE_CAD == Cad({0, 1, 4, 5}, 8)
LONG_ON_CAD == Cad(0 .. 5, 8)
SHORT_LONG_CAD == Cad({0}, 11)
LONG_OFF_CAD == Cad(0 .. 1, 12)
LONG_PULSE_CAD == Cad(0 .. 3, 8)
SHORT_ON_CAD == Cad(0 .. 1, 8)
SHORT_OFF_CAD == Cad(0 .. 1, 6)

\* A row: the priority, then <<cadence, cycles>> of buzzer, red led, green led.
Row(priority, buzzer, red, green) ==
  [priority |-> priority, port |-> <<buzzer, red, green>>]

Forever(cad) == <<cad, INFINITE_CYCLE>>
Times(n, cad) == <<cad, n>>

RespTable ==
  [ IDLE_RESP               |-> Row(8, Forever(CAD_OFF), Forever(CAD_OFF), Forever(CAD_OFF)),
    APPL_INIT_RESP          |-> Row(0, Times(1, LONG_ON_CAD), Times(1, DOUBLE_PULSE_CAD), Times(1, CAD_OFF)),
    NET_CONN_RESP           |-> Row(6, Forever(CAD_OFF), Forever(CAD_OFF), Forever(LONG_ON_CAD)),
    NET_DISCONN_RESP        |-> Row(6, Forever(CAD_OFF), Forever(LONG_ON_CAD), Forever(CAD_OFF)),
    STORAGE_INCOMPLETE_RESP |-> Row(4, Times(10, LONG_OFF_CAD), Times(10, LONG_OFF_CAD), Times(10, CAD_OFF)),
    STORAGE_FULL_ALT_RESP   |-> Row(4, Times(15, CAD_OFF), Times(15, LONG_PULSE_CAD), Times(15, CAD_OFF)),
    STORAGE_FULL_RESP       |-> Row(4, Times(15, CAD_OFF), Times(15, SHORT_ON_CAD), Times(15, CAD_OFF)),
    FORMAT_DISK_RESP        |-> Row(3, Forever(CAD_OFF), Forever(SHORT_PULSE_CAD), Forever(CAD_OFF)),
    FW_UPG_INPROCESS_RESP   |-> Row(0, Forever(CAD_OFF), Forever(CAD_ON), Forever(CAD_ON)),
    FW_UPG_FAILED_RESP      |-> Row(0, Times(30, SHORT_PULSE_CAD), Times(30, SHORT_PULSE_CAD), Times(30, CAD_OFF)),
    TRG_EVT_RESP            |-> Row(1, Times(15, LONG_ON_CAD), Times(60, CAD_OFF), Times(60, SMALL_PULSE_CAD)),
    BKUP_FULL_RESP          |-> Row(5, Times(20, SHORT_OFF_CAD), Times(60, CAD_OFF), Times(60, SMALL_PULSE_CAD)),
    NO_BKUP_RESP            |-> Row(5, Times(15, SHORT_ON_CAD), Times(60, CAD_OFF), Times(60, SMALL_PULSE_CAD)),
    NORMAL_STATE            |-> Row(6, Forever(CAD_OFF), Forever(CAD_OFF), Forever(SMALL_PULSE_CAD)),
    RECORDING_FAIL          |-> Row(2, Forever(CAD_OFF), Forever(SMALL_PULSE_CAD), Forever(SMALL_PULSE_CAD)),
    RECORDING_FAIL_FOR_ALL  |-> Row(2, Forever(CAD_OFF), Forever(CAD_ON), Forever(CAD_OFF)),
    CPUTEMP_HIGH            |-> Row(0, Forever(SHORT_LONG_CAD), Forever(SMALL_PULSE_CAD), Forever(CAD_OFF)) ]

\* What the playing code relies on, true of every row of the tables: a finite
\* cadence ends its cycle in an off slot, so that an output is never left on
\* when its last cycle has been played; a row is finite on all three outputs or
\* on none; only the idle response has the lowest priority; no row has zero
\* cycles (it would never play) and none has more slots than a UINT16 has bits.
TablesArePlayable ==
  \A r \in DOMAIN RespTable :
    LET row == RespTable[r] IN
    /\ (row.priority = MAX_PRIORITY) <=> (r = "IDLE_RESP")
    /\ row.priority \in 0 .. MAX_PRIORITY
    /\ \A i, j \in 1 .. 3 : (row.port[i][2] = INFINITE_CYCLE) <=> (row.port[j][2] = INFINITE_CYCLE)
    /\ \A i \in 1 .. 3 :
         /\ row.port[i][2] \in 1 .. INFINITE_CYCLE
         /\ row.port[i][1].bits \in 1 .. 15
         /\ row.port[i][1].on \subseteq 0 .. (row.port[i][1].bits - 1)
         /\ row.port[i][2] # INFINITE_CYCLE => (row.port[i][1].bits - 1) \notin row.port[i][1].on

=============================================================================
