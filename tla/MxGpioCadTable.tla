--------------------------- MODULE MxGpioCadTable ---------------------------
(***************************************************************************)
(* The cadence table buzLedCadence[MAX_PRIORITY + 1][BUZZER_LED_MAX] of    *)
(* MxGpioDrv.c and what the driver's functions compute on it, as operators *)
(* from a table to a table.  The modules that use it say when and in which *)
(* steps the functions run.                                                *)
(***************************************************************************)
EXTENDS Integers

CONSTANTS
  Resp,                  \* access responses, NVRX_RESPONSE_e below NVRX_RESP_MAX
  IdleResp,              \* NVRX_IDLE_RESP
  MaxPriority,           \* MAX_PRIORITY, the priority of the idle response
  accessRespCadMap,      \* [Resp -> [Output -> the slots in which it is on]]
  accessRespCadCycles,   \* [Resp -> [Output -> cycles to play]]
  accessRespCadBits,     \* [Resp -> [Output -> slots of one cycle]]
  accessRespCadPriority  \* [Resp -> Priority]

\* BUZZER_LED_e
BUZZER == 0
RED_LED == 1
GREEN_LED == 2
Output == {BUZZER, RED_LED, GREEN_LED}
Led == {RED_LED, GREEN_LED}

Priority == 0 .. MaxPriority
CAD_OFF == {}
CAD_OFF_CAD_BITS == 1
INFINITE_CYCLE == 255    \* also the largest UINT8
Slot == 0 .. 15

\* The selectors of ClearCadence that are no response.
NVRX_RESP_ALL == "ALL"
NVRX_RESP_PRESENT == "PRESENT"
NVRX_RESP_NONE == "NONE"
Selector == Resp \union {NVRX_RESP_ALL, NVRX_RESP_PRESENT, NVRX_RESP_NONE}

ASSUME TableAssumption ==
  /\ MaxPriority \in Nat
  /\ IdleResp \in Resp
  /\ {NVRX_RESP_ALL, NVRX_RESP_PRESENT, NVRX_RESP_NONE} \intersect Resp = {}
  /\ accessRespCadMap \in [Resp -> [Output -> SUBSET Slot]]
  /\ accessRespCadCycles \in [Resp -> [Output -> 1 .. INFINITE_CYCLE]]
  /\ accessRespCadBits \in [Resp -> [Output -> 1 .. 15]]
  /\ accessRespCadPriority \in [Resp -> Priority]
  /\ accessRespCadPriority[IdleResp] = MaxPriority

\* BUZZER_LED_CAD_t
Entry ==
  [ buzLedCad : SUBSET Slot, noOfCycles : 0 .. INFINITE_CYCLE,
    cadPosition : Slot, cadBits : 0 .. 15, accessResp : Resp ]
Table == [Priority -> [Output -> Entry]]

-----------------------------------------------------------------------------
(* FillStructOfLedBuz: the entry of response r on output o.                *)

NewEntry(r, o) ==
  [ accessResp |-> r, buzLedCad |-> accessRespCadMap[r][o],
    noOfCycles |-> accessRespCadCycles[r][o], cadBits |-> accessRespCadBits[r][o],
    cadPosition |-> 0 ]

\* Bug: the responses that wait at lower priorities are dropped.
FillAndForget(tab, r, o) ==
  [p \in Priority |->
     CASE p = accessRespCadPriority[r] -> [tab[p] EXCEPT ![o] = NewEntry(r, o)]
       [] p > accessRespCadPriority[r] /\ p < MaxPriority ->
            [i \in Output |-> [tab[p][i] EXCEPT !.noOfCycles = 0]]
       [] OTHER -> tab[p]]

FillEntry(tab, r, o) == [tab EXCEPT ![accessRespCadPriority[r]][o] = NewEntry(r, o)]

\* The static table is all zero; zero is the idle response.
ZeroEntry ==
  [ accessResp |-> IdleResp, buzLedCad |-> CAD_OFF, noOfCycles |-> 0,
    cadBits |-> 0, cadPosition |-> 0 ]

-----------------------------------------------------------------------------
(* UpdateCadPriority: the first priority with cycles left on any output.   *)

Active(tab, p) == \E o \in Output : tab[p][o].noOfCycles > 0

\* At most one priority; the driver keeps CurrentPriority when there is none.
HighestActive(tab) ==
  {p \in Priority : Active(tab, p) /\ \A q \in Priority : q < p => ~Active(tab, q)}

-----------------------------------------------------------------------------
(* ProcBuzLedCad: one output of the current priority for one slot.         *)

\* Bug: a number of cycles that goes below zero.
DecrementSigned(n) == n - 1

\* noOfCycles is a UINT8.
Decrement(n) == IF n = 0 THEN INFINITE_CYCLE ELSE n - 1

Wrapped(e) == e.cadPosition >= e.cadBits

\* Bug: a cycle that ends is not counted.
CyclesUncounted(e) == e.noOfCycles

CyclesAfterWrap(e) ==
  IF Wrapped(e) /\ e.noOfCycles # INFINITE_CYCLE THEN Decrement(e.noOfCycles)
  ELSE e.noOfCycles
PositionAfterWrap(e) == IF Wrapped(e) THEN 0 ELSE e.cadPosition

Plays(e) == e.noOfCycles > 0 /\ CyclesAfterWrap(e) > 0
SlotIsOn(e) == PositionAfterWrap(e) \in e.buzLedCad

\* Bug: an output that has played its last cycle counts on.
PlayFinished(e) ==
  [e EXCEPT !.noOfCycles = CyclesAfterWrap(e),
            !.cadPosition = PositionAfterWrap(e) + (IF Plays(e) THEN 1 ELSE 0)]

PlayEntry(e) ==
  IF e.noOfCycles = 0 THEN e
  ELSE [e EXCEPT !.noOfCycles = CyclesAfterWrap(e),
                 !.cadPosition = PositionAfterWrap(e) + (IF Plays(e) THEN 1 ELSE 0)]

\* The loop after the playing: up to the first output that has cycles left,
\* the positions are put back.
RewindFinished(row) ==
  [o \in Output |->
     IF \A i \in Output : i <= o => row[i].noOfCycles = 0
     THEN [row[o] EXCEPT !.cadPosition = 0] ELSE row[o]]

PlayRow(row) == RewindFinished([o \in Output |-> PlayEntry(row[o])])

-----------------------------------------------------------------------------
(* ClearCadence: the led half, then the buzzer half.                       *)

OffEntry(e, cycles) ==
  [e EXCEPT !.buzLedCad = CAD_OFF, !.cadBits = CAD_OFF_CAD_BITS,
            !.cadPosition = 0, !.noOfCycles = cycles]

\* The leds in S go off for one cycle; a buzzer that is silent anyway gives up
\* its cycles, so that only the leds have something left to play.
ClearLedsOfRow(row, S) ==
  [o \in Output |->
     IF o \in S THEN OffEntry(row[o], 1)
     ELSE IF o = BUZZER /\ S # {} /\ row[BUZZER].buzLedCad = CAD_OFF
     THEN [row[o] EXCEPT !.noOfCycles = 0]
     ELSE row[o]]

LedsMatching(row, r) == {o \in Led : row[o].accessResp = r}

ClearLed(tab, current, led) ==
  [p \in Priority |->
     CASE led \in Resp /\ p = accessRespCadPriority[led] ->
            ClearLedsOfRow(tab[p], LedsMatching(tab[p], led))
       [] led = NVRX_RESP_ALL /\ p < MaxPriority -> ClearLedsOfRow(tab[p], Led)
       [] led = NVRX_RESP_PRESENT /\ p = current ->
            [o \in Output |-> IF o \in Led THEN OffEntry(tab[p][o], 0) ELSE tab[p][o]]
       [] OTHER -> tab[p]]

\* The buzzer goes off for one cycle; leds that are both off give up theirs.
ClearBuzzerOfRow(row) ==
  LET ledsOff == \A o \in Led : row[o].buzLedCad = CAD_OFF IN
  [o \in Output |->
     IF o = BUZZER THEN OffEntry(row[o], 1)
     ELSE IF ledsOff THEN [row[o] EXCEPT !.noOfCycles = 0]
     ELSE row[o]]

ClearBuzzer(tab, current, buz) ==
  [p \in Priority |->
     CASE buz \in Resp /\ p = accessRespCadPriority[buz] /\ tab[p][BUZZER].accessResp = buz ->
            ClearBuzzerOfRow(tab[p])
       [] buz = NVRX_RESP_ALL /\ p < MaxPriority -> ClearBuzzerOfRow(tab[p])
       [] buz = NVRX_RESP_PRESENT /\ p = current ->
            [tab[p] EXCEPT ![BUZZER] = OffEntry(tab[p][BUZZER], 0)]
       [] OTHER -> tab[p]]

ClearBoth(tab, current, led, buz) == ClearBuzzer(ClearLed(tab, current, led), current, buz)

=============================================================================
