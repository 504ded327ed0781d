---------------------------- MODULE MxGpioCadence ----------------------------
(***************************************************************************)
(* The buzzer and led cadences of MxGpioDrv.c: applications set and clear  *)
(* access responses by ioctl, a 500 ms timer plays the most urgent one, a  *)
(* 10 ms timer ends the hold that every change of the table puts on the    *)
(* playing.                                                                *)
(*                                                                         *)
(* One step is one call of FillStructOfLedBuz, ClearCadence or a timer     *)
(* function: the ioctl MXGPIO_SET_CADENCE makes three such calls, and      *)
(* timers and other callers come in between.  MxGpioCadenceSmp takes the   *)
(* calls apart.                                                            *)
(***************************************************************************)
EXTENDS MxGpioCadTable

CONSTANTS
  Client,      \* threads of applications that have the device open
  ClearArg,    \* pairs <<LedCadResp, BuzCadResp>> they pass to MXGPIO_CLR_CADENCE
  MaxOps       \* bound on the ioctls of a behaviour

ASSUME ClientAssumption ==
  /\ ClearArg \subseteq Selector \X Selector
  /\ MaxOps \in Nat

VARIABLES
  cadence,             \* buzLedCadence
  CurrentPriority,
  IsBuzLedFillInProg,  \* TRUE: the 500 ms timer does not play
  syncPending,         \* buzLedSyncTimerInfo is armed
  pin,                 \* what the output pins are driven to
  written,             \* history: outputs that an application was the last to write
  call,                \* where each client is in MXGPIO_SET_CADENCE
  mixed,               \* history: an ioctl has begun amid the calls of another's SET_CADENCE
  ops                  \* ioctls started so far

calls == <<call, mixed, ops>>
vars == <<cadence, CurrentPriority, IsBuzLedFillInProg, syncPending, pin, written, calls>>

\* A SET_CADENCE has filled the red led when it is at "green", and both leds
\* when it is at "buzzer".
Call == [at : {"idle", "green", "buzzer"}, resp : Resp]
NoCall == [at |-> "idle", resp |-> IdleResp]

TypeOK ==
  /\ cadence \in Table
  /\ CurrentPriority \in Priority
  /\ IsBuzLedFillInProg \in BOOLEAN
  /\ syncPending \in BOOLEAN
  /\ pin \in [Output -> BOOLEAN]
  /\ written \subseteq Output
  /\ call \in [Client -> Call]
  /\ mixed \in BOOLEAN
  /\ ops \in 0 .. MaxOps

\* What GpioModInit leaves: a zero table in which the idle response is filled.
IdleTable ==
  [p \in Priority |-> [o \in Output |-> IF p = MaxPriority THEN NewEntry(IdleResp, o) ELSE ZeroEntry]]

Init ==
  /\ cadence = IdleTable
  /\ CurrentPriority = MaxPriority
  /\ IsBuzLedFillInProg = TRUE
  /\ syncPending = TRUE
  /\ pin = [o \in Output |-> FALSE]
  /\ written = {}
  /\ call = [c \in Client |-> NoCall]
  /\ mixed = FALSE
  /\ ops = 0

-----------------------------------------------------------------------------

\* Bug: a response waits until the one being played has ended.
UpdateWithoutPreempting ==
  IF (\E p \in Priority : Active(cadence', p)) /\ ~Active(cadence', CurrentPriority)
  THEN CurrentPriority' \in HighestActive(cadence')
  ELSE UNCHANGED CurrentPriority

\* Bug: the loop's index is taken although it has found nothing.
UpdateToLoopIndex ==
  IF \E p \in Priority : Active(cadence', p)
  THEN CurrentPriority' \in HighestActive(cadence')
  ELSE CurrentPriority' = MaxPriority + 1

UpdateCadPriority ==
  IF \E p \in Priority : Active(cadence', p)
  THEN CurrentPriority' \in HighestActive(cadence')
  ELSE UNCHANGED CurrentPriority

\* Every change of the table holds the playing until the sync timer has run.
HoldPlaying ==
  /\ IsBuzLedFillInProg' = TRUE
  /\ syncPending' = TRUE

FillStructOfLedBuz(r, o) ==
  /\ cadence' = FillEntry(cadence, r, o)
  /\ UpdateCadPriority
  /\ HoldPlaying
  /\ UNCHANGED <<pin, written>>

StartOp(c) ==
  /\ call[c].at = "idle"
  /\ ops < MaxOps
  /\ ops' = ops + 1
  /\ mixed' = (mixed \/ \E d \in Client : call[d].at # "idle")

\* MXGPIO_SET_CADENCE: SetLedCad fills the red led, then the green one, then
\* SetBuzzerCad fills the buzzer.
SetRed(c, r) ==
  /\ StartOp(c)
  /\ FillStructOfLedBuz(r, RED_LED)
  /\ call' = [call EXCEPT ![c] = [at |-> "green", resp |-> r]]

SetGreen(c) ==
  /\ call[c].at = "green"
  /\ FillStructOfLedBuz(call[c].resp, GREEN_LED)
  /\ call' = [call EXCEPT ![c].at = "buzzer"]
  /\ UNCHANGED <<mixed, ops>>

SetBuzzerCad(c) ==
  /\ call[c].at = "buzzer"
  /\ FillStructOfLedBuz(call[c].resp, BUZZER)
  /\ call' = [call EXCEPT ![c] = NoCall]
  /\ UNCHANGED <<mixed, ops>>

ClearCadence(c, led, buz) ==
  /\ StartOp(c)
  /\ cadence' = ClearBoth(cadence, CurrentPriority, led, buz)
  /\ UpdateCadPriority
  /\ HoldPlaying
  /\ UNCHANGED <<pin, written, call>>

\* SetBuzzer, SetLed and the sysfs attributes buzzer, redled and greenled:
\* they write the pins past the table.
SetPins(c, S, on) ==
  /\ StartOp(c)
  /\ pin' = [o \in Output |-> IF o \in S THEN on ELSE pin[o]]
  /\ written' = written \union S
  /\ UNCHANGED <<cadence, CurrentPriority, IsBuzLedFillInProg, syncPending, call>>

SyncBuzLedCad ==
  /\ syncPending
  /\ syncPending' = FALSE
  /\ IsBuzLedFillInProg' = FALSE
  /\ UNCHANGED <<cadence, CurrentPriority, pin, written, calls>>

\* Bug: off slots are not written, so an output is only ever switched on.
DriveOnlyOn(row) == [o \in Output |-> pin[o] \/ (Plays(row[o]) /\ SlotIsOn(row[o]))]

\* Bug: a cadence that is off throughout is not played at all.
DriveUnlessOff(row) ==
  [o \in Output |->
     IF Plays(row[o]) /\ row[o].buzLedCad # CAD_OFF THEN SlotIsOn(row[o]) ELSE pin[o]]

\* SetBuzLedPinStatus for every output that has a slot to play.
DrivePins(row) == [o \in Output |-> IF Plays(row[o]) THEN SlotIsOn(row[o]) ELSE pin[o]]

\* While the playing is held the timer only starts again, in 10 ms.
ProcBuzLedCad ==
  LET row == cadence[CurrentPriority]
      played == PlayRow(row)
  IN
  /\ ~IsBuzLedFillInProg
  /\ cadence' = [cadence EXCEPT ![CurrentPriority] = played]
  /\ pin' = DrivePins(row)
  /\ written' = {o \in written : ~Plays(row[o])}
  /\ IF \E o \in Output : played[o].noOfCycles > 0
     THEN UNCHANGED CurrentPriority
     ELSE UpdateCadPriority
  /\ UNCHANGED <<IsBuzLedFillInProg, syncPending, calls>>

SetCadence(c) == SetGreen(c) \/ SetBuzzerCad(c)

Next ==
  \/ \E c \in Client, r \in Resp : SetRed(c, r)
  \/ \E c \in Client : SetGreen(c)
  \/ \E c \in Client : SetBuzzerCad(c)
  \/ \E c \in Client, a \in ClearArg : ClearCadence(c, a[1], a[2])
  \/ \E c \in Client, S \in {{BUZZER}, {RED_LED}, {GREEN_LED}, Led}, on \in BOOLEAN : SetPins(c, S, on)
  \/ SyncBuzLedCad
  \/ ProcBuzLedCad

\* Timers that are armed expire, and an ioctl that has begun returns.
Fairness ==
  /\ WF_vars(SyncBuzLedCad)
  /\ WF_vars(ProcBuzLedCad)
  /\ \A c \in Client : WF_vars(SetCadence(c))

Spec == Init /\ [][Next]_vars
FairSpec == Spec /\ Fairness

-----------------------------------------------------------------------------

\* 255 cycles mean "play for ever".  An output only plays for ever when the
\* response that holds it says so: counting a UINT8 of cycles down never
\* passes zero, and no clear leaves a finite entry infinite.
ForeverOnlyByTable ==
  \A p \in Priority, o \in Output :
    LET e == cadence[p][o] IN
    e.noOfCycles = INFINITE_CYCLE =>
      /\ accessRespCadPriority[e.accessResp] = p
      /\ accessRespCadCycles[e.accessResp][o] = INFINITE_CYCLE

\* The played priority is the most urgent one that has anything to play.
CurrentIsHighest ==
  (\E p \in Priority : Active(cadence, p)) => CurrentPriority \in HighestActive(cadence)

\* The driver keeps the promise of CadenceArbiter: urgent responses pre-empt,
\* only the response being played ends by being played, and a pre-empted one
\* gets its turn back.
Arbiter == INSTANCE CadenceArbiter
  WITH active <- {p \in Priority : Active(cadence, p)}, current <- CurrentPriority
KeepsArbiterPromise == Arbiter!Spec

\* Once the applications leave it alone the driver plays off everything that
\* is finite: in the end it plays a response that was set for ever, or has
\* nothing left (the idle response itself was cleared).
DrainsToForever ==
  <>[]( \/ \E o \in Output : cadence[CurrentPriority][o].noOfCycles = INFINITE_CYCLE
        \/ \A p \in Priority : ~Active(cadence, p) )

\* An output that is lit belongs to the response that is played, or to the
\* application that wrote it.
LitByCurrent ==
  \A o \in Output \ written :
    pin[o] => /\ cadence[CurrentPriority][o].noOfCycles > 0
              /\ cadence[CurrentPriority][o].buzLedCad # CAD_OFF

IdleIntact == \A o \in Output : cadence[MaxPriority][o].noOfCycles = INFINITE_CYCLE

\* Neither a pre-empted, an overwritten nor a cleared response leaves the
\* buzzer or a led on for good, as long as the idle response is there to drive
\* the outputs off and no ioctl comes amid a set: a clear there leaves a row
\* with an output that is lit and no longer played.
NothingStaysLit == <>[](IdleIntact /\ ~mixed => LitByCurrent)

\* An ioctl or sysfs write to a pin does not outlast the cadence: an output on
\* which the played response has something left to play follows that response.
OutputsFollowCadence ==
  <>[]( \A o \in Output :
          pin[o] /\ cadence[CurrentPriority][o].noOfCycles > 0 =>
            cadence[CurrentPriority][o].buzLedCad # CAD_OFF )

=============================================================================
