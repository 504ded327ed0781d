----------------------------- MODULE MxGpioInput -----------------------------
(***************************************************************************)
(* The inputs of MxGpioDrv.c (default switch, alarm inputs): a 30 ms timer *)
(* samples every pin into the low bits of a shift register, and takes a    *)
(* level over when all the bits it looks at agree.  Applications read the  *)
(* logical status that results.                                            *)
(***************************************************************************)
EXTENDS Integers, FiniteSets

CONSTANTS
  Input,     \* INPUT_MAP_e
  Samples    \* bits of INPUT_SAMPLE_MASK_VAL, 5 in the driver

ASSUME InputAssumption == IsFiniteSet(Input) /\ Samples \in Nat \ {0}

VARIABLES
  level,             \* what is wired to the pins
  sampleVal,         \* inputPinActivity[].sampleVal & INPUT_SAMPLE_MASK_VAL
  status,            \* inputPinActivity[].status
  InputPinStatus,    \* inputStatus.InputPinStatus
  settled,           \* GpioModInit has set the statuses to unknown
  taken              \* history: samples taken since the module was loaded, up to Samples

inputVars == <<level, sampleVal, status, InputPinStatus, settled, taken>>
driverVars == <<sampleVal, status, InputPinStatus, settled, taken>>

Level == {0, 1}

\* The bits under the mask, the newest sample in bit 0.
ShiftRegister == [0 .. Samples - 1 -> Level]
ALL_SAMPLES_HIGH == [k \in 0 .. Samples - 1 |-> 1]
ALL_SAMPLES_LOW == [k \in 0 .. Samples - 1 |-> 0]

InputTypeOK ==
  /\ level \in [Input -> Level]
  /\ sampleVal \in [Input -> ShiftRegister]
  /\ status \in [Input -> {"PIN_UNKNOWN", "PIN_LOW", "PIN_HIGH"}]
  /\ InputPinStatus \in [Input -> {"UNKNOWN", "INACTIVE", "ACTIVE"}]
  /\ settled \in BOOLEAN
  /\ taken \in 0 .. Samples

\* The statics of a module that has just been loaded are zero.
InputInit ==
  /\ level \in [Input -> Level]
  /\ sampleVal = [i \in Input |-> ALL_SAMPLES_LOW]
  /\ status = [i \in Input |-> "PIN_LOW"]
  /\ InputPinStatus = [i \in Input |-> "INACTIVE"]
  /\ settled = FALSE
  /\ taken = 0

LoadStatics ==
  /\ sampleVal' = [i \in Input |-> ALL_SAMPLES_LOW]
  /\ status' = [i \in Input |-> "PIN_LOW"]
  /\ InputPinStatus' = [i \in Input |-> "INACTIVE"]
  /\ settled' = FALSE
  /\ taken' = 0
  /\ UNCHANGED level

\* The last loop of GpioModInit, when the poll timer has been armed already.
SetUnknown ==
  /\ settled' = TRUE
  /\ status' = [i \in Input |-> "PIN_UNKNOWN"]
  /\ InputPinStatus' = [i \in Input |-> "UNKNOWN"]
  /\ UNCHANGED <<level, sampleVal, taken>>

Wire(i) ==
  /\ level' = [level EXCEPT ![i] = 1 - @]
  /\ UNCHANGED driverVars

\* Bug: a bit more than the mask has.
ShiftedWide(v, b) == [k \in 0 .. Samples |-> IF k = 0 THEN b ELSE v[k - 1]]

Shifted(v, b) == [k \in 0 .. Samples - 1 |-> IF k = 0 THEN b ELSE v[k - 1]]

\* Bug: the comparison looks at one bit less.
AcceptsEarly(v, old) ==
  IF \A k \in 0 .. Samples - 2 : v[k] = 1 THEN "PIN_HIGH"
  ELSE IF v = ALL_SAMPLES_LOW THEN "PIN_LOW"
  ELSE old

Accepted(v, old) ==
  IF v = ALL_SAMPLES_HIGH THEN "PIN_HIGH"
  ELSE IF v = ALL_SAMPLES_LOW THEN "PIN_LOW"
  ELSE old

\* Bug: a pin that turns out low the first time is no change.
ChangeOnlyKnown(i, new) ==
  IF new # status[i] /\ status[i] # "PIN_UNKNOWN"
  THEN IF new = "PIN_LOW" THEN "INACTIVE" ELSE "ACTIVE"
  ELSE InputPinStatus[i]

ChangeInputStatus(i, new) ==
  IF new # status[i] THEN IF new = "PIN_LOW" THEN "INACTIVE" ELSE "ACTIVE"
  ELSE InputPinStatus[i]

CheckInputPinStatus ==
  /\ sampleVal' = [i \in Input |-> Shifted(sampleVal[i], level[i])]
  /\ status' = [i \in Input |-> Accepted(sampleVal'[i], status[i])]
  /\ InputPinStatus' = [i \in Input |-> ChangeInputStatus(i, status'[i])]
  /\ taken' = IF taken < Samples THEN taken + 1 ELSE Samples
  /\ UNCHANGED <<level, settled>>

-----------------------------------------------------------------------------

\* How many of the newest bits of a register agree.
NewestAgree(v, n) == \A k \in 0 .. n - 1 : v[k] = v[0]
RunLength(v) == Cardinality({n \in 1 .. Samples : NewestAgree(v, n)})

\* As many of them as are samples: the others are the zeros of the load.
SampledRun(v) == IF RunLength(v) < taken THEN RunLength(v) ELSE taken

\* The debouncer that the driver should be.
Filter == INSTANCE Debouncer
  WITH last <- [i \in Input |-> sampleVal[i][0]],
       run <- [i \in Input |-> SampledRun(sampleVal[i])],
       reported <- InputPinStatus

=============================================================================
