-------------------------- MODULE MxGpioModule_proofs --------------------------
(***************************************************************************)
(* MxGpioModule for any inputs, applications, loads and failures: it keeps *)
(* its types, gives its registrations and all pins but one back, returns   *)
(* from a request to reset the PHY only after a whole reset, and debounces *)
(* its inputs but for the first low samples after a load.                  *)
(***************************************************************************)
EXTENDS MxGpioModule, FiniteSetTheorems, FunctionTheorems, TLAPS

\* What GpioModInit and GpioModExit hold on the way.
HeldInv ==
  /\ phase = "loading" /\ step <= Len(Setup)
       => held \subseteq {Setup[k] : k \in 1 .. step - 1} \union {"PHY1_RST_PIN"}
  /\ phase = "leaving" => held \subseteq Registration \union {"PHY1_RST_PIN"}

\* The flag that makes a request return at once is set after a whole pulse,
\* and while an application has the device open the module stays.
ResetInv ==
  /\ is_pin_init => wasReset
  /\ \A c \in Client : call[c] = "mark" => wasReset
  /\ \A c \in Client : call[c] # "closed" => phase = "loaded"

LifeTypeOK ==
  /\ phase \in {"out", "loading", "loaded", "leaving", "oops"}
  /\ step \in 1 .. Len(Setup) + 2
  /\ held \subseteq Registration \union Pins
  /\ armed \subseteq Timer /\ running \subseteq Timer
  /\ loads \in 0 .. MaxLoads /\ faults \in 0 .. MaxFaults

Place == {"closed", "open", "test", "pull", "delay", "mark"}

PhyTypeOK ==
  /\ call \in [Client -> Place]
  /\ phyPin \in Level
  /\ is_pin_init \in BOOLEAN /\ wasReset \in BOOLEAN

IInv == InputTypeOK /\ LifeTypeOK /\ PhyTypeOK /\ HeldInv /\ RegistrationsGivenBack /\ ResetInv

-----------------------------------------------------------------------------

\* The parts are the whole of TypeOK.
LEMMA TypeParts == IInv => TypeOK
BY DEF IInv, TypeOK, LifeTypeOK, PhyTypeOK, Place

\* Thirteen registrations, three timers.
LEMMA ListFacts ==
  /\ Len(Setup) = 13 /\ Len(Labels) = 13 /\ Len(Timers) = 3
  /\ \A k \in 1 .. 13 : Setup[k] \in Registration
  /\ Setup[1] = "region" /\ Setup[2] = "cdev" /\ Setup[3] = "device"
  /\ \A k \in 1 .. 13 : Setup[k] = "device" => k = 3
  /\ "PHY1_RST_PIN" \notin Registration
BY DEF Setup, Labels, Timers, Registration

\* From every label of a group the code falls through to the device and below.
LEMMA LabelFacts ==
  /\ "region" \in From("cdev")
  /\ \A k \in 4 .. 13 : {"device", "cdev", "region"} \subseteq From(Setup[k])
<1>1. \A m, n \in 1 .. 13 : m <= n => Labels[n] \in From(Labels[m])
  BY ListFacts DEF From
<1>2. Labels[11] = "device" /\ Labels[12] = "cdev" /\ Labels[13] = "region"
  BY DEF Labels
<1>3. \A k \in 4 .. 13 : \E m \in 1 .. 10 : Setup[k] = Labels[m]
  <2>1. /\ Setup[4] = Labels[10] /\ Setup[5] = Labels[8] /\ Setup[6] = Labels[9] /\ Setup[7] = Labels[7]
        /\ Setup[8] = Labels[6] /\ Setup[9] = Labels[5] /\ Setup[10] = Labels[4] /\ Setup[11] = Labels[3]
        /\ Setup[12] = Labels[2] /\ Setup[13] = Labels[1]
    BY DEF Setup, Labels
  <2>2. \A k \in 4 .. 13 : k = 4 \/ k = 5 \/ k = 6 \/ k = 7 \/ k = 8 \/ k = 9 \/ k = 10 \/ k = 11 \/ k = 12 \/ k = 13
    OBVIOUS
  <2>3. QED
    BY <2>1, <2>2
<1>4. QED
  BY <1>1, <1>2, <1>3

\* Out of order as they are, the labels undo all that came before the step
\* that failed: with the device the kernel takes the attributes away.
LEMMA UndoneFacts ==
  ASSUME NEW s \in 1 .. 13, s # 3
  PROVE  {Setup[k] : k \in 1 .. s - 1} \subseteq Undone(Setup[s])
<1>1. CASE s = 1
  BY <1>1
<1>2. CASE s = 2
  BY <1>2, ListFacts, LabelFacts DEF Undone
<1>3. CASE s \in 4 .. 13
  <2>1. {"device", "cdev", "region"} \subseteq From(Setup[s])
    BY <1>3, LabelFacts
  <2>2. Undone(Setup[s]) = From(Setup[s]) \union Group
    BY <2>1 DEF Undone
  <2>3. Registration \subseteq Undone(Setup[s])
    BY <2>1, <2>2 DEF Group
  <2>4. QED
    BY <2>3, ListFacts
<1>4. QED
  BY <1>1, <1>2, <1>3

\* A sample makes a register of as many bits; no sample has been taken at first.
LEMMA RegisterFacts ==
  /\ 0 \in 0 .. Samples
  /\ ALL_SAMPLES_LOW \in ShiftRegister /\ ALL_SAMPLES_HIGH \in ShiftRegister
  /\ \A v \in ShiftRegister, b \in Level : Shifted(v, b) \in ShiftRegister /\ Shifted(v, b)[0] = b
BY InputAssumption DEF ALL_SAMPLES_LOW, ALL_SAMPLES_HIGH, ShiftRegister, Shifted, Level

\* The polling and the wiring keep the types of the inputs.
LEMMA InputSteps ==
  ASSUME InputTypeOK,
         \/ LoadStatics \/ SetUnknown \/ CheckInputPinStatus
         \/ \E i \in Input : Wire(i)
         \/ UNCHANGED inputVars
  PROVE  InputTypeOK'
<1>1. CASE LoadStatics
  BY <1>1, RegisterFacts DEF InputTypeOK, LoadStatics
<1>2. CASE SetUnknown
  BY <1>2 DEF InputTypeOK, SetUnknown
<1>3. CASE CheckInputPinStatus
  <2>1. sampleVal' \in [Input -> ShiftRegister]
    BY <1>3, RegisterFacts DEF InputTypeOK, CheckInputPinStatus
  <2>2. status' \in [Input -> {"PIN_UNKNOWN", "PIN_LOW", "PIN_HIGH"}]
    BY <1>3 DEF InputTypeOK, CheckInputPinStatus, Accepted
  <2>3. InputPinStatus' \in [Input -> {"UNKNOWN", "INACTIVE", "ACTIVE"}]
    BY <1>3 DEF InputTypeOK, CheckInputPinStatus, ChangeInputStatus
  <2>4. level' \in [Input -> Level] /\ settled' \in BOOLEAN /\ taken' \in 0 .. Samples
    BY <1>3, InputAssumption DEF InputTypeOK, CheckInputPinStatus
  <2>5. QED
    BY <2>1, <2>2, <2>3, <2>4 DEF InputTypeOK
<1>4. CASE \E i \in Input : Wire(i)
  <2>1. \A l \in Level : 1 - l \in Level
    BY DEF Level
  <2>2. level' \in [Input -> Level]
    BY <1>4, <2>1 DEF InputTypeOK, Wire
  <2>3. QED
    BY <1>4, <2>2 DEF InputTypeOK, Wire, driverVars
<1>5. CASE UNCHANGED inputVars
  BY <1>5 DEF InputTypeOK, inputVars
<1>6. QED
  BY <1>1, <1>2, <1>3, <1>4, <1>5

\* A board on which the module has not been loaded satisfies the invariant.
LEMMA InitInv == Init => IInv
<1> SUFFICES ASSUME Init PROVE IInv
  OBVIOUS
<1>1. InputTypeOK
  BY RegisterFacts DEF Init, InputInit, InputTypeOK
<1>2. LifeTypeOK
  BY ModuleAssumption, ListFacts DEF Init, LifeTypeOK
<1>3. PhyTypeOK
  BY DEF Init, PhyTypeOK, Place, Level
<1>4. HeldInv /\ RegistrationsGivenBack /\ ResetInv
  BY DEF Init, HeldInv, RegistrationsGivenBack, ResetInv
<1>5. QED
  BY <1>1, <1>2, <1>3, <1>4 DEF IInv

-----------------------------------------------------------------------------
(* The steps.                                                              *)

\* A step that leaves the PHY, the applications and "loaded" alone keeps what
\* is said of resets.
LEMMA PhyUnchanged ==
  ASSUME IInv, UNCHANGED phyVars, phase = "loaded" => phase' = "loaded"
  PROVE  PhyTypeOK' /\ ResetInv'
BY DEF IInv, PhyTypeOK, ResetInv, phyVars

\* Insmod loads the statics again; nobody has the device open.
LEMMA InsmodStep ==
  ASSUME IInv, Insmod PROVE IInv'
<1>1. InputTypeOK'
  BY InputSteps DEF IInv, Insmod
<1>2. LifeTypeOK'
  BY ModuleAssumption, ListFacts DEF IInv, LifeTypeOK, Insmod, timerVars
<1>3. PhyTypeOK' /\ ResetInv'
  BY DEF IInv, PhyTypeOK, ResetInv, Insmod, Place
<1>4. HeldInv' /\ RegistrationsGivenBack'
  BY DEF IInv, HeldInv, RegistrationsGivenBack, Insmod
<1>5. QED
  BY <1>1, <1>2, <1>3, <1>4 DEF IInv

\* One registration more.
LEMMA RegisterStep ==
  ASSUME IInv, Register PROVE IInv'
<1>1. /\ phase = "loading" /\ phase' = "loading" /\ step <= 13 /\ step' = step + 1 /\ step \in 1 .. 15
      /\ held' = held \union {Setup[step]}
      /\ UNCHANGED <<inputVars, loads, faults, timerVars, phyVars>>
  BY ListFacts DEF Register, IInv, LifeTypeOK
<1>2. InputTypeOK'
  BY <1>1, InputSteps DEF IInv
<1>3. LifeTypeOK'
  BY <1>1, ListFacts DEF IInv, LifeTypeOK, timerVars
<1>4. PhyTypeOK' /\ ResetInv'
  BY <1>1, PhyUnchanged
<1>5. held' \subseteq {Setup[k] : k \in 1 .. step} \union {"PHY1_RST_PIN"}
  BY <1>1, ListFacts DEF IInv, HeldInv
<1>6. HeldInv' /\ RegistrationsGivenBack'
  BY <1>1, <1>5 DEF HeldInv, RegistrationsGivenBack
<1>7. QED
  BY <1>2, <1>3, <1>4, <1>6 DEF IInv

\* A registration that fails ends the loading, with nothing left but the pin.
LEMMA RegisterFailsStep ==
  ASSUME IInv, RegisterFails PROVE IInv'
<1>1. /\ phase = "loading" /\ phase' \in {"oops", "out"} /\ step \in 1 .. 13
      /\ faults' \in 0 .. MaxFaults /\ held' \subseteq held
      /\ UNCHANGED <<inputVars, step, loads, timerVars, phyVars>>
  BY ListFacts, ModuleAssumption DEF RegisterFails, IInv, LifeTypeOK
<1>2. InputTypeOK'
  BY <1>1, InputSteps DEF IInv
<1>3. LifeTypeOK'
  BY <1>1 DEF IInv, LifeTypeOK, timerVars
<1>4. PhyTypeOK' /\ ResetInv'
  BY <1>1, PhyUnchanged
<1>5. CASE step = 3
  <2>1. phase' = "oops"
    BY <1>5, ListFacts DEF RegisterFails
  <2>2. HeldInv' /\ RegistrationsGivenBack'
    BY <2>1 DEF HeldInv, RegistrationsGivenBack
  <2>3. QED
    BY <1>2, <1>3, <1>4, <2>2 DEF IInv
<1>6. CASE step # 3
  <2>1. held' = held \ Undone(Setup[step])
    BY <1>1, <1>6, ListFacts DEF RegisterFails
  <2>2. held \subseteq {Setup[k] : k \in 1 .. step - 1} \union {"PHY1_RST_PIN"}
    BY <1>1, ListFacts DEF IInv, HeldInv
  <2>3. held' \subseteq {"PHY1_RST_PIN"}
    BY <1>1, <1>6, <2>1, <2>2, UndoneFacts
  <2>4. HeldInv' /\ RegistrationsGivenBack'
    BY <1>1, <2>3 DEF HeldInv, RegistrationsGivenBack
  <2>5. QED
    BY <1>2, <1>3, <1>4, <2>4 DEF IInv
<1>7. QED
  BY <1>5, <1>6

\* The steps of GpioModInit and GpioModExit.
LEMMA InitExitStep ==
  ASSUME IInv, StartPolling \/ FinishInit \/ Rmmod \/ ExitStep PROVE IInv'
<1>1. CASE StartPolling
  <2>1. LifeTypeOK'
    BY <1>1, ListFacts DEF IInv, LifeTypeOK, StartPolling, Timer, Timers
  <2>2. InputTypeOK'
    BY <1>1, InputSteps DEF IInv, StartPolling
  <2>3. PhyTypeOK' /\ ResetInv'
    BY <1>1 DEF IInv, PhyTypeOK, ResetInv, StartPolling, Level
  <2>4. HeldInv' /\ RegistrationsGivenBack'
    BY <1>1, ListFacts DEF HeldInv, RegistrationsGivenBack, StartPolling
  <2>5. QED
    BY <2>1, <2>2, <2>3, <2>4 DEF IInv
<1>2. CASE FinishInit
  <2>1. LifeTypeOK'
    BY <1>2, ListFacts DEF IInv, LifeTypeOK, FinishInit, Timer, Timers
  <2>2. InputTypeOK'
    BY <1>2, InputSteps DEF IInv, FinishInit
  <2>3. PhyTypeOK' /\ ResetInv'
    BY <1>2, PhyUnchanged DEF FinishInit
  <2>4. HeldInv' /\ RegistrationsGivenBack'
    BY <1>2 DEF HeldInv, RegistrationsGivenBack, FinishInit
  <2>5. QED
    BY <2>1, <2>2, <2>3, <2>4 DEF IInv
<1>3. CASE Rmmod
  <2>1. LifeTypeOK'
    BY <1>3, ListFacts DEF IInv, LifeTypeOK, Rmmod, timerVars
  <2>2. InputTypeOK'
    BY <1>3, InputSteps DEF IInv, Rmmod
  <2>3. PhyTypeOK' /\ ResetInv'
    BY <1>3 DEF IInv, PhyTypeOK, ResetInv, Rmmod, phyVars
  <2>4. HeldInv' /\ RegistrationsGivenBack'
    BY <1>3 DEF IInv, LifeTypeOK, HeldInv, RegistrationsGivenBack, Rmmod, Pins
  <2>5. QED
    BY <2>1, <2>2, <2>3, <2>4 DEF IInv
<1>4. CASE DeleteTimer
  <2>1. LifeTypeOK'
    BY <1>4, ListFacts DEF IInv, LifeTypeOK, DeleteTimer
  <2>2. InputTypeOK'
    BY <1>4, InputSteps DEF IInv, DeleteTimer
  <2>3. PhyTypeOK' /\ ResetInv'
    BY <1>4, PhyUnchanged DEF DeleteTimer
  <2>4. HeldInv' /\ RegistrationsGivenBack'
    BY <1>4 DEF IInv, HeldInv, RegistrationsGivenBack, DeleteTimer
  <2>5. QED
    BY <2>1, <2>2, <2>3, <2>4 DEF IInv
<1>5. CASE FinishExit
  <2>1. LifeTypeOK'
    BY <1>5 DEF IInv, LifeTypeOK, FinishExit, timerVars
  <2>2. InputTypeOK'
    BY <1>5, InputSteps DEF IInv, FinishExit
  <2>3. PhyTypeOK' /\ ResetInv'
    BY <1>5, PhyUnchanged DEF FinishExit
  <2>4. HeldInv' /\ RegistrationsGivenBack'
    BY <1>5 DEF IInv, HeldInv, RegistrationsGivenBack, FinishExit
  <2>5. QED
    BY <2>1, <2>2, <2>3, <2>4 DEF IInv
<1>6. QED
  BY <1>1, <1>2, <1>3, <1>4, <1>5 DEF ExitStep

\* What the applications do only moves them and the PHY.
LEMMA ClientStep ==
  ASSUME IInv, NEW c \in Client, Open(c) \/ Close(c) \/ SetClrPhy(c) \/ PhyStep(c) PROVE IInv'
<1>1. UNCHANGED <<inputVars, lifeVars, held, timerVars>>
  BY DEF Open, Close, SetClrPhy, PhyStep, TestPinInit, PullLow, ReleaseHigh, MarkInit
<1>2. InputTypeOK'
  BY <1>1, InputSteps DEF IInv
<1>3. LifeTypeOK' /\ HeldInv' /\ RegistrationsGivenBack'
  BY <1>1 DEF IInv, LifeTypeOK, HeldInv, RegistrationsGivenBack, lifeVars, timerVars
<1>4. call \in [Client -> Place] /\ \A d \in Client : call[d] # "closed" => phase = "loaded"
  BY DEF IInv, PhyTypeOK, ResetInv
<1>5. PICK x \in Place : call' = [call EXCEPT ![c] = x]
  BY DEF Open, Close, SetClrPhy, PhyStep, TestPinInit, PullLow, ReleaseHigh, MarkInit, Place
<1>6. call' \in [Client -> Place] /\ \A d \in Client : d # c => call'[d] = call[d]
  BY <1>4, <1>5
<1>7. PhyTypeOK'
  BY <1>6 DEF IInv, PhyTypeOK, Level,
              Open, Close, SetClrPhy, PhyStep, TestPinInit, PullLow, ReleaseHigh, MarkInit
<1>8. phase = "loaded" /\ phase' = "loaded"
  BY <1>1, <1>4 DEF lifeVars, Open, Close, SetClrPhy, PhyStep, TestPinInit, PullLow, ReleaseHigh, MarkInit
<1>9. wasReset => wasReset'
  BY DEF Open, Close, SetClrPhy, PhyStep, TestPinInit, PullLow, ReleaseHigh, MarkInit
<1>10. call'[c] = "mark" => wasReset'
  BY <1>4 DEF Open, Close, SetClrPhy, PhyStep, TestPinInit, PullLow, ReleaseHigh, MarkInit
<1>11. is_pin_init' => wasReset'
  BY <1>9 DEF IInv, ResetInv, Open, Close, SetClrPhy, PhyStep, TestPinInit, PullLow, ReleaseHigh, MarkInit
<1>12. ResetInv'
  BY <1>6, <1>8, <1>9, <1>10, <1>11 DEF IInv, ResetInv
<1>13. QED
  BY <1>2, <1>3, <1>7, <1>12 DEF IInv

\* Every step keeps the invariant.
LEMMA NextInv == IInv /\ [Next]_vars => IInv'
<1> SUFFICES ASSUME IInv, [Next]_vars PROVE IInv'
  OBVIOUS
<1>1. CASE Insmod
  BY <1>1, InsmodStep
<1>2. CASE Register
  BY <1>2, RegisterStep
<1>3. CASE RegisterFails
  BY <1>3, RegisterFailsStep
<1>4. CASE StartPolling \/ FinishInit \/ Rmmod \/ ExitStep
  BY <1>4, InitExitStep
<1>5. CASE \/ \E t \in Timer : Fire(t) \/ PlayOrSync(t)
           \/ PollInputs \/ Oops
           \/ \E i \in Input : Rewire(i)
           \/ UNCHANGED vars
  <2>1. /\ UNCHANGED <<step, loads, faults, held, phyVars>>
        /\ phase' = phase \/ (phase = "out" /\ phase' = "oops")
    <3>1. CASE \E t \in Timer : Fire(t) \/ PlayOrSync(t)
      BY <3>1 DEF Fire, PlayOrSync, lifeVars
    <3>2. CASE PollInputs \/ \E i \in Input : Rewire(i)
      BY <3>2 DEF PollInputs, Rewire, lifeVars
    <3>3. CASE Oops
      BY <3>3 DEF Oops
    <3>4. CASE UNCHANGED vars
      BY <3>4 DEF vars, lifeVars
    <3>5. QED
      BY <1>5, <3>1, <3>2, <3>3, <3>4
  <2>2. armed' \subseteq Timer /\ running' \subseteq Timer
    <3>1. "gpioPollTimerInfo" \in Timer
      BY DEF Timer, Timers
    <3>2. QED
      BY <1>5, <3>1 DEF IInv, LifeTypeOK, Fire, PlayOrSync, PollInputs, Oops, Rewire, vars, timerVars
  <2>3. InputTypeOK'
    BY <1>5, InputSteps DEF IInv, Fire, PlayOrSync, PollInputs, Oops, Rewire, vars
  <2>4. LifeTypeOK' /\ HeldInv' /\ RegistrationsGivenBack'
    BY <2>1, <2>2 DEF IInv, LifeTypeOK, HeldInv, RegistrationsGivenBack
  <2>5. PhyTypeOK' /\ ResetInv'
    BY <2>1, PhyUnchanged
  <2>6. QED
    BY <2>3, <2>4, <2>5 DEF IInv
<1>6. ASSUME NEW c \in Client, Open(c) \/ Close(c) \/ SetClrPhy(c) \/ PhyStep(c) PROVE IInv'
  BY <1>6, ClientStep
<1>7. QED
  BY <1>1, <1>2, <1>3, <1>4, <1>5, <1>6 DEF Next, InitStep

\* The invariant holds of every behaviour.
LEMMA Invariance == Spec => []IInv
BY InitInv, NextInv, PTL DEF Spec

-----------------------------------------------------------------------------

\* The shift registers stay within their mask, and what the module holds and
\* where its calls are stays within the model's types.
THEOREM TypeCorrect == Spec => []TypeOK
BY Invariance, TypeParts, PTL

\* Whichever registration of GpioModInit fails, and however often the module
\* is loaded and removed, no registration stays with it, and no pin but the one
\* that GpioModExit forgets.  Nothing is said of timers, which may stay.
THEOREM GivesBack == Spec => []RegistrationsGivenBack
BY Invariance, PTL DEF IInv

\* phy_power_on_off returns after a whole pulse, by whichever application.
THEOREM WaitsForReset == Spec => ReturnsAfterReset
<1>1. IInv /\ [Next]_vars =>
        [\A c \in Client : call[c] \in {"test", "mark"} /\ call'[c] = "open" => wasReset']_vars
  <2> SUFFICES ASSUME IInv, [Next]_vars, NEW c \in Client, call[c] \in {"test", "mark"}, call'[c] = "open"
               PROVE  wasReset'
    OBVIOUS
  <2>1. call \in [Client -> Place] /\ phase = "loaded"
    BY DEF IInv, PhyTypeOK, ResetInv
  <2>2. CASE UNCHANGED call
    BY <2>2
  <2>3. CASE \E d \in Client : Open(d) \/ Close(d) \/ SetClrPhy(d) \/ PhyStep(d)
    <3>1. PICK d \in Client : Open(d) \/ Close(d) \/ SetClrPhy(d) \/ PhyStep(d)
      BY <2>3
    <3>2. d = c
      BY <2>1, <3>1 DEF Open, Close, SetClrPhy, PhyStep, TestPinInit, PullLow, ReleaseHigh, MarkInit
    <3>3. CASE TestPinInit(c)
      BY <2>1, <3>3 DEF TestPinInit, IInv, ResetInv
    <3>4. CASE MarkInit(c)
      BY <2>1, <3>4 DEF MarkInit, IInv, ResetInv
    <3>5. QED
      BY <2>1, <3>1, <3>2, <3>3, <3>4 DEF Open, Close, SetClrPhy, PhyStep, PullLow, ReleaseHigh
  <2>4. QED
    BY <2>2, <2>3
       DEF Next, Insmod, InitStep, Register, StartPolling, FinishInit, RegisterFails, Rmmod, ExitStep,
           DeleteTimer, FinishExit, Fire, PlayOrSync, PollInputs, Oops, Rewire, vars, phyVars
<1>2. QED
  BY <1>1, Invariance, PTL DEF Spec, ReturnsAfterReset

-----------------------------------------------------------------------------
(* What goes on while the driver is loaded.                                *)

\* When GpioModInit comes to its end, it has driven the pin high and started
\* the polling.
LiveInv ==
  /\ phase = "loading" /\ step = Len(Setup) + 2
       => phyPin = 1 /\ "gpioPollTimerInfo" \in armed \union running
  /\ ResetIsReleased
  /\ TimersLive

\* The timers are handed on: to their functions and back.
LEMMA LiveStep == IInv /\ LiveInv /\ [Next]_vars => LiveInv'
<1> SUFFICES ASSUME IInv, LiveInv, [Next]_vars PROVE LiveInv'
  OBVIOUS
<1> USE ListFacts
<1>1. CASE Insmod \/ Register \/ RegisterFails \/ Rmmod \/ ExitStep \/ Oops
  BY <1>1 DEF IInv, LifeTypeOK, LiveInv, ResetIsReleased, TimersLive, Insmod, Register, RegisterFails,
              Rmmod, ExitStep, DeleteTimer, FinishExit, Oops
<1>2. CASE StartPolling
  BY <1>2 DEF LiveInv, ResetIsReleased, TimersLive, StartPolling
<1>3. CASE FinishInit
  BY <1>3 DEF LiveInv, ResetIsReleased, TimersLive, FinishInit, phyVars
<1>4. ASSUME NEW t \in Timer, Fire(t) \/ PlayOrSync(t) PROVE LiveInv'
  BY <1>4 DEF LiveInv, ResetIsReleased, TimersLive, Fire, PlayOrSync, lifeVars, phyVars
<1>5. CASE PollInputs
  BY <1>5 DEF LiveInv, ResetIsReleased, TimersLive, PollInputs, lifeVars, phyVars
<1>6. CASE (\E i \in Input : Rewire(i)) \/ UNCHANGED vars
  BY <1>6 DEF LiveInv, ResetIsReleased, TimersLive, Rewire, lifeVars, phyVars, timerVars, vars
<1>7. ASSUME NEW c \in Client, Open(c) \/ Close(c) \/ SetClrPhy(c) \/ PhyStep(c) PROVE LiveInv'
  <2>1. UNCHANGED <<lifeVars, timerVars>>
    BY <1>7 DEF Open, Close, SetClrPhy, PhyStep, TestPinInit, PullLow, ReleaseHigh, MarkInit
  <2>2. phase = "loaded"
    BY <1>7 DEF IInv, ResetInv, Open, Close, SetClrPhy, PhyStep, TestPinInit, PullLow, ReleaseHigh, MarkInit
  <2>3. ResetIsReleased'
    <3>1. call \in [Client -> Place]
      BY DEF IInv, PhyTypeOK
    <3>2. CASE PullLow(c)
      BY <3>1, <3>2 DEF PullLow, ResetIsReleased
    <3>3. CASE ReleaseHigh(c)
      BY <3>3 DEF ReleaseHigh, ResetIsReleased
    <3>4. CASE Open(c) \/ Close(c) \/ SetClrPhy(c) \/ TestPinInit(c) \/ MarkInit(c)
      <4>1. phyPin' = phyPin /\ call[c] # "delay" /\ \A d \in Client : d # c => call'[d] = call[d]
        BY <3>1, <3>4 DEF Open, Close, SetClrPhy, TestPinInit, MarkInit
      <4>2. QED
        BY <2>1, <2>2, <4>1 DEF LiveInv, ResetIsReleased, lifeVars
    <3>5. QED
      BY <1>7, <3>2, <3>3, <3>4 DEF PhyStep
  <2>4. QED
    BY <2>1, <2>2, <2>3 DEF LiveInv, TimersLive, lifeVars, timerVars
<1>8. QED
  BY <1>1, <1>2, <1>3, <1>4, <1>5, <1>6, <1>7 DEF Next, InitStep

\* It holds of every behaviour.
LEMMA LiveInvariance == Spec => []LiveInv
<1>1. Init => LiveInv
  BY DEF Init, LiveInv, ResetIsReleased, TimersLive
<1>2. QED
  BY <1>1, Invariance, LiveStep, PTL DEF Spec

\* With any number of applications that reset the PHY, a low pin has one of
\* them in its delay.
THEOREM LowPinHasOwner == Spec => []ResetIsReleased
BY LiveInvariance, PTL DEF LiveInv

\* The timer functions never leave the driver without polling and playing.
THEOREM TimersStayAlive == Spec => []TimersLive
BY LiveInvariance, PTL DEF LiveInv

-----------------------------------------------------------------------------
(* The driver implements the debouncer.                                    *)

\* The numbers of newest samples that agree; RunLength is their count.
Agree(v) == {n \in 1 .. Samples : NewestAgree(v, n)}

\* If all the samples agree, so do fewer, and the run is as long as it gets;
\* else it is shorter.
LEMMA FullRun ==
  ASSUME NEW v \in ShiftRegister
  PROVE  /\ IsFiniteSet(Agree(v)) /\ RunLength(v) = Cardinality(Agree(v))
         /\ RunLength(v) \in 0 .. Samples
         /\ Samples \in Agree(v) => Agree(v) = 1 .. Samples
         /\ RunLength(v) = Samples <=> Samples \in Agree(v)
<1> USE InputAssumption
<1>1. IsFiniteSet(1 .. Samples) /\ Cardinality(1 .. Samples) = Samples
  BY FS_Interval
<1>2. Agree(v) \subseteq 1 .. Samples
  BY DEF Agree
<1>3. IsFiniteSet(Agree(v)) /\ Cardinality(Agree(v)) <= Samples
      /\ (Cardinality(Agree(v)) = Samples => Agree(v) = 1 .. Samples)
  BY <1>1, <1>2, FS_Subset
<1>4. RunLength(v) = Cardinality(Agree(v))
  BY DEF RunLength, Agree
<1>5. Cardinality(Agree(v)) \in Nat
  BY <1>3, FS_CardinalityType
<1>6. Samples \in Agree(v) => Agree(v) = 1 .. Samples
  <2> SUFFICES ASSUME Samples \in Agree(v), NEW n \in 1 .. Samples PROVE NewestAgree(v, n)
    BY DEF Agree
  <2>1. NewestAgree(v, Samples)
    BY DEF Agree
  <2>2. QED
    BY <2>1 DEF NewestAgree
<1>7. QED
  BY <1>1, <1>3, <1>4, <1>5, <1>6

\* A run is made of the newest samples.
LEMMA RunIsAgreement ==
  ASSUME NEW v \in ShiftRegister, NEW n \in 1 .. Samples, n <= RunLength(v)
  PROVE  NewestAgree(v, n)
<1> SUFFICES ASSUME ~NewestAgree(v, n) PROVE FALSE
  OBVIOUS
<1>1. Agree(v) \subseteq 1 .. n - 1
  <2> SUFFICES ASSUME NEW m \in 1 .. Samples, NewestAgree(v, m) PROVE m <= n - 1
    BY DEF Agree
  <2>1. m >= n => NewestAgree(v, n)
    BY DEF NewestAgree
  <2>2. QED
    BY <2>1, InputAssumption
<1>2. IsFiniteSet(1 .. n - 1) /\ Cardinality(1 .. n - 1) = n - 1
  BY FS_Interval, InputAssumption
<1>3. Cardinality(Agree(v)) <= n - 1
  BY <1>1, <1>2, FS_Subset
<1>4. QED
  BY <1>3, FullRun, InputAssumption

\* All the samples agree exactly in the two patterns that the driver looks for.
LEMMA FullRunPattern ==
  ASSUME NEW v \in ShiftRegister
  PROVE  /\ v[0] \in Level
         /\ RunLength(v) = Samples /\ v[0] = 1 <=> v = ALL_SAMPLES_HIGH
         /\ RunLength(v) = Samples /\ v[0] = 0 <=> v = ALL_SAMPLES_LOW
<1> USE InputAssumption
<1>1. v \in [0 .. Samples - 1 -> Level] /\ v[0] \in Level
  BY DEF ShiftRegister
<1>2. RunLength(v) = Samples <=> \A k \in 0 .. Samples - 1 : v[k] = v[0]
  <2>1. Samples \in Agree(v) <=> NewestAgree(v, Samples)
    BY DEF Agree
  <2>2. NewestAgree(v, Samples) <=> \A k \in 0 .. Samples - 1 : v[k] = v[0]
    BY DEF NewestAgree
  <2>3. QED
    BY <2>1, <2>2, FullRun
<1>3. \A b \in Level : v = [k \in 0 .. Samples - 1 |-> b] <=> \A k \in 0 .. Samples - 1 : v[k] = b
  BY <1>1
<1>4. QED
  BY <1>1, <1>2, <1>3 DEF ALL_SAMPLES_HIGH, ALL_SAMPLES_LOW, Level

\* A sample that differs makes a run of its own.
LEMMA RunBreaks ==
  ASSUME NEW v \in ShiftRegister, NEW b \in Level, b # v[0]
  PROVE  RunLength(Shifted(v, b)) = 1
<1> DEFINE w == Shifted(v, b)
<1> USE InputAssumption
<1>1. w \in ShiftRegister /\ w[0] = b /\ (1 < Samples => w[1] = v[0])
  BY RegisterFacts DEF Shifted
<1>2. Agree(w) = {1}
  <2>1. ASSUME NEW n \in 1 .. Samples PROVE NewestAgree(w, n) <=> n = 1
    BY <1>1 DEF NewestAgree
  <2>2. QED
    BY <2>1 DEF Agree
<1>3. Cardinality({1}) = 1
  BY FS_Singleton
<1>4. QED
  BY <1>1, <1>2, <1>3, FullRun

\* A sample that agrees makes the run longer by one, as long as there is room.
LEMMA RunGrows ==
  ASSUME NEW v \in ShiftRegister
  PROVE  RunLength(Shifted(v, v[0])) = IF RunLength(v) < Samples THEN RunLength(v) + 1 ELSE Samples
<1> DEFINE w == Shifted(v, v[0])
           A == Agree(v) \ {Samples}
           B == {n + 1 : n \in A}
           f == [n \in A |-> n + 1]
<1> USE InputAssumption
<1>1. v[0] \in Level
  BY FullRunPattern
<1>2. w \in ShiftRegister /\ \A k \in 0 .. Samples - 1 : w[k] = IF k = 0 THEN v[0] ELSE v[k - 1]
  BY <1>1, RegisterFacts DEF Shifted
<1>3. A \subseteq 1 .. Samples - 1
  BY DEF Agree
<1>4. Agree(w) = B \union {1}
  <2>1. 1 \in Agree(w)
    BY <1>2 DEF Agree, NewestAgree
  <2>2. ASSUME NEW n \in 1 .. Samples - 1 PROVE n + 1 \in Agree(w) <=> n \in A
    <3>1. NewestAgree(w, n + 1) <=> \A k \in 1 .. n : w[k] = v[0]
      BY <1>2 DEF NewestAgree
    <3>2. (\A k \in 1 .. n : w[k] = v[0]) <=> \A k \in 0 .. n - 1 : v[k] = v[0]
      <4>1. \A k \in 1 .. n : w[k] = v[k - 1]
        BY <1>2
      <4>2. \A k \in 0 .. n - 1 : k + 1 \in 1 .. n /\ (k + 1) - 1 = k
        OBVIOUS
      <4>3. \A k \in 1 .. n : k - 1 \in 0 .. n - 1
        OBVIOUS
      <4>4. QED
        BY <4>1, <4>2, <4>3
    <3>3. QED
      BY <3>1, <3>2 DEF Agree, NewestAgree
  <2>3. \A m \in Agree(w) : m = 1 \/ (m - 1 \in 1 .. Samples - 1 /\ m = (m - 1) + 1)
    BY DEF Agree
  <2>4. QED
    BY <1>3, <2>1, <2>2, <2>3
<1>5. IsFiniteSet(Agree(v)) /\ IsFiniteSet(A)
      /\ Cardinality(A) = IF Samples \in Agree(v) THEN Cardinality(Agree(v)) - 1 ELSE Cardinality(Agree(v))
  BY FullRun, FS_RemoveElement
<1>6. IsFiniteSet(B) /\ Cardinality(B) = Cardinality(A)
  <2>1. f \in Bijection(A, B)
    BY <1>3 DEF Bijection, Injection, Surjection, IsInjective
  <2>2. ExistsBijection(A, B)
    BY <2>1 DEF ExistsBijection
  <2>3. QED
    BY <1>5, <2>2, FS_Bijection
<1>7. 1 \notin B
  BY <1>3
<1>8. Cardinality(Agree(w)) = Cardinality(B) + 1
  BY <1>4, <1>6, <1>7, FS_AddElement
<1>9. RunLength(v) \in 0 .. Samples /\ (RunLength(v) = Samples <=> Samples \in Agree(v))
  BY FullRun
<1>10. RunLength(w) = Cardinality(Agree(w)) /\ RunLength(v) = Cardinality(Agree(v))
  BY <1>2, FullRun
<1>11. QED
  BY <1>5, <1>6, <1>8, <1>9, <1>10

\* The physical status and what is reported of it agree, until GpioModInit has
\* finished the statuses have not been declared unknown, and behind the samples
\* that have been taken a register holds the zeros of the load.
StatusInv ==
  /\ \A i \in Input : /\ status[i] = "PIN_HIGH" => InputPinStatus[i] = "ACTIVE"
                      /\ status[i] = "PIN_LOW" => InputPinStatus[i] = "INACTIVE"
  /\ phase = "loading" => ~settled
  /\ \A i \in Input : \A k \in taken .. Samples - 1 : sampleVal[i][k] = 0

\* Polling changes the report only together with the status.
LEMMA StatusStep == IInv /\ StatusInv /\ [Next]_vars => StatusInv'
<1> SUFFICES ASSUME IInv, StatusInv, [Next]_vars PROVE StatusInv'
  OBVIOUS
<1>1. CASE Insmod
  BY <1>1, InputAssumption DEF StatusInv, Insmod, LoadStatics, ALL_SAMPLES_LOW
<1>2. CASE FinishInit
  BY <1>2 DEF StatusInv, FinishInit, SetUnknown
<1>3. CASE PollInputs
  <2>1. /\ \A i \in Input : /\ status'[i] = Accepted(sampleVal'[i], status[i])
                            /\ InputPinStatus'[i] = ChangeInputStatus(i, status'[i])
        /\ UNCHANGED <<settled, phase>>
    BY <1>3 DEF PollInputs, CheckInputPinStatus, lifeVars
  <2>2. ASSUME NEW i \in Input, NEW k \in taken' .. Samples - 1 PROVE sampleVal'[i][k] = 0
    <3>1. /\ taken \in 0 .. Samples /\ taken' = IF taken < Samples THEN taken + 1 ELSE Samples
          /\ sampleVal'[i] = Shifted(sampleVal[i], level[i])
      BY <1>3 DEF PollInputs, CheckInputPinStatus, IInv, InputTypeOK
    <3>2. k \in 1 .. Samples - 1 /\ k - 1 \in taken .. Samples - 1
      BY <3>1, InputAssumption
    <3>3. sampleVal'[i][k] = sampleVal[i][k - 1]
      BY <3>1, <3>2, InputAssumption DEF Shifted
    <3>4. QED
      BY <3>2, <3>3 DEF StatusInv
  <2>3. QED
    BY <2>1, <2>2 DEF StatusInv, ChangeInputStatus
<1>4. CASE \/ \E i \in Input : Rewire(i)
           \/ Register \/ StartPolling \/ RegisterFails \/ Rmmod \/ ExitStep \/ Oops
           \/ \E t \in Timer : Fire(t) \/ PlayOrSync(t)
           \/ \E c \in Client : Open(c) \/ Close(c) \/ SetClrPhy(c) \/ PhyStep(c)
           \/ UNCHANGED vars
  <2>1. UNCHANGED <<status, InputPinStatus, settled, sampleVal, taken>>
    BY <1>4 DEF Rewire, Wire, driverVars, inputVars, vars, Register, StartPolling, RegisterFails, Rmmod,
         ExitStep, DeleteTimer, FinishExit, Oops, Fire, PlayOrSync, Open, Close, SetClrPhy, PhyStep,
         TestPinInit, PullLow, ReleaseHigh, MarkInit
  <2>2. phase' = "loading" => phase = "loading"
    BY <1>4 DEF Rewire, lifeVars, vars, Register, StartPolling, RegisterFails, Rmmod,
         ExitStep, DeleteTimer, FinishExit, Oops, Fire, PlayOrSync, Open, Close, SetClrPhy, PhyStep,
         TestPinInit, PullLow, ReleaseHigh, MarkInit
  <2>3. QED
    BY <2>1, <2>2 DEF StatusInv
<1>5. QED
  BY <1>1, <1>2, <1>3, <1>4 DEF Next, InitStep

LEMMA StatusInvariance == Spec => []StatusInv
<1>1. Init => StatusInv
  BY InputAssumption DEF Init, InputInit, StatusInv, ALL_SAMPLES_LOW
<1>2. QED
  BY <1>1, Invariance, StatusStep, PTL DEF Spec

\* A poll of the pins is a sample of the debouncer, or one of the first of which
\* all have been low.
LEMMA PollIsSample ==
  ASSUME InputTypeOK, StatusInv, StatusInv', CheckInputPinStatus, NEW b \in [Input -> Level], b = level
  PROVE  Filter!Sample(b) \/ FirstLows
<1> USE InputAssumption
<1> DEFINE Last(i) == sampleVal[i][0]
           Run(i) == SampledRun(sampleVal[i])
<1>1. /\ level \in [Input -> Level] /\ taken \in 0 .. Samples
      /\ \A i \in Input : sampleVal[i] \in ShiftRegister /\ level[i] \in Level
  BY DEF InputTypeOK
<1>2. /\ \A i \in Input : sampleVal'[i] = Shifted(sampleVal[i], level[i])
      /\ taken' = IF taken < Samples THEN taken + 1 ELSE Samples
  BY DEF CheckInputPinStatus
<1>3. \A i \in Input : sampleVal'[i] \in ShiftRegister /\ sampleVal'[i][0] = level[i]
  BY <1>1, <1>2, RegisterFacts
<1>4. [i \in Input |-> sampleVal'[i][0]] = level
  BY <1>1, <1>3
<1>5. ASSUME NEW i \in Input
      PROVE  Run(i)' = IF level[i] # Last(i) THEN 1
                       ELSE IF Run(i) < Samples THEN Run(i) + 1 ELSE Samples
  <2>1. RunLength(sampleVal[i]) \in 0 .. Samples
    BY <1>1, FullRun
  <2>2. RunLength(sampleVal'[i]) = IF level[i] # Last(i) THEN 1
                                   ELSE IF RunLength(sampleVal[i]) < Samples
                                        THEN RunLength(sampleVal[i]) + 1 ELSE Samples
    <3>1. CASE level[i] # Last(i)
      BY <1>1, <1>2, <3>1, RunBreaks
    <3>2. CASE level[i] = Last(i)
      BY <1>1, <1>2, <3>2, RunGrows
    <3>3. QED
      BY <3>1, <3>2
  <2>3. QED
    BY <1>1, <1>2, <2>1, <2>2 DEF SampledRun
<1>6. Filter!Count(b)
  BY <1>1, <1>4, <1>5 DEF Filter!Count, Filter!Longer, CheckInputPinStatus
<1>7. ASSUME NEW i \in Input
      PROVE  /\ level[i] = 0 \/ level[i] = 1
             /\ RunLength(sampleVal'[i]) \in 0 .. Samples
             /\ InputPinStatus'[i] = IF RunLength(sampleVal'[i]) = Samples
                                     THEN IF level[i] = 0 THEN "INACTIVE" ELSE "ACTIVE"
                                     ELSE InputPinStatus[i]
  <2>1. /\ status'[i] = Accepted(sampleVal'[i], status[i])
        /\ InputPinStatus'[i] = ChangeInputStatus(i, status'[i])
    BY DEF CheckInputPinStatus
  <2>2. /\ RunLength(sampleVal'[i]) = Samples /\ level[i] = 1 <=> sampleVal'[i] = ALL_SAMPLES_HIGH
        /\ RunLength(sampleVal'[i]) = Samples /\ level[i] = 0 <=> sampleVal'[i] = ALL_SAMPLES_LOW
    BY <1>3, FullRunPattern
  <2>3. level[i] = 0 \/ level[i] = 1
    BY <1>1 DEF Level
  <2>4. RunLength(sampleVal'[i]) \in 0 .. Samples
    BY <1>3, FullRun
  <2>5. QED
    BY <2>1, <2>2, <2>3, <2>4 DEF Accepted, ChangeInputStatus, StatusInv
<1>8. InputPinStatus' = [i \in Input |-> InputPinStatus'[i]]
  BY DEF CheckInputPinStatus
<1>9. CASE taken' = Samples
  <2>1. \A i \in Input : Run(i)' = RunLength(sampleVal'[i])
    BY <1>7, <1>9 DEF SampledRun
  <2>2. InputPinStatus' = [i \in Input |-> IF Run(i)' = Samples THEN Filter!Name(b[i]) ELSE InputPinStatus[i]]
    BY <1>7, <1>8, <2>1 DEF Filter!Name
  <2>3. QED
    BY <1>6, <2>2 DEF Filter!Sample
<1>10. CASE taken' # Samples
  <2>1. taken' \in 1 .. Samples - 1
    BY <1>1, <1>2, <1>10
  <2>2. ASSUME NEW i \in Input
        PROVE  RunLength(sampleVal'[i]) = Samples <=> level[i] = 0 /\ Run(i)' = taken'
    <3>1. /\ \A k \in taken' .. Samples - 1 : sampleVal'[i][k] = 0
          /\ Samples - 1 \in taken' .. Samples - 1
      BY <2>1 DEF StatusInv
    <3>2. CASE RunLength(sampleVal'[i]) = Samples
      <4>1. NewestAgree(sampleVal'[i], Samples)
        BY <1>3, <3>2, RunIsAgreement
      <4>2. sampleVal'[i][Samples - 1] = sampleVal'[i][0]
        BY <2>1, <4>1 DEF NewestAgree
      <4>3. QED
        BY <1>3, <2>1, <3>1, <3>2, <4>2 DEF SampledRun
    <3>3. CASE level[i] = 0 /\ Run(i)' = taken'
      <4>1. taken' <= RunLength(sampleVal'[i])
        BY <1>7, <2>1, <3>3 DEF SampledRun
      <4>2. NewestAgree(sampleVal'[i], taken')
        BY <1>3, <2>1, <4>1, RunIsAgreement
      <4>3. \A k \in 0 .. Samples - 1 : sampleVal'[i][k] = 0
        BY <1>3, <2>1, <3>1, <3>3, <4>2 DEF NewestAgree
      <4>4. sampleVal'[i] = ALL_SAMPLES_LOW
        BY <1>3, <4>3 DEF ALL_SAMPLES_LOW, ShiftRegister
      <4>5. QED
        BY <1>3, <3>3, <4>4, FullRunPattern
    <3>4. QED
      BY <3>2, <3>3
  <2>3. InputPinStatus' = [i \in Input |->
          IF b[i] = 0 /\ Run(i)' = taken' THEN "INACTIVE" ELSE InputPinStatus[i]]
    BY <1>7, <1>8, <2>2
  <2>4. QED
    BY <1>6, <2>1, <2>3 DEF FirstLows
<1>11. QED
  BY <1>9, <1>10

\* The polling of MxGpioDrv.c is a debouncer with its number of samples, but for
\* the first lows: a step of the driver is a sample, one of the first samples
\* after a load of which all have been low, the declaration of GpioModInit that
\* the statuses are unknown, a restart by insmod, or nothing.
THEOREM DriverDebounces == Spec => DebouncesButFirstLows
<1> USE InputAssumption
<1>1. ALL_SAMPLES_LOW[0] = 0 /\ RunLength(ALL_SAMPLES_LOW) \in 0 .. Samples
  BY RegisterFacts, FullRun, FullRunPattern
<1>2. Init => Filter!Init
  <2> SUFFICES ASSUME Init PROVE Filter!Init
    OBVIOUS
  <2>1. /\ \A i \in Input : sampleVal[i] = ALL_SAMPLES_LOW
        /\ InputPinStatus = [i \in Input |-> "INACTIVE"] /\ settled = FALSE /\ taken = 0
    BY DEF Init, InputInit
  <2>2. SampledRun(ALL_SAMPLES_LOW) = 0
    BY <1>1, <2>1 DEF SampledRun
  <2>3. QED
    BY <1>1, <2>1, <2>2 DEF Filter!Init, Filter!Report
<1>3. IInv /\ IInv' /\ StatusInv /\ StatusInv' /\ [Next]_vars => [Filter!Next \/ FirstLows]_(Filter!vars)
  <2> SUFFICES ASSUME IInv, StatusInv, StatusInv', [Next]_vars
               PROVE  [Filter!Next \/ FirstLows]_(Filter!vars)
    OBVIOUS
  <2>1. CASE Insmod
    <3>1. /\ \A i \in Input : sampleVal'[i] = ALL_SAMPLES_LOW
          /\ InputPinStatus' = [i \in Input |-> "INACTIVE"] /\ settled' = FALSE /\ taken' = 0
      BY <2>1 DEF Insmod, LoadStatics
    <3>2. \A i \in Input : SampledRun(sampleVal[i])' = 0
      BY <1>1, <3>1 DEF SampledRun
    <3>3. Filter!Restart
      BY <1>1, <3>1, <3>2 DEF Filter!Restart, Filter!Report
    <3>4. QED
      BY <3>3 DEF Filter!Next
  <2>2. CASE FinishInit
    <3>1. /\ ~settled /\ settled' /\ UNCHANGED <<sampleVal, taken>>
          /\ InputPinStatus' = [i \in Input |-> "UNKNOWN"]
      BY <2>2 DEF FinishInit, SetUnknown, StatusInv
    <3>2. Filter!Settle
      BY <3>1, <2>2 DEF Filter!Settle, FinishInit, SetUnknown, SampledRun
    <3>3. QED
      BY <3>2 DEF Filter!Next
  <2>3. CASE PollInputs
    <3>1. PICK b \in [Input -> {0, 1}] : b = level
      BY DEF IInv, InputTypeOK, Level
    <3>2. Filter!Sample(b) \/ FirstLows
      BY <2>3, <3>1, PollIsSample DEF IInv, PollInputs, Level
    <3>3. QED
      BY <3>2 DEF Filter!Next
  <2>4. CASE \/ \E i \in Input : Rewire(i)
             \/ Register \/ StartPolling \/ RegisterFails \/ Rmmod \/ ExitStep \/ Oops
             \/ \E t \in Timer : Fire(t) \/ PlayOrSync(t)
             \/ \E c \in Client : Open(c) \/ Close(c) \/ SetClrPhy(c) \/ PhyStep(c)
             \/ UNCHANGED vars
    <3>1. UNCHANGED <<sampleVal, InputPinStatus, settled, taken>>
      BY <2>4 DEF Rewire, Wire, driverVars, inputVars, vars, Register, StartPolling, RegisterFails, Rmmod,
           ExitStep, DeleteTimer, FinishExit, Oops, Fire, PlayOrSync, Open, Close, SetClrPhy, PhyStep,
           TestPinInit, PullLow, ReleaseHigh, MarkInit
    <3>2. QED
      BY <3>1 DEF Filter!vars, SampledRun
  <2>5. QED
    BY <2>1, <2>2, <2>3, <2>4 DEF Next, InitStep
<1>4. QED
  BY <1>2, <1>3, Invariance, StatusInvariance, PTL DEF Spec, DebouncesButFirstLows

=============================================================================
