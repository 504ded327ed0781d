----------------------------- MODULE MxGpioModule ----------------------------
(***************************************************************************)
(* The life of the MxGpio kernel module: GpioModInit with its error        *)
(* labels, GpioModExit, the timers that start themselves again, and the    *)
(* applications whose ioctls reset the PHY, around the polling of the      *)
(* inputs (MxGpioInput).  Timer functions run on another CPU: del_timer    *)
(* takes a pending timer away and does not wait for a function that runs.  *)
(* Applications open a loaded driver only, and rmmod refuses while one has *)
(* the device open.                                                        *)
(***************************************************************************)
EXTENDS MxGpioInput, Sequences

CONSTANTS
  Client,      \* applications that open the device
  MaxLoads,    \* bound: how often insmod is run
  MaxFaults    \* bound: registrations that fail

ASSUME ModuleAssumption ==
  /\ IsFiniteSet(Client)
  /\ MaxLoads \in Nat /\ MaxFaults \in Nat

VARIABLES
  phase,         \* "out", "loading", "loaded", "leaving", or "oops": the kernel has crashed
  step,          \* how far GpioModInit or GpioModExit has got
  held,          \* registrations and pins that the module has from the kernel
  armed,         \* timers that are pending
  running,       \* timers whose function runs
  call,          \* [Client -> where its ioctl is]
  phyPin,        \* the level of PHY0_RST_PIN, low resets the chip
  is_pin_init,   \* the static of phy_power_on_off
  wasReset,      \* a reset pulse has ended since the module was loaded
  loads, faults

lifeVars == <<phase, step, loads, faults>>
phyVars == <<call, phyPin, is_pin_init, wasReset>>
timerVars == <<armed, running>>
vars == <<inputVars, lifeVars, held, timerVars, phyVars>>

Timers == <<"gpioPollTimerInfo", "buzLedCadTimerInfo", "buzLedSyncTimerInfo">>
Timer == {Timers[k] : k \in 1 .. Len(Timers)}

\* What GpioModInit registers, in its order ("device" is class and device),
\* and the labels it jumps to, in the order in which they follow each other.
Setup == <<"region", "cdev", "device", "buzzer", "phyrst", "asmrst", "ipdef",
           "almout", "fanctl", "almin", "usbpower", "redled", "greenled">>
Labels == <<"greenled", "redled", "usbpower", "almin", "fanctl", "almout", "ipdef",
            "phyrst", "asmrst", "buzzer", "device", "cdev", "region">>
Registration == {Setup[k] : k \in 1 .. Len(Setup)}
Group == Registration \ {"region", "cdev", "device"}

\* The twenty pins that GpioModExit frees, and the one it forgets.
Pins == {"pins", "PHY1_RST_PIN"}

Init ==
  /\ InputInit
  /\ phase = "out" /\ step = 1 /\ loads = 0 /\ faults = 0
  /\ held = {} /\ armed = {} /\ running = {}
  /\ call = [c \in Client |-> "closed"]
  /\ phyPin = 0 /\ is_pin_init = FALSE /\ wasReset = FALSE

-----------------------------------------------------------------------------

Insmod ==
  /\ phase = "out" /\ armed \union running = {} /\ loads < MaxLoads
  /\ phase' = "loading" /\ step' = 1 /\ loads' = loads + 1
  /\ LoadStatics
  /\ is_pin_init' = FALSE /\ wasReset' = FALSE
  /\ UNCHANGED <<faults, held, timerVars, call, phyPin>>

Register ==
  /\ phase = "loading" /\ step <= Len(Setup)
  /\ held' = held \union {Setup[step]}
  /\ step' = step + 1
  /\ UNCHANGED <<inputVars, phase, loads, faults, timerVars, phyVars>>

\* The labels behind a label.
From(s) == {Labels[k] : k \in {n \in 1 .. Len(Labels) : \E j \in 1 .. n : Labels[j] = s}}

\* Bug: the first group that fails jumps to the label below the device.
UndoneBelow(s) ==
  IF s = "buzzer" THEN From("cdev")
  ELSE From(s) \union (IF "device" \in From(s) THEN Group ELSE {})

\* The label of the step that failed and all after it; the kernel takes the
\* attributes of a device away with the device.
Undone(s) == From(s) \union (IF "device" \in From(s) THEN Group ELSE {})

\* The results of class_create and device_create are used unchecked.
RegisterFails ==
  /\ phase = "loading" /\ step <= Len(Setup) /\ faults < MaxFaults
  /\ faults' = faults + 1
  /\ IF Setup[step] = "device"
     THEN phase' = "oops" /\ UNCHANGED held
     ELSE phase' = "out" /\ held' = held \ Undone(Setup[step])
  /\ UNCHANGED <<inputVars, step, loads, timerVars, phyVars>>

\* registerGPIOPin ignores what gpio_request returns and drives the resets high.
StartPolling ==
  /\ phase = "loading" /\ step = Len(Setup) + 1
  /\ step' = step + 1
  /\ held' = held \union Pins
  /\ phyPin' = 1
  /\ armed' = armed \union {"gpioPollTimerInfo"}
  /\ UNCHANGED <<inputVars, phase, loads, faults, running, call, is_pin_init, wasReset>>

\* SetLedCad(NVRX_IDLE_RESP) arms the sync timer.
FinishInit ==
  /\ phase = "loading" /\ step = Len(Setup) + 2
  /\ SetUnknown
  /\ armed' = armed \union {"buzLedCadTimerInfo", "buzLedSyncTimerInfo"}
  /\ phase' = "loaded"
  /\ UNCHANGED <<step, loads, faults, held, running, phyVars>>

Rmmod ==
  /\ phase = "loaded" /\ \A c \in Client : call[c] = "closed"
  /\ phase' = "leaving" /\ step' = 1
  /\ held' = held \ {"pins"}
  /\ UNCHANGED <<inputVars, loads, faults, timerVars, phyVars>>

DeleteTimer ==
  /\ phase = "leaving" /\ step <= Len(Timers)
  /\ armed' = armed \ {Timers[step]}
  /\ step' = step + 1
  /\ UNCHANGED <<inputVars, phase, loads, faults, held, running, phyVars>>

FinishExit ==
  /\ phase = "leaving" /\ step = Len(Timers) + 1
  /\ held' = held \ Registration
  /\ phase' = "out"
  /\ UNCHANGED <<inputVars, step, loads, faults, timerVars, phyVars>>

-----------------------------------------------------------------------------

Present == phase \in {"loading", "loaded", "leaving"}

Fire(t) ==
  /\ Present /\ t \in armed
  /\ armed' = armed \ {t} /\ running' = running \union {t}
  /\ UNCHANGED <<inputVars, lifeVars, held, phyVars>>

PollInputs ==
  /\ Present /\ "gpioPollTimerInfo" \in running
  /\ CheckInputPinStatus
  /\ armed' = armed \union {"gpioPollTimerInfo"}
  /\ running' = running \ {"gpioPollTimerInfo"}
  /\ UNCHANGED <<lifeVars, held, phyVars>>

\* Bug: the timer that is started again is the one for the synchronisation.
PlayOnce(t) ==
  /\ Present /\ t \in running \ {"gpioPollTimerInfo"}
  /\ armed' = IF t = "buzLedSyncTimerInfo" THEN armed \union {t} ELSE armed
  /\ running' = running \ {t}
  /\ UNCHANGED <<inputVars, lifeVars, held, phyVars>>

\* ProcBuzLedCad starts its timer again, SyncBuzLedCad does not.  What they do
\* to the table is the subject of MxGpioCadence.
PlayOrSync(t) ==
  /\ Present /\ t \in running \ {"gpioPollTimerInfo"}
  /\ armed' = IF t = "buzLedCadTimerInfo" THEN armed \union {t} ELSE armed
  /\ running' = running \ {t}
  /\ UNCHANGED <<inputVars, lifeVars, held, phyVars>>

\* The memory of the module is gone, and its timer function is called or goes on.
Oops ==
  /\ phase = "out" /\ armed \union running # {}
  /\ phase' = "oops"
  /\ UNCHANGED <<inputVars, step, loads, faults, held, timerVars, phyVars>>

Open(c) ==
  /\ phase = "loaded" /\ call[c] = "closed"
  /\ call' = [call EXCEPT ![c] = "open"]
  /\ UNCHANGED <<inputVars, lifeVars, held, timerVars, phyPin, is_pin_init, wasReset>>

Close(c) ==
  /\ call[c] = "open"
  /\ call' = [call EXCEPT ![c] = "closed"]
  /\ UNCHANGED <<inputVars, lifeVars, held, timerVars, phyPin, is_pin_init, wasReset>>

\* MXGPIO_SET_CLR_PHY, whatever its argument.
SetClrPhy(c) ==
  /\ call[c] = "open"
  /\ call' = [call EXCEPT ![c] = "test"]
  /\ UNCHANGED <<inputVars, lifeVars, held, timerVars, phyPin, is_pin_init, wasReset>>

TestPinInit(c) ==
  /\ call[c] = "test"
  /\ call' = [call EXCEPT ![c] = IF is_pin_init THEN "open" ELSE "pull"]
  /\ UNCHANGED <<inputVars, lifeVars, held, timerVars, phyPin, is_pin_init, wasReset>>

\* Bug: the flag is set before the pulse and not after it.
PullAndMark(c) ==
  /\ call[c] = "pull"
  /\ call' = [call EXCEPT ![c] = "delay"]
  /\ phyPin' = 0 /\ is_pin_init' = TRUE
  /\ UNCHANGED <<inputVars, lifeVars, held, timerVars, wasReset>>

PullLow(c) ==
  /\ call[c] = "pull"
  /\ call' = [call EXCEPT ![c] = "delay"]
  /\ phyPin' = 0
  /\ UNCHANGED <<inputVars, lifeVars, held, timerVars, is_pin_init, wasReset>>

\* Bug: a chip that has been reset before is not released again.
ReleaseOnce(c) ==
  /\ call[c] = "delay"
  /\ call' = [call EXCEPT ![c] = "mark"]
  /\ phyPin' = IF wasReset THEN phyPin ELSE 1
  /\ wasReset' = TRUE
  /\ UNCHANGED <<inputVars, lifeVars, held, timerVars, is_pin_init>>

\* mdelay(20) is over.
ReleaseHigh(c) ==
  /\ call[c] = "delay"
  /\ call' = [call EXCEPT ![c] = "mark"]
  /\ phyPin' = 1
  /\ wasReset' = TRUE
  /\ UNCHANGED <<inputVars, lifeVars, held, timerVars, is_pin_init>>

\* Bug: the call returns without it.
MarkForgotten(c) ==
  /\ call[c] = "mark"
  /\ call' = [call EXCEPT ![c] = "open"]
  /\ UNCHANGED <<inputVars, lifeVars, held, timerVars, phyPin, is_pin_init, wasReset>>

MarkInit(c) ==
  /\ call[c] = "mark"
  /\ call' = [call EXCEPT ![c] = "open"]
  /\ is_pin_init' = TRUE
  /\ UNCHANGED <<inputVars, lifeVars, held, timerVars, phyPin, wasReset>>

\* One step of phy_power_on_off.
PhyStep(c) == TestPinInit(c) \/ PullLow(c) \/ ReleaseHigh(c) \/ MarkInit(c)

Rewire(i) == Wire(i) /\ UNCHANGED <<lifeVars, held, timerVars, phyVars>>

InitStep == Register \/ StartPolling \/ FinishInit
ExitStep == DeleteTimer \/ FinishExit

Next ==
  \/ Insmod \/ InitStep \/ RegisterFails \/ Rmmod \/ ExitStep
  \/ \E t \in Timer : Fire(t) \/ PlayOrSync(t)
  \/ PollInputs \/ Oops
  \/ \E c \in Client : Open(c) \/ Close(c) \/ SetClrPhy(c) \/ PhyStep(c)
  \/ \E i \in Input : Rewire(i)

Spec == Init /\ [][Next]_vars

\* Timers expire, their functions return, and so do ioctls that have begun.
FairSpec ==
  /\ Spec
  /\ WF_vars(InitStep) /\ WF_vars(ExitStep)
  /\ \A t \in Timer : WF_vars(Fire(t)) /\ WF_vars(PlayOrSync(t))
  /\ WF_vars(PollInputs)
  /\ \A c \in Client : WF_vars(PhyStep(c))

-----------------------------------------------------------------------------

TypeOK ==
  /\ InputTypeOK
  /\ phase \in {"out", "loading", "loaded", "leaving", "oops"}
  /\ step \in 1 .. Len(Setup) + 2
  /\ held \subseteq Registration \union Pins
  /\ armed \subseteq Timer /\ running \subseteq Timer
  /\ call \in [Client -> {"closed", "open", "test", "pull", "delay", "mark"}]
  /\ phyPin \in Level
  /\ is_pin_init \in BOOLEAN /\ wasReset \in BOOLEAN
  /\ loads \in 0 .. MaxLoads /\ faults \in 0 .. MaxFaults

\* Wherever a registration fails, and after every rmmod, the kernel has all
\* registrations back, and all pins but the one that GpioModExit does not free:
\* the error labels are out of order, and the removal of the device makes up
\* for it.  Timers are not among them: one whose function runs during the exit
\* is pending after it (Oops).
RegistrationsGivenBack == phase = "out" => held \subseteq {"PHY1_RST_PIN"}

\* When the request to reset the PHY returns, the chip has been through a whole
\* reset, also when another application had begun it: the flag that makes the
\* second request return at once is set after the pulse.
ReturnsAfterReset ==
  [][\A c \in Client :
       call[c] \in {"test", "mark"} /\ call'[c] = "open" => wasReset']_vars

\* A PHY that is held in reset while applications run has one that will let it
\* go, whichever others pull and release the pin meanwhile: GpioModInit leaves
\* the pin high, and rmmod waits for the application that is in the delay.
ResetIsReleased ==
  phase = "loaded" /\ phyPin = 0 => \E c \in Client : call[c] = "delay"

\* The input polling and the cadence player are never lost while the driver is
\* loaded: each of the two timers is pending, or its function runs and will
\* start it again.
TimersLive ==
  phase = "loaded" => {"gpioPollTimerInfo", "buzLedCadTimerInfo"} \subseteq armed \union running

\* However many applications ask for it again, a PHY that is in use is at last
\* left out of reset for good.
PhyStaysUp == <>[](phase = "loaded") => <>[](phyPin = 1)

\* CheckInputPinStatus: "If defined no. of consecutive samples are LOW then only
\* consider pin change to LOW", and the same for HIGH, across a removal and a
\* new load of the module.
Debounces == Filter!Spec

\* One of the first samples after a load, when the shift registers are not
\* full: an input that has been low in all of them is called inactive.
FirstLows ==
  /\ taken' < Samples
  /\ \E b \in [Input -> Level] :
       /\ Filter!Count(b)
       /\ InputPinStatus' = [i \in Input |->
            IF b[i] = 0 /\ SampledRun(sampleVal[i])' = taken' THEN "INACTIVE" ELSE InputPinStatus[i]]

\* That is the only way in which the polling is not a debouncer: no input is
\* ever called active, and none inactive once it has been high or the registers
\* are full, without the defined number of equal samples in a row.
DebouncesButFirstLows == Filter!Init /\ [][Filter!Next \/ FirstLows]_(Filter!vars)

\* A pin that keeps its level while the driver stays loaded is reported with it
\* in the end, whatever came before the statuses were set to unknown.
StableLevelIsReported ==
  \A i \in Input, b \in Level :
    <>[](phase = "loaded" /\ level[i] = b)
      => <>[](InputPinStatus[i] = IF b = 0 THEN "INACTIVE" ELSE "ACTIVE")

=============================================================================
