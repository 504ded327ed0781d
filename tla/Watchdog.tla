------------------------------ MODULE Watchdog ------------------------------
(***************************************************************************)
(* The driver /dev/watchdog of watchdog.c.  An application opens it and    *)
(* then feeds it by ioctl; every 100 ms a timer function toggles the kick  *)
(* pin of an external watchdog chip and counts the feed down; when the     *)
(* count is used up it stops kicking and the chip resets the board.        *)
(*                                                                         *)
(* The kernel is SMP and nothing is locked: the timer function runs on one *)
(* CPU while an application opens or feeds on another.  Its steps are the  *)
(* accesses of shared variables and of the pin; so are those of an open    *)
(* from the store of wdtPinStatus on.  A feed and the module's exit are    *)
(* one step each, and one application opens at a time.                     *)
(***************************************************************************)
EXTENDS Naturals

CONSTANTS
  WATCHDOG_TIMEOUT,  \* 600 intervals of 100 ms
  CHIP_TIMEOUT,      \* intervals without an edge after which the chip resets (external)
  MaxOps             \* bound on the opens and feeds of a behaviour

ASSUME TimeoutAssumption ==
  /\ WATCHDOG_TIMEOUT \in Nat \ {0}
  /\ CHIP_TIMEOUT \in Nat \ {0, 1, 2}  \* an open that meets a kick may cost an edge
  /\ MaxOps \in Nat

VARIABLES
  isSystemRunning,
  wdtTimeOutCount,
  wdtPinStatus,    \* what the driver takes the level of the kick pin to be
  pin,             \* and what it is
  enabled,         \* WDT_EN is low: the chip watches the kick pin
  armed,           \* wdtTimer is pending
  tasklet,         \* where wdt_Tasklet is, the count it has loaded, the level it will set
  opener,          \* what wdtInit still has to store: nothing ("idle"), "status" or "pin"
  loaded,          \* the module has not been removed
  relinked,        \* the timer was set up anew while it was pending
  quiet,           \* intervals the chip has seen no edge of the kick pin
  gap,             \* intervals since the last open or feed
  late,            \* the application has once let the gap grow to the timeout
  cleanGap,        \* the same, of those that did not meet the countdown
  expired,         \* the driver has stopped kicking, at least once
  ops

kickPin == <<wdtPinStatus, pin>>
driver == <<isSystemRunning, wdtTimeOutCount, kickPin, enabled, armed, loaded, relinked>>
history == <<gap, late, cleanGap, expired>>
vars == <<driver, tasklet, opener, quiet, history, ops>>

Count == 0 .. WATCHDOG_TIMEOUT
Tasklet ==
  [at : {"idle", "kick", "pin", "rearm", "load", "store", "test", "expire"},
   reg : Count, level : {0, 1}]

TypeOK ==
  /\ isSystemRunning \in BOOLEAN
  /\ wdtTimeOutCount \in Count
  /\ wdtPinStatus \in {0, 1} /\ pin \in {0, 1}
  /\ enabled \in BOOLEAN
  /\ armed \in BOOLEAN
  /\ tasklet \in Tasklet
  /\ opener \in {"idle", "status", "pin"}
  /\ loaded \in BOOLEAN
  /\ relinked \in BOOLEAN
  /\ quiet \in 0 .. CHIP_TIMEOUT
  /\ gap \in Count
  /\ late \in BOOLEAN
  /\ cleanGap \in Count
  /\ expired \in BOOLEAN
  /\ ops \in 0 .. MaxOps

\* After watchdog_init, which has driven the pin high; nothing runs before the
\* first open.
Init ==
  /\ isSystemRunning = TRUE
  /\ wdtTimeOutCount = 0
  /\ wdtPinStatus = 0 /\ pin = 1
  /\ enabled = FALSE
  /\ armed = FALSE
  /\ tasklet = [at |-> "idle", reg |-> 0, level |-> 0]
  /\ opener = "idle"
  /\ loaded = TRUE
  /\ relinked = FALSE
  /\ quiet = 0
  /\ gap = 0
  /\ late = FALSE
  /\ cleanGap = 0
  /\ expired = FALSE
  /\ ops = 0

\* The chip has reset the board: nothing of the system runs any more.
BoardReset == enabled /\ quiet >= CHIP_TIMEOUT

Goto(label) == tasklet' = [tasklet EXCEPT !.at = label]
Later(n) == IF n < WATCHDOG_TIMEOUT THEN n + 1 ELSE n

-----------------------------------------------------------------------------
(* Time.                                                                   *)

\* 100 ms pass; a pending timer expires.  The timer function takes far less,
\* and so does an open.
Interval ==
  /\ ~BoardReset
  /\ tasklet.at = "idle" /\ opener = "idle"
  /\ quiet' = IF enabled THEN quiet + 1 ELSE 0
  /\ gap' = Later(gap)
  /\ late' = (late \/ (enabled /\ gap' >= WATCHDOG_TIMEOUT - 1))
  /\ cleanGap' = Later(cleanGap)
  /\ armed' = FALSE
  /\ Goto(IF armed THEN "kick" ELSE "idle")
  /\ UNCHANGED <<isSystemRunning, wdtTimeOutCount, kickPin, enabled, loaded, relinked, opener, expired,
                 ops>>

\* A timer linked into the wheel twice: undefined, it may run at any time.
RunAgain ==
  /\ ~BoardReset
  /\ relinked
  /\ tasklet.at = "idle"
  /\ Goto("kick")
  /\ UNCHANGED <<driver, opener, quiet, history, ops>>

-----------------------------------------------------------------------------
(* wdt_Tasklet.                                                            *)

\* The new level is stored before it is set.
Kick ==
  /\ ~BoardReset
  /\ tasklet.at = "kick"
  /\ IF isSystemRunning
     THEN /\ wdtPinStatus' = 1 - wdtPinStatus
          /\ tasklet' = [tasklet EXCEPT !.at = "pin", !.level = 1 - wdtPinStatus]
     ELSE /\ Goto("load")
          /\ UNCHANGED wdtPinStatus
  /\ UNCHANGED <<isSystemRunning, wdtTimeOutCount, pin, enabled, armed, loaded, relinked, opener,
                 quiet, history, ops>>

\* The chip sees an edge when the level changes.
Drive(b) ==
  /\ pin' = b
  /\ quiet' = IF pin = b THEN quiet ELSE 0

SetKickPin ==
  /\ ~BoardReset
  /\ tasklet.at = "pin"
  /\ Drive(tasklet.level)
  /\ Goto("rearm")
  /\ UNCHANGED <<isSystemRunning, wdtTimeOutCount, wdtPinStatus, enabled, armed, loaded, relinked,
                 opener, history, ops>>

\* Bug: the timer is not started again.
NotRearmed ==
  /\ ~BoardReset
  /\ tasklet.at = "rearm"
  /\ Goto("load")
  /\ UNCHANGED <<driver, opener, quiet, history, ops>>

Rearm ==
  /\ ~BoardReset
  /\ tasklet.at = "rearm"
  /\ armed' = TRUE
  /\ Goto("load")
  /\ UNCHANGED <<isSystemRunning, wdtTimeOutCount, kickPin, enabled, loaded, relinked, opener, quiet,
                 history, ops>>

Load ==
  /\ ~BoardReset
  /\ tasklet.at = "load"
  /\ tasklet' = [tasklet EXCEPT !.at = IF wdtTimeOutCount = 0 THEN "idle" ELSE "store",
                                !.reg = wdtTimeOutCount]
  /\ UNCHANGED <<driver, opener, quiet, history, ops>>

Store ==
  /\ ~BoardReset
  /\ tasklet.at = "store"
  /\ wdtTimeOutCount' = tasklet.reg - 1
  /\ tasklet' = [tasklet EXCEPT !.at = "test", !.reg = @ - 1]
  /\ UNCHANGED <<isSystemRunning, kickPin, enabled, armed, loaded, relinked, opener, quiet, history,
                 ops>>

\* The compiler may test the value it stored or read the variable again.
Test ==
  /\ ~BoardReset
  /\ tasklet.at = "test"
  /\ \E n \in {tasklet.reg, wdtTimeOutCount} : Goto(IF n = 0 THEN "expire" ELSE "idle")
  /\ UNCHANGED <<driver, opener, quiet, history, ops>>

\* Bug: the kicking goes on.
ExpireButRun ==
  /\ ~BoardReset
  /\ tasklet.at = "expire"
  /\ wdtTimeOutCount' = WATCHDOG_TIMEOUT
  /\ expired' = TRUE
  /\ Goto("idle")
  /\ UNCHANGED <<isSystemRunning, kickPin, enabled, armed, loaded, relinked, opener, quiet, gap, late,
                 cleanGap, ops>>

Expire ==
  /\ ~BoardReset
  /\ tasklet.at = "expire"
  /\ isSystemRunning' = FALSE
  /\ wdtTimeOutCount' = WATCHDOG_TIMEOUT
  /\ expired' = TRUE
  /\ Goto("idle")
  /\ UNCHANGED <<kickPin, enabled, armed, loaded, relinked, opener, quiet, gap, late, cleanGap, ops>>

-----------------------------------------------------------------------------
(* The applications.                                                       *)

StartOp ==
  /\ ~BoardReset
  /\ loaded
  /\ ops < MaxOps
  /\ ops' = ops + 1

\* The count is written between the tasklet's load and its last use of it.
MeetsCountdown == tasklet.at \in {"store", "test", "expire"}

Grant(n) ==
  /\ wdtTimeOutCount' = n
  /\ gap' = 0
  /\ cleanGap' = IF MeetsCountdown THEN cleanGap ELSE 0

\* Bug: half the time is granted.
FedHalf == Grant(WATCHDOG_TIMEOUT \div 2)

\* Bug: the time is added to what is left.
FedOnTop == Grant(wdtTimeOutCount + WATCHDOG_TIMEOUT)

Fed == Grant(WATCHDOG_TIMEOUT)

\* watchdog_open, wdtInit up to the enable pin.
watchdog_open ==
  /\ StartOp
  /\ opener = "idle"
  /\ isSystemRunning' = TRUE
  /\ Fed
  /\ relinked' = (relinked \/ armed)
  /\ armed' = TRUE
  /\ enabled' = TRUE
  /\ quiet' = IF enabled THEN quiet ELSE 0
  /\ opener' = "status"
  /\ UNCHANGED <<kickPin, tasklet, loaded, late, expired>>

\* The rest of wdtInit.
OpenStatus ==
  /\ ~BoardReset
  /\ opener = "status"
  /\ wdtPinStatus' = 1
  /\ opener' = "pin"
  /\ UNCHANGED <<isSystemRunning, wdtTimeOutCount, pin, enabled, armed, tasklet, loaded, relinked,
                 quiet, history, ops>>

OpenPin ==
  /\ ~BoardReset
  /\ opener = "pin"
  /\ Drive(1)
  /\ opener' = "idle"
  /\ UNCHANGED <<isSystemRunning, wdtTimeOutCount, wdtPinStatus, enabled, armed, tasklet, loaded,
                 relinked, history, ops>>

\* watchdog_ioctl, IOCTL_WATCHDOG_TOGGLE; the caller has the device open.
watchdog_ioctl ==
  /\ StartOp
  /\ enabled
  /\ Fed
  /\ UNCHANGED <<isSystemRunning, kickPin, enabled, armed, tasklet, loaded, relinked, opener, quiet,
                 late, expired>>

\* The module does not wait for a tasklet that is running.
watchdog_exit ==
  /\ ~BoardReset
  /\ loaded
  /\ loaded' = FALSE
  /\ armed' = FALSE
  /\ UNCHANGED <<isSystemRunning, wdtTimeOutCount, kickPin, enabled, tasklet, relinked, opener, quiet,
                 history, ops>>

wdtInit == OpenStatus \/ OpenPin

wdt_Tasklet == Kick \/ SetKickPin \/ Rearm \/ Load \/ Store \/ Test \/ Expire

Next ==
  \/ Interval
  \/ RunAgain
  \/ Kick
  \/ SetKickPin
  \/ Rearm
  \/ Load
  \/ Store
  \/ Test
  \/ Expire
  \/ watchdog_open
  \/ OpenStatus
  \/ OpenPin
  \/ watchdog_ioctl
  \/ watchdog_exit

Spec == Init /\ [][Next]_vars

\* Time passes, and a timer function or an open that has begun goes on.  Nobody
\* has to feed.
FairSpec == Spec /\ WF_vars(Interval) /\ WF_vars(wdt_Tasklet) /\ WF_vars(wdtInit)

-----------------------------------------------------------------------------

\* The driver gives the application up only when for a whole timeout no open
\* and no feed has come that did not meet the countdown (one interval may
\* already be under way when the feed comes).
StopsOnlyUnfed ==
  [][~relinked /\ isSystemRunning /\ ~isSystemRunning' => cleanGap >= WATCHDOG_TIMEOUT - 1]_vars

\* As long as the driver has not given the application up, and is not removed,
\* it kicks in time, also when an open stores the status and sets the pin
\* between the same two of wdt_Tasklet.
NoResetUnlessExpired == BoardReset => expired \/ relinked \/ ~loaded

\* An application that stops feeding is noticed: the board is reset.
HungApplicationIsReset == enabled ~> BoardReset \/ relinked

\* watchdog.h: "current timeout set in driver is 60 seconds so call ioctl
\* before 60 sec".  Whoever keeps to that, with an interval to spare, is not
\* given up.
FedInTime == expired => late \/ relinked

=============================================================================
