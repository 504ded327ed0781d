--------------------------- MODULE Watchdog_proofs ---------------------------
(***************************************************************************)
(* Safety of the watchdog driver for every timeout, every chip and any     *)
(* number of opens and feeds.  The invariant bounds the count from below   *)
(* by the time since the last clean feed at each step of the tasklet, and  *)
(* says where the timer must be pending, and by how much wdtPinStatus and  *)
(* the pin may have fallen apart where an open met a kick: a kick that is  *)
(* lost is followed by one that is not.                                    *)
(***************************************************************************)
EXTENDS Watchdog, TLAPS

\* Nothing runs before the first open.
Dormant == ~enabled => tasklet.at = "idle" /\ opener = "idle" /\ ~armed /\ ~relinked /\ quiet = 0

\* What has been counted off since a clean feed is at most the time since, and
\* one more for an interval that was under way when the feed came.
CountBounded ==
  enabled /\ ~relinked =>
    /\ tasklet.at \in {"kick", "pin", "rearm", "load"} => wdtTimeOutCount + cleanGap >= WATCHDOG_TIMEOUT
    /\ tasklet.at = "store" => /\ tasklet.reg + cleanGap >= WATCHDOG_TIMEOUT
                               /\ wdtTimeOutCount + cleanGap >= WATCHDOG_TIMEOUT
    /\ tasklet.at = "test" => tasklet.reg + cleanGap >= WATCHDOG_TIMEOUT - 1
    /\ tasklet.at \in {"idle", "test"} => wdtTimeOutCount + cleanGap >= WATCHDOG_TIMEOUT - 1
    /\ tasklet.at = "expire" => cleanGap >= WATCHDOG_TIMEOUT - 1

\* The pin has not what the driver takes for its level: the next kick is no edge.
Apart == wdtPinStatus # pin

\* How long the chip has been without an edge before a kick, ...
QuietAtKick ==
  /\ quiet <= 2
  /\ IF opener = "pin" THEN wdtPinStatus = 1 ELSE Apart => quiet <= 1

\* ... when the new level has been stored and not been set, ...
QuietAtPin ==
  LET edge == pin # tasklet.level
      kept == wdtPinStatus = tasklet.level
  IN /\ quiet <= 2
     /\ CASE opener = "idle" -> /\ ~edge => quiet <= 1
                                /\ kept \/ (wdtPinStatus = 1 /\ pin = 1 /\ armed)
          [] opener = "status" -> kept /\ (~edge => quiet <= 1)
          [] OTHER -> tasklet.level = 1 => wdtPinStatus = 1 /\ (~edge => quiet <= 1)

\* ... and after it.
QuietElsewhere ==
  /\ Apart => quiet = 0 \/ (opener = "pin" /\ pin = 0)
  /\ quiet <= IF opener = "pin" /\ pin = 0 THEN 2 ELSE 1

\* Until the driver gives up, its timer is pending or being served, and the
\* chip has waited for at most one interval more than the one being served.
Kicking ==
  enabled /\ loaded /\ ~relinked /\ ~expired =>
    /\ isSystemRunning
    /\ opener # "idle" \/ tasklet.at \notin {"kick", "pin", "rearm"} => armed
    /\ tasklet.at = "kick" => QuietAtKick
    /\ tasklet.at = "pin" => QuietAtPin
    /\ tasklet.at \notin {"kick", "pin"} => QuietElsewhere

IInv ==
  /\ TypeOK
  /\ tasklet.at = "store" => tasklet.reg > 0
  /\ ~expired => isSystemRunning
  /\ Dormant
  /\ CountBounded
  /\ Kicking

\* The states the driver starts in satisfy the invariant.
LEMMA InitInv == Init => IInv
<1> SUFFICES ASSUME Init PROVE IInv
  OBVIOUS
<1>1. TypeOK
  <2>1. wdtTimeOutCount \in Count /\ tasklet \in Tasklet
    BY TimeoutAssumption DEF Init, Count, Tasklet
  <2>2. quiet \in 0 .. CHIP_TIMEOUT /\ gap \in Count /\ cleanGap \in Count /\ ops \in 0 .. MaxOps
    BY TimeoutAssumption DEF Init, Count
  <2>3. isSystemRunning \in BOOLEAN
    BY DEF Init
  <2>4. QED
    BY <2>1, <2>2, <2>3 DEF Init, TypeOK
<1>2. tasklet.at = "idle" /\ opener = "idle" /\ quiet = 0 /\ ~enabled /\ ~armed /\ ~relinked /\ isSystemRunning
  BY DEF Init
<1>3. QED
  BY <1>1, <1>2 DEF IInv, Dormant, CountBounded, Kicking

\* What becomes of the tasklet's record when a level is stored, ...
LEMMA KickRecord ==
  ASSUME TypeOK, Kick, isSystemRunning
  PROVE  /\ tasklet' = [at |-> "pin", reg |-> tasklet.reg, level |-> 1 - wdtPinStatus]
         /\ tasklet' \in Tasklet
<1>1. /\ tasklet \in Tasklet /\ 1 - wdtPinStatus \in {0, 1}
      /\ tasklet' = [tasklet EXCEPT !.at = "pin", !.level = 1 - wdtPinStatus]
  BY DEF TypeOK, Kick
<1>2. QED
  BY <1>1 DEF Tasklet

\* ... when the count is loaded, ...
LEMMA LoadRecord ==
  ASSUME TypeOK, Load
  PROVE  /\ tasklet' = [at |-> IF wdtTimeOutCount = 0 THEN "idle" ELSE "store",
                        reg |-> wdtTimeOutCount, level |-> tasklet.level]
         /\ tasklet' \in Tasklet
<1>1. /\ tasklet \in Tasklet /\ wdtTimeOutCount \in Count
      /\ tasklet' = [tasklet EXCEPT !.at = IF wdtTimeOutCount = 0 THEN "idle" ELSE "store",
                                    !.reg = wdtTimeOutCount]
  BY DEF TypeOK, Load
<1>2. QED
  BY <1>1 DEF Tasklet

\* ... and when it is stored.
LEMMA StoreRecord ==
  ASSUME TypeOK, Store, tasklet.reg > 0
  PROVE  /\ tasklet' = [at |-> "test", reg |-> tasklet.reg - 1, level |-> tasklet.level]
         /\ tasklet' \in Tasklet
<1>1. /\ tasklet \in Tasklet
      /\ tasklet' = [tasklet EXCEPT !.at = "test", !.reg = tasklet.reg - 1]
  BY DEF TypeOK, Store
<1>2. tasklet.reg - 1 \in Count
  BY <1>1, TimeoutAssumption DEF Tasklet, Count
<1>3. QED
  BY <1>1, <1>2 DEF Tasklet

\* Every step of the tasklet, of an application or of time keeps it.
LEMMA NextInv == IInv /\ [Next]_vars => IInv'
<1> SUFFICES ASSUME IInv, [Next]_vars PROVE IInv'
  OBVIOUS
<1> USE TimeoutAssumption DEF IInv, TypeOK, Count, Tasklet, Dormant, CountBounded, Kicking,
                              Apart, QuietAtKick, QuietAtPin, QuietElsewhere,
                              Goto, BoardReset, driver, kickPin, history
<1>1. CASE Interval
  <2>1. TypeOK'
    <3>1. quiet' \in 0 .. CHIP_TIMEOUT /\ gap' \in Count /\ cleanGap' \in Count
      BY <1>1 DEF Interval, Later
    <3>2. tasklet' \in Tasklet
      BY <1>1 DEF Interval
    <3>3. late' \in BOOLEAN /\ armed' \in BOOLEAN
      BY <1>1 DEF Interval
    <3>4. QED
      BY <1>1, <3>1, <3>2, <3>3 DEF Interval
  <2>2. Dormant'
    BY <1>1 DEF Interval
  <2>3. CountBounded'
    <3>1. cleanGap' = cleanGap + 1 \/ (cleanGap' = WATCHDOG_TIMEOUT /\ cleanGap = WATCHDOG_TIMEOUT)
      BY <1>1 DEF Interval, Later
    <3>2. QED
      BY <1>1, <3>1 DEF Interval
  <2>4. Kicking'
    BY <1>1 DEF Interval
  <2>5. QED
    BY <1>1, <2>1, <2>2, <2>3, <2>4 DEF Interval
<1>2. CASE RunAgain
  BY <1>2 DEF RunAgain
<1>3. CASE Kick
  <2>1. CASE isSystemRunning
    <3>1. tasklet' = [at |-> "pin", reg |-> tasklet.reg, level |-> 1 - wdtPinStatus] /\ tasklet' \in Tasklet
      BY <1>3, <2>1, KickRecord
    <3>2. Kicking'
      BY <1>3, <2>1, <3>1 DEF Kick
    <3>3. QED
      BY <1>3, <2>1, <3>1, <3>2 DEF Kick
  <2>2. CASE ~isSystemRunning
    BY <1>3, <2>2 DEF Kick
  <2>3. QED
    BY <2>1, <2>2
<1>4. CASE SetKickPin
  BY <1>4 DEF SetKickPin, Drive
<1>5. CASE Rearm
  BY <1>5 DEF Rearm
<1>6. CASE Load
  <2>1. /\ tasklet' \in Tasklet /\ tasklet'.reg = wdtTimeOutCount
        /\ tasklet'.at = IF wdtTimeOutCount = 0 THEN "idle" ELSE "store"
    BY <1>6, LoadRecord
  <2>2. TypeOK' /\ (tasklet'.at = "store" => tasklet'.reg > 0)
    BY <1>6, <2>1 DEF Load
  <2>3. Dormant' /\ CountBounded'
    BY <1>6, <2>1 DEF Load
  <2>4. Kicking'
    BY <1>6, <2>1 DEF Load
  <2>5. QED
    BY <1>6, <2>2, <2>3, <2>4 DEF Load
<1>7. CASE Store
  <2>1. tasklet' = [at |-> "test", reg |-> tasklet.reg - 1, level |-> tasklet.level] /\ tasklet' \in Tasklet
    BY <1>7, StoreRecord DEF Store
  <2>2. TypeOK'
    BY <1>7, <2>1 DEF Store
  <2>3. Dormant' /\ CountBounded'
    BY <1>7, <2>1 DEF Store
  <2>4. Kicking'
    BY <1>7, <2>1 DEF Store
  <2>5. QED
    BY <1>7, <2>1, <2>2, <2>3, <2>4 DEF Store
<1>8. CASE Test
  BY <1>8 DEF Test
<1>9. CASE Expire
  <2>1. TypeOK'
    <3>1. wdtTimeOutCount' \in Count /\ tasklet' \in Tasklet
      BY <1>9 DEF Expire
    <3>2. isSystemRunning' \in BOOLEAN /\ expired' \in BOOLEAN
      BY <1>9 DEF Expire
    <3>3. QED
      BY <1>9, <3>1, <3>2 DEF Expire
  <2>2. tasklet'.at = "idle" /\ expired'
    BY <1>9 DEF Expire
  <2>3. Dormant' /\ CountBounded'
    BY <1>9, <2>2 DEF Expire
  <2>4. QED
    BY <2>1, <2>2, <2>3
<1>10. CASE watchdog_open
  <2>1. TypeOK' /\ (tasklet'.at = "store" => tasklet'.reg > 0)
    <3>1. wdtTimeOutCount' \in Count /\ cleanGap' \in Count /\ gap' \in Count /\ ops' \in 0 .. MaxOps
      BY <1>10 DEF watchdog_open, StartOp, Fed, Grant, MeetsCountdown
    <3>2. tasklet' \in Tasklet /\ (tasklet'.at = "store" => tasklet'.reg > 0)
      BY <1>10 DEF watchdog_open, StartOp, Fed, Grant, MeetsCountdown
    <3>3. QED
      BY <1>10, <3>1, <3>2 DEF watchdog_open, StartOp, Fed, Grant, MeetsCountdown
  <2>2. Dormant' /\ (~expired' => isSystemRunning')
    BY <1>10 DEF watchdog_open, StartOp, Fed, Grant, MeetsCountdown
  <2>3. CountBounded'
    BY <1>10 DEF watchdog_open, StartOp, Fed, Grant, MeetsCountdown
  <2>4. Kicking'
    <3>1. /\ opener = "idle" /\ opener' = "status" /\ armed' /\ isSystemRunning'
          /\ UNCHANGED <<wdtPinStatus, pin, tasklet, loaded, expired>>
          /\ relinked' = (relinked \/ armed)
          /\ quiet' = IF enabled THEN quiet ELSE 0
      BY <1>10 DEF watchdog_open
    <3>2. SUFFICES ASSUME loaded, ~relinked, ~armed, ~expired
                   PROVE  /\ tasklet.at = "kick" => QuietAtKick'
                          /\ tasklet.at = "pin" => QuietAtPin'
                          /\ tasklet.at \notin {"kick", "pin"} => QuietElsewhere'
      BY <3>1
    <3>3. CASE ~enabled
      BY <3>1, <3>3
    <3>4. CASE enabled
      <4>1. tasklet.at \in {"kick", "pin", "rearm"}
        BY <3>2, <3>4
      <4>2. quiet' = quiet
        BY <3>1, <3>4
      <4>3. QED
        BY <3>1, <3>2, <3>4, <4>1, <4>2
    <3>5. QED
      BY <3>3, <3>4
  <2>5. QED
    BY <2>1, <2>2, <2>3, <2>4
<1>11. CASE OpenStatus
  BY <1>11 DEF OpenStatus
<1>12. CASE OpenPin
  BY <1>12 DEF OpenPin, Drive
<1>13. CASE watchdog_ioctl
  BY <1>13 DEF watchdog_ioctl, StartOp, Fed, Grant, MeetsCountdown
<1>14. CASE watchdog_exit
  <2>1. TypeOK' /\ (tasklet'.at = "store" => tasklet'.reg > 0)
    <3>1. wdtTimeOutCount' \in Count /\ cleanGap' \in Count /\ gap' \in Count /\ ops' \in 0 .. MaxOps
      BY <1>14 DEF watchdog_exit
    <3>2. tasklet' \in Tasklet /\ (tasklet'.at = "store" => tasklet'.reg > 0)
      BY <1>14 DEF watchdog_exit
    <3>3. QED
      BY <1>14, <3>1, <3>2 DEF watchdog_exit
  <2>2. Dormant' /\ (~expired' => isSystemRunning')
    BY <1>14 DEF watchdog_exit
  <2>3. CountBounded'
    BY <1>14 DEF watchdog_exit
  <2>4. Kicking'
    BY <1>14 DEF watchdog_exit
  <2>5. QED
    BY <2>1, <2>2, <2>3, <2>4
<1>15. CASE UNCHANGED vars
  BY <1>15 DEF vars
<1>16. QED
  BY <1>1, <1>2, <1>3, <1>4, <1>5, <1>6, <1>7, <1>8, <1>9, <1>10, <1>11, <1>12, <1>13, <1>14, <1>15 DEF Next

\* The invariant holds of every behaviour of the driver.
LEMMA Invariance == Spec => []IInv
BY InitInv, NextInv, PTL DEF Spec

\* The variables of the driver stay in their ranges: the unsigned count never
\* passes zero.
THEOREM TypeCorrect == Spec => []TypeOK
BY Invariance, PTL DEF IInv

\* The board is not reset as long as the driver has not given the application
\* up: wdt_Tasklet starts its timer again and toggles the pin in time.
THEOREM KicksInTime == Spec => []NoResetUnlessExpired
<1>1. IInv => NoResetUnlessExpired
  BY TimeoutAssumption DEF IInv, TypeOK, Kicking, QuietAtKick, QuietAtPin, QuietElsewhere,
                              NoResetUnlessExpired, BoardReset
<1>2. QED
  BY <1>1, Invariance, PTL

\* The driver gives an application up only after a whole timeout without a
\* clean feed, whatever the interleaving of wdt_Tasklet and the ioctls.
THEOREM GivesUpOnlyUnfed == Spec => StopsOnlyUnfed
<1>1. IInv /\ [Next]_vars =>
        (~relinked /\ isSystemRunning /\ ~isSystemRunning' => cleanGap >= WATCHDOG_TIMEOUT - 1)
  <2> SUFFICES ASSUME IInv, [Next]_vars, ~relinked, isSystemRunning, ~isSystemRunning'
               PROVE  cleanGap >= WATCHDOG_TIMEOUT - 1
    OBVIOUS
  <2>1. Expire
    BY DEF Next, vars, driver, Interval, RunAgain, Kick, SetKickPin, OpenStatus, OpenPin, Rearm, Load, Store, Test, watchdog_open,
           watchdog_ioctl, watchdog_exit, IInv
  <2>2. QED
    BY <2>1 DEF Expire, IInv, Dormant, CountBounded
<1>2. QED
  BY <1>1, Invariance, PTL DEF Spec, StopsOnlyUnfed

=============================================================================
