------------------------------- MODULE BtStart -------------------------------
(***************************************************************************)
(* The start of the Bluetooth service in TestApp.c: main creates a thread  *)
(* that sets the stack up, registers the GATT service and advertises.  The *)
(* event callbacks are registered half way, and run on a thread of the     *)
(* stack while the start goes on.  BtSession is what follows.              *)
(*                                                                         *)
(* btEnable is a constant TRUE: StopBluetoothServiceFn is never reached.   *)
(***************************************************************************)
EXTENDS Naturals

CONSTANT MaxFaults  \* bound on calls of the stack that fail

VARIABLES
  creator,       \* where main is in StartStopBluetoothServiceThread
  starter,       \* the next call of the stack in StartBluetoothServiceFn
  startStopBtServiceThreadStatus,
  btAdvertised,
  serviceID,     \* whether it is not zero
  btServiceStatus,
  advertising,   \* the stack's own state
  faults

vars == <<creator, starter, startStopBtServiceThreadStatus, btAdvertised, serviceID,
          btServiceStatus, advertising, faults>>

service == <<btAdvertised, serviceID, btServiceStatus, advertising>>

\* BTPM_Initialize, DEVM_RegisterEventCallback, DEVM_PowerOnDevice and
\* GATM_RegisterEventCallback, each of which must succeed.
Calls == <<"initialize", "devm", "power", "gatm">>

TypeOK ==
  /\ creator \in {"create", "mark", "set", "loop"}
  /\ starter \in {"none", "done"} \union {Calls[i] : i \in DOMAIN Calls}
                \union {"register", "advertise", "finish"}
  /\ startStopBtServiceThreadStatus \in {"THREAD_INACTIVE", "THREAD_ACTIVE", "THREAD_DONE"}
  /\ btAdvertised \in BOOLEAN /\ serviceID \in BOOLEAN /\ advertising \in BOOLEAN
  /\ btServiceStatus \in {"DISABLED", "ENABLED"}
  /\ faults \in 0 .. MaxFaults

Init ==
  /\ creator = "create" /\ starter = "none"
  /\ startStopBtServiceThreadStatus = "THREAD_INACTIVE"
  /\ btAdvertised = FALSE /\ serviceID = FALSE /\ advertising = FALSE
  /\ btServiceStatus = "DISABLED"
  /\ faults = 0

Fault == faults < MaxFaults /\ faults' = faults + 1

-----------------------------------------------------------------------------
(* StartStopBluetoothServiceThread, on main: the thread may have ended     *)
(* before, or end after, its status is tested.                             *)

CreateThread ==
  /\ creator = "create" /\ startStopBtServiceThreadStatus = "THREAD_INACTIVE"
  /\ \/ creator' = "mark" /\ starter' = "initialize" /\ UNCHANGED faults
     \/ creator' = "loop" /\ Fault /\ UNCHANGED starter
  /\ UNCHANGED <<startStopBtServiceThreadStatus, service>>

TestThread ==
  /\ creator = "mark"
  /\ creator' = IF startStopBtServiceThreadStatus = "THREAD_INACTIVE" THEN "set" ELSE "loop"
  /\ UNCHANGED <<starter, startStopBtServiceThreadStatus, service, faults>>

MarkThread ==
  /\ creator = "set"
  /\ creator' = "loop"
  /\ startStopBtServiceThreadStatus' = "THREAD_ACTIVE"
  /\ UNCHANGED <<starter, service, faults>>

-----------------------------------------------------------------------------
(* StartBluetoothServiceFn, on the thread.                                 *)

Call(i) ==
  /\ starter = Calls[i]
  /\ \/ starter' = (IF i + 1 \in DOMAIN Calls THEN Calls[i + 1] ELSE "register") /\ UNCHANGED faults
     \/ starter' = "finish" /\ Fault
  /\ UNCHANGED <<creator, startStopBtServiceThreadStatus, service>>

\* RegisterService deletes what it registered when an attribute or the
\* publication fails; its result is not looked at.
RegisterService ==
  /\ starter = "register"
  /\ starter' = "advertise"
  /\ IF btAdvertised
     THEN UNCHANGED <<serviceID, faults>>
     ELSE \/ serviceID' = TRUE /\ UNCHANGED faults
          \/ serviceID' = FALSE /\ Fault
  /\ UNCHANGED <<creator, startStopBtServiceThreadStatus, btAdvertised, btServiceStatus, advertising>>

\* StartBtAdvertisement: the stack may refuse what it does already.
StartBtAdvertisement(ok) ==
  /\ btAdvertised' = ok
  /\ advertising' = (advertising \/ ok)
  /\ IF ok \/ advertising THEN UNCHANGED faults ELSE Fault

Advertise ==
  /\ starter = "advertise"
  /\ starter' = "finish"
  /\ \E ok \in BOOLEAN :
        /\ StartBtAdvertisement(ok)
        /\ btServiceStatus' = IF ok THEN "ENABLED" ELSE "DISABLED"
  /\ UNCHANGED <<creator, startStopBtServiceThreadStatus, serviceID>>

EndThread ==
  /\ starter = "finish"
  /\ starter' = "done"
  /\ startStopBtServiceThreadStatus' = "THREAD_DONE"
  /\ UNCHANGED <<creator, service, faults>>

-----------------------------------------------------------------------------
(* DEVM_Event_Callback, registered before the chip has power.              *)

CallbackUp == starter \in {"gatm", "register", "advertise", "finish", "done"}

\* The device reports its properties when it has power and when its name is
\* set, just before the GATM callback is registered; it is not connectable yet.
LocalDevicePropertiesChanged ==
  /\ CallbackUp
  /\ \E ok \in BOOLEAN : StartBtAdvertisement(ok)
  /\ UNCHANGED <<creator, starter, startStopBtServiceThreadStatus, serviceID, btServiceStatus>>

\* detDeviceAdvertisingStarted and detDeviceAdvertisingStopped tell late.
AdvertisingReported ==
  /\ CallbackUp
  /\ btAdvertised' = advertising
  /\ UNCHANGED <<creator, starter, startStopBtServiceThreadStatus, serviceID, btServiceStatus,
                 advertising, faults>>

Next ==
  \/ CreateThread \/ TestThread \/ MarkThread
  \/ \E i \in DOMAIN Calls : Call(i)
  \/ RegisterService \/ Advertise \/ EndThread
  \/ LocalDevicePropertiesChanged \/ AdvertisingReported

Spec == Init /\ [][Next]_vars

-----------------------------------------------------------------------------

\* "here Bt service is successfully start.": without a failure of the stack,
\* an enabled service has its GATT service registered, so that a phone that
\* connects finds it.
EnabledIsRegistered == btServiceStatus = "ENABLED" /\ faults = 0 => serviceID

=============================================================================
