------------------------------ MODULE BtSession ------------------------------
(***************************************************************************)
(* The Bluetooth application TestApp.c while its service is enabled: a low *)
(* energy peripheral that serves one phone at a time, answers its access   *)
(* requests with a notification and closes a connection that idles.        *)
(*                                                                         *)
(* Two threads of the application share its flags without a lock: main,    *)
(* which turns in a loop, and the thread on which the stack calls          *)
(* GATM_Event_Callback and DEVM_Event_Callback, one event after the other. *)
(* A step of the model is a call of the stack or a group of accesses       *)
(* between which the other thread's accesses make no difference.  The      *)
(* btServiceMutex is only taken on the callback thread and left out, as is *)
(* btAdvertised, which is read by the start of the service only (BtStart). *)
(*                                                                         *)
(* Time is what has passed since the tick in prevSysTick, up to Long.  The *)
(* connection event's address is read through the union member of another  *)
(* event; the two are taken to lie at the same place.                      *)
(***************************************************************************)
EXTENDS Naturals, Sequences

CONSTANTS
  Client,       \* phones
  NoClient,
  Short, Long,  \* 1000 ms and 10000 ms in some unit
  MaxQueue,     \* bound on events of a phone that wait for the callback thread
  MaxFaults     \* bound on calls of the stack that fail

ASSUME BtAssumption ==
  /\ NoClient \notin Client
  /\ Client \intersect {"Write", "ReadStatus", "Other", "Disconnected"} = {}
  /\ Short \in Nat \ {0} /\ Long \in Nat /\ Short <= Long
  /\ MaxQueue \in Nat /\ MaxFaults \in Nat

VARIABLES
  main,              \* where main is in its loop
  btTimerValue,
  gap,               \* GetSysTick() - prevSysTick, as sampled
  restamped,         \* prevSysTick was stored by the callback since the sample
  btConnected, btReadReqTimerF, ReceiveDone, startAdvtF,
  CurrentRemoteBD_ADDR,
  elapsed,           \* time since prevSysTick
  callback,          \* the rest of an event that is being handled
  queue,             \* GATT events that wait for the callback thread
  advertising, link, \* the stack's own state: advertising, and the phone connected
  faults

loop == <<btTimerValue, gap, restamped>>
timed == <<CurrentRemoteBD_ADDR, elapsed>>
events == <<callback, queue>>
stack == <<advertising, link, faults>>
vars == <<main, loop, btConnected, btReadReqTimerF, ReceiveDone, startAdvtF, timed, events, stack>>

\* A phone writes an access request or reads its status; "Other" is any other
\* read, an update of the MTU or a write that is refused.
Request == {"Write", "ReadStatus", "Other"}
Event == Request \union {"Disconnected"} \union Client  \* a client: it has connected

TypeOK ==
  /\ main \in {"test", "sample", "expire", "disconnect", "drop", "clear", "reload", "waited",
               "readvertise", "task", "notify", "noted"}
  /\ btTimerValue \in {0, Short, Long}
  /\ gap \in 0 .. Long
  /\ restamped \in BOOLEAN
  /\ btConnected \in BOOLEAN /\ btReadReqTimerF \in BOOLEAN
  /\ ReceiveDone \in BOOLEAN /\ startAdvtF \in BOOLEAN
  /\ CurrentRemoteBD_ADDR \in Client \union {NoClient}
  /\ elapsed \in 0 .. Long
  /\ callback \in {"idle", "stamp", "readvertise", "reload"}
  /\ queue \in Seq(Event) /\ Len(queue) <= MaxQueue + 1
  /\ advertising \in BOOLEAN
  /\ link \in Client \union {NoClient}
  /\ faults \in 0 .. MaxFaults

\* prevSysTick is zero and the board has been up for longer than that.
Init ==
  /\ main = "test" /\ btTimerValue = 0 /\ gap = 0 /\ restamped = FALSE
  /\ btConnected = FALSE /\ btReadReqTimerF = FALSE
  /\ ReceiveDone = FALSE /\ startAdvtF = FALSE
  /\ CurrentRemoteBD_ADDR = NoClient
  /\ elapsed = Long
  /\ callback = "idle" /\ queue = <<>>
  /\ advertising = TRUE /\ link = NoClient
  /\ faults = 0

-----------------------------------------------------------------------------

Goto(from, to) == main = from /\ main' = to

Fault == faults < MaxFaults /\ faults' = faults + 1

\* Bug: a start that failed is not repeated.
AdvertisesOnce(ok) ==
  /\ startAdvtF' = FALSE
  /\ advertising' = (advertising \/ ok)
  /\ IF ok \/ link # NoClient THEN UNCHANGED faults ELSE Fault

\* DEVM_StartAdvertising may refuse while a phone is connected.
StartBtAdvertisement(ok) ==
  /\ startAdvtF' = (startAdvtF /\ ~ok)
  /\ advertising' = (advertising \/ ok)
  /\ IF ok \/ link # NoClient THEN UNCHANGED faults ELSE Fault

-----------------------------------------------------------------------------
(* main.                                                                   *)

\* Bug: only a connection that was notified or has read its status is timed.
TimesReadersOnly == btConnected /\ btReadReqTimerF

Times == btConnected

\* Bug: the time-outs are given in microseconds.
InMicroseconds == IF btReadReqTimerF THEN Short * 1000 ELSE Long * 1000

SessionTime == IF btReadReqTimerF THEN Short ELSE Long

\* A round begins: is there a connection to time, or a start to repeat?
TestFlags ==
  /\ main = "test"
  /\ main' = IF Times \/ startAdvtF THEN "sample" ELSE "task"
  /\ btTimerValue' = IF Times THEN SessionTime ELSE 0
  /\ UNCHANGED <<gap, restamped, btConnected, btReadReqTimerF, ReceiveDone, startAdvtF, timed,
                 events, stack>>

\* GetSysTick() and the load of prevSysTick.  btTimerValue = 0 stands for the
\* branch that waits before it advertises again.
SampleTick ==
  /\ main = "sample"
  /\ main' = IF btTimerValue = 0 THEN "waited" ELSE "expire"
  /\ gap' = elapsed
  /\ UNCHANGED <<btTimerValue, restamped, btConnected, btReadReqTimerF, ReceiveDone, startAdvtF,
                 timed, events, stack>>

\* The two operands are loaded one after the other.  When prevSysTick was
\* stored in between, the difference is the old one, zero, or below zero and,
\* being unsigned, larger than every time-out.
Difference == IF restamped THEN {gap, 0, Long} ELSE {gap}

\* The sample is not used again.
Compared == btTimerValue' = 0 /\ gap' = 0 /\ restamped' = FALSE

Expired ==
  /\ Goto("expire", "disconnect")
  /\ \E d \in Difference : d >= btTimerValue
  /\ Compared
  /\ elapsed' = 0
  /\ startAdvtF' = TRUE
  /\ UNCHANGED <<btConnected, btReadReqTimerF, ReceiveDone, CurrentRemoteBD_ADDR, events, stack>>

NotExpired ==
  /\ \/ Goto("expire", "task") /\ \E d \in Difference : d < btTimerValue
     \/ Goto("waited", "task") /\ \E d \in Difference : d < Long
  /\ Compared
  /\ UNCHANGED <<btConnected, btReadReqTimerF, ReceiveDone, startAdvtF, timed, events, stack>>

\* DisconnectRemoteDevice, up to the return of the stack: the connection of
\* the phone in CurrentRemoteBD_ADDR is closed, if there is one, or the call fails.
DisconnectRemote ==
  /\ Goto("disconnect", "drop")
  /\ IF link # NoClient /\ link = CurrentRemoteBD_ADDR
     THEN \/ link' = NoClient /\ queue' = Append(queue, "Disconnected") /\ UNCHANGED faults
          \/ Fault /\ UNCHANGED <<link, queue>>
     ELSE UNCHANGED <<link, queue, faults>>
  /\ UNCHANGED <<loop, btConnected, btReadReqTimerF, ReceiveDone, startAdvtF, timed, callback,
                 advertising>>

\* The rest of it, whatever the result and whoever has connected meanwhile.
DropConnection ==
  /\ Goto("drop", "clear")
  /\ btConnected' = FALSE
  /\ UNCHANGED <<loop, btReadReqTimerF, ReceiveDone, startAdvtF, timed, events, stack>>

ClearRequest ==
  /\ Goto("clear", "reload")
  /\ ReceiveDone' = FALSE
  /\ UNCHANGED <<loop, btConnected, btReadReqTimerF, startAdvtF, timed, events, stack>>

ReloadTimer ==
  /\ Goto("reload", "task")
  /\ btReadReqTimerF' = FALSE
  /\ UNCHANGED <<loop, btConnected, ReceiveDone, startAdvtF, timed, events, stack>>

DisconnectTimeout ==
  /\ Goto("waited", "readvertise")
  /\ \E d \in Difference : d >= Long
  /\ Compared
  /\ elapsed' = 0
  /\ UNCHANGED <<btConnected, btReadReqTimerF, ReceiveDone, startAdvtF, CurrentRemoteBD_ADDR,
                 events, stack>>

AdvertiseAgain ==
  /\ Goto("readvertise", "task")
  /\ \E ok \in BOOLEAN : StartBtAdvertisement(ok)
  /\ UNCHANGED <<loop, btConnected, btReadReqTimerF, ReceiveDone, timed, events, link>>

\* RunBluetoothTask: the test, the notification, and the end of the request.
TestReceived ==
  /\ main = "task"
  /\ main' = IF ReceiveDone THEN "notify" ELSE "test"
  /\ UNCHANGED <<loop, btConnected, btReadReqTimerF, ReceiveDone, startAdvtF, timed, events, stack>>

SendNotification ==
  /\ Goto("notify", "noted")
  /\ UNCHANGED <<loop, btConnected, btReadReqTimerF, ReceiveDone, startAdvtF, timed, events, stack>>

RequestDone ==
  /\ Goto("noted", "test")
  /\ ReceiveDone' = FALSE
  /\ btReadReqTimerF' = TRUE
  /\ UNCHANGED <<loop, btConnected, startAdvtF, timed, events, stack>>

-----------------------------------------------------------------------------
(* The callbacks.                                                          *)

\* The next GATT event; "rest" is what a later step does of it.
Handle(ev, rest) ==
  /\ callback = "idle" /\ queue # <<>> /\ Head(queue) = ev
  /\ queue' = Tail(queue)
  /\ callback' = rest
  /\ UNCHANGED <<main, loop, btReadReqTimerF, startAdvtF, elapsed, stack>>

GATTConnected(c) ==
  /\ Handle(c, "stamp")
  /\ CurrentRemoteBD_ADDR' = c
  /\ btConnected' = TRUE
  /\ UNCHANGED ReceiveDone

\* Bug: the request of a phone that has gone is kept.
KeepRequest == UNCHANGED ReceiveDone

ForgetRequest == ReceiveDone' = FALSE

GATTDisconnected ==
  /\ Handle("Disconnected", "readvertise")
  /\ btConnected' = FALSE
  /\ ForgetRequest
  /\ UNCHANGED CurrentRemoteBD_ADDR

\* Bug: a write is not noted while the short time-out runs.
NotesFirstWrite == ReceiveDone' = (ReceiveDone \/ ~btReadReqTimerF)

\* One slot: a write that finds it taken is acknowledged all the same.
ProcessWriteRequestEvent == ReceiveDone' = TRUE

\* Bug: only the event of the connection says that there is one.
AnswersOnly(ev) ==
  /\ Handle(ev, IF ev = "ReadStatus" THEN "reload" ELSE "idle")
  /\ IF ev = "Write" THEN ProcessWriteRequestEvent ELSE UNCHANGED ReceiveDone
  /\ UNCHANGED <<btConnected, CurrentRemoteBD_ADDR>>

GATTRequest(ev) ==
  /\ Handle(ev, IF ev = "ReadStatus" THEN "reload" ELSE "idle")
  /\ btConnected' = TRUE
  /\ IF ev = "Write" THEN ProcessWriteRequestEvent ELSE UNCHANGED ReceiveDone
  /\ UNCHANGED CurrentRemoteBD_ADDR

\* The rest of getGATTConnected and of getGATTReadRequest: prevSysTick is stored.
StampSession ==
  /\ callback \in {"stamp", "reload"}
  /\ callback' = "idle"
  /\ btReadReqTimerF' = (callback = "reload")
  /\ elapsed' = 0
  /\ restamped' = (main \in {"expire", "waited"})
  /\ UNCHANGED <<main, btTimerValue, gap, btConnected, ReceiveDone, startAdvtF,
                 CurrentRemoteBD_ADDR, queue, stack>>

\* Bug: the callback leaves the advertising to main, which repeats a marked start only.
ReadvertiseMarked ==
  /\ callback = "readvertise"
  /\ callback' = "idle"
  /\ \/ startAdvtF /\ \E ok \in BOOLEAN : StartBtAdvertisement(ok)
     \/ ~startAdvtF /\ UNCHANGED <<startAdvtF, advertising, faults>>
  /\ UNCHANGED <<main, loop, btConnected, btReadReqTimerF, ReceiveDone, timed, queue, link>>

\* The rest of getGATTDisconnected.
Readvertise ==
  /\ callback = "readvertise"
  /\ callback' = "idle"
  /\ \E ok \in BOOLEAN : StartBtAdvertisement(ok)
  /\ UNCHANGED <<main, loop, btConnected, btReadReqTimerF, ReceiveDone, timed, queue, link>>

\* detAdvertisingTimeout: the advertising has run out.
AdvertisingTimeout ==
  /\ callback = "idle" /\ advertising
  /\ \E ok \in BOOLEAN : /\ startAdvtF' = (startAdvtF /\ ~ok)
                         /\ advertising' = ok
                         /\ IF ok THEN UNCHANGED faults ELSE Fault
  /\ UNCHANGED <<main, loop, btConnected, btReadReqTimerF, ReceiveDone, timed, events, link>>

-----------------------------------------------------------------------------
(* Phones and time.                                                        *)

AppUnchanged ==
  UNCHANGED <<main, loop, btConnected, btReadReqTimerF, ReceiveDone, startAdvtF,
              CurrentRemoteBD_ADDR, callback, faults>>

Connect(c) ==
  /\ advertising /\ link = NoClient /\ Len(queue) < MaxQueue
  /\ link' = c
  /\ advertising' = FALSE
  /\ queue' = Append(queue, c)
  /\ AppUnchanged /\ UNCHANGED elapsed

Ask(c, ev) ==
  /\ link = c /\ Len(queue) < MaxQueue
  /\ queue' = Append(queue, ev)
  /\ AppUnchanged /\ UNCHANGED <<elapsed, advertising, link>>

Leave ==
  /\ link # NoClient
  /\ link' = NoClient
  /\ queue' = Append(queue, "Disconnected")
  /\ AppUnchanged /\ UNCHANGED <<elapsed, advertising>>

Tick ==
  /\ elapsed < Long
  /\ elapsed' = elapsed + 1
  /\ AppUnchanged /\ UNCHANGED <<queue, advertising, link>>

MainLoop ==
  \/ TestFlags \/ SampleTick \/ Expired \/ NotExpired
  \/ DisconnectRemote \/ DropConnection \/ ClearRequest \/ ReloadTimer
  \/ DisconnectTimeout \/ AdvertiseAgain
  \/ TestReceived \/ SendNotification \/ RequestDone

HandleEvent ==
  \/ \E c \in Client : GATTConnected(c)
  \/ GATTDisconnected
  \/ \E ev \in Request : GATTRequest(ev)
  \/ StampSession
  \/ Readvertise

Next ==
  \/ MainLoop
  \/ HandleEvent
  \/ AdvertisingTimeout
  \/ \E c \in Client : Connect(c) \/ \E ev \in Request : Ask(c, ev)
  \/ Leave
  \/ Tick

Spec == Init /\ [][Next]_vars

\* The threads run and time passes; nothing is assumed of phones and faults.
FairSpec == Spec /\ WF_vars(MainLoop) /\ WF_vars(HandleEvent) /\ WF_vars(Tick)

-----------------------------------------------------------------------------

\* A request waits only as long as its phone is connected or the callback
\* thread still has to hear that it has gone: ReceiveDone never survives into
\* a time without a session, whichever thread ended it.
RequestHasSession ==
  ReceiveDone => link # NoClient \/ \E i \in DOMAIN queue : queue[i] = "Disconnected"

\* As long as no call of the stack has failed the device is never lost to
\* phones: it advertises, serves one, or the callback thread still has the end
\* of a connection to hear of or to act on, whichever thread closed it and
\* whatever starts the stack refused while a phone was connected.
StaysReachable ==
  faults = 0 =>
    \/ advertising
    \/ link # NoClient
    \/ callback = "readvertise"
    \/ \E i \in DOMAIN queue : queue[i] = "Disconnected"

\* GATM_Event_Callback: "if read request is received on readStatusCharAttr then
\* after 500 msec if client does not close the connection then close it."
StatusReads == \E c \in Client : Ask(c, "ReadStatus")
StatusReadEndsConnection ==
  <>[][~StatusReads]_vars =>
    \A c \in Client : callback = "reload" /\ link = c /\ CurrentRemoteBD_ADDR = c ~> link # c

\* The connection of a phone that hangs, or does anything but read its status
\* again and again, ends, so that others can come: main closes it, unless it
\* clears btConnected under it, after a call that failed or for a phone before it.
ClearsFlag == main = "clear" /\ ~btConnected
HungPhoneIsDropped ==
  <>[][~StatusReads]_vars =>
    (btConnected /\ link = CurrentRemoteBD_ADDR ~> link # CurrentRemoteBD_ADDR \/ ClearsFlag)

\* Also then a phone that goes on asking, but for its status, is disconnected
\* in the end: its next request makes main time the connection again.
Asks(c) == Ask(c, "Write") \/ Ask(c, "Other")
BusyPhoneIsDropped ==
  \A c \in Client : <>[][~StatusReads]_vars /\ []<><<Asks(c)>>_vars => []<>(link # c)

\* After the application has closed a connection the device can be reached
\* again, also when the start of the advertising fails some times, and
\* whatever late events make of btConnected.
ReachableAgain == startAdvtF ~> (advertising \/ link # NoClient)

\* A phone that keeps its connection and keeps writing is notified again and
\* again, although a write that finds the slot taken is dropped.
Writes(c) == Ask(c, "Write")
WriterIsNotified ==
  \A c \in Client :
    []<><<Writes(c)>>_vars /\ <>[](link = c /\ CurrentRemoteBD_ADDR = c) => []<>(main = "notify")

=============================================================================
