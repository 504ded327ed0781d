--------------------------- MODULE BtSession_proofs ---------------------------
(***************************************************************************)
(* BtSession for any phones, time-outs, failures and lengths of the queue: *)
(* it keeps its types, no request outlives its session, and the device is  *)
(* not lost to phones while no call of the stack fails.                    *)
(***************************************************************************)
EXTENDS BtSession, SequenceTheorems, TLAPS

LoopOK ==
  /\ main \in {"test", "sample", "expire", "disconnect", "drop", "clear", "reload", "waited",
               "readvertise", "task", "notify", "noted"}
  /\ btTimerValue \in {0, Short, Long}
  /\ gap \in 0 .. Long

FlagsOK ==
  /\ restamped \in BOOLEAN /\ btConnected \in BOOLEAN /\ btReadReqTimerF \in BOOLEAN
  /\ ReceiveDone \in BOOLEAN /\ startAdvtF \in BOOLEAN /\ advertising \in BOOLEAN

RestOK ==
  /\ CurrentRemoteBD_ADDR \in Client \union {NoClient}
  /\ elapsed \in 0 .. Long
  /\ callback \in {"idle", "stamp", "readvertise", "reload"}
  /\ link \in Client \union {NoClient}
  /\ faults \in 0 .. MaxFaults

\* A phone that is connected can still leave: there is room for that event.
QueueOK ==
  /\ queue \in Seq(Event)
  /\ Len(queue) <= MaxQueue + 1
  /\ link # NoClient => Len(queue) <= MaxQueue

Gone(i) == \E j \in DOMAIN queue : j > i /\ queue[j] = "Disconnected"

\* The stack reports the end of a connection behind its other events.
OrderInv ==
  /\ \A i \in DOMAIN queue : queue[i] # "Disconnected" => link # NoClient \/ Gone(i)
  /\ ReceiveDone => link # NoClient \/ Gone(0)

TypeParts == LoopOK /\ FlagsOK /\ RestOK /\ QueueOK

IInv == TypeParts /\ OrderInv

-----------------------------------------------------------------------------

\* The parts are the whole of TypeOK.
LEMMA PartsOfType == TypeParts => TypeOK
BY DEF TypeParts, TypeOK, LoopOK, FlagsOK, RestOK, QueueOK

\* Appending and taking from the queue.
LEMMA QueueFacts ==
  ASSUME NEW q \in Seq(Event)
  PROVE  /\ Len(q) \in Nat /\ DOMAIN q = 1 .. Len(q)
         /\ \A e \in Event : /\ Append(q, e) \in Seq(Event)
                             /\ Len(Append(q, e)) = Len(q) + 1
                             /\ Append(q, e)[Len(q) + 1] = e
                             /\ \A i \in 1 .. Len(q) : Append(q, e)[i] = q[i]
         /\ q # <<>> => /\ Tail(q) \in Seq(Event)
                        /\ Len(q) > 0 /\ Len(Tail(q)) = Len(q) - 1
                        /\ Head(q) = q[1]
                        /\ \A i \in 1 .. Len(q) - 1 : Tail(q)[i] = q[i + 1]
<1>1. QED
  BY HeadTailProperties

\* The application starts in the invariant.
LEMMA InitInv == Init => IInv
<1> SUFFICES ASSUME Init PROVE IInv
  OBVIOUS
<1>1. LoopOK
  BY BtAssumption DEF Init, LoopOK
<1>2. FlagsOK
  BY DEF Init, FlagsOK
<1>3. RestOK
  BY BtAssumption DEF Init, RestOK
<1>4. queue = <<>> /\ <<>> \in Seq(Event) /\ Len(<<>>) = 0 /\ DOMAIN <<>> = {}
  BY DEF Init
<1>5. QueueOK
  BY <1>4, BtAssumption DEF QueueOK
<1>6. OrderInv
  BY <1>4 DEF Init, OrderInv
<1>7. QED
  BY <1>1, <1>2, <1>3, <1>5, <1>6 DEF IInv, TypeParts

-----------------------------------------------------------------------------
(* The queue and the order of its events.                                  *)

\* A step that leaves queue and link alone and adds no request.
LEMMA QuietStep ==
  ASSUME QueueOK, OrderInv, UNCHANGED <<queue, link>>, ReceiveDone' => ReceiveDone
  PROVE  QueueOK' /\ OrderInv'
BY DEF QueueOK, OrderInv, Gone

\* The stack puts the end of a connection into the queue.
LEMMA EndStep ==
  ASSUME QueueOK, OrderInv, link # NoClient, link' = NoClient,
         queue' = Append(queue, "Disconnected")
  PROVE  QueueOK' /\ OrderInv'
<1>1. queue \in Seq(Event) /\ "Disconnected" \in Event
  BY DEF QueueOK, Event
<1>2. /\ queue' \in Seq(Event) /\ Len(queue') = Len(queue) + 1 /\ DOMAIN queue' = 1 .. Len(queue')
      /\ Len(queue) \in Nat
      /\ queue'[Len(queue')] = "Disconnected"
  BY <1>1, QueueFacts
<1>3. QueueOK'
  BY <1>2, BtAssumption DEF QueueOK
<1>4. \A i \in 0 .. Len(queue') - 1 : Gone(i)'
  BY <1>2 DEF Gone
<1>5. \A i \in DOMAIN queue' : queue'[i] # "Disconnected" => i \in 0 .. Len(queue') - 1
  BY <1>2
<1>6. 0 \in 0 .. Len(queue') - 1
  BY <1>2
<1>7. OrderInv'
  BY <1>4, <1>5, <1>6 DEF OrderInv
<1>8. QED
  BY <1>3, <1>7

\* A phone connects or asks.
LEMMA PhoneStep ==
  ASSUME QueueOK, OrderInv, NEW e \in Event, Len(queue) < MaxQueue,
         link' # NoClient, queue' = Append(queue, e)
  PROVE  QueueOK' /\ OrderInv'
<1>1. queue \in Seq(Event)
  BY DEF QueueOK
<1>2. queue' \in Seq(Event) /\ Len(queue') = Len(queue) + 1 /\ Len(queue) \in Nat
  BY <1>1, QueueFacts
<1>3. QueueOK'
  BY <1>2, BtAssumption DEF QueueOK
<1>4. OrderInv'
  BY DEF OrderInv
<1>5. QED
  BY <1>3, <1>4

\* The callback thread takes an event out of the queue; with the end of a
\* connection the request goes, and a request comes only with a write.
LEMMA TakeStep ==
  ASSUME QueueOK, OrderInv, queue # <<>>, queue' = Tail(queue), link' = link,
         Head(queue) = "Disconnected" => ReceiveDone' = FALSE
  PROVE  QueueOK' /\ OrderInv'
<1>1. queue \in Seq(Event)
  BY DEF QueueOK
<1>2. /\ queue' \in Seq(Event) /\ Len(queue) \in Nat /\ Len(queue) > 0 /\ Len(queue') = Len(queue) - 1
      /\ DOMAIN queue = 1 .. Len(queue) /\ DOMAIN queue' = 1 .. Len(queue')
      /\ Head(queue) = queue[1]
      /\ \A i \in 1 .. Len(queue) - 1 : queue'[i] = queue[i + 1]
  BY <1>1, QueueFacts
<1>3. QueueOK'
  BY <1>2, BtAssumption DEF QueueOK
<1>4. \A i \in 1 .. Len(queue) : Gone(i) => Gone(i - 1)'
  <2> SUFFICES ASSUME NEW i \in 1 .. Len(queue), Gone(i) PROVE Gone(i - 1)'
    OBVIOUS
  <2>1. PICK j \in DOMAIN queue : j > i /\ queue[j] = "Disconnected"
    BY DEF Gone
  <2>2. j - 1 \in DOMAIN queue' /\ j - 1 > i - 1 /\ queue'[j - 1] = "Disconnected"
    BY <1>2, <2>1
  <2>3. QED
    BY <2>2 DEF Gone
<1>5. \A i \in DOMAIN queue' : queue'[i] # "Disconnected" => link' # NoClient \/ Gone(i)'
  <2> SUFFICES ASSUME NEW i \in DOMAIN queue', queue'[i] # "Disconnected", link = NoClient
               PROVE  Gone(i)'
    OBVIOUS
  <2>1. i + 1 \in DOMAIN queue /\ queue[i + 1] # "Disconnected" /\ (i + 1) - 1 = i /\ i + 1 \in 1 .. Len(queue)
    BY <1>2
  <2>2. Gone(i + 1)
    BY <2>1 DEF OrderInv
  <2>3. Gone((i + 1) - 1)'
    BY <1>4, <2>1, <2>2
  <2>4. QED
    BY <2>1, <2>3
<1>6. ReceiveDone' => link' # NoClient \/ Gone(0)'
  <2> SUFFICES ASSUME ReceiveDone', link = NoClient PROVE Gone(0)'
    OBVIOUS
  <2>1. 1 \in DOMAIN queue /\ 1 \in 1 .. Len(queue) /\ queue[1] # "Disconnected" /\ 1 - 1 = 0
    BY <1>2
  <2>2. Gone(1)
    BY <2>1 DEF OrderInv
  <2>3. Gone(1 - 1)'
    BY <1>4, <2>1, <2>2
  <2>4. QED
    BY <2>1, <2>3
<1>7. QED
  BY <1>3, <1>5, <1>6 DEF OrderInv

\* What main does leaves the queue alone, but for the end of a connection.
LEMMA MainKeepsOrder ==
  ASSUME IInv, MainLoop PROVE QueueOK' /\ OrderInv'
<1> USE DEF IInv, TypeParts
<1>1. CASE DisconnectRemote
  <2>1. ReceiveDone' = ReceiveDone
    BY <1>1 DEF DisconnectRemote
  <2>2. CASE link # NoClient /\ link' = NoClient /\ queue' = Append(queue, "Disconnected")
    BY <2>2, EndStep
  <2>3. CASE UNCHANGED <<link, queue>>
    BY <2>1, <2>3, QuietStep
  <2>4. QED
    BY <1>1, <2>2, <2>3 DEF DisconnectRemote
<1>2. CASE MainLoop /\ ~DisconnectRemote
  <2>1. UNCHANGED <<queue, link>> /\ (ReceiveDone' => ReceiveDone)
    BY <1>2
       DEF MainLoop, TestFlags, SampleTick, Expired, NotExpired, DropConnection, ClearRequest, ReloadTimer,
           DisconnectTimeout, AdvertiseAgain, TestReceived, SendNotification, RequestDone, events, stack
  <2>2. QED
    BY <2>1, QuietStep
<1>3. QED
  BY <1>1, <1>2

\* The callbacks, the phones and time.
LEMMA OthersKeepOrder ==
  ASSUME IInv,
         \/ HandleEvent \/ AdvertisingTimeout \/ Leave \/ Tick
         \/ \E c \in Client : Connect(c) \/ \E ev \in Request : Ask(c, ev)
         \/ UNCHANGED vars
  PROVE  QueueOK' /\ OrderInv'
<1> USE DEF IInv, TypeParts
<1>1. ASSUME NEW c \in Client, GATTConnected(c) PROVE QueueOK' /\ OrderInv'
  <2>1. c # "Disconnected"
    BY BtAssumption
  <2>2. queue # <<>> /\ queue' = Tail(queue) /\ link' = link /\ Head(queue) = c
    BY <1>1 DEF GATTConnected, Handle, stack
  <2>3. QED
    BY <2>1, <2>2, TakeStep
<1>2. CASE GATTDisconnected
  BY <1>2, TakeStep DEF GATTDisconnected, ForgetRequest, Handle, stack
<1>3. ASSUME NEW ev \in Request, GATTRequest(ev) PROVE QueueOK' /\ OrderInv'
  BY <1>3, TakeStep DEF GATTRequest, Handle, stack, Request
<1>4. CASE StampSession \/ Readvertise \/ AdvertisingTimeout \/ Tick \/ UNCHANGED vars
  <2>1. UNCHANGED <<queue, link, ReceiveDone>>
    BY <1>4 DEF StampSession, Readvertise, AdvertisingTimeout, Tick, AppUnchanged, vars, events, stack
  <2>2. QED
    BY <2>1, QuietStep
<1>5. CASE Leave
  BY <1>5, EndStep DEF Leave
<1>6. ASSUME NEW c \in Client, Connect(c) PROVE QueueOK' /\ OrderInv'
  BY <1>6, BtAssumption, PhoneStep DEF Connect, Event
<1>7. ASSUME NEW c \in Client, NEW ev \in Request, Ask(c, ev) PROVE QueueOK' /\ OrderInv'
  BY <1>7, BtAssumption, PhoneStep DEF Ask, Event
<1>8. QED
  BY <1>1, <1>2, <1>3, <1>4, <1>5, <1>6, <1>7 DEF HandleEvent

-----------------------------------------------------------------------------
(* The other types.                                                        *)

\* A start of the advertising counts its failures up to the bound.
LEMMA AdvertisementFacts ==
  ASSUME FlagsOK, faults \in 0 .. MaxFaults, NEW ok \in BOOLEAN, StartBtAdvertisement(ok)
  PROVE  startAdvtF' \in BOOLEAN /\ advertising' \in BOOLEAN /\ faults' \in 0 .. MaxFaults
BY BtAssumption DEF FlagsOK, StartBtAdvertisement, Fault

\* main's steps keep the types.
LEMMA MainKeepsTypes ==
  ASSUME LoopOK, FlagsOK, RestOK, MainLoop PROVE LoopOK' /\ FlagsOK' /\ RestOK'
<1>1. CASE TestFlags
  <2>1. SessionTime \in {Short, Long}
    BY DEF SessionTime
  <2>2. btTimerValue' \in {0, Short, Long} /\ main' \in {"sample", "task"}
    BY <1>1, <2>1 DEF TestFlags
  <2>3. QED
    BY <1>1, <2>2 DEF TestFlags, LoopOK, FlagsOK, RestOK, timed, events, stack
<1>2. CASE SampleTick
  <2>1. main' \in {"waited", "expire"} /\ gap' \in 0 .. Long
    BY <1>2 DEF SampleTick, RestOK
  <2>2. QED
    BY <1>2, <2>1 DEF SampleTick, LoopOK, FlagsOK, RestOK, timed, events, stack
<1>3. CASE Expired \/ NotExpired \/ DisconnectTimeout
  <2>1. main' \in {"disconnect", "task", "readvertise"} /\ btTimerValue' = 0 /\ gap' = 0 /\ restamped' = FALSE
    BY <1>3 DEF Expired, NotExpired, DisconnectTimeout, Goto, Compared
  <2>2. elapsed' \in {elapsed, 0} /\ startAdvtF' \in {startAdvtF, TRUE}
        /\ UNCHANGED <<btConnected, btReadReqTimerF, ReceiveDone, CurrentRemoteBD_ADDR, callback,
                       advertising, link, faults>>
    BY <1>3 DEF Expired, NotExpired, DisconnectTimeout, timed, events, stack
  <2>3. LoopOK'
    BY <2>1, BtAssumption DEF LoopOK
  <2>4. FlagsOK'
    BY <2>1, <2>2 DEF FlagsOK
  <2>5. RestOK'
    BY <2>2, BtAssumption DEF RestOK
  <2>6. QED
    BY <2>3, <2>4, <2>5
<1>4. CASE DisconnectRemote
  <2>1. main' = "drop" /\ link' \in {link, NoClient} /\ faults' \in 0 .. MaxFaults
    BY <1>4, BtAssumption DEF DisconnectRemote, Goto, Fault, RestOK
  <2>2. QED
    BY <1>4, <2>1 DEF DisconnectRemote, LoopOK, FlagsOK, RestOK, loop, timed
<1>5. CASE DropConnection \/ ClearRequest \/ ReloadTimer \/ TestReceived \/ SendNotification \/ RequestDone
  <2>1. main' \in {"clear", "reload", "task", "notify", "test", "noted"}
    BY <1>5 DEF DropConnection, ClearRequest, ReloadTimer, TestReceived, SendNotification, RequestDone, Goto
  <2>2. /\ btConnected' \in {btConnected, FALSE} /\ ReceiveDone' \in {ReceiveDone, FALSE}
        /\ btReadReqTimerF' \in {btReadReqTimerF, TRUE, FALSE}
    BY <1>5 DEF DropConnection, ClearRequest, ReloadTimer, TestReceived, SendNotification, RequestDone
  <2>3. UNCHANGED <<loop, startAdvtF, timed, events, stack>>
    BY <1>5 DEF DropConnection, ClearRequest, ReloadTimer, TestReceived, SendNotification, RequestDone
  <2>4. LoopOK' /\ RestOK'
    BY <2>1, <2>3 DEF LoopOK, RestOK, loop, timed, events, stack
  <2>5. FlagsOK'
    BY <2>2, <2>3 DEF FlagsOK, loop, stack
  <2>6. QED
    BY <2>4, <2>5
<1>6. CASE AdvertiseAgain
  <2>1. startAdvtF' \in BOOLEAN /\ advertising' \in BOOLEAN /\ faults' \in 0 .. MaxFaults
    BY <1>6, AdvertisementFacts DEF AdvertiseAgain, RestOK
  <2>2. QED
    BY <1>6, <2>1 DEF AdvertiseAgain, Goto, LoopOK, FlagsOK, RestOK, loop, timed, events
<1>7. QED
  BY <1>1, <1>2, <1>3, <1>4, <1>5, <1>6 DEF MainLoop

\* So do the callbacks.
LEMMA CallbacksKeepTypes ==
  ASSUME LoopOK, FlagsOK, RestOK, HandleEvent \/ AdvertisingTimeout
  PROVE  LoopOK' /\ FlagsOK' /\ RestOK'
<1>1. CASE \/ \E c \in Client : GATTConnected(c)
           \/ GATTDisconnected
           \/ \E ev \in Request : GATTRequest(ev)
  <2>1. UNCHANGED <<main, loop, btReadReqTimerF, startAdvtF, elapsed, stack>>
    BY <1>1 DEF GATTConnected, GATTDisconnected, GATTRequest, Handle
  <2>2. /\ callback' \in {"idle", "stamp", "readvertise", "reload"}
        /\ CurrentRemoteBD_ADDR' \in Client \union {NoClient}
    BY <1>1 DEF GATTConnected, GATTDisconnected, GATTRequest, Handle, RestOK
  <2>3. btConnected' \in BOOLEAN /\ ReceiveDone' \in BOOLEAN
    BY <1>1 DEF GATTConnected, GATTDisconnected, GATTRequest, ForgetRequest, ProcessWriteRequestEvent, FlagsOK
  <2>4. LoopOK' /\ RestOK'
    BY <2>1, <2>2 DEF LoopOK, RestOK, loop, stack
  <2>5. FlagsOK'
    BY <2>1, <2>3 DEF FlagsOK, loop, stack
  <2>6. QED
    BY <2>4, <2>5
<1>2. CASE StampSession
  <2>1. /\ callback' = "idle" /\ elapsed' = 0
        /\ btReadReqTimerF' \in BOOLEAN /\ restamped' \in BOOLEAN
    BY <1>2 DEF StampSession
  <2>2. 0 \in 0 .. Long
    BY BtAssumption
  <2>3. QED
    BY <1>2, <2>1, <2>2 DEF StampSession, LoopOK, FlagsOK, RestOK, stack
<1>3. CASE Readvertise
  <2>1. startAdvtF' \in BOOLEAN /\ advertising' \in BOOLEAN /\ faults' \in 0 .. MaxFaults
    BY <1>3, AdvertisementFacts DEF Readvertise, RestOK
  <2>2. QED
    BY <1>3, <2>1 DEF Readvertise, LoopOK, FlagsOK, RestOK, loop, timed
<1>4. CASE AdvertisingTimeout
  <2>1. startAdvtF' \in BOOLEAN /\ advertising' \in BOOLEAN /\ faults' \in 0 .. MaxFaults
    BY <1>4, BtAssumption DEF AdvertisingTimeout, FlagsOK, RestOK, Fault
  <2>2. QED
    BY <1>4, <2>1 DEF AdvertisingTimeout, LoopOK, FlagsOK, RestOK, loop, timed, events
<1>5. QED
  BY <1>1, <1>2, <1>3, <1>4 DEF HandleEvent

\* And the phones and time.
LEMMA PhonesKeepTypes ==
  ASSUME LoopOK, FlagsOK, RestOK,
         \/ Leave \/ Tick
         \/ \E c \in Client : Connect(c) \/ \E ev \in Request : Ask(c, ev)
         \/ UNCHANGED vars
  PROVE  LoopOK' /\ FlagsOK' /\ RestOK'
<1>1. UNCHANGED <<main, loop, btConnected, btReadReqTimerF, ReceiveDone, startAdvtF,
                  CurrentRemoteBD_ADDR, callback, faults>>
  BY DEF Leave, Tick, Connect, Ask, AppUnchanged, vars, timed, events, stack
<1>2. link' \in Client \union {NoClient} /\ elapsed' \in 0 .. Long
  BY BtAssumption DEF Leave, Tick, Connect, Ask, vars, timed, stack, RestOK
<1>3. advertising' \in BOOLEAN
  BY DEF Leave, Tick, Connect, Ask, vars, stack, FlagsOK
<1>4. LoopOK' /\ RestOK'
  BY <1>1, <1>2 DEF LoopOK, RestOK, loop
<1>5. FlagsOK'
  BY <1>1, <1>3 DEF FlagsOK, loop
<1>6. QED
  BY <1>4, <1>5

\* Every step keeps the invariant.
LEMMA NextInv == IInv /\ [Next]_vars => IInv'
<1> SUFFICES ASSUME IInv, [Next]_vars PROVE IInv'
  OBVIOUS
<1>1. LoopOK /\ FlagsOK /\ RestOK
  BY DEF IInv, TypeParts
<1>2. CASE MainLoop
  BY <1>1, <1>2, MainKeepsTypes, MainKeepsOrder DEF IInv, TypeParts
<1>3. CASE HandleEvent \/ AdvertisingTimeout
  BY <1>1, <1>3, CallbacksKeepTypes, OthersKeepOrder DEF IInv, TypeParts
<1>4. CASE \/ Leave \/ Tick
           \/ \E c \in Client : Connect(c) \/ \E ev \in Request : Ask(c, ev)
           \/ UNCHANGED vars
  BY <1>1, <1>4, PhonesKeepTypes, OthersKeepOrder DEF IInv, TypeParts
<1>5. QED
  BY <1>2, <1>3, <1>4 DEF Next

\* The invariant holds of every behaviour.
LEMMA Invariance == Spec => []IInv
BY InitInv, NextInv, PTL DEF Spec

-----------------------------------------------------------------------------
(* The device stays reachable.                                             *)

\* A start of the advertising, by main or by the callback, leaves the device
\* advertising or with a phone, or has failed.
LEMMA StartReaches ==
  ASSUME faults \in Nat, NEW ok \in BOOLEAN, StartBtAdvertisement(ok), link' = link
  PROVE  faults' = 0 => faults = 0 /\ (advertising' \/ link' # NoClient)
BY DEF StartBtAdvertisement, Fault

\* The end of a connection that was just reported waits for the callback thread.
LEMMA EndWaits ==
  ASSUME QueueOK, queue' = Append(queue, "Disconnected") PROVE Gone(0)'
<1>1. queue \in Seq(Event) /\ "Disconnected" \in Event
  BY DEF QueueOK, Event
<1>2. /\ Len(queue) \in Nat /\ Append(queue, "Disconnected") \in Seq(Event)
      /\ Len(queue') = Len(queue) + 1 /\ queue'[Len(queue) + 1] = "Disconnected"
  BY <1>1, QueueFacts
<1>3. DOMAIN queue' = 1 .. Len(queue')
  BY <1>2, QueueFacts
<1>4. Len(queue) + 1 \in DOMAIN queue' /\ Len(queue) + 1 > 0
  BY <1>2, <1>3
<1>5. QED
  BY <1>2, <1>4 DEF Gone

\* Taking another event leaves it there.
LEMMA EndStillWaits ==
  ASSUME QueueOK, queue # <<>>, queue' = Tail(queue), Head(queue) # "Disconnected", Gone(0)
  PROVE  Gone(0)'
<1>1. queue \in Seq(Event)
  BY DEF QueueOK
<1>2. /\ Len(queue) \in Nat /\ DOMAIN queue = 1 .. Len(queue) /\ Head(queue) = queue[1]
      /\ queue' \in Seq(Event) /\ Len(queue') = Len(queue) - 1
      /\ \A i \in 1 .. Len(queue) - 1 : queue'[i] = queue[i + 1]
  BY <1>1, QueueFacts
<1>3. DOMAIN queue' = 1 .. Len(queue) - 1
  BY <1>2, QueueFacts
<1>4. PICK j \in DOMAIN queue : j > 0 /\ queue[j] = "Disconnected"
  BY DEF Gone
<1>5. j # 1
  BY <1>2, <1>4
<1>6. j - 1 \in 1 .. Len(queue) - 1 /\ queue'[j - 1] = queue[(j - 1) + 1] /\ (j - 1) + 1 = j
  BY <1>2, <1>4, <1>5
<1>7. QED
  BY <1>3, <1>4, <1>6 DEF Gone

\* StaysReachable with the part on the queue named.
Reachable == advertising \/ link # NoClient \/ callback = "readvertise" \/ Gone(0)

LEMMA ReachableIsGone == QueueOK => (StaysReachable <=> (faults = 0 => Reachable))
<1> SUFFICES ASSUME QueueOK
             PROVE  (\E i \in DOMAIN queue : queue[i] = "Disconnected") <=> Gone(0)
  BY DEF StaysReachable, Reachable
<1>1. \A i \in DOMAIN queue : i > 0
  BY QueueFacts DEF QueueOK
<1>2. QED
  BY <1>1 DEF Gone

\* main's steps: they start the advertising, close the connection, or touch
\* nothing that the device is reached by.
LEMMA MainReaches ==
  ASSUME IInv, MainLoop, faults = 0 => Reachable PROVE faults' = 0 => Reachable'
<1> USE DEF IInv, TypeParts
<1>1. faults \in Nat
  BY BtAssumption DEF RestOK
<1>2. CASE AdvertiseAgain
  BY <1>1, <1>2, StartReaches DEF AdvertiseAgain, Reachable
<1>3. CASE DisconnectRemote
  <2>1. CASE queue' = Append(queue, "Disconnected")
    BY <2>1, EndWaits DEF Reachable
  <2>2. CASE Fault
    BY <1>1, <2>2 DEF Fault
  <2>3. CASE UNCHANGED <<link, queue, faults>>
    BY <1>3, <2>3 DEF DisconnectRemote, Reachable, Gone
  <2>4. QED
    BY <1>3, <2>1, <2>2, <2>3 DEF DisconnectRemote
<1>4. CASE MainLoop /\ ~AdvertiseAgain /\ ~DisconnectRemote
  <2>1. UNCHANGED <<events, stack>>
    BY <1>4
       DEF MainLoop, TestFlags, SampleTick, Expired, NotExpired, DropConnection, ClearRequest, ReloadTimer,
           DisconnectTimeout, TestReceived, SendNotification, RequestDone
  <2>2. QED
    BY <2>1 DEF events, stack, Reachable, Gone
<1>5. QED
  BY <1>2, <1>3, <1>4

\* The callbacks: the end of a connection leaves the queue only for the
\* callback that starts the advertising.
LEMMA CallbackReaches ==
  ASSUME IInv, HandleEvent \/ AdvertisingTimeout, faults = 0 => Reachable
  PROVE  faults' = 0 => Reachable'
<1> USE DEF IInv, TypeParts
<1>1. faults \in Nat
  BY BtAssumption DEF RestOK
<1>2. ASSUME NEW ev \in Event, NEW rest, Handle(ev, rest), ev # "Disconnected"
      PROVE  faults' = 0 => Reachable'
  <2>1. /\ callback = "idle" /\ queue # <<>> /\ queue' = Tail(queue) /\ Head(queue) = ev
        /\ UNCHANGED <<advertising, link, faults>>
    BY <1>2 DEF Handle, stack
  <2>2. Gone(0) => Gone(0)'
    BY <1>2, <2>1, EndStillWaits
  <2>3. QED
    BY <2>1, <2>2 DEF Reachable
<1>3. ASSUME NEW c \in Client, GATTConnected(c) PROVE faults' = 0 => Reachable'
  BY <1>2, <1>3, BtAssumption DEF GATTConnected, Event
<1>4. ASSUME NEW ev \in Request, GATTRequest(ev) PROVE faults' = 0 => Reachable'
  <2>1. ev \in Event /\ ev # "Disconnected"
    BY DEF Event, Request
  <2>2. Handle(ev, IF ev = "ReadStatus" THEN "reload" ELSE "idle")
    BY <1>4 DEF GATTRequest
  <2>3. QED
    BY <1>2, <2>1, <2>2
<1>5. CASE GATTDisconnected
  BY <1>5 DEF GATTDisconnected, Handle, Reachable
<1>6. CASE StampSession
  BY <1>6 DEF StampSession, stack, Reachable, Gone
<1>7. CASE Readvertise
  BY <1>1, <1>7, StartReaches DEF Readvertise, Reachable
<1>8. CASE AdvertisingTimeout
  BY <1>1, <1>8 DEF AdvertisingTimeout, Fault, Reachable
<1>9. QED
  BY <1>3, <1>4, <1>5, <1>6, <1>7, <1>8 DEF HandleEvent

\* The phones and time: a phone that asks is connected, one that goes is reported.
LEMMA PhonesReach ==
  ASSUME IInv, faults = 0 => Reachable,
         \/ Leave \/ Tick
         \/ \E c \in Client : Connect(c) \/ \E ev \in Request : Ask(c, ev)
         \/ UNCHANGED vars
  PROVE  faults' = 0 => Reachable'
<1> USE DEF IInv, TypeParts
<1>1. CASE Leave
  BY <1>1, EndWaits DEF Leave, Reachable
<1>2. CASE Tick \/ UNCHANGED vars
  BY <1>2 DEF Tick, AppUnchanged, vars, events, stack, Reachable, Gone
<1>3. ASSUME NEW c \in Client, Connect(c) \/ \E ev \in Request : Ask(c, ev)
      PROVE  faults' = 0 => Reachable'
  BY <1>3, BtAssumption DEF Connect, Ask, Reachable
<1>4. QED
  BY <1>1, <1>2, <1>3

LEMMA ReachStep == IInv /\ StaysReachable /\ [Next]_vars => StaysReachable'
<1> SUFFICES ASSUME IInv, StaysReachable, [Next]_vars PROVE StaysReachable'
  OBVIOUS
<1>1. IInv' /\ QueueOK /\ QueueOK'
  BY NextInv DEF IInv, TypeParts
<1>2. faults = 0 => Reachable
  BY <1>1, ReachableIsGone
<1>3. faults' = 0 => Reachable'
  BY <1>2, MainReaches, CallbackReaches, PhonesReach DEF Next
<1>4. (QueueOK => (StaysReachable <=> (faults = 0 => Reachable)))'
  BY ReachableIsGone, PTL
<1>5. QED
  BY <1>1, <1>3, <1>4

-----------------------------------------------------------------------------

\* The flags, the time and the queue stay within their types: the queue has
\* room for the end of a connection.
THEOREM TypeCorrect == Spec => []TypeOK
<1>1. IInv => TypeOK
  BY PartsOfType DEF IInv
<1>2. QED
  BY <1>1, Invariance, PTL

\* Whichever thread ends a session, in whatever order with the events that
\* wait, ReceiveDone is cleared or will be before the next phone's events.
THEOREM NoRequestLeftOver == Spec => []RequestHasSession
<1>1. IInv => RequestHasSession
  BY DEF IInv, OrderInv, Gone, RequestHasSession
<1>2. QED
  BY <1>1, Invariance, PTL

\* The device is not lost to phones by any order of the two threads' steps: as
\* long as no call of the stack has failed, it advertises or serves a phone, or
\* the step that makes it advertise is still to come on the callback thread.
THEOREM StillReachable == Spec => []StaysReachable
<1>1. Init => StaysReachable
  BY DEF Init, StaysReachable
<1>2. QED
  BY <1>1, ReachStep, Invariance, PTL DEF Spec

=============================================================================
