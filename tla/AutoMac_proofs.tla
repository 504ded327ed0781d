---------------------------- MODULE AutoMac_proofs ----------------------------
(***************************************************************************)
(* AutoMac for any number of ids, time-outs, retries and mishaps: it keeps *)
(* its types, flash holds only complete sets of granted addresses, and the *)
(* loader asks until its retries are used up.                              *)
(***************************************************************************)
EXTENDS AutoMac, FiniteSetTheorems, TLAPS

Addresses == [{"ethaddr", "eth1addr"} -> Addr]
Looping == phase \in {"rx", "timer", "test"}

\* The timer function never counts past the limit it tests.
TimerInv == time_handler => AutoMacTimeoutCount <= TIMEOUT_COUNT

\* Inside the loop, somebody who waits for packets has sent a request, and the
\* timer runs unless the retries are used up.
LoopInv ==
  Looping /\ net_state = "CONTINUE" =>
    /\ AutoMacState = "BROADCASTIG_WAIT"
    /\ time_handler \/ retrycnt > AUTOMAC_RETRY_COUNT

\* Between the first and the second address of a board with two ports: the
\* first is in RAM, and the request for the second has another id.
FirstInv ==
  required_macaddr = 2 /\ macreceived = 1 =>
    env.ethaddr \in Id /\ env.ethaddr \notin transactionId

\* A board that is off counts nothing when it is switched on.
OffInv == phase = "off" => macreceived = 0

IInv == TypeOK /\ TimerInv /\ LoopInv /\ FirstInv /\ OffInv /\ SavedAreGranted

-----------------------------------------------------------------------------

\* A request has one id, which is none of the addresses in RAM.
LEMMA BroadcastFacts ==
  ASSUME NEW id \in Id, NEW old \in SUBSET Id, NEW A \in SUBSET Id, NEW W \in SUBSET Id
  PROVE  /\ {id} \in SUBSET Id /\ Cardinality({id}) <= 1
         /\ (A \intersect old) \union {id} \in SUBSET Id
         /\ W \intersect old \in SUBSET Id
<1>1. Cardinality({id}) = 1
  BY FS_Singleton
<1>2. QED
  BY <1>1

\* An address that is taken over leaves two addresses in RAM.
LEMMA UpdateFacts ==
  ASSUME NEW id \in Id, NEW n \in Nat, env \in Addresses
  PROVE  /\ update_mac(id, n) \in Addresses
         /\ n = 1 => update_mac(id, n).ethaddr = id /\ update_mac(id, n).eth1addr = env.eth1addr
         /\ n # 1 => update_mac(id, n).eth1addr = id /\ update_mac(id, n).ethaddr = env.ethaddr
BY DEF update_mac, Addresses, Addr

\* The part of TypeOK that is about the statics of automac.c.
StaticsOK ==
  /\ AutoMacState \in {"NONE", "BROADCASTIG_WAIT", "GRANTED_MAC"}
  /\ AutoMacTimeoutCount \in 0 .. TIMEOUT_COUNT + 1
  /\ retrycnt \in 0 .. AUTOMAC_RETRY_COUNT + 1
  /\ transactionId \in SUBSET Id /\ Cardinality(transactionId) <= 1
  /\ macreceived \in 0 .. required_macaddr + 1

RestOK ==
  /\ phase \in {"off", "call", "rx", "timer", "test", "done"}
  /\ net_state \in {"CONTINUE", "RESTART", "SUCCESS", "FAIL"}
  /\ time_handler \in BOOLEAN /\ udp_handler \in BOOLEAN
  /\ env \in Addresses
  /\ saved \in Addresses
  /\ asked \in SUBSET Id
  /\ answers \in SUBSET Id
  /\ network \in {"reliable", "unreliable"}
  /\ netretry \in BOOLEAN
  /\ mishaps \in 0 .. MaxMishaps

\* The two parts are the whole of TypeOK.
LEMMA TypeParts == TypeOK <=> StaticsOK /\ RestOK
BY DEF TypeOK, StaticsOK, RestOK, Addresses

\* Every action that sends a request sets these variables alike.
LEMMA StartFacts ==
  ASSUME TypeOK, NEW n, NEW wired \in SUBSET Id, automac_start(n, wired)
  PROVE  /\ time_handler' = TRUE /\ udp_handler' = TRUE
         /\ AutoMacTimeoutCount' = 0
         /\ AutoMacState' = "BROADCASTIG_WAIT"
         /\ transactionId' \in SUBSET Id /\ Cardinality(transactionId') <= 1
         /\ n.ethaddr \notin transactionId'
         /\ asked' \in SUBSET Id /\ answers' \in SUBSET Id
<1>1. PICK id \in Id \ (transactionId \union {n.ethaddr, n.eth1addr}) :
        /\ transactionId' = {id}
        /\ asked' = (asked \intersect transactionId) \union {id}
        /\ answers' = wired \intersect transactionId
        /\ AutoMacState' = "BROADCASTIG_WAIT"
  BY DEF automac_start, Broadcast
<1>2. QED
  BY <1>1, BroadcastFacts DEF automac_start, TypeOK

\* The rest of the invariant.
ProtocolInv == TimerInv /\ LoopInv /\ FirstInv /\ OffInv /\ SavedAreGranted

\* The invariant in three parts, which the steps below prove one by one.
LEMMA InvParts == IInv <=> StaticsOK /\ RestOK /\ ProtocolInv
BY TypeParts DEF IInv, ProtocolInv

\* The same of the state after a step.
LEMMA PartsAfterStep == StaticsOK' /\ RestOK' /\ ProtocolInv' => IInv'
BY DEF IInv, ProtocolInv, TypeOK, StaticsOK, RestOK, Addresses

\* The boot loader starts in the invariant.
LEMMA InitInv == Init => IInv
<1> SUFFICES ASSUME Init PROVE IInv
  OBVIOUS
<1>1. Cardinality({}) = 0
  BY FS_EmptySet
<1>2. NoAddr \in Addresses
  BY DEF NoAddr, Addresses, Addr
<1>3. StaticsOK
  BY <1>1, AutoMacAssumption DEF Init, StaticsOK
<1>4. RestOK
  <2>1. netretry \in BOOLEAN /\ time_handler \in BOOLEAN /\ udp_handler \in BOOLEAN
    BY DEF Init
  <2>2. mishaps \in 0 .. MaxMishaps
    BY AutoMacAssumption DEF Init
  <2>3. /\ phase \in {"off", "call", "rx", "timer", "test", "done"}
        /\ net_state \in {"CONTINUE", "RESTART", "SUCCESS", "FAIL"}
        /\ network \in {"reliable", "unreliable"}
        /\ asked \in SUBSET Id /\ answers \in SUBSET Id
    BY DEF Init
  <2>4. env \in Addresses /\ saved \in Addresses
    BY <1>2 DEF Init
  <2>5. QED
    BY <2>1, <2>2, <2>3, <2>4 DEF RestOK
<1>5. ProtocolInv
  BY AutoMacAssumption DEF Init, ProtocolInv, TimerInv, LoopInv, FirstInv, OffInv, SavedAreGranted, Looping
<1>6. QED
  BY <1>3, <1>4, <1>5, InvParts

-----------------------------------------------------------------------------
(* The steps.                                                              *)

\* net_loop starts with no address counted, a made-up one in RAM and a request.
LEMMA NetLoopStep ==
  ASSUME IInv, net_loop PROVE IInv'
<1>1. env' \in Addresses /\ answers \in SUBSET Id
  BY DEF IInv, TypeOK, net_loop, Addr, Addresses
<1>2. /\ time_handler' = TRUE /\ udp_handler' = TRUE
      /\ AutoMacTimeoutCount' = 0
      /\ AutoMacState' = "BROADCASTIG_WAIT"
      /\ transactionId' \in SUBSET Id /\ Cardinality(transactionId') <= 1
      /\ asked' \in SUBSET Id /\ answers' \in SUBSET Id
  BY <1>1, StartFacts DEF IInv, net_loop
<1>3. StaticsOK'
  BY <1>2, AutoMacAssumption DEF IInv, TypeOK, StaticsOK, net_loop, ClearCount
<1>4. RestOK'
  BY <1>1, <1>2, InvParts DEF RestOK, net_loop
<1>5. ProtocolInv'
  BY <1>2, AutoMacAssumption DEF IInv, TypeOK, net_loop, ClearCount, ProtocolInv, TimerInv, LoopInv, FirstInv, OffInv, SavedAreGranted, Looping
<1>6. QED
  BY <1>3, <1>4, <1>5, PartsAfterStep

\* A new address: with the last one the set is saved, otherwise the next
\* request gets an id that differs from the address.
LEMMA GrantStep ==
  ASSUME IInv, NEW id \in Id, phase = "rx", id \in transactionId, Grant(id),
         UNCHANGED <<phase, retrycnt, network, netretry, mishaps>>
  PROVE  IInv'
<1> DEFINE n == IF macreceived > required_macaddr THEN macreceived ELSE macreceived + 1
<1>1. /\ n \in 1 .. required_macaddr + 1 /\ macreceived' = n /\ env' = update_mac(id, n)
      /\ n # 1 => n = macreceived + 1 \/ n > required_macaddr
  BY AutoMacAssumption DEF IInv, TypeOK, Grant
<1>2. /\ env' \in Addresses
      /\ n = 1 => env'.ethaddr = id
      /\ n # 1 => env'.eth1addr = id /\ env'.ethaddr = env.ethaddr
  BY <1>1, UpdateFacts, AutoMacAssumption DEF IInv, TypeOK, Addresses
<1>3. Without(id) \in SUBSET Id
  BY DEF Without, IInv, TypeOK
<1>4. CASE n = required_macaddr
  <2>1. /\ saved' = env' /\ AutoMacState' = "GRANTED_MAC" /\ net_state' = "SUCCESS"
        /\ answers' = Without(id)
        /\ UNCHANGED <<AutoMacTimeoutCount, transactionId, handlers, asked>>
    BY <1>4 DEF Grant
  <2>2. StaticsOK'
    BY <1>1, <2>1, AutoMacAssumption DEF IInv, TypeOK, StaticsOK
  <2>3. RestOK'
    BY <1>2, <1>3, <2>1, InvParts DEF RestOK, handlers
  <2>4. SavedAreGranted'
    <3>1. CASE required_macaddr = 1
      BY <1>2, <1>4, <2>1, <3>1 DEF SavedAreGranted
    <3>2. CASE required_macaddr = 2
      <4>1. env.ethaddr \in Id /\ env.ethaddr # id
        BY <1>1, <1>4, <3>2 DEF IInv, FirstInv, TypeOK
      <4>2. QED
        BY <1>2, <1>4, <2>1, <3>2, <4>1 DEF SavedAreGranted
    <3>3. QED
      BY <3>1, <3>2, AutoMacAssumption
  <2>5. (TimerInv /\ LoopInv /\ FirstInv /\ OffInv)'
    BY <1>1, <1>4, <2>1, AutoMacAssumption
       DEF IInv, TypeOK, TimerInv, LoopInv, FirstInv, OffInv, Looping, handlers
  <2>6. QED
    BY <2>2, <2>3, <2>4, <2>5, PartsAfterStep DEF ProtocolInv
<1>5. CASE n # required_macaddr
  <2>1. automac_start(env', Without(id)) /\ net_state' = "CONTINUE" /\ saved' = saved
    BY <1>5 DEF Grant
  <2>2. /\ time_handler' = TRUE /\ udp_handler' = TRUE
        /\ AutoMacTimeoutCount' = 0
        /\ AutoMacState' = "BROADCASTIG_WAIT"
        /\ transactionId' \in SUBSET Id /\ Cardinality(transactionId') <= 1
        /\ env'.ethaddr \notin transactionId'
        /\ asked' \in SUBSET Id /\ answers' \in SUBSET Id
    BY <1>3, <2>1, StartFacts DEF IInv
  <2>3. StaticsOK'
    BY <1>1, <2>2, AutoMacAssumption DEF IInv, TypeOK, StaticsOK
  <2>4. RestOK'
    BY <1>2, <2>1, <2>2, InvParts DEF RestOK
  <2>5. FirstInv'
    <3>1. macreceived' = 1 => env'.ethaddr = id
      BY <1>1, <1>2
    <3>2. QED
      BY <2>2, <3>1 DEF FirstInv
  <2>6. (TimerInv /\ LoopInv /\ OffInv /\ SavedAreGranted)'
    BY <2>1, <2>2, AutoMacAssumption DEF IInv, TimerInv, LoopInv, OffInv, SavedAreGranted, Looping
  <2>7. QED
    BY <2>3, <2>4, <2>5, <2>6, PartsAfterStep DEF ProtocolInv
<1>6. QED
  BY <1>4, <1>5

\* AutoMacHandler takes an address over, or throws the packet away.
LEMMA ReceiveStep ==
  ASSUME IInv, NEW id \in Id, Receive(id) PROVE IInv'
<1>1. CASE id \in transactionId /\ Grant(id)
  BY <1>1, GrantStep DEF Receive
<1>2. CASE /\ answers' = Without(id)
           /\ UNCHANGED <<net_state, AutoMacState, AutoMacTimeoutCount, transactionId, macreceived,
                          handlers, env, saved, asked>>
  <2>1. answers' \in SUBSET Id
    BY <1>2 DEF Without, IInv, TypeOK
  <2>2. StaticsOK'
    BY <1>2, InvParts DEF StaticsOK, Receive
  <2>3. RestOK'
    BY <1>2, <2>1, InvParts DEF RestOK, Receive, handlers
  <2>4. ProtocolInv'
    BY <1>2, InvParts DEF ProtocolInv, TimerInv, LoopInv, FirstInv, OffInv, SavedAreGranted, Looping, Receive, handlers
  <2>5. QED
    BY <2>2, <2>3, <2>4, PartsAfterStep
<1>3. QED
  BY <1>1, <1>2 DEF Receive

\* The timer function: the request is repeated with another id, or the
\* ethernet is started again, or the retries are used up.
LEMMA TimeoutStep ==
  ASSUME IInv, AutoMacTimeout PROVE IInv'
<1>1. /\ phase = "timer" /\ time_handler /\ phase' = "test"
      /\ UNCHANGED <<macreceived, udp_handler, env, saved, network, netretry, mishaps>>
  BY DEF AutoMacTimeout
<1>2. AutoMacTimeoutCount <= TIMEOUT_COUNT
  BY <1>1 DEF IInv, TimerInv
<1>3. CASE AutoMacState = "BROADCASTIG_WAIT" /\ AutoMacTimeoutCount + 1 > TIMEOUT_COUNT
  <2>1. AutoMacTimeoutCount' = AutoMacTimeoutCount + 1 /\ RetryCountExceeded
    BY <1>3 DEF AutoMacTimeout
  <2>2. /\ retrycnt' \in 0 .. AUTOMAC_RETRY_COUNT + 1
        /\ net_state' \in {"CONTINUE", "RESTART", "SUCCESS", "FAIL"}
        /\ net_state' = "CONTINUE" => retrycnt' > AUTOMAC_RETRY_COUNT
    BY <2>1, AutoMacAssumption DEF IInv, TypeOK, RetryCountExceeded, net_start_again
  <2>3. ~time_handler' /\ time_handler' \in BOOLEAN /\ UNCHANGED <<AutoMacState, transactionId, asked, answers>>
    BY <2>1 DEF RetryCountExceeded, wire
  <2>4. StaticsOK'
    BY <1>1, <1>2, <2>1, <2>2, <2>3, AutoMacAssumption DEF IInv, TypeOK, StaticsOK
  <2>5. RestOK'
    BY <1>1, <2>2, <2>3, InvParts DEF RestOK
  <2>6. ProtocolInv'
    BY <1>1, <1>3, <2>2, <2>3 DEF IInv, ProtocolInv, TimerInv, LoopInv, FirstInv, OffInv, SavedAreGranted, Looping
  <2>7. QED
    BY <2>4, <2>5, <2>6, PartsAfterStep
<1>4. CASE AutoMacState = "BROADCASTIG_WAIT" /\ ~(AutoMacTimeoutCount + 1 > TIMEOUT_COUNT)
  <2>1. AutoMacTimeoutCount' = AutoMacTimeoutCount + 1 /\ Retry
    BY <1>4 DEF AutoMacTimeout
  <2>2. PICK id \in Id \ (transactionId \union {env.ethaddr, env.eth1addr}) :
          /\ transactionId' = {id}
          /\ asked' = (asked \intersect transactionId) \union {id}
          /\ answers' = answers \intersect transactionId
          /\ AutoMacState' = "BROADCASTIG_WAIT"
    BY <2>1 DEF Retry, Broadcast
  <2>3. /\ transactionId' \in SUBSET Id /\ Cardinality(transactionId') <= 1
        /\ asked' \in SUBSET Id /\ answers' \in SUBSET Id
        /\ env.ethaddr \notin transactionId'
    BY <2>2, BroadcastFacts DEF IInv, TypeOK
  <2>4. time_handler' = TRUE /\ UNCHANGED <<net_state, retrycnt>>
    BY <2>1 DEF Retry
  <2>5. StaticsOK'
    BY <1>1, <1>2, <2>1, <2>2, <2>3, <2>4, AutoMacAssumption DEF IInv, TypeOK, StaticsOK
  <2>6. RestOK'
    BY <1>1, <2>3, <2>4, InvParts DEF RestOK
  <2>7. FirstInv'
    BY <1>1, <2>3 DEF IInv, FirstInv
  <2>8. (TimerInv /\ LoopInv /\ OffInv /\ SavedAreGranted)'
    BY <1>1, <1>2, <1>4, <2>1, <2>2, <2>4, AutoMacAssumption
       DEF IInv, TypeOK, TimerInv, LoopInv, OffInv, SavedAreGranted, Looping
  <2>9. QED
    BY <2>5, <2>6, <2>7, <2>8, PartsAfterStep DEF ProtocolInv
<1>5. CASE AutoMacState # "BROADCASTIG_WAIT"
  <2>1. /\ ~time_handler' /\ time_handler' \in BOOLEAN
        /\ UNCHANGED <<net_state, AutoMacState, AutoMacTimeoutCount, retrycnt, transactionId, asked, answers>>
    BY <1>5 DEF AutoMacTimeout, wire
  <2>2. StaticsOK'
    BY <1>1, <2>1, InvParts DEF StaticsOK
  <2>3. RestOK'
    BY <1>1, <2>1, InvParts DEF RestOK
  <2>4. ProtocolInv'
    BY <1>1, <1>5, <2>1, InvParts DEF ProtocolInv, TimerInv, LoopInv, FirstInv, OffInv, SavedAreGranted, Looping
  <2>5. QED
    BY <2>2, <2>3, <2>4, PartsAfterStep
<1>6. QED
  BY <1>3, <1>4, <1>5

\* The ethernet is started again: a request with another id.
LEMMA RestartStep ==
  ASSUME IInv, Restart PROVE IInv'
<1>1. /\ phase' = "rx" /\ net_state' = "CONTINUE"
      /\ UNCHANGED <<retrycnt, macreceived, env, saved, network, netretry, mishaps>>
  BY DEF Restart
<1>2. /\ time_handler' = TRUE /\ udp_handler' = TRUE
      /\ AutoMacTimeoutCount' = 0
      /\ AutoMacState' = "BROADCASTIG_WAIT"
      /\ transactionId' \in SUBSET Id /\ Cardinality(transactionId') <= 1
      /\ env.ethaddr \notin transactionId'
      /\ asked' \in SUBSET Id /\ answers' \in SUBSET Id
  BY StartFacts DEF IInv, TypeOK, Restart
<1>3. StaticsOK'
  BY <1>1, <1>2, AutoMacAssumption DEF IInv, TypeOK, StaticsOK
<1>4. RestOK'
  BY <1>1, <1>2, InvParts DEF RestOK
<1>5. ProtocolInv'
  BY <1>1, <1>2, AutoMacAssumption DEF IInv, ProtocolInv, TimerInv, LoopInv, FirstInv, OffInv, SavedAreGranted, Looping
<1>6. QED
  BY <1>3, <1>4, <1>5, PartsAfterStep

\* A power cut leaves flash alone and clears the statics.
LEMMA PowerCutStep ==
  ASSUME IInv, PowerCut PROVE IInv'
<1>1. Cardinality({}) = 0
  BY FS_EmptySet
<1>2. StaticsOK'
  BY <1>1, AutoMacAssumption DEF PowerCut, StaticsOK
<1>3. RestOK'
  <2>1. mishaps' \in 0 .. MaxMishaps
    BY AutoMacAssumption DEF PowerCut, Mishap, IInv, TypeOK
  <2>2. time_handler' \in BOOLEAN /\ udp_handler' \in BOOLEAN
    BY DEF PowerCut, NoHandlers
  <2>3. QED
    BY <2>1, <2>2, InvParts DEF PowerCut, RestOK, wire
<1>4. ProtocolInv'
  BY AutoMacAssumption
     DEF IInv, PowerCut, NoHandlers, ProtocolInv, TimerInv, LoopInv, FirstInv, OffInv, SavedAreGranted, Looping
<1>5. QED
  BY <1>2, <1>3, <1>4, PartsAfterStep

\* Every step keeps the invariant.
LEMMA NextInv == IInv /\ [Next]_vars => IInv'
<1> SUFFICES ASSUME IInv, [Next]_vars PROVE IInv'
  OBVIOUS
<1> USE InvParts
<1>1. CASE PowerOn
  <2>1. StaticsOK'
    BY <1>1 DEF PowerOn, StaticsOK, statics
  <2>2. RestOK'
    BY <1>1 DEF PowerOn, RestOK, handlers, wire
  <2>3. ProtocolInv'
    BY <1>1 DEF PowerOn, ProtocolInv, TimerInv, LoopInv, FirstInv, OffInv, SavedAreGranted, Looping, statics, handlers
  <2>4. QED
    BY <2>1, <2>2, <2>3, PartsAfterStep
<1>2. CASE net_loop
  BY <1>2, NetLoopStep
<1>3. CASE NoEthernet
  <2>1. StaticsOK'
    BY <1>3, AutoMacAssumption DEF NoEthernet, ClearCount, StaticsOK
  <2>2. RestOK'
    <3>1. mishaps' \in 0 .. MaxMishaps
      BY <1>3, AutoMacAssumption DEF NoEthernet, Mishap, RestOK
    <3>2. env' \in Addresses
      BY <1>3 DEF NoEthernet, RestOK, Addresses, Addr
    <3>3. QED
      BY <1>3, <3>1, <3>2 DEF NoEthernet, RestOK, handlers, wire
  <2>3. ProtocolInv'
    BY <1>3 DEF NoEthernet, ClearCount, ProtocolInv, TimerInv, LoopInv, FirstInv, OffInv, SavedAreGranted, Looping, handlers
  <2>4. QED
    BY <2>1, <2>2, <2>3, PartsAfterStep
<1>4. ASSUME NEW id \in Id, Receive(id) PROVE IInv'
  BY <1>4, ReceiveStep
<1>5. CASE NoMorePackets \/ NotDue \/ Continue
  <2>1. StaticsOK'
    BY <1>5 DEF NoMorePackets, NotDue, Continue, StaticsOK, statics
  <2>2. RestOK'
    BY <1>5 DEF NoMorePackets, NotDue, Continue, RestOK, handlers, wire
  <2>3. ProtocolInv'
    BY <1>5 DEF NoMorePackets, NotDue, Continue, ProtocolInv, TimerInv, LoopInv, FirstInv, OffInv,
                SavedAreGranted, Looping, statics, handlers
  <2>4. QED
    BY <2>1, <2>2, <2>3, PartsAfterStep
<1>6. CASE CtrlC \/ Fail \/ Success
  <2>1. StaticsOK'
    BY <1>6 DEF CtrlC, Fail, Success, StaticsOK, statics
  <2>2. RestOK'
    <3>1. mishaps' \in 0 .. MaxMishaps
      BY <1>6, AutoMacAssumption DEF CtrlC, Fail, Success, Mishap, RestOK
    <3>2. time_handler' \in BOOLEAN /\ udp_handler' \in BOOLEAN
      BY <1>6 DEF CtrlC, Fail, Success, NoHandlers
    <3>3. QED
      BY <1>6, <3>1, <3>2 DEF CtrlC, Fail, Success, RestOK, wire
  <2>3. ProtocolInv'
    BY <1>6 DEF CtrlC, Fail, Success, NoHandlers, ProtocolInv, TimerInv, LoopInv, FirstInv, OffInv,
                SavedAreGranted, Looping, statics
  <2>4. QED
    BY <2>1, <2>2, <2>3, PartsAfterStep
<1>7. CASE AutoMacTimeout
  BY <1>7, TimeoutStep
<1>8. CASE Restart
  BY <1>8, RestartStep
<1>9. ASSUME NEW id \in Id, ServerGrants(id) \/ Lose(id) PROVE IInv'
  <2>1. asked' \in SUBSET Id /\ answers' \in SUBSET Id
    BY <1>9 DEF ServerGrants, Lose, RestOK
  <2>2. StaticsOK'
    BY <1>9 DEF ServerGrants, Lose, StaticsOK, statics
  <2>3. RestOK'
    BY <1>9, <2>1 DEF ServerGrants, Lose, RestOK, handlers
  <2>4. ProtocolInv'
    BY <1>9 DEF ServerGrants, Lose, ProtocolInv, TimerInv, LoopInv, FirstInv, OffInv, SavedAreGranted, Looping,
                statics, handlers
  <2>5. QED
    BY <2>2, <2>3, <2>4, PartsAfterStep
<1>10. CASE PowerCut
  BY <1>10, PowerCutStep
<1>11. CASE UNCHANGED vars
  <2>1. StaticsOK'
    BY <1>11 DEF vars, StaticsOK, statics
  <2>2. RestOK'
    BY <1>11 DEF vars, RestOK, handlers, wire
  <2>3. ProtocolInv'
    BY <1>11 DEF vars, ProtocolInv, TimerInv, LoopInv, FirstInv, OffInv, SavedAreGranted, Looping, statics, handlers
  <2>4. QED
    BY <2>1, <2>2, <2>3, PartsAfterStep
<1>12. QED
  BY <1>1, <1>2, <1>3, <1>4, <1>5, <1>6, <1>7, <1>8, <1>9, <1>10, <1>11 DEF Next

-----------------------------------------------------------------------------

\* The invariant holds of every behaviour.
LEMMA Invariance == Spec => []IInv
BY InitInv, NextInv, PTL DEF Spec

\* The counters of automac.c stay within the limits the code tests, and a
\* board has at most one transaction at a time.
THEOREM TypeCorrect == Spec => []TypeOK
BY Invariance, PTL DEF IInv

\* Whatever is lost, repeated or late, and whenever ctrl-C or a power cut
\* comes: update_mac and env_save leave either nothing or a complete set of
\* different addresses from the server in flash.
THEOREM OnlyGrantedAreSaved == Spec => []SavedAreGranted
BY Invariance, PTL DEF IInv

\* AutoMacTimeout and net_start_again never leave a loader waiting without a
\* timer before the last retry.
THEOREM NeverWaitsUntimed == Spec => []AsksUntilGivenUp
<1>1. IInv => AsksUntilGivenUp
  BY DEF IInv, LoopInv, Looping, AsksUntilGivenUp
<1>2. QED
  BY <1>1, Invariance, PTL

-----------------------------------------------------------------------------
(* AutoMac implements MacGrant.                                            *)

\* What MacGrant sees of the boot loader's place.
Seen(p) == CASE p = "off" -> "off" [] p = "done" -> "done" [] OTHER -> "asking"

\* MacGrant's place is a function of the loader's.
LEMMA SeenFacts ==
  /\ Seen("off") = "off" /\ Seen("done") = "done"
  /\ \A p \in {"call", "rx", "timer", "test"} : Seen(p) = "asking"
BY DEF Seen

\* The loop only ends with success when something has been saved.
SuccessInv == net_state = "SUCCESS" => saved # NoAddr

\* Under the invariant, to hold something, to be complete and to satisfy the
\* test of do_automac are the same for the addresses in flash.
LEMMA SavedFacts ==
  ASSUME saved \in Addresses, SavedAreGranted
  PROVE  /\ saved \in Complete <=> saved # NoAddr
         /\ HasAddresses <=> saved # NoAddr
<1>1. CASE saved = NoAddr
  BY <1>1, AutoMacAssumption DEF NoAddr, Complete, HasAddresses
<1>2. CASE saved # NoAddr
  <2>1. saved.ethaddr \in Id /\ (required_macaddr = 2 => saved.eth1addr \in Id /\ saved.eth1addr # saved.ethaddr)
    BY <1>2 DEF SavedAreGranted
  <2>2. saved \in Complete
    BY <2>1 DEF Complete, Addresses
  <2>3. HasAddresses
    BY <2>1, AutoMacAssumption DEF HasAddresses
  <2>4. QED
    BY <1>2, <2>2, <2>3
<1>3. QED
  BY <1>1, <1>2

\* The same of the state after a step.
LEMMA SavedFactsAfterStep ==
  ASSUME IInv', saved' # NoAddr PROVE saved' \in Complete
<1>1. saved' \in Addresses /\ SavedAreGranted'
  BY DEF IInv, TypeOK, Addresses
<1>2. saved'.ethaddr \in Id /\ (required_macaddr = 2 => saved'.eth1addr \in Id /\ saved'.eth1addr # saved'.ethaddr)
  BY <1>1 DEF SavedAreGranted
<1>3. QED
  BY <1>1, <1>2 DEF Complete, Addresses

\* The handler saves addresses, one of them new, or none.
LEMMA GrantSaves ==
  ASSUME IInv, NEW id \in Id, Grant(id)
  PROVE  /\ saved' = saved \/ saved' # NoAddr
         /\ net_state' = "SUCCESS" => saved' # NoAddr
<1> DEFINE n == IF macreceived > required_macaddr THEN macreceived ELSE macreceived + 1
<1>1. n \in Nat
  BY AutoMacAssumption DEF IInv, TypeOK
<1>2. update_mac(id, n) # NoAddr
  <2>1. update_mac(id, n).ethaddr = id \/ update_mac(id, n).eth1addr = id
    BY <1>1, UpdateFacts DEF IInv, TypeOK, Addresses
  <2>2. QED
    BY <2>1, AutoMacAssumption DEF NoAddr
<1>3. QED
  BY <1>2 DEF Grant

\* A step saves a complete set inside the loop, or nothing.
LEMMA SuccessStep ==
  ASSUME IInv, SuccessInv, [Next]_vars PROVE SuccessInv'
<1>1. ASSUME NEW id \in Id, Receive(id) PROVE SuccessInv'
  BY <1>1, GrantSaves DEF Receive, SuccessInv
<1>2. CASE AutoMacTimeout
  BY <1>2 DEF AutoMacTimeout, RetryCountExceeded, Retry, net_start_again, SuccessInv
<1>3. QED
  BY <1>1, <1>2
     DEF Next, vars, SuccessInv, PowerOn, net_loop, NoEthernet, NoMorePackets, CtrlC, NotDue,
         Continue, Restart, Fail, Success, ServerGrants, Lose, PowerCut

\* do_automac ends only with a complete set of addresses in flash and saves
\* nothing else, through all time-outs, restarts of the ethernet, late and
\* repeated answers, ctrl-C and power cuts.
THEOREM KeepsPromise == Spec => KeepsMacPromise
<1>1. Init => Grants!Init /\ SuccessInv
  BY DEF Init, Grants!Init, SuccessInv
<1>2. IInv /\ SuccessInv /\ [Next]_vars /\ IInv' => [Grants!Next]_Grants!vars
  <2> SUFFICES ASSUME IInv, SuccessInv, [Next]_vars, IInv' PROVE Grants!Next \/ UNCHANGED Grants!vars
    OBVIOUS
  <2>1. /\ saved \in Complete <=> saved # NoAddr
        /\ HasAddresses <=> saved # NoAddr
    BY SavedFacts DEF IInv, TypeOK, Addresses
  <2>2. CASE UNCHANGED <<Seen(phase), saved>>
    BY <2>2 DEF Grants!vars, Seen
  <2>3. CASE PowerOn
    <3>1. phase = "off" /\ phase' = (IF saved \in Complete THEN "done" ELSE "call") /\ saved' = saved
      BY <2>1, <2>3 DEF PowerOn
    <3>2. QED
      BY <3>1 DEF Grants!Next, Grants!PowerOn
  <2>4. ASSUME NEW id \in Id, Receive(id) PROVE Grants!Next \/ UNCHANGED Grants!vars
    <3>1. phase = "rx" /\ phase' = phase
      BY <2>4 DEF Receive
    <3>2. saved' = saved \/ saved' # NoAddr
      BY <2>4, GrantSaves DEF Receive
    <3>3. CASE saved' = saved
      BY <2>2, <3>1, <3>3
    <3>4. CASE saved' # NoAddr
      <4>1. saved' \in Complete
        BY <3>4, SavedFactsAfterStep
      <4>2. QED
        BY <3>1, <4>1 DEF Grants!Next, Grants!Grant
    <3>5. QED
      BY <3>2, <3>3, <3>4
  <2>5. CASE Success
    <3>1. phase = "test" /\ phase' = "done" /\ saved' = saved /\ saved \in Complete
      BY <2>1, <2>5 DEF Success, SuccessInv
    <3>2. QED
      BY <3>1 DEF Grants!Next, Grants!Finish
  <2>6. CASE PowerCut
    <3>1. phase # "off" /\ phase' = "off" /\ saved' = saved
      BY <2>6 DEF PowerCut
    <3>2. QED
      BY <3>1 DEF Grants!Next, Grants!PowerCut
  <2>7. CASE \/ net_loop \/ NoEthernet \/ NoMorePackets \/ CtrlC \/ AutoMacTimeout \/ NotDue
             \/ Continue \/ Restart \/ Fail
    <3>1. phase \in {"call", "rx", "timer", "test"} /\ phase' \in {"call", "rx", "timer", "test"}
          /\ saved' = saved
      BY <2>7 DEF net_loop, NoEthernet, NoMorePackets, CtrlC, AutoMacTimeout, NotDue, Continue, Restart, Fail
    <3>2. Seen(phase) = "asking" /\ Seen(phase)' = "asking"
      BY <3>1, SeenFacts
    <3>3. QED
      BY <2>2, <3>1, <3>2
  <2>8. CASE \/ UNCHANGED vars
             \/ \E id \in Id : ServerGrants(id) \/ Lose(id)
    <3>1. phase' = phase /\ saved' = saved
      BY <2>8 DEF vars, ServerGrants, Lose
    <3>2. QED
      BY <2>2, <3>1
  <2>9. QED
    BY <2>3, <2>4, <2>5, <2>6, <2>7, <2>8 DEF Next
<1>3. IInv /\ SuccessInv /\ [Next]_vars => SuccessInv'
  BY SuccessStep
<1>4. QED
  BY <1>1, <1>2, <1>3, Invariance, PTL DEF Spec, KeepsMacPromise, Grants!Spec

=============================================================================
