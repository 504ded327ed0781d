------------------------------- MODULE AutoMac -------------------------------
(***************************************************************************)
(* The boot loader's "automac" command: a board without MAC addresses      *)
(* broadcasts requests until a server in the factory has granted as many   *)
(* as it has ethernet ports, and saves them in the environment.            *)
(*                                                                         *)
(* The code is single threaded.  do_automac calls net_loop until it        *)
(* succeeds; net_loop turns in rounds of receiving packets, testing for    *)
(* ctrl-C, running a timer function that is due and testing net_state.     *)
(* The network loses, delays and repeats packets, the user types ctrl-C,   *)
(* the power fails.                                                        *)
(*                                                                         *)
(* A transaction id stands for itself and for the address granted in its   *)
(* transaction.  Ids are random 16-bit numbers in the code; here a new id  *)
(* differs from the last one and from those of the addresses in RAM.       *)
(* Packets of the transaction before the last one are forgotten: the       *)
(* handler would ignore them as it ignores those of the last one.          *)
(***************************************************************************)
EXTENDS Naturals, FiniteSets

CONSTANTS
  Id,                   \* transaction ids, and the addresses granted under them
  required_macaddr,     \* 2 on the NVRX_1602 card, otherwise 1
  TIMEOUT_COUNT,        \* time-outs before the ethernet is started again
  AUTOMAC_RETRY_COUNT,  \* starts of the ethernet before giving up
  MaxMishaps            \* bound on ctrl-C, power cuts and ethernet that does not start

Unset == "unset"
Random == "random"      \* the address setenvironment makes up

ASSUME AutoMacAssumption ==
  /\ IsFiniteSet(Id) /\ Cardinality(Id) > 3
  /\ {Unset, Random} \intersect Id = {}
  /\ required_macaddr \in {1, 2}
  /\ TIMEOUT_COUNT \in Nat
  /\ AUTOMAC_RETRY_COUNT \in Nat
  /\ MaxMishaps \in Nat

VARIABLES
  phase,               \* where the boot loader is
  net_state,
  AutoMacState,
  AutoMacTimeoutCount,
  retrycnt,
  transactionId,       \* a set, empty before the first request
  macreceived,
  time_handler,        \* TRUE: AutoMacTimeout is due some time
  udp_handler,         \* TRUE: AutoMacHandler gets the packets
  env,                 \* [ethaddr, eth1addr] in RAM
  saved,               \* the same in flash
  asked,               \* requests under way to the server or being served by it
  answers,             \* ACCEPT packets under way to the board
  network,             \* what this network does with packets
  netretry,            \* TRUE: net_start_again may start the ethernet again
  mishaps

statics == <<AutoMacState, AutoMacTimeoutCount, retrycnt, transactionId, macreceived>>
handlers == <<time_handler, udp_handler>>
wire == <<asked, answers>>
vars == <<phase, net_state, statics, handlers, env, saved, wire, network, netretry, mishaps>>

Addr == Id \union {Unset, Random}
NoAddr == [ethaddr |-> Unset, eth1addr |-> Unset]

TypeOK ==
  /\ phase \in {"off", "call", "rx", "timer", "test", "done"}
  /\ net_state \in {"CONTINUE", "RESTART", "SUCCESS", "FAIL"}
  /\ AutoMacState \in {"NONE", "BROADCASTIG_WAIT", "GRANTED_MAC"}
  /\ AutoMacTimeoutCount \in 0 .. TIMEOUT_COUNT + 1
  /\ retrycnt \in 0 .. AUTOMAC_RETRY_COUNT + 1
  /\ transactionId \in SUBSET Id /\ Cardinality(transactionId) <= 1
  /\ macreceived \in 0 .. required_macaddr + 1
  /\ time_handler \in BOOLEAN
  /\ udp_handler \in BOOLEAN
  /\ env \in [{"ethaddr", "eth1addr"} -> Addr]
  /\ saved \in [{"ethaddr", "eth1addr"} -> Addr]
  /\ asked \in SUBSET Id
  /\ answers \in SUBSET Id
  /\ network \in {"reliable", "unreliable"}
  /\ netretry \in BOOLEAN
  /\ mishaps \in 0 .. MaxMishaps

Init ==
  /\ phase = "off"
  /\ net_state = "CONTINUE"
  /\ AutoMacState = "NONE"
  /\ AutoMacTimeoutCount = 0
  /\ retrycnt = 0
  /\ transactionId = {}
  /\ macreceived = 0
  /\ time_handler = FALSE
  /\ udp_handler = FALSE
  /\ env = NoAddr
  /\ saved = NoAddr
  /\ asked = {}
  /\ answers = {}
  /\ network \in {"reliable", "unreliable"}
  /\ netretry \in BOOLEAN
  /\ mishaps = 0

-----------------------------------------------------------------------------
(* The parts of automac.c and net.c that several actions share.            *)

\* AutoMacSend while broadcasting, with the addresses n now in the environment
\* and the answers in wired still under way.
Broadcast(n, wired) ==
  \E id \in Id \ (transactionId \union {n.ethaddr, n.eth1addr}) :
    /\ transactionId' = {id}
    /\ asked' = (asked \intersect transactionId) \union {id}
    /\ answers' = wired \intersect transactionId
    /\ AutoMacState' = "BROADCASTIG_WAIT"

automac_start(n, wired) ==
  /\ time_handler' = TRUE
  /\ udp_handler' = TRUE
  /\ AutoMacTimeoutCount' = 0
  /\ Broadcast(n, wired)

\* net_cleanup_loop
NoHandlers ==
  /\ time_handler' = FALSE
  /\ udp_handler' = FALSE

\* Bug: the addresses received in an earlier net_loop still count.
KeepCount == macreceived' = macreceived

\* automac_init, without the environment: the count of addresses starts again.
ClearCount == macreceived' = 0

\* Bug: every address goes to the first port.
UpdateFirst(mac, ethnum) == [env EXCEPT !.ethaddr = mac]

update_mac(mac, ethnum) ==
  IF ethnum = 1 THEN [env EXCEPT !.ethaddr = mac] ELSE [env EXCEPT !.eth1addr = mac]

Mishap == mishaps < MaxMishaps /\ mishaps' = mishaps + 1

-----------------------------------------------------------------------------
(* do_automac.                                                             *)

HasAddresses == saved.ethaddr # Unset /\ (required_macaddr = 2 => saved.eth1addr # Unset)

\* The environment is loaded from flash; do_automac looks for addresses.
PowerOn ==
  /\ phase = "off"
  /\ env' = saved
  /\ phase' = IF HasAddresses THEN "done" ELSE "call"
  /\ UNCHANGED <<net_state, statics, handlers, saved, wire, network, netretry, mishaps>>

\* net_loop: automac_init, then the ethernet, then automac_start.
net_loop ==
  /\ phase = "call"
  /\ ClearCount
  /\ env' = [env EXCEPT !.ethaddr = Random]
  /\ net_state' = "CONTINUE"
  /\ automac_start(env', answers)
  /\ phase' = "rx"
  /\ UNCHANGED <<retrycnt, saved, network, netretry, mishaps>>

\* eth_init fails and net_loop returns with its error; do_automac calls again.
NoEthernet ==
  /\ phase = "call"
  /\ Mishap
  /\ ClearCount
  /\ env' = [env EXCEPT !.ethaddr = Random]
  /\ UNCHANGED <<phase, net_state, AutoMacState, AutoMacTimeoutCount, retrycnt, transactionId,
                 handlers, saved, wire, network, netretry>>

-----------------------------------------------------------------------------
(* A round of net_loop.                                                    *)

\* An unreliable network may deliver a packet again.
Without(id) == IF network = "reliable" THEN answers \ {id} ELSE answers

\* AutoMacHandler.  While no request is waiting only packets from the server's
\* own port count.  The count of addresses is not bounded in the code; from
\* required_macaddr + 1 on it makes no difference.
Grant(id) ==
  LET n == IF macreceived > required_macaddr THEN macreceived ELSE macreceived + 1 IN
  /\ macreceived' = n
  /\ env' = update_mac(id, n)
  /\ IF n = required_macaddr
     THEN /\ saved' = env'
          /\ AutoMacState' = "GRANTED_MAC"
          /\ net_state' = "SUCCESS"
          /\ answers' = Without(id)
          /\ UNCHANGED <<AutoMacTimeoutCount, transactionId, handlers, asked>>
     ELSE /\ net_state' = "CONTINUE"
          /\ automac_start(env', Without(id))
          /\ UNCHANGED saved

Receive(id) ==
  /\ phase = "rx"
  /\ id \in answers
  /\ \/ /\ udp_handler
        /\ id \in transactionId
        /\ Grant(id)
     \/ /\ ~udp_handler \/ id \notin transactionId \/ AutoMacState # "BROADCASTIG_WAIT"
        /\ answers' = Without(id)
        /\ UNCHANGED <<net_state, AutoMacState, AutoMacTimeoutCount, transactionId, macreceived,
                       handlers, env, saved, asked>>
  /\ UNCHANGED <<phase, retrycnt, network, netretry, mishaps>>

\* eth_rx finds no more packets.
NoMorePackets ==
  /\ phase = "rx"
  /\ phase' = "timer"
  /\ UNCHANGED <<net_state, statics, handlers, env, saved, wire, network, netretry, mishaps>>

\* net_loop returns -EINTR, which do_automac takes for a failure.
CtrlC ==
  /\ phase = "timer"
  /\ Mishap
  /\ NoHandlers
  /\ phase' = "call"
  /\ UNCHANGED <<net_state, statics, env, saved, wire, network, netretry>>

\* Bug: a request that is sent again does not start the timer again.
RetryUnarmed ==
  /\ time_handler' = FALSE
  /\ Broadcast(env, answers)
  /\ UNCHANGED <<net_state, retrycnt>>

Retry ==
  /\ time_handler' = TRUE
  /\ Broadcast(env, answers)
  /\ UNCHANGED <<net_state, retrycnt>>

\* Bug: a loader that has given up reports success.
GivesUpGladly == net_state' = IF netretry THEN "RESTART" ELSE "SUCCESS"

\* The variable "netretry" is not set on these boards, which means for ever.
net_start_again == net_state' = IF netretry THEN "RESTART" ELSE "FAIL"

\* Bug: the starts of the ethernet are counted but not limited.
NeverGivesUp ==
  /\ time_handler' = FALSE
  /\ retrycnt' = retrycnt + 1
  /\ net_start_again
  /\ UNCHANGED <<AutoMacState, transactionId, wire>>

\* Too many time-outs: the ethernet is started again, or the timer is just
\* not started again.
RetryCountExceeded ==
  /\ time_handler' = FALSE
  /\ IF retrycnt > AUTOMAC_RETRY_COUNT
     THEN UNCHANGED <<net_state, retrycnt>>
     ELSE retrycnt' = retrycnt + 1 /\ net_start_again
  /\ UNCHANGED <<AutoMacState, transactionId, wire>>

AutoMacTimeout ==
  /\ phase = "timer"
  /\ time_handler
  /\ IF AutoMacState = "BROADCASTIG_WAIT"
     THEN /\ AutoMacTimeoutCount' = AutoMacTimeoutCount + 1
          /\ IF AutoMacTimeoutCount' > TIMEOUT_COUNT THEN RetryCountExceeded ELSE Retry
     ELSE /\ time_handler' = FALSE
          /\ UNCHANGED <<net_state, AutoMacState, AutoMacTimeoutCount, retrycnt, transactionId, wire>>
  /\ phase' = "test"
  /\ UNCHANGED <<macreceived, udp_handler, env, saved, network, netretry, mishaps>>

NotDue ==
  /\ phase = "timer"
  /\ phase' = "test"
  /\ UNCHANGED <<net_state, statics, handlers, env, saved, wire, network, netretry, mishaps>>

\* The switch on net_state at the end of a round.
Continue ==
  /\ phase = "test"
  /\ net_state = "CONTINUE"
  /\ phase' = "rx"
  /\ UNCHANGED <<net_state, statics, handlers, env, saved, wire, network, netretry, mishaps>>

Restart ==
  /\ phase = "test"
  /\ net_state = "RESTART"
  /\ net_state' = "CONTINUE"
  /\ automac_start(env, answers)
  /\ phase' = "rx"
  /\ UNCHANGED <<retrycnt, macreceived, env, saved, network, netretry, mishaps>>

\* net_start_again is called once more, and fails once more.
Fail ==
  /\ phase = "test"
  /\ net_state = "FAIL"
  /\ NoHandlers
  /\ phase' = "call"
  /\ UNCHANGED <<net_state, statics, env, saved, wire, network, netretry, mishaps>>

Success ==
  /\ phase = "test"
  /\ net_state = "SUCCESS"
  /\ NoHandlers
  /\ phase' = "done"
  /\ UNCHANGED <<net_state, statics, env, saved, wire, network, netretry, mishaps>>

-----------------------------------------------------------------------------
(* The server, the network and the power.                                  *)

ServerGrants(id) ==
  /\ id \in asked
  /\ asked' = asked \ {id}
  /\ answers' = answers \union {id}
  /\ UNCHANGED <<phase, net_state, statics, handlers, env, saved, network, netretry, mishaps>>

Lose(id) ==
  /\ network = "unreliable"
  /\ id \in asked \union answers
  /\ asked' = asked \ {id}
  /\ answers' = answers \ {id}
  /\ UNCHANGED <<phase, net_state, statics, handlers, env, saved, network, netretry, mishaps>>

PowerCut ==
  /\ phase # "off"
  /\ Mishap
  /\ phase' = "off"
  /\ net_state' = "CONTINUE"
  /\ AutoMacState' = "NONE"
  /\ AutoMacTimeoutCount' = 0
  /\ retrycnt' = 0
  /\ transactionId' = {}
  /\ macreceived' = 0
  /\ NoHandlers
  /\ UNCHANGED <<env, saved, wire, network, netretry>>

Next ==
  \/ PowerOn
  \/ net_loop
  \/ NoEthernet
  \/ \E id \in Id : Receive(id)
  \/ NoMorePackets
  \/ CtrlC
  \/ AutoMacTimeout
  \/ NotDue
  \/ Continue
  \/ Restart
  \/ Fail
  \/ Success
  \/ \E id \in Id : ServerGrants(id)
  \/ \E id \in Id : Lose(id)
  \/ PowerCut

Spec == Init /\ [][Next]_vars

\* The loader runs; every time-out expires at last.
LoaderFairness ==
  /\ WF_vars(PowerOn)
  /\ WF_vars(net_loop)
  /\ WF_vars(NoMorePackets)
  /\ WF_vars(NotDue \/ AutoMacTimeout)
  /\ SF_vars(AutoMacTimeout)
  /\ WF_vars(Continue \/ Restart \/ Fail \/ Success)

\* The server answers, and an answer that stays under way is received.
ServerFairness == \A id \in Id : WF_vars(ServerGrants(id)) /\ SF_vars(Receive(id))

FairSpec == Spec /\ LoaderFairness /\ ServerFairness

-----------------------------------------------------------------------------

\* Whatever the network, the user and the power do, what is in flash is either
\* untouched or complete: every port has an address that the server granted,
\* no two the same, and never the made-up one.
SavedAreGranted ==
  saved # NoAddr =>
    /\ saved.ethaddr \in Id
    /\ required_macaddr = 2 => saved.eth1addr \in Id /\ saved.eth1addr # saved.ethaddr

\* To the commands after it, automac is MacGrant: it does not end before flash
\* holds a complete set of addresses and saves nothing else, however often it
\* is interrupted and started again.
Complete ==
  {a \in [{"ethaddr", "eth1addr"} -> Addr] :
     /\ a.ethaddr \in Id
     /\ required_macaddr = 2 => a.eth1addr \in Id /\ a.eth1addr # a.ethaddr}
Grants == INSTANCE MacGrant WITH
  phase <- CASE phase = "off" -> "off" [] phase = "done" -> "done" [] OTHER -> "asking"
KeepsMacPromise == Grants!Spec

\* While the loader waits for an answer, it will ask again, unless it has
\* started the ethernet as often as it may.
AsksUntilGivenUp ==
  phase = "rx" /\ net_state = "CONTINUE" /\ ~time_handler => retrycnt > AUTOMAC_RETRY_COUNT

\* With a server that answers and a network that does not lose packets, the
\* board has its addresses in the end, however late the answers are and also
\* after the last retry.
GetsAddresses == network = "reliable" => <>(phase = "done" /\ HasAddresses)

=============================================================================
