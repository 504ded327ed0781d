------------------------------ MODULE MacGrant ------------------------------
(***************************************************************************)
(* What the boot loader's "automac" command promises to the commands that  *)
(* run after it and to Linux: it does not end before the environment in    *)
(* flash holds a complete set of addresses, and until then it writes       *)
(* nothing there.  AutoMac implements it, with the requests, time-outs and *)
(* restarts that this takes; UsbUpgrade builds on it.                      *)
(***************************************************************************)
CONSTANTS
  NoAddr,    \* no address is set
  Complete   \* sets of addresses that the server granted, one for every port

VARIABLES
  phase,     \* "off", "asking", "done"
  saved      \* the addresses in flash

vars == <<phase, saved>>

Init == phase = "off" /\ saved = NoAddr

PowerOn ==
  /\ phase = "off"
  /\ phase' = IF saved \in Complete THEN "done" ELSE "asking"
  /\ UNCHANGED saved

Grant ==
  /\ phase = "asking"
  /\ saved' \in Complete
  /\ UNCHANGED phase

Finish ==
  /\ phase = "asking" /\ saved \in Complete
  /\ phase' = "done"
  /\ UNCHANGED saved

PowerCut ==
  /\ phase # "off"
  /\ phase' = "off"
  /\ UNCHANGED saved

Next == PowerOn \/ Grant \/ Finish \/ PowerCut

Spec == Init /\ [][Next]_vars

=============================================================================
