----------------------------- MODULE UsbUpgrade -----------------------------
(***************************************************************************)
(* What the boot loader runs before it boots: "automac; usbupgrade".  The  *)
(* second command looks for a USB stick with an upgrade package whose      *)
(* signature differs from the one in the environment, and runs the script  *)
(* of the package, which programs four partitions one after the other,     *)
(* saves the environment and resets the board.                             *)
(*                                                                         *)
(* automac is taken as MacGrant promises it.  The script is the one that   *)
(* the Makefile of the production release writes; its shell skips the rest *)
(* of a line after a command that ends before "||" without error, and      *)
(* rockchip_show_bmp never ends with one: a line                           *)
(*   fatload ... || rockchip_show_bmp ... && exit                          *)
(* ends the script when the load fails.  Nothing looks at the results of   *)
(* mmc and saveenv.  usb_upgrade_F is set and never read.                  *)
(*                                                                         *)
(* Any step but those of the user may be the last before a power cut.      *)
(* Someone may type "usbupgrade" at the console; "saveenv" and the         *)
(* like, which would record whatever has happened so far, are left out.    *)
(***************************************************************************)
EXTENDS Naturals, Sequences

CONSTANTS
  Version,    \* packages; a package is known by its signature
  Factory,    \* what the board is delivered with
  Mac,        \* the addresses that automac gets
  None,
  MaxFaults   \* bound on failures and power cuts

ASSUME UsbUpgradeAssumption ==
  /\ None \notin Version \union {Factory, Mac}
  /\ Factory \notin Version
  /\ "erased" \notin Version \union {Factory} /\ "damaged" \notin Version \union {Factory}
  /\ MaxFaults \in Nat

VARIABLES
  pc,        \* the command or the step of it that is next
  part,      \* the number of the partition in work
  env,       \* the environment in RAM: [mac, signature]
  saved,     \* the environment in flash
  flash,     \* what the partitions hold
  stick,     \* the package on the stick, or None
  faults

vars == <<pc, part, env, saved, flash, stick, faults>>

Parts == <<"uboot", "resource", "kernel", "rootfs">>
Part == {Parts[i] : i \in DOMAIN Parts}

Environment == [mac : {Mac, None}, signature : Version \union {None}]

\* Half programmed partitions: erased, or written with an error.
TypeOK ==
  /\ pc \in {"off", "automac", "usb", "image", "load", "erase", "write", "save", "reset", "boot"}
  /\ part \in DOMAIN Parts
  /\ env \in Environment /\ saved \in Environment
  /\ flash \in [Part -> Version \union {Factory, "erased", "damaged"}]
  /\ stick \in Version \union {None}
  /\ faults \in 0 .. MaxFaults

Init ==
  /\ pc = "off" /\ part = 1
  /\ saved = [mac |-> None, signature |-> None]
  /\ env = saved
  /\ flash = [p \in Part |-> Factory]
  /\ stick = None
  /\ faults = 0

Fault == faults < MaxFaults /\ faults' = faults + 1

Goto(from, to) == pc = from /\ pc' = to

-----------------------------------------------------------------------------
(* Power, automac, and the end of the commands.                            *)

\* Without its own partition the boot loader does not start.
Bootable == flash.uboot \in Version \union {Factory}

\* Bug: the boot loader starts with its default environment.
DefaultEnvironment == env' = [mac |-> None, signature |-> None]

LoadEnvironment == env' = saved

PowerOn ==
  /\ pc = "off" /\ Bootable
  /\ pc' = IF saved.mac = None THEN "automac" ELSE "usb"
  /\ LoadEnvironment
  /\ UNCHANGED <<part, saved, flash, stick, faults>>

\* automac saves the environment as it is.
AutoMacGrant ==
  /\ pc = "automac" /\ saved.mac = None
  /\ env' = [env EXCEPT !.mac = Mac]
  /\ saved' = env'
  /\ UNCHANGED <<pc, part, flash, stick, faults>>

AutoMacEnd ==
  /\ Goto("automac", "usb") /\ saved.mac # None
  /\ UNCHANGED <<part, env, saved, flash, stick, faults>>

PowerCut ==
  /\ pc # "off"
  /\ pc' = "off"
  /\ part' = 1
  /\ IF pc = "boot" THEN UNCHANGED faults ELSE Fault
  /\ UNCHANGED <<env, saved, flash, stick>>

-----------------------------------------------------------------------------
(* do_usbupgrade.                                                          *)

\* No stick, or it cannot be read, up to the file with the signature.
NoPackage ==
  /\ Goto("usb", "boot")
  /\ IF stick = None THEN UNCHANGED faults ELSE Fault
  /\ UNCHANGED <<part, env, saved, flash, stick>>

Skip ==
  /\ Goto("usb", "boot")
  /\ stick # None /\ env.signature = stick
  /\ UNCHANGED <<part, env, saved, flash, stick, faults>>

\* Bug: the new signature is saved at once.
SetAndSave == env' = [env EXCEPT !.signature = stick] /\ saved' = env'

SetSignature == env' = [env EXCEPT !.signature = stick] /\ UNCHANGED saved

Update ==
  /\ Goto("usb", "image")
  /\ stick # None /\ env.signature # stick
  /\ SetSignature
  /\ UNCHANGED <<part, flash, stick, faults>>

\* The script is read and, if it is whole, run.
ReadImage ==
  /\ \/ Goto("image", "load") /\ UNCHANGED faults
     \/ Goto("image", "boot") /\ Fault
  /\ UNCHANGED <<part, env, saved, flash, stick>>

-----------------------------------------------------------------------------
(* The script.                                                             *)

\* Bug: a load that fails does not end the script.
LoadRegardless ==
  \/ pc' = "erase" /\ UNCHANGED <<part, faults>>
  \/ Fault /\ IF part = Len(Parts) THEN pc' = "save" /\ part' = 1 ELSE pc' = "load" /\ part' = part + 1

LoadOrExit ==
  \/ pc' = "erase" /\ UNCHANGED <<part, faults>>
  \/ pc' = "boot" /\ part' = 1 /\ Fault

Load ==
  /\ pc = "load"
  /\ LoadOrExit
  /\ UNCHANGED <<env, saved, flash, stick>>

\* An erasure that fails makes no difference: what is written replaces it all.
Erase ==
  /\ Goto("erase", "write")
  /\ flash' = [flash EXCEPT ![Parts[part]] = "erased"]
  /\ UNCHANGED <<part, env, saved, stick, faults>>

\* Bug: the script goes on after the last partition.
AfterWriteNoEnd == pc' = "load" /\ part' = part + 1

AfterWrite ==
  IF part = Len(Parts) THEN pc' = "save" /\ part' = 1 ELSE pc' = "load" /\ part' = part + 1

Write ==
  /\ pc = "write"
  /\ \/ flash' = [flash EXCEPT ![Parts[part]] = stick] /\ UNCHANGED faults
     \/ flash' = [flash EXCEPT ![Parts[part]] = "damaged"] /\ Fault
  /\ AfterWrite
  /\ UNCHANGED <<env, saved, stick>>

SaveEnv ==
  /\ Goto("save", "reset")
  /\ \/ saved' = env /\ UNCHANGED faults
     \/ UNCHANGED saved /\ Fault
  /\ UNCHANGED <<part, env, flash, stick>>

Reset ==
  /\ Goto("reset", "off")
  /\ UNCHANGED <<part, env, saved, flash, stick, faults>>

-----------------------------------------------------------------------------
(* The user.  A stick that is pulled out during an upgrade is a failure of *)
(* the next load.                                                          *)

ChangeStick ==
  /\ pc \in {"off", "boot"}
  /\ stick' \in (Version \union {None}) \ {stick}
  /\ UNCHANGED <<pc, part, env, saved, flash, faults>>

TypeUsbUpgrade ==
  /\ Goto("boot", "usb")
  /\ UNCHANGED <<part, env, saved, flash, stick, faults>>

Upgrade == Update \/ ReadImage \/ Load \/ Erase \/ Write \/ SaveEnv \/ Reset

Next ==
  \/ PowerOn \/ AutoMacGrant \/ AutoMacEnd \/ PowerCut
  \/ NoPackage \/ Skip \/ Upgrade
  \/ ChangeStick \/ TypeUsbUpgrade

Spec == Init /\ [][Next]_vars

\* The boot loader runs; automac ends, as AutoMac shows for a network that
\* works.  The last conjunct is the user's patience.
FairSpec ==
  /\ Spec
  /\ WF_vars(PowerOn) /\ WF_vars(AutoMacGrant \/ AutoMacEnd) /\ WF_vars(NoPackage \/ Skip \/ Upgrade)
  /\ SF_vars(pc = "boot" /\ PowerCut)

-----------------------------------------------------------------------------

Installed(v) == \A p \in Part : flash[p] = v
Damaged == \E p \in Part : flash[p] = "damaged"

\* A signature gets into flash only when every partition holds its package: a
\* load that fails, a power cut or a change of the stick at any step leave the
\* board with a signature that makes the next start try again.  Of a write
\* that fails nobody takes notice.
RecordsWholeUpgrade ==
  [][saved'.signature # saved.signature =>
       \A p \in Part : flash[p] \in {saved'.signature, "damaged"}]_vars

\* Until it has its addresses the board is not upgraded, and no upgrade, with
\* the failures it may have, loses them: to the addresses in flash this is the
\* automac command alone.
Granted == INSTANCE MacGrant WITH
  NoAddr <- None, Complete <- {Mac}, saved <- saved.mac,
  phase <- CASE pc = "off" -> "off" [] pc = "automac" -> "asking" [] OTHER -> "done"
KeepsMacPromise == Granted!Spec

\* A package that is not recorded gets installed if its stick stays in, the
\* user is patient, and neither a failed write nor a power cut during the
\* programming of its own partition kills the boot loader.
UnrecordedIsInstalled ==
  \A v \in Version :
    stick = v /\ saved.signature # v ~> Installed(v) \/ stick # v \/ Damaged \/ ~Bootable

=============================================================================
