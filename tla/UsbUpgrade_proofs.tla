--------------------------- MODULE UsbUpgrade_proofs ---------------------------
(***************************************************************************)
(* UsbUpgrade for any set of packages and any number of failures: it keeps *)
(* its types, records a package only when every partition holds it, and    *)
(* leaves the addresses to automac.                                        *)
(***************************************************************************)
EXTENDS UsbUpgrade, TLAPS

Programming == {"load", "erase", "write"}

\* What the boot loader runs on is what flash holds, but for a signature that
\* the upgrade has set.
EnvInv ==
  /\ pc = "automac" => env = saved
  /\ pc # "off" => env.mac = saved.mac

\* From the comparison of the signatures to the end of the script the package
\* on the stick is the one whose signature is in the environment.
StickInv ==
  pc \in Programming \union {"image", "save"} => stick # None /\ env.signature = stick

\* The script works upwards through the partitions.
ScriptInv ==
  /\ pc \notin Programming => part = 1
  /\ pc \in Programming => \A i \in DOMAIN Parts : i < part => flash[Parts[i]] \in {stick, "damaged"}
  /\ pc = "save" => \A i \in DOMAIN Parts : flash[Parts[i]] \in {stick, "damaged"}

IInv == TypeOK /\ EnvInv /\ StickInv /\ ScriptInv

-----------------------------------------------------------------------------

\* There are four partitions, all different.
LEMMA PartsFacts ==
  /\ DOMAIN Parts = 1 .. 4 /\ Len(Parts) = 4
  /\ \A i \in 1 .. 4 : Parts[i] \in Part
  /\ \A i, j \in 1 .. 4 : Parts[i] = Parts[j] => i = j
  /\ \A p \in Part : \E i \in 1 .. 4 : p = Parts[i]
<1>1. DOMAIN Parts = 1 .. 4 /\ Len(Parts) = 4
  BY DEF Parts
<1>2. Parts[1] = "uboot" /\ Parts[2] = "resource" /\ Parts[3] = "kernel" /\ Parts[4] = "rootfs"
  BY DEF Parts
<1>3. \A i \in 1 .. 4 : i = 1 \/ i = 2 \/ i = 3 \/ i = 4
  OBVIOUS
<1>4. \A i, j \in 1 .. 4 : Parts[i] = Parts[j] => i = j
  BY <1>2, <1>3
<1>5. QED
  BY <1>1, <1>4 DEF Part


\* The board is delivered in the invariant.
LEMMA InitInv == Init => IInv
<1> SUFFICES ASSUME Init PROVE IInv
  OBVIOUS
<1>1. env \in Environment /\ saved \in Environment /\ env = saved
  BY DEF Init, Environment
<1>2. faults \in 0 .. MaxFaults /\ part \in DOMAIN Parts /\ stick \in Version \union {None}
  BY UsbUpgradeAssumption, PartsFacts DEF Init
<1>3. flash \in [Part -> Version \union {Factory, "erased", "damaged"}]
  BY DEF Init
<1>4. TypeOK
  BY <1>1, <1>2, <1>3 DEF TypeOK, Init
<1>5. EnvInv /\ StickInv /\ ScriptInv
  BY <1>1 DEF Init, EnvInv, StickInv, ScriptInv, Programming
<1>6. QED
  BY <1>4, <1>5 DEF IInv

\* An environment with another member is an environment.
LEMMA EnvFacts ==
  ASSUME env \in Environment
  PROVE  /\ [env EXCEPT !.mac = Mac] \in Environment
         /\ [env EXCEPT !.mac = Mac].mac = Mac
         /\ [env EXCEPT !.mac = Mac].signature = env.signature
         /\ \A v \in Version : /\ [env EXCEPT !.signature = v] \in Environment
                               /\ [env EXCEPT !.signature = v].mac = env.mac
                               /\ [env EXCEPT !.signature = v].signature = v
BY DEF Environment

\* What is programmed last does not change what was programmed before it.
LEMMA ProgramFacts ==
  ASSUME IInv, NEW v \in Version \union {"erased", "damaged"},
         flash' = [flash EXCEPT ![Parts[part]] = v]
  PROVE  /\ flash' \in [Part -> Version \union {Factory, "erased", "damaged"}]
         /\ flash'[Parts[part]] = v
         /\ \A i \in DOMAIN Parts : i # part => flash'[Parts[i]] = flash[Parts[i]]
<1>1. flash \in [Part -> Version \union {Factory, "erased", "damaged"}] /\ part \in 1 .. 4
  BY PartsFacts DEF IInv, TypeOK
<1>2. QED
  BY <1>1, PartsFacts

\* A partition has been programmed: the script goes on to the next one, or to
\* its end.
LEMMA WriteStep ==
  ASSUME IInv, Write PROVE IInv'
<1>1. pc = "write" /\ UNCHANGED <<env, saved, stick>> /\ AfterWrite
  BY DEF Write
<1>2. stick \in Version /\ env.signature = stick
  BY <1>1 DEF IInv, TypeOK, StickInv, Programming
<1>3. PICK v \in {stick, "damaged"} : flash' = [flash EXCEPT ![Parts[part]] = v]
  BY DEF Write
<1>4. /\ flash' \in [Part -> Version \union {Factory, "erased", "damaged"}]
      /\ flash'[Parts[part]] \in {stick, "damaged"}
      /\ \A i \in DOMAIN Parts : i # part => flash'[Parts[i]] = flash[Parts[i]]
  BY <1>2, <1>3, ProgramFacts
<1>5. faults' \in 0 .. MaxFaults
  BY UsbUpgradeAssumption DEF IInv, TypeOK, Write, Fault
<1>6. part \in 1 .. 4 /\ \A i \in 1 .. 4 : i < part => flash[Parts[i]] \in {stick, "damaged"}
  BY <1>1, PartsFacts DEF IInv, TypeOK, ScriptInv, Programming
<1>7. \A i \in 1 .. 4 : i <= part => flash'[Parts[i]] \in {stick, "damaged"}
  <2> SUFFICES ASSUME NEW i \in 1 .. 4, i <= part PROVE flash'[Parts[i]] \in {stick, "damaged"}
    OBVIOUS
  <2>1. CASE i = part
    BY <1>4, <2>1
  <2>2. CASE i < part
    BY <1>4, <1>6, <2>2, PartsFacts
  <2>3. QED
    BY <1>6, <2>1, <2>2
<1>8. CASE part = 4
  <2>1. pc' = "save" /\ part' = 1
    BY <1>1, <1>8, PartsFacts DEF AfterWrite
  <2>2. TypeOK'
    BY <1>1, <1>4, <1>5, <2>1, PartsFacts DEF IInv, TypeOK
  <2>3. EnvInv' /\ StickInv'
    BY <1>1, <1>2, <2>1 DEF IInv, EnvInv, StickInv, Programming
  <2>4. ScriptInv'
    BY <1>1, <1>7, <1>8, <2>1, PartsFacts DEF ScriptInv, Programming
  <2>5. QED
    BY <2>2, <2>3, <2>4 DEF IInv
<1>9. CASE part # 4
  <2>1. pc' = "load" /\ part' = part + 1 /\ part' \in 1 .. 4
    BY <1>1, <1>6, <1>9, PartsFacts DEF AfterWrite
  <2>2. TypeOK'
    BY <1>1, <1>4, <1>5, <2>1, PartsFacts DEF IInv, TypeOK
  <2>3. EnvInv' /\ StickInv'
    BY <1>1, <1>2, <2>1 DEF IInv, EnvInv, StickInv, Programming
  <2>4. \A i \in 1 .. 4 : i < part' => flash'[Parts[i]] \in {stick', "damaged"}
    BY <1>1, <1>6, <1>7, <2>1
  <2>5. ScriptInv'
    BY <2>1, <2>4, PartsFacts DEF ScriptInv, Programming
  <2>6. QED
    BY <2>2, <2>3, <2>5 DEF IInv
<1>10. QED
  BY <1>8, <1>9

\* The new signature is put into the environment in RAM.
LEMMA UpdateStep ==
  ASSUME IInv, Update PROVE IInv'
<1>1. pc = "usb" /\ pc' = "image" /\ stick # None /\ UNCHANGED <<saved, part, flash, stick, faults>>
      /\ env' = [env EXCEPT !.signature = stick]
  BY DEF Update, Goto, SetSignature
<1>2. stick \in Version /\ env \in Environment
  BY <1>1 DEF IInv, TypeOK
<1>3. env' \in Environment /\ env'.mac = env.mac /\ env'.signature = stick
  BY <1>1, <1>2, EnvFacts
<1>4. TypeOK'
  BY <1>1, <1>3 DEF IInv, TypeOK
<1>5. EnvInv' /\ StickInv' /\ ScriptInv'
  BY <1>1, <1>3 DEF IInv, EnvInv, StickInv, ScriptInv, Programming
<1>6. QED
  BY <1>4, <1>5 DEF IInv

\* A partition is erased before it is written.
LEMMA EraseStep ==
  ASSUME IInv, Erase PROVE IInv'
<1>1. /\ pc = "erase" /\ pc' = "write" /\ UNCHANGED <<part, env, saved, stick, faults>>
      /\ flash' = [flash EXCEPT ![Parts[part]] = "erased"]
  BY DEF Erase, Goto
<1>2. /\ flash' \in [Part -> Version \union {Factory, "erased", "damaged"}]
      /\ \A i \in DOMAIN Parts : i # part => flash'[Parts[i]] = flash[Parts[i]]
  BY <1>1, ProgramFacts
<1>3. TypeOK'
  BY <1>1, <1>2 DEF IInv, TypeOK
<1>4. EnvInv' /\ StickInv'
  BY <1>1 DEF IInv, EnvInv, StickInv, Programming
<1>5. part \in 1 .. 4 /\ \A i \in 1 .. 4 : i < part => flash'[Parts[i]] \in {stick, "damaged"}
  BY <1>1, <1>2, PartsFacts DEF IInv, TypeOK, ScriptInv, Programming
<1>6. ScriptInv'
  BY <1>1, <1>5, PartsFacts DEF ScriptInv, Programming
<1>7. QED
  BY <1>3, <1>4, <1>6 DEF IInv

\* Every step keeps the invariant.
LEMMA NextInv == IInv /\ [Next]_vars => IInv'
<1> SUFFICES ASSUME IInv, [Next]_vars PROVE IInv'
  OBVIOUS
<1>1. CASE PowerOn \/ AutoMacEnd \/ TypeUsbUpgrade \/ Reset
  <2>1. TypeOK'
    BY <1>1 DEF IInv, TypeOK, PowerOn, AutoMacEnd, TypeUsbUpgrade, Reset, LoadEnvironment, Goto
  <2>2. EnvInv' /\ StickInv' /\ ScriptInv'
    BY <1>1 DEF IInv, EnvInv, StickInv, ScriptInv, Programming,
                PowerOn, AutoMacEnd, TypeUsbUpgrade, Reset, LoadEnvironment, Goto
  <2>3. QED
    BY <2>1, <2>2 DEF IInv
<1>2. CASE AutoMacGrant
  <2>1. env' \in Environment /\ saved' = env' /\ pc = "automac"
        /\ UNCHANGED <<pc, part, flash, stick, faults>>
    BY <1>2, EnvFacts DEF IInv, TypeOK, AutoMacGrant
  <2>2. TypeOK'
    BY <2>1 DEF IInv, TypeOK
  <2>3. EnvInv' /\ StickInv' /\ ScriptInv'
    BY <2>1 DEF IInv, EnvInv, StickInv, ScriptInv, Programming
  <2>4. QED
    BY <2>2, <2>3 DEF IInv
<1>3. CASE PowerCut \/ NoPackage \/ Skip \/ ReadImage \/ Load
  <2>1. faults' \in 0 .. MaxFaults /\ part' \in DOMAIN Parts
    BY <1>3, UsbUpgradeAssumption, PartsFacts
       DEF IInv, TypeOK, PowerCut, NoPackage, Skip, ReadImage, Load, LoadOrExit, Fault
  <2>2. UNCHANGED <<env, saved, flash, stick>>
    BY <1>3 DEF PowerCut, NoPackage, Skip, ReadImage, Load
  <2>3. pc' \in {"off", "boot", "load", "erase"}
    BY <1>3 DEF PowerCut, NoPackage, Skip, ReadImage, Load, LoadOrExit, Goto
  <2>4. TypeOK'
    BY <2>1, <2>2, <2>3 DEF IInv, TypeOK
  <2>5. EnvInv' /\ StickInv'
    BY <1>3, <2>2 DEF IInv, EnvInv, StickInv, Programming, PowerCut, NoPackage, Skip, ReadImage, Load, LoadOrExit, Goto
  <2>6. ScriptInv'
    <3>1. CASE ReadImage
      <4>1. part' = 1 /\ pc' \in {"load", "boot"}
        BY <3>1 DEF IInv, ScriptInv, Programming, ReadImage, Goto
      <4>2. QED
        BY <4>1, PartsFacts DEF ScriptInv, Programming
    <3>2. CASE Load
      BY <2>2, <3>2 DEF IInv, ScriptInv, Programming, Load, LoadOrExit
    <3>3. CASE PowerCut \/ NoPackage \/ Skip
      BY <2>2, <3>3 DEF IInv, ScriptInv, Programming, PowerCut, NoPackage, Skip, Goto
    <3>4. QED
      BY <1>3, <3>1, <3>2, <3>3
  <2>7. QED
    BY <2>4, <2>5, <2>6 DEF IInv
<1>4. CASE Update
  BY <1>4, UpdateStep
<1>5. CASE Erase
  BY <1>5, EraseStep
<1>6. CASE Write
  BY <1>6, WriteStep
<1>7. CASE SaveEnv
  <2>1. /\ pc = "save" /\ pc' = "reset" /\ UNCHANGED <<part, env, flash, stick>>
        /\ saved' \in {env, saved}
    BY <1>7 DEF SaveEnv, Goto
  <2>2. TypeOK'
    BY <1>7, <2>1, UsbUpgradeAssumption DEF IInv, TypeOK, SaveEnv, Fault
  <2>3. EnvInv' /\ StickInv' /\ ScriptInv'
    BY <2>1 DEF IInv, EnvInv, StickInv, ScriptInv, Programming
  <2>4. QED
    BY <2>2, <2>3 DEF IInv
<1>8. CASE ChangeStick
  <2>1. TypeOK'
    BY <1>8 DEF IInv, TypeOK, ChangeStick
  <2>2. EnvInv' /\ StickInv' /\ ScriptInv'
    BY <1>8 DEF IInv, EnvInv, StickInv, ScriptInv, Programming, ChangeStick
  <2>3. QED
    BY <2>1, <2>2 DEF IInv
<1>9. CASE UNCHANGED vars
  BY <1>9 DEF vars, IInv, TypeOK, EnvInv, StickInv, ScriptInv
<1>10. QED
  BY <1>1, <1>2, <1>3, <1>4, <1>5, <1>6, <1>7, <1>8, <1>9 DEF Next, Upgrade

\* The invariant holds of every behaviour.
LEMMA Invariance == Spec => []IInv
BY InitInv, NextInv, PTL DEF Spec

-----------------------------------------------------------------------------

\* The environment, the partitions and the place in the script stay within
\* their types.
THEOREM TypeCorrect == Spec => []TypeOK
BY Invariance, PTL DEF IInv

\* saveenv at the end of the script is the only step that changes the
\* signature in flash, and then every partition was written from the stick
\* with that signature: a power cut, a failed load or another stick on the way
\* leaves the old signature.
THEOREM RecordsOnlyWholeUpgrades == Spec => RecordsWholeUpgrade
<1>1. IInv /\ [Next]_vars =>
        [saved'.signature # saved.signature =>
           \A p \in Part : flash[p] \in {saved'.signature, "damaged"}]_vars
  <2> SUFFICES ASSUME IInv, [Next]_vars, saved'.signature # saved.signature
               PROVE  \A p \in Part : flash[p] \in {saved'.signature, "damaged"}
    OBVIOUS
  <2>1. CASE SaveEnv
    <3>1. saved'.signature = stick
      BY <2>1 DEF SaveEnv, Goto, IInv, StickInv
    <3>2. \A i \in 1 .. 4 : flash[Parts[i]] \in {stick, "damaged"}
      BY <2>1, PartsFacts DEF SaveEnv, Goto, IInv, ScriptInv
    <3>3. QED
      BY <3>1, <3>2, PartsFacts
  <2>2. CASE AutoMacGrant
    <3>1. saved'.signature = env.signature
      BY <2>2, EnvFacts DEF AutoMacGrant, IInv, TypeOK
    <3>2. env = saved
      BY <2>2 DEF AutoMacGrant, IInv, EnvInv
    <3>3. QED
      BY <3>1, <3>2
  <2>3. QED
    BY <2>1, <2>2
       DEF Next, Upgrade, vars, PowerOn, AutoMacEnd, PowerCut, NoPackage, Skip, Update, SetSignature,
           ReadImage, Load, Erase, Write, Reset, ChangeStick, TypeUsbUpgrade
<1>2. QED
  BY <1>1, Invariance, PTL DEF Spec, RecordsWholeUpgrade

\* What MacGrant sees of the place.
Seen(p) == CASE p = "off" -> "off" [] p = "automac" -> "asking" [] OTHER -> "done"

LaterPlaces == {"usb", "image", "load", "erase", "write", "save", "reset", "boot"}

\* MacGrant's place is a function of the place.
LEMMA SeenFacts ==
  /\ Seen("off") = "off" /\ Seen("automac") = "asking"
  /\ \A p \in LaterPlaces : Seen(p) = "done"
BY DEF Seen, LaterPlaces

\* Nothing of the upgrade runs before the addresses are in flash, and nothing
\* of it takes them away again, wherever it fails or is cut off.
THEOREM KeepsPromise == Spec => KeepsMacPromise
<1>1. Init => Granted!Init
  BY DEF Init, Granted!Init
<1>2. IInv /\ [Next]_vars => [Granted!Next]_Granted!vars
  <2> SUFFICES ASSUME IInv, [Next]_vars PROVE Granted!Next \/ UNCHANGED Granted!vars
    OBVIOUS
  <2>1. saved.mac \in {Mac, None} /\ Mac # None
    BY UsbUpgradeAssumption DEF IInv, TypeOK, Environment
  <2>2. CASE UNCHANGED <<Seen(pc), saved.mac>>
    BY <2>2 DEF Granted!vars, Seen
  <2>3. CASE PowerOn
    <3>1. pc = "off" /\ pc' = (IF saved.mac = None THEN "automac" ELSE "usb") /\ saved' = saved
      BY <2>3 DEF PowerOn
    <3>2. QED
      BY <2>1, <3>1 DEF Granted!Next, Granted!PowerOn
  <2>4. CASE AutoMacGrant
    <3>1. pc = "automac" /\ pc' = pc /\ saved'.mac = Mac
      BY <2>4, EnvFacts DEF AutoMacGrant, IInv, TypeOK
    <3>2. QED
      BY <3>1 DEF Granted!Next, Granted!Grant
  <2>5. CASE AutoMacEnd
    <3>1. pc = "automac" /\ pc' = "usb" /\ saved' = saved /\ saved.mac = Mac
      BY <2>1, <2>5 DEF AutoMacEnd, Goto
    <3>2. QED
      BY <3>1 DEF Granted!Next, Granted!Finish
  <2>6. CASE PowerCut \/ Reset
    <3>1. pc # "off" /\ pc' = "off" /\ saved' = saved
      BY <2>6 DEF PowerCut, Reset, Goto
    <3>2. QED
      BY <3>1 DEF Granted!Next, Granted!PowerCut
  <2>7. CASE NoPackage \/ Skip \/ Update \/ ReadImage \/ Load \/ Erase \/ Write \/ SaveEnv \/ TypeUsbUpgrade
    <3>1. pc \in LaterPlaces /\ pc' \in LaterPlaces
      BY <2>7 DEF LaterPlaces, NoPackage, Skip, Update, ReadImage, Load, LoadOrExit, Erase, Write, AfterWrite,
                  SaveEnv, TypeUsbUpgrade, Goto
    <3>2. saved'.mac = saved.mac
      BY <2>7 DEF IInv, EnvInv, NoPackage, Skip, Update, SetSignature, ReadImage, Load, Erase, Write, SaveEnv,
                  TypeUsbUpgrade, Goto
    <3>3. Seen(pc) = "done" /\ Seen(pc)' = "done"
      BY <3>1, SeenFacts
    <3>4. QED
      BY <2>2, <3>2, <3>3
  <2>8. CASE ChangeStick \/ UNCHANGED vars
    <3>1. pc' = pc /\ saved' = saved
      BY <2>8 DEF ChangeStick, vars
    <3>2. QED
      BY <2>2, <3>1
  <2>9. QED
    BY <2>3, <2>4, <2>5, <2>6, <2>7, <2>8 DEF Next, Upgrade
<1>3. QED
  BY <1>1, <1>2, Invariance, PTL DEF Spec, KeepsMacPromise, Granted!Spec

=============================================================================
