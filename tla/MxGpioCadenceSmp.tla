-------------------------- MODULE MxGpioCadenceSmp --------------------------
(***************************************************************************)
(* MxGpioCadence with its calls taken apart: the kernel is SMP and the     *)
(* table is not locked, so the stores of FillStructOfLedBuz and of         *)
(* ClearCadence on one CPU, and the reads and stores of ProcBuzLedCad on   *)
(* another, come in any order the two programs allow.  A value read before *)
(* may be used again or be read again, as the compiler likes.              *)
(*                                                                         *)
(* Taken apart are MXGPIO_SET_CADENCE and the clear of the present         *)
(* cadence; the other clears and the pins are in MxGpioCadence.  The scan  *)
(* of UpdateCadPriority is one step and its assignment another.            *)
(***************************************************************************)
EXTENDS MxGpioCadTable, Sequences

CONSTANTS
  Client,
  MaxOps       \* bound on the ioctls of a behaviour

ASSUME OpsAssumption == MaxOps \in Nat

VARIABLES
  cadence, CurrentPriority, IsBuzLedFillInProg, syncPending,
  call,        \* [Client -> where it is in its ioctl]
  proc,        \* where ProcBuzLedCad is, and what it has in registers
  met,         \* ProcBuzLedCad has been started since an ioctl began
  apart,       \* clients into whose row no other ioctl has stored since they began
  ops

vars == <<cadence, CurrentPriority, IsBuzLedFillInProg, syncPending, call, proc, met, apart, ops>>

\* The order in which an ioctl goes through the outputs, and through the
\* fields of one entry.
OutputOrder == <<RED_LED, GREEN_LED, BUZZER>>

\* Bug: a response keeps the cycle length of the one it replaces.
FillOrderShort == <<"accessResp", "buzLedCad", "noOfCycles", "cadPosition">>

FillOrder == <<"accessResp", "buzLedCad", "noOfCycles", "cadBits", "cadPosition">>
ClearOrder == <<"buzLedCad", "cadBits", "cadPosition", "noOfCycles">>

\* With its call taken apart, ProcBuzLedCad may test the position of one row
\* and move on that of another: only the width of the field bounds it.
UINT8 == 0 .. 255
WideEntry ==
  [ buzLedCad : SUBSET Slot, noOfCycles : 0 .. INFINITE_CYCLE,
    cadPosition : UINT8, cadBits : 0 .. 15, accessResp : Resp ]

Call ==
  [ op : {"none", "set", "clear"}, at : {"flag", "store", "scan", "elect", "arm"},
    resp : Resp, out : 1 .. 3, field : 1 .. 5, found : SUBSET Priority ]
NoCall ==
  [op |-> "none", at |-> "flag", resp |-> IdleResp, out |-> 1, field |-> 1, found |-> {}]

Proc ==
  [ at : {"wait", "check", "wrap", "dec", "store", "play", "bump", "rewind", "scan", "elect"},
    out : Output, prio : Priority, cycles : 0 .. INFINITE_CYCLE, pos : UINT8, found : SUBSET Priority ]
Waiting ==
  [at |-> "wait", out |-> BUZZER, prio |-> MaxPriority, cycles |-> 0, pos |-> 0, found |-> {}]

TypeOK ==
  /\ cadence \in [Priority -> [Output -> WideEntry]]
  /\ CurrentPriority \in Priority
  /\ IsBuzLedFillInProg \in BOOLEAN
  /\ syncPending \in BOOLEAN
  /\ call \in [Client -> Call]
  /\ proc \in Proc
  /\ met \in BOOLEAN
  /\ apart \subseteq Client
  /\ ops \in 0 .. MaxOps

\* After GpioModInit and the first MXGPIO_SET_CADENCE, when the hold is over.
Init ==
  /\ \E r \in Resp :
       /\ cadence = [p \in Priority |-> [o \in Output |->
                       CASE p = accessRespCadPriority[r] -> NewEntry(r, o)
                         [] p = MaxPriority /\ r # IdleResp -> NewEntry(IdleResp, o)
                         [] OTHER -> ZeroEntry]]
       /\ CurrentPriority = accessRespCadPriority[r]
  /\ IsBuzLedFillInProg = FALSE
  /\ syncPending = FALSE
  /\ call = [c \in Client |-> NoCall]
  /\ proc = Waiting
  /\ met = FALSE
  /\ apart = Client
  /\ ops = 0

-----------------------------------------------------------------------------
(* The ioctls.                                                             *)

Start(c, op, r) ==
  /\ call[c].op = "none"
  /\ ops < MaxOps
  /\ ops' = ops + 1
  /\ met' = FALSE
  /\ apart' = apart \union {c}
  /\ call' = [call EXCEPT ![c] = [NoCall EXCEPT !.op = op, !.resp = r]]
  /\ UNCHANGED <<cadence, CurrentPriority, IsBuzLedFillInProg, syncPending, proc>>

Goto(c, label) == call' = [call EXCEPT ![c].at = label]

Hold(c) ==
  /\ call[c].op # "none"
  /\ call[c].at = "flag"
  /\ IsBuzLedFillInProg' = TRUE
  /\ Goto(c, "store")
  /\ UNCHANGED <<cadence, CurrentPriority, syncPending, proc, met, apart, ops>>

\* The sets of the row into which another application stores.
Disturb(c, row) ==
  apart' = apart \ {d \in Client \ {c} : call[d].op = "set" /\ accessRespCadPriority[call[d].resp] = row}

\* One store of FillStructOfLedBuz.
StoreFill(c) ==
  LET r == call[c].resp
      o == OutputOrder[call[c].out]
      f == FillOrder[call[c].field]
      last == call[c].field = Len(FillOrder)
  IN
  /\ call[c].op = "set"
  /\ call[c].at = "store"
  /\ cadence' = [cadence EXCEPT ![accessRespCadPriority[r]][o][f] = NewEntry(r, o)[f]]
  /\ call' = [call EXCEPT ![c].field = IF last THEN 1 ELSE @ + 1, ![c].at = IF last THEN "scan" ELSE "store"]
  /\ Disturb(c, accessRespCadPriority[r])
  /\ UNCHANGED <<CurrentPriority, IsBuzLedFillInProg, syncPending, proc, met, ops>>

\* One store of ClearCadence, of the priority that is current at that time.
StoreClear(c) ==
  LET o == OutputOrder[call[c].out]
      f == ClearOrder[call[c].field]
      last == call[c].field = Len(ClearOrder)
  IN
  /\ call[c].op = "clear"
  /\ call[c].at = "store"
  /\ cadence' = [cadence EXCEPT ![CurrentPriority][o][f] = OffEntry(cadence[CurrentPriority][o], 0)[f]]
  /\ call' = [call EXCEPT
       ![c].field = IF last THEN 1 ELSE @ + 1,
       ![c].out = IF last /\ @ < 3 THEN @ + 1 ELSE @,
       ![c].at = IF last /\ call[c].out = 3 THEN "scan" ELSE "store"]
  /\ Disturb(c, CurrentPriority)
  /\ UNCHANGED <<CurrentPriority, IsBuzLedFillInProg, syncPending, proc, met, ops>>

Scan(c) ==
  /\ call[c].at = "scan"
  /\ call' = [call EXCEPT ![c].at = "elect", ![c].found = HighestActive(cadence)]
  /\ UNCHANGED <<cadence, CurrentPriority, IsBuzLedFillInProg, syncPending, proc, met, apart, ops>>

Assign(found) == CurrentPriority' \in IF found = {} THEN {CurrentPriority} ELSE found

Elect(c) ==
  /\ call[c].at = "elect"
  /\ Assign(call[c].found)
  /\ Goto(c, "arm")
  /\ UNCHANGED <<cadence, IsBuzLedFillInProg, syncPending, proc, met, apart, ops>>

\* SET_CADENCE fills three outputs; then the ioctl returns.
Returned(c) ==
  call' = [call EXCEPT ![c] =
    IF call[c].op = "set" /\ call[c].out < 3
    THEN [NoCall EXCEPT !.op = "set", !.resp = call[c].resp, !.out = call[c].out + 1]
    ELSE NoCall]

\* Bug: the playing is held once more after the timer has been started.
ArmThenHold(c) ==
  /\ call[c].at = "arm"
  /\ IsBuzLedFillInProg' = IF call[c].found = {} THEN TRUE ELSE IsBuzLedFillInProg
  /\ syncPending' = (call[c].found # {} \/ syncPending)
  /\ IF call[c].found = {} THEN Returned(c) ELSE call' = [call EXCEPT ![c].found = {}]
  /\ UNCHANGED <<cadence, CurrentPriority, proc, met, apart, ops>>

\* Bug: only a clear starts the timer.
ArmAfterClear(c) ==
  /\ call[c].at = "arm"
  /\ syncPending' = (syncPending \/ call[c].op = "clear")
  /\ Returned(c)
  /\ UNCHANGED <<cadence, CurrentPriority, IsBuzLedFillInProg, proc, met, apart, ops>>

Arm(c) ==
  /\ call[c].at = "arm"
  /\ syncPending' = TRUE
  /\ Returned(c)
  /\ UNCHANGED <<cadence, CurrentPriority, IsBuzLedFillInProg, proc, met, apart, ops>>

-----------------------------------------------------------------------------
(* The timers.                                                             *)

SyncBuzLedCad ==
  /\ syncPending
  /\ syncPending' = FALSE
  /\ IsBuzLedFillInProg' = FALSE
  /\ UNCHANGED <<cadence, CurrentPriority, call, proc, met, apart, ops>>

ProcUnchanged == UNCHANGED <<IsBuzLedFillInProg, syncPending, call, met, apart, ops>>

\* The index and the value that an expression of ProcBuzLedCad uses: from a
\* register, or read again.
Index == {proc.prio, CurrentPriority}
Cycles(p) == {proc.cycles, cadence[p][proc.out].noOfCycles}

At(label, o) == [Waiting EXCEPT !.at = label, !.out = o, !.prio = proc.prio]
NextOutput == IF proc.out < 2 THEN At("check", proc.out + 1) ELSE At("rewind", BUZZER)

\* While a fill is in progress the timer is only started again, in 10 ms.
Held ==
  /\ proc.at = "wait"
  /\ IsBuzLedFillInProg
  /\ UNCHANGED vars

\* Every 500 ms, unless a fill is in progress.  An ioctl takes microseconds:
\* the timer function starts at most once while one runs.
Enter ==
  /\ proc.at = "wait"
  /\ ~IsBuzLedFillInProg
  /\ (\E c \in Client : call[c].op # "none") => ~met
  /\ met' = TRUE
  /\ proc' = [proc EXCEPT !.at = "check", !.prio = CurrentPriority]
  /\ UNCHANGED <<cadence, CurrentPriority, IsBuzLedFillInProg, syncPending, call, apart, ops>>

Check ==
  /\ proc.at = "check"
  /\ \E p \in Index :
       LET n == cadence[p][proc.out].noOfCycles IN
       proc' = IF n > 0 THEN [proc EXCEPT !.at = "wrap", !.prio = p, !.cycles = n] ELSE NextOutput
  /\ UNCHANGED <<cadence, CurrentPriority>>
  /\ ProcUnchanged

Wrap ==
  /\ proc.at = "wrap"
  /\ \E p \in Index :
       LET e == cadence[p][proc.out] IN
       /\ cadence' = [cadence EXCEPT ![p][proc.out].cadPosition = PositionAfterWrap(e)]
       /\ proc' = [proc EXCEPT !.at = IF Wrapped(e) THEN "dec" ELSE "play", !.prio = p]
  /\ UNCHANGED CurrentPriority
  /\ ProcUnchanged

\* noOfCycles--: the test for INFINITE_CYCLE and the load, then the store.
Dec ==
  /\ proc.at = "dec"
  /\ \E p \in Index : \E n, m \in Cycles(p) :
       proc' = IF n = INFINITE_CYCLE THEN [proc EXCEPT !.at = "play", !.prio = p, !.cycles = n]
               ELSE [proc EXCEPT !.at = "store", !.prio = p, !.cycles = m]
  /\ UNCHANGED <<cadence, CurrentPriority>>
  /\ ProcUnchanged

Store ==
  /\ proc.at = "store"
  /\ cadence' = [cadence EXCEPT ![proc.prio][proc.out].noOfCycles = Decrement(proc.cycles)]
  /\ proc' = [proc EXCEPT !.at = "play", !.cycles = Decrement(proc.cycles)]
  /\ UNCHANGED CurrentPriority
  /\ ProcUnchanged

\* The pin is written, and the position loaded.
Play ==
  /\ proc.at = "play"
  /\ \E p \in Index : \E n \in Cycles(p) :
       proc' = IF n > 0 THEN [proc EXCEPT !.at = "bump", !.prio = p, !.pos = cadence[p][proc.out].cadPosition]
               ELSE NextOutput
  /\ UNCHANGED <<cadence, CurrentPriority>>
  /\ ProcUnchanged

Bump ==
  /\ proc.at = "bump"
  /\ cadence' = [cadence EXCEPT ![proc.prio][proc.out].cadPosition = (proc.pos + 1) % 256]
  /\ proc' = NextOutput
  /\ UNCHANGED CurrentPriority
  /\ ProcUnchanged

Rewind ==
  /\ proc.at = "rewind"
  /\ \E p \in Index :
       /\ cadence' = [cadence EXCEPT ![p] = RewindFinished(@)]
       /\ proc' = IF Active(cadence, p) THEN Waiting ELSE At("scan", BUZZER)
  /\ UNCHANGED CurrentPriority
  /\ ProcUnchanged

ProcScan ==
  /\ proc.at = "scan"
  /\ proc' = [proc EXCEPT !.at = "elect", !.found = HighestActive(cadence)]
  /\ UNCHANGED <<cadence, CurrentPriority>>
  /\ ProcUnchanged

ProcElect ==
  /\ proc.at = "elect"
  /\ Assign(proc.found)
  /\ proc' = Waiting
  /\ UNCHANGED cadence
  /\ ProcUnchanged

ProcBuzLedCad ==
  Held \/ Enter \/ Check \/ Wrap \/ Dec \/ Store \/ Play \/ Bump \/ Rewind \/ ProcScan \/ ProcElect
Ioctl(c) == Hold(c) \/ StoreFill(c) \/ StoreClear(c) \/ Scan(c) \/ Elect(c) \/ Arm(c)

Next ==
  \/ \E c \in Client, r \in Resp : Start(c, "set", r)
  \/ \E c \in Client : Start(c, "clear", IdleResp)
  \/ \E c \in Client : Ioctl(c)
  \/ SyncBuzLedCad
  \/ ProcBuzLedCad

Spec == Init /\ [][Next]_vars

\* Timers expire, timer functions and ioctls that have begun go on.
FairSpec ==
  Spec /\ WF_vars(SyncBuzLedCad) /\ WF_vars(ProcBuzLedCad) /\ \A c \in Client : WF_vars(Ioctl(c))

-----------------------------------------------------------------------------

\* While playing is held, somebody is on the way to ending the hold: the sync
\* timer is pending or an ioctl will still start it.
HoldIsTaken ==
  IsBuzLedFillInProg => syncPending \/ \E c \in Client : call[c].op # "none" /\ call[c].at # "flag"

\* However the timer function and the ioctls interleave, playing goes on once
\* the applications are quiet.
PlayingResumes == <>[]~IsBuzLedFillInProg

\* When MXGPIO_SET_CADENCE returns, and no other ioctl has stored into its row
\* meanwhile, the response is there with its cadence and length on all outputs,
\* whatever the timer function has done to the table and other ioctls to other
\* rows in the meantime.
SetIsComplete ==
  [][\A c \in Client :
       call[c].op = "set" /\ call'[c].op = "none" /\ c \in apart =>
         \A o \in Output :
           LET r == call[c].resp
               e == cadence'[accessRespCadPriority[r]][o]
           IN
           /\ e.accessResp = r
           /\ e.buzLedCad = accessRespCadMap[r][o]
           /\ e.cadBits = accessRespCadBits[r][o]]_vars

\* UpdateCadPriority "plays next highest priority cadence": when nobody is at
\* work on the table, the priority that is current is the most urgent one.
QuietCurrentIsHighest ==
  /\ proc.at = "wait"
  /\ \A c \in Client : call[c].op = "none"
  /\ \E p \in Priority : Active(cadence, p)
  => CurrentPriority \in HighestActive(cadence)

=============================================================================
