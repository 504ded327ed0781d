----------------------- MODULE MxGpioCadenceSmp_proofs -----------------------
(***************************************************************************)
(* MxGpioCadenceSmp for any number of applications and ioctls, and any     *)
(* table: a hold on the playing always has somebody who will end it.       *)
(***************************************************************************)
EXTENDS MxGpioCadenceSmp, TLAPS

\* An application that is past the flag is in an ioctl; a clear has four
\* fields to store and not five.
PlaceInv ==
  \A c \in Client :
    /\ call[c].at # "flag" => call[c].op # "none"
    /\ call[c].op = "clear" => call[c].field <= 4

IInv == call \in [Client -> Call] /\ PlaceInv /\ HoldIsTaken

-----------------------------------------------------------------------------

\* The order of the stores.
LEMMA OrderFacts == Len(FillOrder) = 5 /\ Len(ClearOrder) = 4
BY DEF FillOrder, ClearOrder

\* No call is a call at its start.
LEMMA NoCallFacts ==
  /\ NoCall \in Call
  /\ NoCall.op = "none" /\ NoCall.at = "flag" /\ NoCall.field = 1
BY TableAssumption DEF NoCall, Call

Label == {"flag", "store", "scan", "elect", "arm"}

\* A call that begins is one.
LEMMA BeginFacts ==
  ASSUME NEW op \in {"set", "clear"}, NEW r \in Resp, NEW n, n = [NoCall EXCEPT !.op = op, !.resp = r]
  PROVE  n \in Call /\ n.at = "flag" /\ n.op = op /\ n.field = 1
BY NoCallFacts DEF Call

\* The next output of a response.
LEMMA NextOutputFacts ==
  ASSUME NEW r \in Resp, NEW o \in 1 .. 3
  PROVE  /\ [NoCall EXCEPT !.op = "set", !.resp = r, !.out = o] \in Call
         /\ [NoCall EXCEPT !.op = "set", !.resp = r, !.out = o].op = "set"
BY NoCallFacts DEF Call

\* A step that moves one application keeps the invariant when it ends up at
\* work, or the timer is pending, or it neither was at work nor touched the hold.
LEMMA MoveStep ==
  ASSUME IInv, NEW c \in Client, NEW r \in Call,
         call' = [call EXCEPT ![c] = r],
         r.at # "flag" => r.op # "none",
         r.op = "clear" => r.field <= 4,
         \/ r.at # "flag"
         \/ syncPending'
         \/ (call[c].at = "flag" /\ IsBuzLedFillInProg' = IsBuzLedFillInProg /\ syncPending' = syncPending)
  PROVE  IInv'
<1>1. call' \in [Client -> Call] /\ call'[c] = r /\ \A d \in Client : d # c => call'[d] = call[d]
  BY DEF IInv
<1>2. PlaceInv'
  BY <1>1 DEF IInv, PlaceInv
<1>3. HoldIsTaken'
  BY <1>1 DEF IInv, HoldIsTaken
<1>4. QED
  BY <1>1, <1>2, <1>3 DEF IInv

\* An ioctl begins.
LEMMA StartStep ==
  ASSUME IInv, NEW c \in Client, NEW op \in {"set", "clear"}, NEW r \in Resp, Start(c, op, r)
  PROVE  IInv'
<1> DEFINE new == [NoCall EXCEPT !.op = op, !.resp = r]
<1>0. new = [NoCall EXCEPT !.op = op, !.resp = r]
  OBVIOUS
<1> HIDE DEF new
<1>1. new \in Call /\ new.at = "flag" /\ new.op = op /\ new.field = 1
  BY <1>0, BeginFacts
<1>2. /\ call[c].op = "none" /\ call' = [call EXCEPT ![c] = new]
      /\ IsBuzLedFillInProg' = IsBuzLedFillInProg /\ syncPending' = syncPending
  BY <1>0 DEF Start
<1>3. call[c].at = "flag"
  BY <1>2 DEF IInv, PlaceInv
<1>4. (new.at # "flag" => new.op # "none") /\ (new.op = "clear" => new.field <= 4)
  BY <1>1
<1>5. QED
  BY <1>1, <1>2, <1>3, <1>4, MoveStep

\* A step of an ioctl.
LEMMA IoctlStep ==
  ASSUME IInv, NEW c \in Client, Ioctl(c) PROVE IInv'
<1>1. /\ call[c] \in Call /\ call[c].field \in 1 .. 5 /\ call[c].out \in 1 .. 3
      /\ call[c].at # "flag" => call[c].op # "none"
      /\ call[c].op = "clear" => call[c].field <= 4
  BY DEF IInv, PlaceInv, Call
<1>2. \A a \in {"store", "scan", "elect", "arm"} :
        /\ [call[c] EXCEPT !.at = a] \in Call
        /\ [call[c] EXCEPT !.at = a].at = a
        /\ [call[c] EXCEPT !.at = a].op = call[c].op
        /\ [call[c] EXCEPT !.at = a].field = call[c].field
  BY <1>1 DEF Call
<1>3. CASE Hold(c)
  <2>1. call[c].op # "none" /\ call' = [call EXCEPT ![c] = [call[c] EXCEPT !.at = "store"]]
    BY <1>3 DEF Hold, Goto
  <2>2. QED
    BY <1>1, <1>2, <2>1, MoveStep
<1>4. CASE StoreFill(c)
  <2> DEFINE last == call[c].field = 5
             f == IF last THEN 1 ELSE call[c].field + 1
             a == IF last THEN "scan" ELSE "store"
             new == [call[c] EXCEPT !.field = f, !.at = a]
  <2>1. call[c].op = "set" /\ call' = [call EXCEPT ![c] = new]
    BY <1>4, OrderFacts DEF StoreFill, IInv
  <2>2. f \in 1 .. 5 /\ a \in Label /\ a # "flag"
    BY <1>1 DEF Label
  <2> HIDE DEF f, a
  <2>3. new = [call[c] EXCEPT !.field = f, !.at = a]
    OBVIOUS
  <2> HIDE DEF new
  <2>4. new \in Call /\ new.at = a /\ new.op = call[c].op
    BY <1>1, <2>2, <2>3 DEF Call, Label
  <2>5. QED
    BY <2>1, <2>2, <2>4, MoveStep
<1>5. CASE StoreClear(c)
  <2> DEFINE last == call[c].field = 4
             f == IF last THEN 1 ELSE call[c].field + 1
             o == IF last /\ call[c].out < 3 THEN call[c].out + 1 ELSE call[c].out
             a == IF last /\ call[c].out = 3 THEN "scan" ELSE "store"
             new == [call[c] EXCEPT !.field = f, !.out = o, !.at = a]
  <2>1. call[c].op = "clear" /\ call' = [call EXCEPT ![c] = new]
    BY <1>5, OrderFacts DEF StoreClear, IInv
  <2>2. f \in 1 .. 4 /\ f \in 1 .. 5 /\ f <= 4 /\ o \in 1 .. 3 /\ a \in Label /\ a # "flag"
    BY <1>1, <2>1 DEF Label
  <2> HIDE DEF f, o, a
  <2>3. new = [call[c] EXCEPT !.field = f, !.out = o, !.at = a]
    OBVIOUS
  <2> HIDE DEF new
  <2>4. new \in Call /\ new.at = a /\ new.op = call[c].op /\ new.field = f
    BY <1>1, <2>2, <2>3 DEF Call, Label
  <2>5. QED
    BY <2>1, <2>2, <2>4, MoveStep
<1>6. CASE Scan(c)
  <2> DEFINE new == [call[c] EXCEPT !.at = "elect", !.found = HighestActive(cadence)]
  <2>1. call[c].at = "scan" /\ call' = [call EXCEPT ![c] = new]
    BY <1>6 DEF Scan, IInv
  <2>2. new \in Call /\ new.at = "elect" /\ new.op = call[c].op /\ new.field = call[c].field
    BY <1>1 DEF Call, HighestActive
  <2> HIDE DEF new
  <2>3. QED
    BY <1>1, <2>1, <2>2, MoveStep
<1>7. CASE Elect(c)
  <2>1. call[c].at = "elect" /\ call' = [call EXCEPT ![c] = [call[c] EXCEPT !.at = "arm"]]
    BY <1>7 DEF Elect, Goto
  <2>2. QED
    BY <1>1, <1>2, <2>1, MoveStep
<1>8. CASE Arm(c)
  <2>1. syncPending' = TRUE /\ Returned(c)
    BY <1>8 DEF Arm
  <2>2. CASE call[c].op = "set" /\ call[c].out < 3
    <3> DEFINE new == [NoCall EXCEPT !.op = "set", !.resp = call[c].resp, !.out = call[c].out + 1]
    <3>1. call' = [call EXCEPT ![c] = new]
      BY <2>1, <2>2 DEF Returned
    <3>2. new \in Call /\ new.op = "set"
      <4>1. call[c].resp \in Resp /\ call[c].out + 1 \in 1 .. 3
        BY <1>1, <2>2 DEF Call
      <4>2. QED
        BY <4>1, NextOutputFacts
    <3> HIDE DEF new
    <3>3. QED
      BY <2>1, <3>1, <3>2, MoveStep
  <2>3. CASE ~(call[c].op = "set" /\ call[c].out < 3)
    <3>1. call' = [call EXCEPT ![c] = NoCall]
      BY <2>1, <2>3 DEF Returned
    <3>2. QED
      BY <2>1, <3>1, NoCallFacts, MoveStep
  <2>4. QED
    BY <2>2, <2>3
<1>9. QED
  BY <1>3, <1>4, <1>5, <1>6, <1>7, <1>8 DEF Ioctl

\* The driver starts in the invariant.
LEMMA InitInv == Init => IInv
BY NoCallFacts DEF Init, IInv, PlaceInv, HoldIsTaken

\* Every step keeps it.
LEMMA NextInv == IInv /\ [Next]_vars => IInv'
<1> SUFFICES ASSUME IInv, [Next]_vars PROVE IInv'
  OBVIOUS
<1>1. ASSUME NEW c \in Client, NEW r \in Resp, Start(c, "set", r) PROVE IInv'
  BY <1>1, StartStep
<1>2. ASSUME NEW c \in Client, Start(c, "clear", IdleResp) PROVE IInv'
  BY <1>2, StartStep, TableAssumption
<1>3. ASSUME NEW c \in Client, Ioctl(c) PROVE IInv'
  BY <1>3, IoctlStep
<1>4. CASE SyncBuzLedCad
  BY <1>4 DEF SyncBuzLedCad, IInv, PlaceInv, HoldIsTaken
<1>5. CASE ProcBuzLedCad
  <2>1. UNCHANGED <<IsBuzLedFillInProg, syncPending, call>>
    BY <1>5 DEF ProcBuzLedCad, Held, Enter, Check, Wrap, Dec, Store, Play, Bump, Rewind, ProcScan, ProcElect,
                ProcUnchanged, vars
  <2>2. QED
    BY <2>1 DEF IInv, PlaceInv, HoldIsTaken
<1>6. CASE UNCHANGED vars
  BY <1>6 DEF vars, IInv, PlaceInv, HoldIsTaken
<1>7. QED
  BY <1>1, <1>2, <1>3, <1>4, <1>5, <1>6 DEF Next

-----------------------------------------------------------------------------

\* FillStructOfLedBuz and ClearCadence never return without the sync timer
\* that ends their hold, whatever the timer functions and other ioctls do
\* between their stores.
THEOREM HoldEnds == Spec => []HoldIsTaken
<1>1. IInv => HoldIsTaken
  BY DEF IInv
<1>2. QED
  BY <1>1, InitInv, NextInv, PTL DEF Spec

-----------------------------------------------------------------------------
(* The types.                                                              *)

WideTable == [Priority -> [Output -> WideEntry]]
Field == {"accessResp", "buzLedCad", "noOfCycles", "cadBits", "cadPosition"}
ProcLabel == {"wait", "check", "wrap", "dec", "store", "play", "bump", "rewind", "scan", "elect"}

StoreEntry(p, o, e) == cadence' = [cadence EXCEPT ![p][o] = e]

\* A store into one entry leaves the others alone.
LEMMA Stored ==
  ASSUME cadence \in WideTable, NEW p \in Priority, NEW o \in Output, NEW e \in WideEntry,
         StoreEntry(p, o, e)
  PROVE  /\ cadence' \in WideTable
         /\ cadence'[p][o] = e
         /\ \A q \in Priority, i \in Output : q # p \/ i # o => cadence'[q][i] = cadence[q][i]
<1>1. cadence' = [cadence EXCEPT ![p] = [cadence[p] EXCEPT ![o] = e]] /\ cadence[p] \in [Output -> WideEntry]
  BY DEF WideTable, StoreEntry
<1>2. [cadence[p] EXCEPT ![o] = e] \in [Output -> WideEntry]
  BY <1>1
<1>3. QED
  BY <1>1, <1>2 DEF WideTable

WithField(e, f, d) == [e EXCEPT ![f] = d[f]]

\* Storing the field of an entry into another makes an entry.
LEMMA FieldStored ==
  ASSUME NEW e \in WideEntry, NEW d \in WideEntry, NEW f \in Field
  PROVE  /\ WithField(e, f, d) \in WideEntry
         /\ WithField(e, f, d)[f] = d[f]
         /\ \A g \in Field : g # f => WithField(e, f, d)[g] = e[g]
<1>1. f = "accessResp" \/ f = "buzLedCad" \/ f = "noOfCycles" \/ f = "cadBits" \/ f = "cadPosition"
  BY DEF Field
<1>2. QED
  BY <1>1 DEF WithField, WideEntry, Field

\* What FillStructOfLedBuz and ClearCadence store are entries.
LEMMA EntryFacts ==
  /\ \A r \in Resp, o \in Output : NewEntry(r, o) \in WideEntry
  /\ ZeroEntry \in WideEntry
  /\ \A e \in WideEntry : OffEntry(e, 0) \in WideEntry
<1>1. \A r \in Resp, o \in Output : NewEntry(r, o) \in WideEntry
  <2> SUFFICES ASSUME NEW r \in Resp, NEW o \in Output PROVE NewEntry(r, o) \in WideEntry
    OBVIOUS
  <2>1. /\ accessRespCadMap[r][o] \in SUBSET Slot
        /\ accessRespCadCycles[r][o] \in 1 .. INFINITE_CYCLE
        /\ accessRespCadBits[r][o] \in 1 .. 15
    BY TableAssumption
  <2>2. accessRespCadCycles[r][o] \in 0 .. INFINITE_CYCLE /\ accessRespCadBits[r][o] \in 0 .. 15 /\ 0 \in UINT8
    BY <2>1 DEF INFINITE_CYCLE, UINT8
  <2>3. QED
    BY <2>1, <2>2 DEF NewEntry, WideEntry
<1>2. ZeroEntry \in WideEntry
  BY TableAssumption DEF ZeroEntry, WideEntry, CAD_OFF, INFINITE_CYCLE, UINT8
<1>3. \A e \in WideEntry : OffEntry(e, 0) \in WideEntry
  <2> SUFFICES ASSUME NEW e \in WideEntry PROVE OffEntry(e, 0) \in WideEntry
    OBVIOUS
  <2>1. {} \in SUBSET Slot /\ 1 \in 0 .. 15 /\ 0 \in UINT8 /\ 0 \in 0 .. INFINITE_CYCLE
    BY DEF Slot, UINT8, INFINITE_CYCLE
  <2>2. QED
    BY <2>1 DEF OffEntry, WideEntry, CAD_OFF, CAD_OFF_CAD_BITS
<1>4. QED
  BY <1>1, <1>2, <1>3

LEMMA OrderRange ==
  /\ \A k \in 1 .. 5 : FillOrder[k] \in Field
  /\ \A k \in 1 .. 4 : ClearOrder[k] \in Field
  /\ \A n \in 1 .. 3 : OutputOrder[n] \in Output
BY DEF FillOrder, ClearOrder, OutputOrder, Field, Output

\* The types apart from the applications, which IInv has.
TableTypeOK == cadence \in WideTable /\ CurrentPriority \in Priority
ProcTypeOK == proc \in Proc
RestTypeOK ==
  /\ IsBuzLedFillInProg \in BOOLEAN /\ syncPending \in BOOLEAN /\ met \in BOOLEAN
  /\ apart \subseteq Client /\ ops \in 0 .. MaxOps

LEMMA TypeParts == TypeOK <=> TableTypeOK /\ ProcTypeOK /\ RestTypeOK /\ call \in [Client -> Call]
BY DEF TypeOK, TableTypeOK, ProcTypeOK, RestTypeOK, WideTable

\* The ioctls keep them.
LEMMA IoctlTypes ==
  ASSUME TypeOK, IInv, NEW c \in Client, Ioctl(c)
  PROVE  TableTypeOK' /\ ProcTypeOK' /\ RestTypeOK'
<1> USE TypeParts
<1>1. call[c] \in Call /\ (call[c].op = "clear" => call[c].field <= 4)
  BY DEF IInv, PlaceInv
<1>2. call[c].resp \in Resp /\ call[c].out \in 1 .. 3 /\ call[c].field \in 1 .. 5 /\ call[c].found \subseteq Priority
  BY <1>1 DEF Call
<1>3. ProcTypeOK' /\ RestTypeOK'
  BY DEF ProcTypeOK, RestTypeOK, Ioctl, Hold, StoreFill, StoreClear, Disturb, Scan, Elect, Arm
<1>4. CASE StoreFill(c)
  <2> DEFINE r == call[c].resp
             p == accessRespCadPriority[r]
             o == OutputOrder[call[c].out]
             f == FillOrder[call[c].field]
  <2>1. p \in Priority /\ o \in Output /\ f \in Field /\ NewEntry(r, o) \in WideEntry
    BY <1>2, OrderRange, EntryFacts, TableAssumption
  <2>2. cadence[p][o] \in WideEntry
    BY <2>1 DEF TableTypeOK, WideTable
  <2>3. WithField(cadence[p][o], f, NewEntry(r, o)) \in WideEntry
    BY <2>1, <2>2, FieldStored
  <2>4. StoreEntry(p, o, WithField(cadence[p][o], f, NewEntry(r, o))) /\ CurrentPriority' = CurrentPriority
    BY <1>4 DEF StoreFill, StoreEntry, WithField
  <2> HIDE DEF p, o, f
  <2>5. QED
    BY <1>3, <2>1, <2>3, <2>4, Stored DEF TableTypeOK
<1>5. CASE StoreClear(c)
  <2> DEFINE p == CurrentPriority
             o == OutputOrder[call[c].out]
             f == ClearOrder[call[c].field]
  <2>1. p \in Priority /\ o \in Output /\ f \in Field
    BY <1>1, <1>2, <1>5, OrderRange DEF TableTypeOK, StoreClear
  <2>2. cadence[p][o] \in WideEntry
    BY <2>1 DEF TableTypeOK, WideTable
  <2>3. WithField(cadence[p][o], f, OffEntry(cadence[p][o], 0)) \in WideEntry
    BY <2>1, <2>2, EntryFacts, FieldStored
  <2>4. StoreEntry(p, o, WithField(cadence[p][o], f, OffEntry(cadence[p][o], 0))) /\ CurrentPriority' = CurrentPriority
    BY <1>5 DEF StoreClear, StoreEntry, WithField
  <2> HIDE DEF p, o, f
  <2>5. QED
    BY <1>3, <2>1, <2>3, <2>4, Stored DEF TableTypeOK
<1>6. CASE Elect(c)
  BY <1>2, <1>3, <1>6 DEF Elect, Assign, TableTypeOK
<1>7. CASE Hold(c) \/ Scan(c) \/ Arm(c)
  BY <1>3, <1>7 DEF Hold, Scan, Arm, TableTypeOK
<1>8. QED
  BY <1>4, <1>5, <1>6, <1>7 DEF Ioctl

\* A step of the timer function stores a number of cycles or a position of one
\* entry, or puts positions of a row back.
Steered == {"accessResp", "buzLedCad", "cadBits"}

LEMMA Played ==
  ASSUME NEW e \in WideEntry
  PROVE  /\ \A n \in 0 .. INFINITE_CYCLE :
              /\ [e EXCEPT !.noOfCycles = n] \in WideEntry
              /\ \A f \in Steered : [e EXCEPT !.noOfCycles = n][f] = e[f]
         /\ \A k \in UINT8 :
              /\ [e EXCEPT !.cadPosition = k] \in WideEntry
              /\ \A f \in Steered : [e EXCEPT !.cadPosition = k][f] = e[f]
BY DEF WideEntry, Steered

SteeredKept ==
  /\ cadence' \in WideTable
  /\ \A p \in Priority, o \in Output, f \in Steered : cadence'[p][o][f] = cadence[p][o][f]

LEMMA EntryPlayed ==
  ASSUME cadence \in WideTable, NEW p \in Priority, NEW o \in Output, NEW e \in WideEntry,
         \A f \in Steered : e[f] = cadence[p][o][f],
         StoreEntry(p, o, e)
  PROVE  SteeredKept
<1>1. /\ cadence' \in WideTable /\ cadence'[p][o] = e
      /\ \A q \in Priority, i \in Output : q # p \/ i # o => cadence'[q][i] = cadence[q][i]
  BY Stored
<1>2. QED
  BY <1>1 DEF SteeredKept

LEMMA ProcTable == TypeOK /\ ProcBuzLedCad => SteeredKept
<1> SUFFICES ASSUME TypeOK, ProcBuzLedCad PROVE SteeredKept
  OBVIOUS
<1>1. /\ cadence \in WideTable /\ CurrentPriority \in Priority /\ proc \in Proc
      /\ proc.prio \in Priority /\ proc.out \in Output /\ proc.cycles \in 0 .. INFINITE_CYCLE /\ proc.pos \in UINT8
      /\ Index \subseteq Priority
  BY TypeParts DEF TableTypeOK, ProcTypeOK, Proc, Index
<1>2. \A p \in Priority, o \in Output : cadence[p][o] \in WideEntry
  BY <1>1 DEF WideTable
<1>3. ASSUME NEW p \in Priority, NEW k \in UINT8,
             cadence' = [cadence EXCEPT ![p][proc.out] = [cadence[p][proc.out] EXCEPT !.cadPosition = k]]
      PROVE  SteeredKept
  <2> DEFINE e == [cadence[p][proc.out] EXCEPT !.cadPosition = k]
  <2>1. e \in WideEntry /\ \A f \in Steered : e[f] = cadence[p][proc.out][f]
    BY <1>1, <1>2, Played
  <2> HIDE DEF e
  <2>2. StoreEntry(p, proc.out, e)
    BY <1>3 DEF e, StoreEntry
  <2>3. QED
    BY <1>1, <2>1, <2>2, EntryPlayed
<1>4. CASE Wrap
  <2>1. PICK p \in Priority :
          cadence' = [cadence EXCEPT ![p][proc.out] =
                        [cadence[p][proc.out] EXCEPT !.cadPosition = PositionAfterWrap(cadence[p][proc.out])]]
    BY <1>1, <1>4 DEF Wrap
  <2>2. PositionAfterWrap(cadence[p][proc.out]) \in UINT8
    BY <1>1, <1>2 DEF PositionAfterWrap, WideEntry, UINT8
  <2>3. QED
    BY <1>3, <2>1, <2>2
<1>5. CASE Store
  <2> DEFINE n == Decrement(proc.cycles)
             e == [cadence[proc.prio][proc.out] EXCEPT !.noOfCycles = n]
  <2>1. n \in 0 .. INFINITE_CYCLE
    BY <1>1 DEF Decrement, INFINITE_CYCLE
  <2> HIDE DEF n
  <2>2. e \in WideEntry /\ \A f \in Steered : e[f] = cadence[proc.prio][proc.out][f]
    BY <1>1, <1>2, <2>1, Played
  <2>3. StoreEntry(proc.prio, proc.out, e)
    BY <1>5 DEF Store, n, StoreEntry
  <2> HIDE DEF e
  <2>4. QED
    BY <1>1, <2>2, <2>3, EntryPlayed
<1>6. CASE Bump
  <2>1. cadence' = [cadence EXCEPT ![proc.prio][proc.out] =
                      [cadence[proc.prio][proc.out] EXCEPT !.cadPosition = (proc.pos + 1) % 256]]
    BY <1>6 DEF Bump
  <2>2. (proc.pos + 1) % 256 \in UINT8
    BY <1>1 DEF UINT8
  <2>3. QED
    BY <1>1, <1>3, <2>1, <2>2
<1>7. CASE Rewind
  <2>1. PICK p \in Priority : cadence' = [cadence EXCEPT ![p] = RewindFinished(cadence[p])]
    BY <1>1, <1>7 DEF Rewind
  <2> DEFINE row == RewindFinished(cadence[p])
  <2>2. ASSUME NEW o \in Output
        PROVE  row[o] \in WideEntry /\ \A f \in Steered : row[o][f] = cadence[p][o][f]
    <3>1. row[o] = [cadence[p][o] EXCEPT !.cadPosition = 0] \/ row[o] = cadence[p][o]
      BY DEF RewindFinished
    <3>2. 0 \in UINT8
      BY DEF UINT8
    <3>3. QED
      BY <1>2, <3>1, <3>2, Played
  <2>3. row \in [Output -> WideEntry]
    BY <2>2 DEF RewindFinished
  <2> HIDE DEF row
  <2>4. cadence' = [cadence EXCEPT ![p] = row]
    BY <2>1 DEF row
  <2>5. QED
    BY <1>1, <2>2, <2>3, <2>4 DEF WideTable, SteeredKept
<1>8. CASE Held \/ Enter \/ Check \/ Dec \/ Play \/ ProcScan \/ ProcElect
  <2>1. cadence' = cadence
    BY <1>8 DEF Held, vars, Enter, Check, Dec, Play, ProcScan, ProcElect
  <2>2. QED
    BY <1>1, <2>1 DEF SteeredKept
<1>9. QED
  BY <1>4, <1>5, <1>6, <1>7, <1>8 DEF ProcBuzLedCad

\* Where the timer function goes on from.
LEMMA ProcFacts ==
  /\ Waiting \in Proc
  /\ \A label \in ProcLabel, o \in Output : proc \in Proc => At(label, o) \in Proc
<1>1. /\ BUZZER \in Output /\ MaxPriority \in Priority /\ 0 \in 0 .. INFINITE_CYCLE /\ 0 \in UINT8
      /\ {} \in SUBSET Priority
  BY TableAssumption DEF Output, Priority, INFINITE_CYCLE, UINT8
<1>2. Waiting \in Proc
  BY <1>1 DEF Waiting, Proc
<1>3. \A label \in ProcLabel, o \in Output : proc \in Proc => At(label, o) \in Proc
  BY <1>2 DEF At, Proc, ProcLabel
<1>4. QED
  BY <1>2, <1>3

LEMMA NextOutputType == proc \in Proc => NextOutput \in Proc
<1>1. proc \in Proc => proc.out \in Output /\ (proc.out < 2 => proc.out + 1 \in Output) /\ BUZZER \in Output
  BY DEF Proc, Output, BUZZER, RED_LED, GREEN_LED
<1>2. QED
  BY <1>1, ProcFacts DEF NextOutput, ProcLabel

\* The timer function keeps the types.
LEMMA ProcTypes ==
  ASSUME TypeOK, ProcBuzLedCad
  PROVE  TableTypeOK' /\ ProcTypeOK' /\ RestTypeOK'
<1>1. /\ cadence \in WideTable /\ CurrentPriority \in Priority /\ proc \in Proc
      /\ proc.prio \in Priority /\ proc.out \in Output /\ proc.cycles \in 0 .. INFINITE_CYCLE
      /\ proc.pos \in UINT8 /\ proc.found \subseteq Priority
      /\ Index \subseteq Priority
  BY TypeParts DEF TableTypeOK, ProcTypeOK, Proc, Index
<1>2. \A p \in Priority : /\ cadence[p][proc.out] \in WideEntry
                          /\ cadence[p][proc.out].noOfCycles \in 0 .. INFINITE_CYCLE
                          /\ cadence[p][proc.out].cadPosition \in UINT8
                          /\ Cycles(p) \subseteq 0 .. INFINITE_CYCLE
  BY <1>1 DEF WideTable, WideEntry, Cycles
<1>3. RestTypeOK'
  BY TypeParts DEF RestTypeOK, ProcBuzLedCad, Held, Enter, Check, Wrap, Dec, Store, Play, Bump, Rewind, ProcScan,
                   ProcElect, ProcUnchanged, vars
<1>4. TableTypeOK'
  <2>1. CurrentPriority' \in Priority
    BY <1>1 DEF ProcBuzLedCad, Held, Enter, Check, Wrap, Dec, Store, Play, Bump, Rewind, ProcScan, ProcElect,
                Assign, vars
  <2>2. QED
    BY <2>1, ProcTable DEF TableTypeOK, SteeredKept
<1>5. HighestActive(cadence) \in SUBSET Priority
  BY DEF HighestActive
<1>6. proc' \in Proc
  <2>1. CASE Held \/ ProcElect
    BY <1>1, <2>1, ProcFacts DEF Held, vars, ProcElect
  <2>2. CASE Enter
    BY <1>1, <2>2 DEF Enter, Proc
  <2>3. CASE Check
    <3>1. PICK p \in Priority :
            \/ proc' = [proc EXCEPT !.at = "wrap", !.prio = p, !.cycles = cadence[p][proc.out].noOfCycles]
            \/ proc' = NextOutput
      BY <1>1, <2>3 DEF Check
    <3> DEFINE n == cadence[p][proc.out].noOfCycles
    <3>2. n \in 0 .. INFINITE_CYCLE /\ "wrap" \in ProcLabel
      BY <1>2 DEF ProcLabel
    <3> HIDE DEF n
    <3>3. proc' = [proc EXCEPT !.at = "wrap", !.prio = p, !.cycles = n] \/ proc' = NextOutput
      BY <3>1 DEF n
    <3>4. QED
      BY <1>1, <3>2, <3>3, NextOutputType DEF Proc, ProcLabel
  <2>4. CASE Wrap
    <3>1. PICK p \in Priority, label \in ProcLabel : proc' = [proc EXCEPT !.at = label, !.prio = p]
      BY <1>1, <2>4 DEF Wrap, ProcLabel
    <3>2. QED
      BY <1>1, <3>1 DEF Proc, ProcLabel
  <2>5. CASE Dec
    <3>1. PICK p \in Priority, label \in ProcLabel, n \in 0 .. INFINITE_CYCLE :
            proc' = [proc EXCEPT !.at = label, !.prio = p, !.cycles = n]
      BY <1>1, <1>2, <2>5 DEF Dec, ProcLabel
    <3>2. QED
      BY <1>1, <3>1 DEF Proc, ProcLabel
  <2>6. CASE Store
    <3> DEFINE n == Decrement(proc.cycles)
    <3>1. n \in 0 .. INFINITE_CYCLE /\ "play" \in ProcLabel
      BY <1>1 DEF Decrement, INFINITE_CYCLE, ProcLabel
    <3> HIDE DEF n
    <3>2. proc' = [proc EXCEPT !.at = "play", !.cycles = n]
      BY <2>6 DEF Store, n
    <3>3. QED
      BY <1>1, <3>1, <3>2 DEF Proc, ProcLabel
  <2>7. CASE Play
    <3>1. PICK p \in Priority :
            \/ proc' = [proc EXCEPT !.at = "bump", !.prio = p, !.pos = cadence[p][proc.out].cadPosition]
            \/ proc' = NextOutput
      BY <1>1, <2>7 DEF Play
    <3> DEFINE k == cadence[p][proc.out].cadPosition
    <3>2. k \in UINT8 /\ "bump" \in ProcLabel
      BY <1>2 DEF ProcLabel
    <3> HIDE DEF k
    <3>3. proc' = [proc EXCEPT !.at = "bump", !.prio = p, !.pos = k] \/ proc' = NextOutput
      BY <3>1 DEF k
    <3>4. QED
      BY <1>1, <3>2, <3>3, NextOutputType DEF Proc, ProcLabel
  <2>8. CASE Bump
    BY <1>1, <2>8, NextOutputType DEF Bump
  <2>9. CASE Rewind
    <3>1. BUZZER \in Output /\ "scan" \in ProcLabel
      BY DEF Output, ProcLabel
    <3>2. QED
      BY <1>1, <2>9, <3>1, ProcFacts DEF Rewind
  <2>10. CASE ProcScan
    BY <1>1, <1>5, <2>10 DEF ProcScan, Proc
  <2>11. QED
    BY <2>1, <2>2, <2>3, <2>4, <2>5, <2>6, <2>7, <2>8, <2>9, <2>10 DEF ProcBuzLedCad
<1>7. QED
  BY <1>3, <1>4, <1>6 DEF ProcTypeOK

\* GpioModInit and the first MXGPIO_SET_CADENCE leave a table.
LEMMA InitTypes == Init => TypeOK
<1> SUFFICES ASSUME Init PROVE TypeOK
  OBVIOUS
<1>1. cadence \in WideTable /\ CurrentPriority \in Priority
  <2>1. PICK r \in Resp :
          /\ cadence = [p \in Priority |-> [o \in Output |->
                          CASE p = accessRespCadPriority[r] -> NewEntry(r, o)
                            [] p = MaxPriority /\ r # IdleResp -> NewEntry(IdleResp, o)
                            [] OTHER -> ZeroEntry]]
          /\ CurrentPriority = accessRespCadPriority[r]
    BY DEF Init
  <2>2. \A p \in Priority, o \in Output : cadence[p][o] \in {NewEntry(r, o), NewEntry(IdleResp, o), ZeroEntry}
    BY <2>1
  <2>3. \A p \in Priority, o \in Output : cadence[p][o] \in WideEntry
    BY <2>2, EntryFacts, TableAssumption
  <2>4. cadence = [p \in Priority |-> [o \in Output |-> cadence[p][o]]]
    BY <2>1
  <2>5. QED
    BY <2>1, <2>3, <2>4, TableAssumption DEF WideTable
<1>2. call \in [Client -> Call] /\ proc \in Proc
  BY NoCallFacts, ProcFacts DEF Init
<1>3. RestTypeOK
  <2>1. ops \in 0 .. MaxOps
    BY OpsAssumption DEF Init
  <2>2. QED
    BY <2>1 DEF Init, RestTypeOK
<1>4. QED
  BY <1>1, <1>2, <1>3, TypeParts DEF TableTypeOK, ProcTypeOK

\* Every step keeps the types.
LEMMA TypeStep == TypeOK /\ IInv /\ [Next]_vars => TypeOK'
<1> SUFFICES ASSUME TypeOK, IInv, [Next]_vars PROVE TypeOK'
  OBVIOUS
<1>1. call' \in [Client -> Call]
  BY NextInv DEF IInv
<1>2. TableTypeOK' /\ ProcTypeOK' /\ RestTypeOK'
  <2>1. TableTypeOK /\ ProcTypeOK /\ RestTypeOK
    BY TypeParts
  <2>2. ASSUME NEW c \in Client, NEW op, NEW r, Start(c, op, r) PROVE TableTypeOK' /\ ProcTypeOK' /\ RestTypeOK'
    <3>1. ops' \in 0 .. MaxOps /\ apart' \subseteq Client
      BY <2>1, <2>2, OpsAssumption DEF Start, RestTypeOK
    <3>2. QED
      BY <2>1, <2>2, <3>1 DEF Start, TableTypeOK, ProcTypeOK, RestTypeOK
  <2>3. ASSUME NEW c \in Client, Ioctl(c) PROVE TableTypeOK' /\ ProcTypeOK' /\ RestTypeOK'
    BY <2>3, IoctlTypes
  <2>4. CASE SyncBuzLedCad \/ UNCHANGED vars
    BY <2>1, <2>4 DEF SyncBuzLedCad, vars, TableTypeOK, ProcTypeOK, RestTypeOK
  <2>5. CASE ProcBuzLedCad
    BY <2>5, ProcTypes
  <2>6. QED
    BY <2>2, <2>3, <2>4, <2>5 DEF Next
<1>3. QED
  BY <1>1, <1>2 DEF TypeOK, TableTypeOK, ProcTypeOK, RestTypeOK, WideTable

\* Whatever the two programs do between each other's stores, every field keeps
\* to its width and the current priority to the table.
THEOREM TypeCorrect == Spec => []TypeOK
BY InitInv, NextInv, InitTypes, TypeStep, PTL DEF Spec

-----------------------------------------------------------------------------
(* A set is complete.                                                      *)

\* Field f of the n-th output of response r is in the table.
Filled(tab, r, n, f) ==
  tab[accessRespCadPriority[r]][OutputOrder[n]][f] = NewEntry(r, OutputOrder[n])[f]

\* A set into whose row nobody else stores has filled the outputs before the
\* one it is at, and of that one the fields before the one it is at; of the
\* fields the timer function leaves alone nothing is lost again.
Progress(tab, k) ==
  /\ \A n \in 1 .. k.out - 1, f \in Steered : Filled(tab, k.resp, n, f)
  /\ \A i \in 1 .. 5 :
       (i < k.field \/ k.at \notin {"flag", "store"}) /\ FillOrder[i] \in Steered
         => Filled(tab, k.resp, k.out, FillOrder[i])

SetInv == \A c \in apart : call[c].op = "set" => Progress(cadence, call[c])

\* The outputs and the fields are stored one after the other.
LEMMA OrderDistinct ==
  /\ \A m, n \in 1 .. 3 : m # n => OutputOrder[m] # OutputOrder[n]
  /\ \A i, j \in 1 .. 5 : i # j => FillOrder[i] # FillOrder[j]
  /\ \A f \in Steered : \E i \in 1 .. 5 : FillOrder[i] = f
  /\ \A o \in Output : \E n \in 1 .. 3 : OutputOrder[n] = o
  /\ Steered \subseteq Field
<1>1. OutputOrder[1] = RED_LED /\ OutputOrder[2] = GREEN_LED /\ OutputOrder[3] = BUZZER
  BY DEF OutputOrder
<1>2. /\ FillOrder[1] = "accessResp" /\ FillOrder[2] = "buzLedCad" /\ FillOrder[3] = "noOfCycles"
      /\ FillOrder[4] = "cadBits" /\ FillOrder[5] = "cadPosition"
  BY DEF FillOrder
<1>3. \A n \in 1 .. 3 : n = 1 \/ n = 2 \/ n = 3
  OBVIOUS
<1>4. \A i \in 1 .. 5 : i = 1 \/ i = 2 \/ i = 3 \/ i = 4 \/ i = 5
  OBVIOUS
<1>5. 1 \in 1 .. 3 /\ 2 \in 1 .. 3 /\ 3 \in 1 .. 3 /\ 1 \in 1 .. 5 /\ 2 \in 1 .. 5 /\ 4 \in 1 .. 5
  OBVIOUS
<1>6. \A m, n \in 1 .. 3 : m # n => OutputOrder[m] # OutputOrder[n]
  BY <1>1, <1>3 DEF RED_LED, GREEN_LED, BUZZER
<1>7. \A i, j \in 1 .. 5 : i # j => FillOrder[i] # FillOrder[j]
  BY <1>2, <1>4
<1>8. \A o \in Output : \E n \in 1 .. 3 : OutputOrder[n] = o
  BY <1>1, <1>5 DEF Output
<1>9. \A f \in Steered : \E i \in 1 .. 5 : FillOrder[i] = f
  BY <1>2, <1>5 DEF Steered
<1>10. QED
  BY <1>6, <1>7, <1>8, <1>9 DEF Steered, Field

\* A step that leaves the row of a set alone, but for cycles and positions,
\* keeps its progress.
LEMMA ProgressKept ==
  ASSUME NEW k \in Call,
         \A o \in Output, f \in Steered :
           cadence'[accessRespCadPriority[k.resp]][o][f] = cadence[accessRespCadPriority[k.resp]][o][f],
         Progress(cadence, k)
  PROVE  Progress(cadence', k)
<1>1. k.out \in 1 .. 3 /\ \A n \in 1 .. k.out - 1 : n \in 1 .. 3
  BY DEF Call
<1>2. \A n \in 1 .. 3, f \in Steered : Filled(cadence, k.resp, n, f) => Filled(cadence', k.resp, n, f)
  BY OrderRange DEF Filled
<1>3. QED
  BY <1>1, <1>2 DEF Progress

\* A step of another application.
LEMMA OthersStep ==
  ASSUME TypeOK, SetInv, NEW c \in Client, NEW p \in Priority, NEW o \in Output, NEW e \in WideEntry,
         StoreEntry(p, o, e), Disturb(c, p),
         NEW d \in apart', d # c, call'[d] = call[d], call[d].op = "set"
  PROVE  Progress(cadence', call'[d])
<1>1. d \in apart /\ d \in Client /\ call[d] \in Call
  BY DEF Disturb, TypeOK
<1>2. accessRespCadPriority[call[d].resp] # p
  BY <1>1 DEF Disturb
<1>3. accessRespCadPriority[call[d].resp] \in Priority
  BY <1>1, TableAssumption DEF Call
<1>4. \A i \in Output : cadence'[accessRespCadPriority[call[d].resp]][i] = cadence[accessRespCadPriority[call[d].resp]][i]
  BY <1>2, <1>3, TypeParts, Stored DEF TableTypeOK
<1>5. Progress(cadence, call[d])
  BY <1>1 DEF SetInv
<1>6. QED
  BY <1>1, <1>4, <1>5, ProgressKept

\* The store of a set brings it on by a field.
LEMMA FillProgress ==
  ASSUME TypeOK, IInv, SetInv, NEW c \in apart, c \in Client, StoreFill(c)
  PROVE  Progress(cadence', call'[c])
<1> DEFINE k == call[c]
           r == k.resp
           p == accessRespCadPriority[r]
           o == OutputOrder[k.out]
           f == FillOrder[k.field]
           e == WithField(cadence[p][o], f, NewEntry(r, o))
<1>1. k \in Call /\ k.op = "set" /\ k.at = "store" /\ r \in Resp /\ k.out \in 1 .. 3 /\ k.field \in 1 .. 5
  BY DEF TypeOK, StoreFill, Call
<1>2. p \in Priority /\ o \in Output /\ f \in Field /\ NewEntry(r, o) \in WideEntry
  BY <1>1, OrderRange, EntryFacts, TableAssumption
<1>3. cadence \in WideTable /\ cadence[p][o] \in WideEntry
  BY <1>2, TypeParts DEF TableTypeOK, WideTable
<1>4. /\ e \in WideEntry /\ e[f] = NewEntry(r, o)[f]
      /\ \A g \in Field : g # f => e[g] = cadence[p][o][g]
  <2> DEFINE old == cadence[p][o]
             new == NewEntry(r, o)
  <2>1. old \in WideEntry /\ new \in WideEntry /\ f \in Field /\ e = WithField(old, f, new)
    BY <1>2, <1>3
  <2> HIDE DEF old, new, f, e
  <2>2. e \in WideEntry /\ e[f] = new[f] /\ \A g \in Field : g # f => e[g] = old[g]
    BY <2>1, FieldStored
  <2>3. QED
    BY <2>2 DEF old, new
<1>5. StoreEntry(p, o, e)
  BY DEF StoreFill, StoreEntry, WithField
<1>6. cadence'[p][o] = e /\ \A i \in Output : i # o => cadence'[p][i] = cadence[p][i]
  <2> HIDE DEF p, o, e
  <2>1. QED
    BY <1>2, <1>3, <1>4, <1>5, Stored
<1>7. /\ call'[c].resp = r /\ call'[c].out = k.out
      /\ k.field = 5 => call'[c].field = 1 /\ call'[c].at = "scan"
      /\ k.field # 5 => call'[c].field = k.field + 1 /\ call'[c].at = "store"
  <2>1. /\ call' = [call EXCEPT ![c].field = IF k.field = 5 THEN 1 ELSE @ + 1,
                                ![c].at = IF k.field = 5 THEN "scan" ELSE "store"]
        /\ call \in [Client -> Call]
    BY OrderFacts DEF StoreFill, TypeOK
  <2>2. QED
    BY <1>1, <2>1 DEF Call
<1>8. Progress(cadence, k)
  BY <1>1 DEF SetInv
<1>9. \A n \in 1 .. k.out - 1, g \in Steered : Filled(cadence', r, n, g)
  <2> SUFFICES ASSUME NEW n \in 1 .. k.out - 1, NEW g \in Steered PROVE Filled(cadence', r, n, g)
    OBVIOUS
  <2>1. OutputOrder[n] \in Output /\ OutputOrder[n] # o
    BY <1>1, OrderRange, OrderDistinct
  <2>2. Filled(cadence, r, n, g)
    BY <1>8 DEF Progress
  <2>3. QED
    BY <1>6, <2>1, <2>2 DEF Filled
<1>10. \A i \in 1 .. 5 : i <= k.field /\ FillOrder[i] \in Steered => Filled(cadence', r, k.out, FillOrder[i])
  <2> SUFFICES ASSUME NEW i \in 1 .. 5, i <= k.field, FillOrder[i] \in Steered
               PROVE  Filled(cadence', r, k.out, FillOrder[i])
    OBVIOUS
  <2>1. CASE i = k.field
    BY <1>4, <1>6, <2>1 DEF Filled
  <2>2. CASE i < k.field
    <3>1. FillOrder[i] # f /\ FillOrder[i] \in Field
      BY <1>1, <2>2, OrderDistinct, OrderRange
    <3>2. Filled(cadence, r, k.out, FillOrder[i])
      BY <1>8, <2>2 DEF Progress
    <3>3. QED
      BY <1>4, <1>6, <3>1, <3>2 DEF Filled
  <2>3. QED
    BY <1>1, <2>1, <2>2
<1>11. \A i \in 1 .. 5 : i < call'[c].field \/ call'[c].at \notin {"flag", "store"} => i <= k.field
  BY <1>1, <1>7
<1>12. QED
  BY <1>7, <1>9, <1>10, <1>11 DEF Progress

\* A step of an ioctl keeps the progress of every set.
LEMMA SetIoctl ==
  ASSUME TypeOK, IInv, SetInv, NEW c \in Client, Ioctl(c)
  PROVE  SetInv'
<1>1. call \in [Client -> Call] /\ call[c] \in Call /\ apart \subseteq Client /\ CurrentPriority \in Priority
  BY DEF TypeOK
<1>2. \A d \in Client : d # c => call'[d] = call[d]
  BY <1>1 DEF Ioctl, Hold, Goto, StoreFill, StoreClear, Scan, Elect, Arm, Returned
<1>3. CASE StoreFill(c)
  <2> DEFINE p == accessRespCadPriority[call[c].resp]
             o == OutputOrder[call[c].out]
             f == FillOrder[call[c].field]
             old == cadence[p][o]
             new == NewEntry(call[c].resp, o)
             e == WithField(old, f, new)
  <2>1. call[c].resp \in Resp /\ call[c].out \in 1 .. 3 /\ call[c].field \in 1 .. 5
    BY <1>1 DEF Call
  <2>2. p \in Priority /\ o \in Output /\ f \in Field /\ new \in WideEntry
    BY <2>1, OrderRange, EntryFacts, TableAssumption
  <2>3. old \in WideEntry
    BY <2>2, TypeParts DEF TableTypeOK, WideTable
  <2>4. StoreEntry(p, o, e) /\ Disturb(c, p)
    BY <1>3 DEF StoreFill, StoreEntry, WithField
  <2>5. apart' \subseteq apart
    BY <2>4 DEF Disturb
  <2>6. c \in apart' => Progress(cadence', call'[c])
    BY <1>3, <2>5, FillProgress
  <2> HIDE DEF p, o, f, old, new
  <2>7. e \in WideEntry
    BY <2>2, <2>3, FieldStored
  <2> HIDE DEF e
  <2>8. ASSUME NEW d \in apart', d # c, call'[d].op = "set" PROVE Progress(cadence', call'[d])
    BY <1>1, <1>2, <2>2, <2>4, <2>5, <2>7, <2>8, OthersStep
  <2>9. QED
    BY <2>6, <2>8 DEF SetInv
<1>4. CASE StoreClear(c)
  <2> DEFINE p == CurrentPriority
             o == OutputOrder[call[c].out]
             f == ClearOrder[call[c].field]
             old == cadence[p][o]
             new == OffEntry(old, 0)
             e == WithField(old, f, new)
  <2>1. call[c].op = "clear" /\ call[c].out \in 1 .. 3 /\ call[c].field \in 1 .. 4
    BY <1>1, <1>4 DEF StoreClear, Call, IInv, PlaceInv
  <2>2. o \in Output /\ f \in Field
    BY <2>1, OrderRange
  <2>3. old \in WideEntry
    BY <1>1, <2>2, TypeParts DEF TableTypeOK, WideTable
  <2>4. new \in WideEntry
    BY <2>3, EntryFacts
  <2>5. StoreEntry(p, o, e) /\ Disturb(c, p)
    BY <1>4 DEF StoreClear, StoreEntry, WithField
  <2>6. apart' \subseteq apart
    BY <2>5 DEF Disturb
  <2>7. call'[c].op # "set"
    BY <1>1, <1>4, <2>1 DEF StoreClear, Call
  <2> HIDE DEF o, f, old, new
  <2>8. e \in WideEntry
    BY <2>2, <2>3, <2>4, FieldStored
  <2> HIDE DEF e
  <2>9. ASSUME NEW d \in apart', d # c, call'[d].op = "set" PROVE Progress(cadence', call'[d])
    BY <1>1, <1>2, <2>2, <2>5, <2>6, <2>8, <2>9, OthersStep
  <2>10. QED
    BY <2>7, <2>9 DEF SetInv
<1>5. CASE Hold(c) \/ Scan(c) \/ Elect(c)
  <2>1. /\ cadence' = cadence /\ apart' = apart
        /\ call'[c].op = call[c].op /\ call'[c].resp = call[c].resp
        /\ call'[c].out = call[c].out /\ call'[c].field = call[c].field
        /\ call[c].at \in {"flag", "store"} => call'[c].at \in {"flag", "store"}
    BY <1>1, <1>5 DEF Hold, Goto, Scan, Elect, Call
  <2>2. c \in apart /\ call[c].op = "set" => Progress(cadence', call'[c])
    BY <2>1 DEF SetInv, Progress
  <2>3. QED
    BY <1>1, <1>2, <2>1, <2>2 DEF SetInv
<1>6. CASE Arm(c)
  <2>1. cadence' = cadence /\ apart' = apart /\ call[c].at = "arm" /\ Returned(c)
    BY <1>6 DEF Arm
  <2>2. ASSUME c \in apart, call'[c].op = "set" PROVE Progress(cadence', call'[c])
    <3>1. call[c].op = "set" /\ call[c].out < 3
          /\ call'[c] = [NoCall EXCEPT !.op = "set", !.resp = call[c].resp, !.out = call[c].out + 1]
      BY <1>1, <2>1, <2>2, NoCallFacts DEF Returned
    <3>2. /\ call'[c].resp = call[c].resp /\ call'[c].out = call[c].out + 1
          /\ call'[c].field = 1 /\ call'[c].at = "flag"
      BY <3>1 DEF NoCall
    <3>3. Progress(cadence, call[c])
      BY <2>2, <3>1 DEF SetInv
    <3>4. \A f \in Steered : Filled(cadence, call[c].resp, call[c].out, f)
      BY <2>1, <3>3, OrderDistinct DEF Progress
    <3>5. \A n \in 1 .. call[c].out, f \in Steered : Filled(cadence, call[c].resp, n, f)
      <4>1. \A n \in 1 .. call[c].out : n = call[c].out \/ n \in 1 .. call[c].out - 1
        BY <1>1 DEF Call
      <4>2. QED
        BY <3>3, <3>4, <4>1 DEF Progress
    <3>6. call[c].out \in 1 .. 3 /\ (call[c].out + 1) - 1 = call[c].out
      BY <1>1 DEF Call
    <3>7. QED
      BY <2>1, <3>2, <3>5, <3>6 DEF Progress
  <2>3. QED
    BY <1>1, <1>2, <2>1, <2>2 DEF SetInv
<1>7. QED
  BY <1>3, <1>4, <1>5, <1>6 DEF Ioctl

\* Every step does.
LEMMA SetStep == TypeOK /\ IInv /\ SetInv /\ [Next]_vars => SetInv'
<1> SUFFICES ASSUME TypeOK, IInv, SetInv, [Next]_vars PROVE SetInv'
  OBVIOUS
<1>1. call \in [Client -> Call] /\ apart \subseteq Client
  BY DEF TypeOK
<1>2. ASSUME NEW c \in Client, NEW op \in {"set", "clear"}, NEW r \in Resp, Start(c, op, r) PROVE SetInv'
  <2> DEFINE new == [NoCall EXCEPT !.op = op, !.resp = r]
  <2>1. cadence' = cadence /\ apart' = apart \union {c} /\ call' = [call EXCEPT ![c] = new]
    BY <1>2 DEF Start
  <2>2. new.field = 1 /\ new.at = "flag" /\ new.out = 1
    BY DEF NoCall
  <2> HIDE DEF new
  <2>3. Progress(cadence, new)
    BY <2>2 DEF Progress
  <2>4. call'[c] = new /\ \A d \in Client : d # c => call'[d] = call[d]
    BY <1>1, <2>1
  <2>5. QED
    BY <1>1, <2>1, <2>3, <2>4 DEF SetInv
<1>3. ASSUME NEW c \in Client, Ioctl(c) PROVE SetInv'
  BY <1>3, SetIoctl
<1>4. CASE ProcBuzLedCad
  <2>1. call' = call /\ apart' = apart
    BY <1>4 DEF ProcBuzLedCad, Held, Enter, Check, Wrap, Dec, Store, Play, Bump, Rewind, ProcScan, ProcElect,
                ProcUnchanged, vars
  <2>2. ASSUME NEW c \in apart, call[c].op = "set" PROVE Progress(cadence', call[c])
    <3>1. call[c] \in Call /\ accessRespCadPriority[call[c].resp] \in Priority
      BY <1>1, TableAssumption DEF Call
    <3>2. Progress(cadence, call[c])
      BY <2>2 DEF SetInv
    <3>3. SteeredKept
      BY <1>4, ProcTable
    <3>4. QED
      BY <3>1, <3>2, <3>3, ProgressKept DEF SteeredKept
  <2>3. QED
    BY <2>1, <2>2 DEF SetInv
<1>5. CASE SyncBuzLedCad \/ UNCHANGED vars
  BY <1>5 DEF SyncBuzLedCad, vars, SetInv
<1>6. QED
  BY <1>2, <1>3, <1>4, <1>5, TableAssumption DEF Next

\* MXGPIO_SET_CADENCE leaves its response on all the outputs, however the
\* timer function and the ioctls of other rows interleave with its stores.
THEOREM SetsComplete == Spec => SetIsComplete
<1>1. TypeOK /\ IInv /\ SetInv /\ [Next]_vars =>
        [\A c \in Client :
           call[c].op = "set" /\ call'[c].op = "none" /\ c \in apart =>
             \A o \in Output :
               LET r == call[c].resp
                   e == cadence'[accessRespCadPriority[r]][o]
               IN
               /\ e.accessResp = r
               /\ e.buzLedCad = accessRespCadMap[r][o]
               /\ e.cadBits = accessRespCadBits[r][o]]_vars
  <2> SUFFICES ASSUME TypeOK, IInv, SetInv, [Next]_vars,
                      NEW c \in Client, call[c].op = "set", call'[c].op = "none", c \in apart, NEW o \in Output
               PROVE  LET r == call[c].resp
                          e == cadence'[accessRespCadPriority[r]][o]
                      IN
                      /\ e.accessResp = r
                      /\ e.buzLedCad = accessRespCadMap[r][o]
                      /\ e.cadBits = accessRespCadBits[r][o]
    OBVIOUS
  <2>1. call \in [Client -> Call] /\ call[c] \in Call
    BY DEF TypeOK
  <2>2. call[c].out = 3 /\ call[c].at = "arm" /\ cadence' = cadence
    <3>1. call' # call
      OBVIOUS
    <3>2. ~SyncBuzLedCad /\ ~UNCHANGED vars /\ ~ProcBuzLedCad
      BY <3>1 DEF SyncBuzLedCad, vars, ProcBuzLedCad, Held, Enter, Check, Wrap, Dec, Store, Play, Bump, Rewind,
                  ProcScan, ProcElect, ProcUnchanged
    <3>3. \A d \in Client, op \in {"set", "clear"}, r \in Resp : ~Start(d, op, r)
      <4> SUFFICES ASSUME NEW d \in Client, NEW op \in {"set", "clear"}, NEW r \in Resp, Start(d, op, r) PROVE FALSE
        OBVIOUS
      <4>1. d # c /\ call'[c] = call[c]
        BY <2>1 DEF Start
      <4>2. QED
        BY <4>1
    <3>4. PICK d \in Client : Ioctl(d)
      BY <3>2, <3>3, TableAssumption DEF Next
    <3>5. d = c
      BY <2>1, <3>4 DEF Ioctl, Hold, Goto, StoreFill, StoreClear, Scan, Elect, Arm, Returned
    <3>6. Arm(c)
      BY <2>1, <3>4, <3>5 DEF Ioctl, Hold, Goto, StoreFill, StoreClear, Scan, Elect, Call
    <3>7. ~(call[c].out < 3)
      BY <2>1, <3>6 DEF Arm, Returned, NoCall
    <3>8. QED
      BY <2>1, <3>6, <3>7 DEF Arm, Call
  <2>3. PICK n \in 1 .. 3 : OutputOrder[n] = o
    BY OrderDistinct
  <2>4. Progress(cadence, call[c])
    BY DEF SetInv
  <2>5. \A f \in Steered : Filled(cadence, call[c].resp, n, f)
    <3>1. n = 3 \/ n \in 1 .. 3 - 1
      OBVIOUS
    <3>2. QED
      BY <2>2, <2>4, <3>1, OrderDistinct DEF Progress
  <2>6. QED
    BY <2>2, <2>3, <2>5 DEF Filled, NewEntry, Steered
<1>2. Init => SetInv
  BY NoCallFacts DEF Init, SetInv
<1>3. QED
  BY <1>1, <1>2, InitInv, NextInv, InitTypes, TypeStep, SetStep, PTL DEF Spec, SetIsComplete

=============================================================================
