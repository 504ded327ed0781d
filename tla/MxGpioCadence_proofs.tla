------------------------ MODULE MxGpioCadence_proofs ------------------------
(***************************************************************************)
(* Safety of the cadence part of the driver for any table of responses,    *)
(* any number of priorities and of clients: types, no underflow of the     *)
(* cycles, the most urgent response is played, and the simulation of       *)
(* CadenceArbiter.                                                         *)
(***************************************************************************)
EXTENDS MxGpioCadence, TLAPS

-----------------------------------------------------------------------------
(* Lemmas about entries and rows of the table.                             *)

\* FillStructOfLedBuz writes an entry that has something to play.
LEMMA NewEntryFacts ==
  ASSUME NEW r \in Resp, NEW o \in Output
  PROVE  /\ NewEntry(r, o) \in Entry
         /\ NewEntry(r, o).noOfCycles = accessRespCadCycles[r][o]
         /\ NewEntry(r, o).accessResp = r
         /\ NewEntry(r, o).noOfCycles > 0
<1>1. /\ accessRespCadMap[r][o] \in SUBSET Slot
      /\ accessRespCadCycles[r][o] \in 1 .. INFINITE_CYCLE
      /\ accessRespCadBits[r][o] \in 1 .. 15
  BY TableAssumption
<1>2. QED
  BY <1>1 DEF NewEntry, Entry, Slot, INFINITE_CYCLE

LEMMA ZeroEntryFacts == ZeroEntry \in Entry /\ ZeroEntry.noOfCycles = 0
BY TableAssumption DEF ZeroEntry, Entry, Slot, INFINITE_CYCLE, CAD_OFF

\* Playing a slot keeps the owner, never brings an output back to life and
\* never makes a finite output infinite.
LEMMA PlayEntryFacts ==
  ASSUME NEW e \in Entry
  PROVE  /\ PlayEntry(e) \in Entry
         /\ PlayEntry(e).accessResp = e.accessResp
         /\ PlayEntry(e).noOfCycles > 0 => e.noOfCycles > 0
         /\ PlayEntry(e).noOfCycles = INFINITE_CYCLE => e.noOfCycles = INFINITE_CYCLE
<1>1. /\ e.noOfCycles \in 0 .. INFINITE_CYCLE /\ e.cadPosition \in Slot
      /\ e.cadBits \in 0 .. 15 /\ e.accessResp \in Resp /\ e.buzLedCad \in SUBSET Slot
  BY DEF Entry
<1>2. CASE e.noOfCycles = 0
  BY <1>2 DEF PlayEntry, INFINITE_CYCLE
<1>3. CASE e.noOfCycles > 0
  <2>1. /\ CyclesAfterWrap(e) \in 0 .. INFINITE_CYCLE
        /\ CyclesAfterWrap(e) = INFINITE_CYCLE => e.noOfCycles = INFINITE_CYCLE
    BY <1>1, <1>3 DEF CyclesAfterWrap, Decrement, INFINITE_CYCLE
  <2>2. PositionAfterWrap(e) \in 0 .. 14
    BY <1>1 DEF PositionAfterWrap, Wrapped, Slot
  <2>3. PositionAfterWrap(e) + (IF Plays(e) THEN 1 ELSE 0) \in Slot
    BY <2>2 DEF Slot
  <2>4. PlayEntry(e) =
          [e EXCEPT !.noOfCycles = CyclesAfterWrap(e),
                    !.cadPosition = PositionAfterWrap(e) + (IF Plays(e) THEN 1 ELSE 0)]
    BY <1>1, <1>3 DEF PlayEntry
  <2>5. QED
    BY <1>3, <2>1, <2>3, <2>4 DEF Entry
<1>4. QED
  BY <1>1, <1>2, <1>3 DEF INFINITE_CYCLE

\* The same of the three outputs of a priority.
LEMMA PlayRowFacts ==
  ASSUME NEW row \in [Output -> Entry]
  PROVE  /\ PlayRow(row) \in [Output -> Entry]
         /\ \A o \in Output :
              /\ PlayRow(row)[o].accessResp = row[o].accessResp
              /\ PlayRow(row)[o].noOfCycles > 0 => row[o].noOfCycles > 0
              /\ PlayRow(row)[o].noOfCycles = INFINITE_CYCLE => row[o].noOfCycles = INFINITE_CYCLE
<1> DEFINE played == [o \in Output |-> PlayEntry(row[o])]
<1>1. \A o \in Output : row[o] \in Entry
  OBVIOUS
<1>2. \A o \in Output :
        /\ played[o] \in Entry
        /\ played[o].accessResp = row[o].accessResp
        /\ played[o].noOfCycles > 0 => row[o].noOfCycles > 0
        /\ played[o].noOfCycles = INFINITE_CYCLE => row[o].noOfCycles = INFINITE_CYCLE
  BY <1>1, PlayEntryFacts
<1>3. \A o \in Output :
        \/ RewindFinished(played)[o] = played[o]
        \/ RewindFinished(played)[o] = [played[o] EXCEPT !.cadPosition = 0]
  BY DEF RewindFinished
<1>4. \A o \in Output :
        /\ RewindFinished(played)[o] \in Entry
        /\ RewindFinished(played)[o].noOfCycles = played[o].noOfCycles
        /\ RewindFinished(played)[o].accessResp = played[o].accessResp
  <2>1. ASSUME NEW e \in Entry
        PROVE  /\ [e EXCEPT !.cadPosition = 0] \in Entry
               /\ [e EXCEPT !.cadPosition = 0].noOfCycles = e.noOfCycles
               /\ [e EXCEPT !.cadPosition = 0].accessResp = e.accessResp
    BY DEF Entry, Slot
  <2> HIDE DEF played
  <2>2. QED
    BY <1>2, <1>3, <2>1
<1>5. RewindFinished(played) \in [Output -> Entry]
  BY <1>4 DEF RewindFinished
<1>6. QED
  BY <1>2, <1>4, <1>5 DEF PlayRow

\* An entry that a clear has been at keeps its owner, and plays for ever only
\* if it did before.
Cleared(e, f) ==
  /\ f \in Entry
  /\ f.accessResp = e.accessResp
  /\ f.noOfCycles = INFINITE_CYCLE => e.noOfCycles = INFINITE_CYCLE

LEMMA OffEntryFacts ==
  ASSUME NEW e \in Entry, NEW n \in {0, 1}
  PROVE  Cleared(e, OffEntry(e, n)) /\ Cleared(e, [e EXCEPT !.noOfCycles = n])
<1>1. /\ OffEntry(e, n).accessResp = e.accessResp
      /\ OffEntry(e, n).noOfCycles = n
      /\ OffEntry(e, n) \in Entry
  <2>1. {} \in SUBSET Slot /\ 1 \in 0 .. 15 /\ 0 \in Slot /\ n \in 0 .. INFINITE_CYCLE
    BY DEF Slot, INFINITE_CYCLE
  <2>2. QED
    BY <2>1 DEF OffEntry, Entry, CAD_OFF, CAD_OFF_CAD_BITS
<1>2. QED
  BY <1>1 DEF Cleared, Entry, INFINITE_CYCLE

\* The led half of ClearCadence keeps the owner of every entry and makes none
\* infinite.
LEMMA ClearLedFacts ==
  ASSUME NEW tab \in Table, NEW current \in Priority, NEW led \in Selector
  PROVE  /\ ClearLed(tab, current, led) \in Table
         /\ \A p \in Priority, o \in Output : Cleared(tab[p][o], ClearLed(tab, current, led)[p][o])
<1> DEFINE new == ClearLed(tab, current, led)
<1>1. \A p \in Priority, o \in Output : tab[p][o] \in Entry
  BY DEF Table
<1>2. \A p \in Priority : \A S :
        /\ ClearLedsOfRow(tab[p], S) \in [Output -> Entry]
        /\ \A o \in Output : Cleared(tab[p][o], ClearLedsOfRow(tab[p], S)[o])
  <2> SUFFICES ASSUME NEW p \in Priority, NEW S
               PROVE  \A o \in Output : Cleared(tab[p][o], ClearLedsOfRow(tab[p], S)[o])
    BY DEF Cleared, ClearLedsOfRow
  <2>1. \A o \in Output :
          \/ ClearLedsOfRow(tab[p], S)[o] = OffEntry(tab[p][o], 1)
          \/ ClearLedsOfRow(tab[p], S)[o] = [tab[p][o] EXCEPT !.noOfCycles = 0]
          \/ ClearLedsOfRow(tab[p], S)[o] = tab[p][o]
    BY DEF ClearLedsOfRow
  <2>2. \A o \in Output : Cleared(tab[p][o], tab[p][o])
    BY <1>1 DEF Cleared
  <2>3. QED
    BY <1>1, <2>1, <2>2, OffEntryFacts
<1>3. \A p \in Priority :
        LET row == [o \in Output |-> IF o \in Led THEN OffEntry(tab[p][o], 0) ELSE tab[p][o]] IN
        row \in [Output -> Entry] /\ \A o \in Output : Cleared(tab[p][o], row[o])
  BY <1>1, OffEntryFacts DEF Cleared
<1>4. \A p \in Priority :
        /\ tab[p] \in [Output -> Entry]
        /\ \A o \in Output : Cleared(tab[p][o], tab[p][o])
  BY <1>1 DEF Cleared, Table
<1>5. \A p \in Priority :
        /\ new[p] \in [Output -> Entry]
        /\ \A o \in Output : Cleared(tab[p][o], new[p][o])
  BY <1>2, <1>3, <1>4 DEF ClearLed
<1>6. new \in Table
  BY <1>5 DEF Table, ClearLed
<1>7. QED
  BY <1>5, <1>6

\* So does the buzzer half.
LEMMA ClearBuzzerFacts ==
  ASSUME NEW tab \in Table, NEW current \in Priority, NEW buz \in Selector
  PROVE  /\ ClearBuzzer(tab, current, buz) \in Table
         /\ \A p \in Priority, o \in Output : Cleared(tab[p][o], ClearBuzzer(tab, current, buz)[p][o])
<1> DEFINE new == ClearBuzzer(tab, current, buz)
<1>1. \A p \in Priority, o \in Output : tab[p][o] \in Entry
  BY DEF Table
<1>2. \A p \in Priority :
        /\ ClearBuzzerOfRow(tab[p]) \in [Output -> Entry]
        /\ \A o \in Output : Cleared(tab[p][o], ClearBuzzerOfRow(tab[p])[o])
  <2> SUFFICES ASSUME NEW p \in Priority
               PROVE  \A o \in Output : Cleared(tab[p][o], ClearBuzzerOfRow(tab[p])[o])
    BY DEF Cleared, ClearBuzzerOfRow
  <2>1. \A o \in Output :
          \/ ClearBuzzerOfRow(tab[p])[o] = OffEntry(tab[p][o], 1)
          \/ ClearBuzzerOfRow(tab[p])[o] = [tab[p][o] EXCEPT !.noOfCycles = 0]
          \/ ClearBuzzerOfRow(tab[p])[o] = tab[p][o]
    BY DEF ClearBuzzerOfRow
  <2>2. \A o \in Output : Cleared(tab[p][o], tab[p][o])
    BY <1>1 DEF Cleared
  <2>3. QED
    BY <1>1, <2>1, <2>2, OffEntryFacts
<1>3. \A p \in Priority :
        LET row == [tab[p] EXCEPT ![BUZZER] = OffEntry(tab[p][BUZZER], 0)] IN
        row \in [Output -> Entry] /\ \A o \in Output : Cleared(tab[p][o], row[o])
  BY <1>1, OffEntryFacts DEF Cleared, Table
<1>4. \A p \in Priority :
        /\ tab[p] \in [Output -> Entry]
        /\ \A o \in Output : Cleared(tab[p][o], tab[p][o])
  BY <1>1 DEF Cleared, Table
<1>5. \A p \in Priority :
        /\ new[p] \in [Output -> Entry]
        /\ \A o \in Output : Cleared(tab[p][o], new[p][o])
  BY <1>2, <1>3, <1>4 DEF ClearBuzzer
<1>6. new \in Table
  BY <1>5 DEF Table, ClearBuzzer
<1>7. QED
  BY <1>5, <1>6

-----------------------------------------------------------------------------
(* The invariant.                                                          *)

IInv == TypeOK /\ ForeverOnlyByTable /\ CurrentIsHighest

\* What FillStructOfLedBuz, ClearCadence and ProcBuzLedCad do to the table: an
\* entry is new, or keeps its owner and is infinite only if it was.
Sound(tab, new) ==
  /\ new \in Table
  /\ \A p \in Priority, o \in Output :
       \/ \E r \in Resp : p = accessRespCadPriority[r] /\ new[p][o] = NewEntry(r, o)
       \/ Cleared(tab[p][o], new[p][o])

LEMMA FillFacts ==
  ASSUME NEW tab \in Table, NEW r \in Resp, NEW o \in Output
  PROVE  /\ Sound(tab, FillEntry(tab, r, o))
         /\ accessRespCadPriority[r] \in Priority
         /\ Active(FillEntry(tab, r, o), accessRespCadPriority[r])
         /\ \A p \in Priority \ {accessRespCadPriority[r]} : FillEntry(tab, r, o)[p] = tab[p]
<1> DEFINE q == accessRespCadPriority[r]
           new == FillEntry(tab, r, o)
<1>1. q \in Priority
  BY TableAssumption
<1>2. NewEntry(r, o) \in Entry /\ NewEntry(r, o).noOfCycles > 0
  BY NewEntryFacts
<1>3. \A p \in Priority, i \in Output : tab[p][i] \in Entry
  BY DEF Table
<1>4. new \in Table
  BY <1>1, <1>2 DEF FillEntry, Table
<1>5. new[q][o] = NewEntry(r, o)
  BY <1>1 DEF FillEntry, Table
<1>6. \A p \in Priority, i \in Output : <<p, i>> # <<q, o>> => new[p][i] = tab[p][i]
  BY <1>1 DEF FillEntry, Table
<1>7. Sound(tab, new)
  <2>1. \A p \in Priority, i \in Output : Cleared(tab[p][i], tab[p][i])
    BY <1>3 DEF Cleared
  <2>2. \A p \in Priority, i \in Output :
          \/ \E s \in Resp : p = accessRespCadPriority[s] /\ new[p][i] = NewEntry(s, i)
          \/ Cleared(tab[p][i], new[p][i])
    BY <1>5, <1>6, <2>1
  <2>3. QED
    BY <1>4, <2>2 DEF Sound
<1>8. Active(new, q)
  BY <1>2, <1>5 DEF Active
<1>9. \A p \in Priority \ {q} : new[p] = tab[p]
  BY <1>1 DEF FillEntry, Table
<1>10. QED
  BY <1>1, <1>7, <1>8, <1>9

LEMMA ClearFacts ==
  ASSUME NEW tab \in Table, NEW current \in Priority, NEW led \in Selector, NEW buz \in Selector
  PROVE  Sound(tab, ClearBoth(tab, current, led, buz))
<1> DEFINE mid == ClearLed(tab, current, led)
           new == ClearBoth(tab, current, led, buz)
<1>1. /\ mid \in Table
      /\ \A p \in Priority, o \in Output : Cleared(tab[p][o], mid[p][o])
  BY ClearLedFacts
<1>2. /\ new \in Table
      /\ \A p \in Priority, o \in Output : Cleared(mid[p][o], new[p][o])
  <2>1. new = ClearBuzzer(mid, current, buz)
    BY DEF ClearBoth
  <2> HIDE DEF mid, new
  <2>2. QED
    BY <1>1, <2>1, ClearBuzzerFacts
<1> HIDE DEF mid, new
<1>3. \A p \in Priority, o \in Output : Cleared(tab[p][o], new[p][o])
  BY <1>1, <1>2 DEF Cleared
<1>4. QED
  BY <1>1, <1>2, <1>3 DEF Sound, new

\* One slot of the priority that is played.
LEMMA PlayFacts ==
  ASSUME NEW tab \in Table, NEW current \in Priority
  PROVE  LET new == [tab EXCEPT ![current] = PlayRow(tab[current])] IN
         /\ Sound(tab, new)
         /\ Active(new, current) => Active(tab, current)
         /\ \A p \in Priority \ {current} : new[p] = tab[p]
<1> DEFINE row == PlayRow(tab[current])
           new == [tab EXCEPT ![current] = row]
<1>1. tab[current] \in [Output -> Entry]
  BY DEF Table
<1>2. /\ row \in [Output -> Entry]
      /\ \A o \in Output :
           /\ row[o].accessResp = tab[current][o].accessResp
           /\ row[o].noOfCycles > 0 => tab[current][o].noOfCycles > 0
           /\ row[o].noOfCycles = INFINITE_CYCLE => tab[current][o].noOfCycles = INFINITE_CYCLE
  BY <1>1, PlayRowFacts
<1> HIDE DEF row
<1>3. new \in Table /\ new[current] = row /\ \A p \in Priority \ {current} : new[p] = tab[p]
  BY <1>2 DEF Table
<1>4. \A p \in Priority, o \in Output : Cleared(tab[p][o], new[p][o])
  <2>1. \A p \in Priority, o \in Output : tab[p][o] \in Entry /\ new[p][o] \in Entry
    BY <1>3 DEF Table
  <2>2. QED
    BY <1>2, <1>3, <2>1 DEF Cleared
<1>5. Active(new, current) => Active(tab, current)
  BY <1>2, <1>3 DEF Active
<1>6. QED
  BY <1>3, <1>4, <1>5 DEF Sound, row

\* A sound change of the table keeps "for ever only by the table".
LEMMA SoundKeepsForever ==
  ASSUME TypeOK, ForeverOnlyByTable, Sound(cadence, cadence')
  PROVE  ForeverOnlyByTable'
<1> SUFFICES ASSUME NEW p \in Priority, NEW o \in Output, cadence'[p][o].noOfCycles = INFINITE_CYCLE
             PROVE  /\ accessRespCadPriority[cadence'[p][o].accessResp] = p
                    /\ accessRespCadCycles[cadence'[p][o].accessResp][o] = INFINITE_CYCLE
  BY DEF ForeverOnlyByTable
<1>1. CASE \E r \in Resp : p = accessRespCadPriority[r] /\ cadence'[p][o] = NewEntry(r, o)
  BY <1>1, NewEntryFacts
<1>2. CASE Cleared(cadence[p][o], cadence'[p][o])
  BY <1>2 DEF Cleared, ForeverOnlyByTable
<1>3. QED
  BY <1>1, <1>2 DEF Sound

\* UpdateCadPriority makes the most urgent response the current one.
LEMMA UpdateFacts ==
  ASSUME UpdateCadPriority, CurrentPriority \in Priority
  PROVE  CurrentPriority' \in Priority /\ CurrentIsHighest'
BY DEF UpdateCadPriority, CurrentIsHighest, HighestActive

-----------------------------------------------------------------------------
(* The invariant holds at the start and is kept by every step.             *)

LEMMA InitInv == Init => IInv
<1> SUFFICES ASSUME Init PROVE IInv
  OBVIOUS
<1> DEFINE Fresh(p, o) == IF p = MaxPriority THEN NewEntry(IdleResp, o) ELSE ZeroEntry
<1>1. \A p \in Priority, o \in Output : cadence[p][o] = Fresh(p, o)
  BY DEF Init, IdleTable
<1>2. IdleResp \in Resp /\ accessRespCadPriority[IdleResp] = MaxPriority /\ MaxPriority \in Priority
  BY TableAssumption DEF Priority
<1>3. \A o \in Output :
        /\ NewEntry(IdleResp, o) \in Entry /\ NewEntry(IdleResp, o).noOfCycles > 0
        /\ NewEntry(IdleResp, o).accessResp = IdleResp
        /\ NewEntry(IdleResp, o).noOfCycles = accessRespCadCycles[IdleResp][o]
  BY <1>2, NewEntryFacts
<1>4. cadence \in Table
  <2>1. \A p \in Priority, o \in Output : Fresh(p, o) \in Entry
    BY <1>3, ZeroEntryFacts
  <2>2. cadence = [p \in Priority |-> [o \in Output |-> Fresh(p, o)]]
    BY DEF Init, IdleTable
  <2> HIDE DEF Fresh
  <2>3. QED
    BY <2>1, <2>2 DEF Table
<1>5. TypeOK
  <2>1. call \in [Client -> Call]
    BY <1>2 DEF Init, NoCall, Call
  <2>2. ops \in 0 .. MaxOps
    BY ClientAssumption DEF Init
  <2>3. pin \in [Output -> BOOLEAN] /\ written \subseteq Output
    BY DEF Init
  <2>4. QED
    BY <1>2, <1>4, <2>1, <2>2, <2>3 DEF Init, TypeOK
<1>6. ForeverOnlyByTable
  BY <1>1, <1>2, <1>3, ZeroEntryFacts DEF ForeverOnlyByTable, INFINITE_CYCLE
<1>7. CurrentIsHighest
  <2>1. \A p \in Priority : p # MaxPriority => ~Active(cadence, p)
    BY <1>1, ZeroEntryFacts DEF Active
  <2>2. Active(cadence, MaxPriority)
    BY <1>1, <1>2, <1>3 DEF Active, Output, BUZZER
  <2>3. CurrentPriority = MaxPriority
    BY DEF Init
  <2>4. QED
    BY <1>2, <2>1, <2>2, <2>3, TableAssumption DEF CurrentIsHighest, HighestActive, Priority
<1>8. QED
  BY <1>5, <1>6, <1>7 DEF IInv

\* A step that fills an entry.
LEMMA FillStep ==
  ASSUME IInv, NEW r \in Resp, NEW o \in Output, FillStructOfLedBuz(r, o)
  PROVE  /\ cadence' \in Table /\ CurrentPriority' \in Priority
         /\ IsBuzLedFillInProg' \in BOOLEAN /\ syncPending' \in BOOLEAN
         /\ pin' \in [Output -> BOOLEAN] /\ written' \subseteq Output
         /\ ForeverOnlyByTable' /\ CurrentIsHighest'
<1>1. Sound(cadence, cadence')
  BY FillFacts DEF IInv, TypeOK, FillStructOfLedBuz
<1>2. CurrentPriority' \in Priority /\ CurrentIsHighest'
  BY UpdateFacts DEF IInv, TypeOK, FillStructOfLedBuz
<1>3. QED
  BY <1>1, <1>2, SoundKeepsForever DEF IInv, TypeOK, FillStructOfLedBuz, HoldPlaying, Sound

LEMMA NextInv == IInv /\ [Next]_vars => IInv'
<1> SUFFICES ASSUME IInv, [Next]_vars PROVE IInv'
  OBVIOUS
<1>1. ASSUME NEW c \in Client, NEW r \in Resp, SetRed(c, r) PROVE IInv'
  <2>1. call' \in [Client -> Call] /\ mixed' \in BOOLEAN /\ ops' \in 0 .. MaxOps
    BY <1>1, ClientAssumption DEF SetRed, StartOp, IInv, TypeOK, Call
  <2>2. QED
    BY <1>1, <2>1, FillStep DEF SetRed, IInv, TypeOK, Output, RED_LED
<1>2. ASSUME NEW c \in Client, SetGreen(c) PROVE IInv'
  <2>1. call[c].resp \in Resp
    BY DEF IInv, TypeOK, Call
  <2>2. call' \in [Client -> Call] /\ mixed' \in BOOLEAN /\ ops' \in 0 .. MaxOps
    BY <1>2 DEF SetGreen, IInv, TypeOK, Call
  <2>3. QED
    BY <1>2, <2>1, <2>2, FillStep DEF SetGreen, IInv, TypeOK, Output, GREEN_LED
<1>3. ASSUME NEW c \in Client, SetBuzzerCad(c) PROVE IInv'
  <2>1. call[c].resp \in Resp
    BY DEF IInv, TypeOK, Call
  <2>2. call' \in [Client -> Call] /\ mixed' \in BOOLEAN /\ ops' \in 0 .. MaxOps
    BY <1>3, TableAssumption DEF SetBuzzerCad, NoCall, IInv, TypeOK, Call
  <2>3. QED
    BY <1>3, <2>1, <2>2, FillStep DEF SetBuzzerCad, IInv, TypeOK, Output, BUZZER
<1>4. ASSUME NEW c \in Client, NEW a \in ClearArg, ClearCadence(c, a[1], a[2]) PROVE IInv'
  <2>1. a[1] \in Selector /\ a[2] \in Selector
    BY ClientAssumption
  <2>2. Sound(cadence, cadence')
    BY <1>4, <2>1, ClearFacts DEF ClearCadence, IInv, TypeOK
  <2>3. CurrentPriority' \in Priority /\ CurrentIsHighest'
    BY <1>4, UpdateFacts DEF ClearCadence, IInv, TypeOK
  <2>4. mixed' \in BOOLEAN /\ ops' \in 0 .. MaxOps
    BY <1>4, ClientAssumption DEF ClearCadence, StartOp, IInv, TypeOK
  <2>5. QED
    BY <1>4, <2>2, <2>3, <2>4, SoundKeepsForever DEF ClearCadence, HoldPlaying, IInv, TypeOK, Sound
<1>5. ASSUME NEW c \in Client, NEW S \in SUBSET Output, NEW on \in BOOLEAN, SetPins(c, S, on) PROVE IInv'
  <2>1. pin' \in [Output -> BOOLEAN] /\ written' \subseteq Output /\ mixed' \in BOOLEAN /\ ops' \in 0 .. MaxOps
    BY <1>5, ClientAssumption DEF SetPins, StartOp, IInv, TypeOK
  <2>2. QED
    BY <1>5, <2>1 DEF SetPins, IInv, TypeOK, ForeverOnlyByTable, CurrentIsHighest
<1>6. CASE SyncBuzLedCad
  BY <1>6 DEF SyncBuzLedCad, calls, IInv, TypeOK, ForeverOnlyByTable, CurrentIsHighest
<1>7. CASE ProcBuzLedCad
  <2> DEFINE row == cadence[CurrentPriority]
             played == PlayRow(row)
  <2>1. /\ Sound(cadence, cadence')
        /\ Active(cadence', CurrentPriority) => Active(cadence, CurrentPriority)
        /\ \A p \in Priority \ {CurrentPriority} : cadence'[p] = cadence[p]
    BY <1>7, PlayFacts DEF ProcBuzLedCad, IInv, TypeOK
  <2>2. ForeverOnlyByTable'
    BY <2>1, SoundKeepsForever DEF IInv
  <2>3. pin' \in [Output -> BOOLEAN]
    <3>1. \A o \in Output : SlotIsOn(row[o]) \in BOOLEAN /\ pin[o] \in BOOLEAN
      BY DEF SlotIsOn, IInv, TypeOK
    <3>2. DrivePins(row) \in [Output -> BOOLEAN]
      BY <3>1 DEF DrivePins
    <3>3. QED
      BY <1>7, <3>2 DEF ProcBuzLedCad
  <2>4. Active(cadence', CurrentPriority) <=> \E o \in Output : played[o].noOfCycles > 0
    BY <1>7 DEF ProcBuzLedCad, Active, IInv, TypeOK, Table
  <2>5. CurrentPriority' \in Priority /\ CurrentIsHighest'
    <3>1. CASE Active(cadence', CurrentPriority)
      <4>1. CurrentPriority' = CurrentPriority
        BY <1>7, <2>4, <3>1 DEF ProcBuzLedCad
      <4>2. CurrentPriority \in HighestActive(cadence)
        BY <2>1, <3>1 DEF CurrentIsHighest, IInv, TypeOK
      <4>3. \A q \in Priority : q < CurrentPriority => ~Active(cadence', q)
        BY <2>1, <4>2 DEF HighestActive, Active, Priority
      <4>4. QED
        BY <3>1, <4>1, <4>3 DEF CurrentIsHighest, HighestActive, IInv, TypeOK
    <3>2. CASE ~Active(cadence', CurrentPriority)
      BY <1>7, <2>4, <3>2, UpdateFacts DEF ProcBuzLedCad, IInv, TypeOK
    <3>3. QED
      BY <3>1, <3>2
  <2>6. QED
    BY <1>7, <2>1, <2>2, <2>3, <2>5 DEF ProcBuzLedCad, calls, IInv, TypeOK, Sound
<1>8. CASE UNCHANGED vars
  BY <1>8 DEF vars, calls, IInv, TypeOK, ForeverOnlyByTable, CurrentIsHighest
<1>9. {{BUZZER}, {RED_LED}, {GREEN_LED}, Led} \subseteq SUBSET Output
  BY DEF Output, Led, BUZZER, RED_LED, GREEN_LED
<1>10. QED
  BY <1>1, <1>2, <1>3, <1>4, <1>5, <1>6, <1>7, <1>8, <1>9 DEF Next

\* The invariant holds of every behaviour.
LEMMA Invariance == Spec => []IInv
BY InitInv, NextInv, PTL DEF Spec

\* The table, the priority and the calls keep their types.
THEOREM TypeCorrect == Spec => []TypeOK
BY Invariance, PTL DEF IInv

\* No output is ever made infinite by counting its cycles down or by a clear.
THEOREM NoUnderflow == Spec => []ForeverOnlyByTable
BY Invariance, PTL DEF IInv

\* The response that is played is the most urgent one that is left.
THEOREM PlaysMostUrgent == Spec => []CurrentIsHighest
BY Invariance, PTL DEF IInv

-----------------------------------------------------------------------------
(* The simulation of CadenceArbiter.                                       *)

ActiveIn(tab) == {p \in Priority : Active(tab, p)}
ActiveSet == ActiveIn(cadence)

\* UpdateCadPriority elects as the arbiter does.
LEMMA UpdateElects ==
  ASSUME UpdateCadPriority, CurrentPriority \in Priority
  PROVE  Arbiter!Elect(ActiveSet')
<1>1. ActiveSet' = {} => CurrentPriority' = CurrentPriority
  BY DEF ActiveSet, ActiveIn, UpdateCadPriority
<1>2. ActiveSet' # {} =>
        CurrentPriority' \in {p \in ActiveSet' : \A q \in ActiveSet' : p <= q}
  BY DEF ActiveSet, ActiveIn, UpdateCadPriority, HighestActive, Priority
<1>3. QED
  BY <1>1, <1>2 DEF Arbiter!Elect

\* A response that is filled raises its priority.
LEMMA FillRaises ==
  ASSUME IInv, NEW r \in Resp, NEW o \in Output, FillStructOfLedBuz(r, o)
  PROVE  \E p \in Priority : Arbiter!Raise(p)
<1> DEFINE q == accessRespCadPriority[r]
<1>1. /\ q \in Priority
      /\ Active(cadence', q)
      /\ \A p \in Priority \ {q} : cadence'[p] = cadence[p]
  BY FillFacts DEF IInv, TypeOK, FillStructOfLedBuz
<1>2. ActiveSet' = ActiveSet \union {q}
  BY <1>1 DEF ActiveSet, ActiveIn, Active
<1>3. Arbiter!Elect(ActiveSet')
  BY UpdateElects DEF FillStructOfLedBuz, IInv, TypeOK
<1>4. Arbiter!Raise(q)
  BY <1>2, <1>3 DEF Arbiter!Raise, ActiveSet, ActiveIn
<1>5. QED
  BY <1>1, <1>4

\* An entry that is cleared has one cycle left, or none.
LEMMA OneOffCycle ==
  ASSUME NEW e \in Entry PROVE OffEntry(e, 1).noOfCycles > 0
BY DEF OffEntry, Entry

LEMMA NoOffCycle ==
  ASSUME NEW e \in Entry PROVE ~(OffEntry(e, 0).noOfCycles > 0)  /\ OffEntry(e, 0).noOfCycles = 0
BY DEF OffEntry, Entry

\* A clear of all responses leaves every priority but the least urgent active.
LEMMA AllAreReached ==
  ASSUME NEW tab, NEW new,
         \A p \in Priority : p < MaxPriority => Active(new, p),
         Active(new, MaxPriority) <=> Active(tab, MaxPriority)
  PROVE  ActiveIn(new) \in Arbiter!Half(ActiveIn(tab))
<1>1. Arbiter!Urgent = {p \in Priority : p < MaxPriority}
  BY TableAssumption DEF Arbiter!Urgent, Priority
<1>2. \A p \in Priority : p < MaxPriority \/ p = MaxPriority
  BY TableAssumption DEF Priority
<1>3. ActiveIn(new) = ActiveIn(tab) \union Arbiter!Urgent
  BY <1>1, <1>2 DEF ActiveIn
<1>4. QED
  BY <1>3 DEF Arbiter!Half, Arbiter!Reach

\* What a half of a clear is asked for is one thing only.
LEMMA SelectorFacts ==
  /\ NVRX_RESP_ALL \notin Resp /\ NVRX_RESP_PRESENT \notin Resp /\ NVRX_RESP_NONE \notin Resp
  /\ NVRX_RESP_ALL # NVRX_RESP_PRESENT
  /\ MaxPriority \in Priority /\ ~(MaxPriority < MaxPriority)
<1>1. NVRX_RESP_ALL \notin Resp /\ NVRX_RESP_PRESENT \notin Resp /\ NVRX_RESP_NONE \notin Resp
  BY TableAssumption
<1>2. NVRX_RESP_ALL # NVRX_RESP_PRESENT
  BY DEF NVRX_RESP_ALL, NVRX_RESP_PRESENT
<1>3. MaxPriority \in Priority /\ ~(MaxPriority < MaxPriority)
  BY TableAssumption DEF Priority
<1>4. QED
  BY <1>1, <1>2, <1>3

\* Each half of ClearCadence does to the active priorities what the arbiter
\* says a half of a clear does.
LEMMA ClearLedHalf ==
  ASSUME NEW tab \in Table, NEW led \in Selector, CurrentPriority \in Priority
  PROVE  ActiveIn(ClearLed(tab, CurrentPriority, led)) \in Arbiter!Half(ActiveIn(tab))
<1> DEFINE new == ClearLed(tab, CurrentPriority, led)
<1>1. CASE led \in Resp
  <2> DEFINE q == accessRespCadPriority[led]
             S == LedsMatching(tab[q], led)
  <2>1. q \in Priority /\ S \subseteq Output
    BY <1>1, TableAssumption DEF LedsMatching, Led, Output
  <2>2. \A p \in Priority \ {q} : Active(new, p) <=> Active(tab, p)
    BY <1>1, SelectorFacts DEF ClearLed, Active
  <2>3. new[q] = ClearLedsOfRow(tab[q], S)
    BY <1>1, <2>1, SelectorFacts DEF ClearLed
  <2>4. CASE S = {}
    <3>1. Active(new, q) <=> Active(tab, q)
      BY <2>3, <2>4 DEF Active, ClearLedsOfRow
    <3>2. ActiveIn(new) = ActiveIn(tab)
      BY <2>2, <3>1 DEF ActiveIn
    <3>3. QED
      BY <3>2 DEF Arbiter!Half
  <2>5. CASE S # {}
    <3>1. PICK o \in S : TRUE
      BY <2>5
    <3>2. new[q][o] = OffEntry(tab[q][o], 1) /\ tab[q][o] \in Entry
      BY <2>1, <2>3, <3>1 DEF ClearLedsOfRow, Table
    <3>3. Active(new, q)
      BY <2>1, <3>1, <3>2, OneOffCycle DEF Active
    <3>4. ActiveIn(new) = ActiveIn(tab) \union {q}
      BY <2>1, <2>2, <3>3 DEF ActiveIn
    <3>5. QED
      BY <2>1, <3>4 DEF Arbiter!Half, Arbiter!Reach
  <2>6. QED
    BY <2>4, <2>5
<1>2. CASE led = NVRX_RESP_ALL
  <2>1. \A p \in Priority : p < MaxPriority => Active(new, p)
    <3> SUFFICES ASSUME NEW p \in Priority, p < MaxPriority PROVE Active(new, p)
      OBVIOUS
    <3>1. new[p] = ClearLedsOfRow(tab[p], Led)
      BY <1>2, SelectorFacts DEF ClearLed
    <3>2. new[p][RED_LED] = OffEntry(tab[p][RED_LED], 1) /\ tab[p][RED_LED] \in Entry
      BY <3>1 DEF ClearLedsOfRow, Led, Output, Table
    <3>3. QED
      BY <3>2, OneOffCycle DEF Active, Output
  <2>2. Active(new, MaxPriority) <=> Active(tab, MaxPriority)
    <3>1. new[MaxPriority] = tab[MaxPriority]
      BY <1>2, SelectorFacts DEF ClearLed
    <3>2. QED
      BY <3>1 DEF Active
  <2>3. QED
    BY <2>1, <2>2, AllAreReached
<1>3. CASE led = NVRX_RESP_PRESENT
  <2>1. \A p \in Priority \ {CurrentPriority} : Active(new, p) <=> Active(tab, p)
    BY <1>3, SelectorFacts DEF ClearLed, Active
  <2>2. Active(new, CurrentPriority) => Active(tab, CurrentPriority)
    <3>1. new[CurrentPriority] =
            [o \in Output |-> IF o \in Led THEN OffEntry(tab[CurrentPriority][o], 0)
                              ELSE tab[CurrentPriority][o]]
      BY <1>3, TableAssumption DEF ClearLed, NVRX_RESP_ALL, NVRX_RESP_PRESENT
    <3>2. \A o \in Output : tab[CurrentPriority][o] \in Entry
      BY DEF Table
    <3>3. QED
      BY <3>1, <3>2, NoOffCycle DEF Active
  <2>3. QED
    BY <2>1, <2>2 DEF ActiveIn, Arbiter!Half
<1>4. CASE led = NVRX_RESP_NONE
  <2>1. ActiveIn(new) = ActiveIn(tab)
    BY <1>4, TableAssumption DEF ClearLed, Active, ActiveIn, NVRX_RESP_ALL, NVRX_RESP_PRESENT, NVRX_RESP_NONE
  <2>2. QED
    BY <2>1 DEF Arbiter!Half
<1>5. QED
  BY <1>1, <1>2, <1>3, <1>4 DEF Selector

\* The buzzer half does so too.
LEMMA ClearBuzzerHalf ==
  ASSUME NEW tab \in Table, NEW buz \in Selector, CurrentPriority \in Priority
  PROVE  ActiveIn(ClearBuzzer(tab, CurrentPriority, buz)) \in Arbiter!Half(ActiveIn(tab))
<1> DEFINE new == ClearBuzzer(tab, CurrentPriority, buz)
<1>1. \A p \in Priority : new[p] = ClearBuzzerOfRow(tab[p]) => Active(new, p)
  <2> SUFFICES ASSUME NEW p \in Priority, new[p] = ClearBuzzerOfRow(tab[p]) PROVE Active(new, p)
    OBVIOUS
  <2>1. new[p][BUZZER] = OffEntry(tab[p][BUZZER], 1) /\ tab[p][BUZZER] \in Entry
    BY DEF ClearBuzzerOfRow, Output, Table
  <2>2. QED
    BY <2>1, OneOffCycle DEF Active, Output
<1>2. CASE buz \in Resp
  <2> DEFINE q == accessRespCadPriority[buz]
  <2>1. q \in Priority
    BY <1>2, TableAssumption
  <2>2. \A p \in Priority \ {q} : Active(new, p) <=> Active(tab, p)
    BY <1>2, SelectorFacts DEF ClearBuzzer, Active
  <2>3. new[q] = ClearBuzzerOfRow(tab[q]) \/ new[q] = tab[q]
    BY <1>2, <2>1, TableAssumption DEF ClearBuzzer, NVRX_RESP_ALL, NVRX_RESP_PRESENT
  <2>4. ActiveIn(new) = ActiveIn(tab) \union {q} \/ ActiveIn(new) = ActiveIn(tab)
    <3>1. Active(new, q) \/ (Active(new, q) <=> Active(tab, q))
      BY <1>1, <2>1, <2>3 DEF Active
    <3>2. QED
      BY <2>1, <2>2, <3>1 DEF ActiveIn
  <2>5. QED
    BY <2>1, <2>4 DEF Arbiter!Half, Arbiter!Reach
<1>3. CASE buz = NVRX_RESP_ALL
  <2>1. \A p \in Priority : p < MaxPriority => Active(new, p)
    <3> SUFFICES ASSUME NEW p \in Priority, p < MaxPriority PROVE Active(new, p)
      OBVIOUS
    <3>1. new[p] = ClearBuzzerOfRow(tab[p])
      BY <1>3, SelectorFacts DEF ClearBuzzer
    <3>2. QED
      BY <1>1, <3>1
  <2>2. Active(new, MaxPriority) <=> Active(tab, MaxPriority)
    <3>1. new[MaxPriority] = tab[MaxPriority]
      BY <1>3, SelectorFacts DEF ClearBuzzer
    <3>2. QED
      BY <3>1 DEF Active
  <2>3. QED
    BY <2>1, <2>2, AllAreReached
<1>4. CASE buz = NVRX_RESP_PRESENT
  <2>1. \A p \in Priority \ {CurrentPriority} : Active(new, p) <=> Active(tab, p)
    BY <1>4, SelectorFacts DEF ClearBuzzer, Active
  <2>2. Active(new, CurrentPriority) => Active(tab, CurrentPriority)
    <3>1. new[CurrentPriority] =
            [tab[CurrentPriority] EXCEPT ![BUZZER] = OffEntry(tab[CurrentPriority][BUZZER], 0)]
      BY <1>4, TableAssumption DEF ClearBuzzer, NVRX_RESP_ALL, NVRX_RESP_PRESENT
    <3>2. tab[CurrentPriority] \in [Output -> Entry]
      BY DEF Table
    <3>3. \A o \in Output : o # BUZZER => new[CurrentPriority][o] = tab[CurrentPriority][o]
      BY <3>1, <3>2
    <3>4. OffEntry(tab[CurrentPriority][BUZZER], 0).noOfCycles = 0
      BY <3>2, NoOffCycle DEF Output
    <3>5. ~(new[CurrentPriority][BUZZER].noOfCycles > 0)
      BY <3>1, <3>2, <3>4 DEF Output
    <3>6. QED
      BY <3>3, <3>5 DEF Active
  <2>3. QED
    BY <2>1, <2>2 DEF ActiveIn, Arbiter!Half
<1>5. CASE buz = NVRX_RESP_NONE
  <2>1. ActiveIn(new) = ActiveIn(tab)
    BY <1>5, TableAssumption DEF ClearBuzzer, Active, ActiveIn, NVRX_RESP_ALL, NVRX_RESP_PRESENT, NVRX_RESP_NONE
  <2>2. QED
    BY <2>1 DEF Arbiter!Half
<1>6. QED
  BY <1>2, <1>3, <1>4, <1>5 DEF Selector

\* ClearCadence is a clear of the arbiter.
LEMMA ClearClears ==
  ASSUME IInv, NEW c \in Client, NEW led \in Selector, NEW buz \in Selector, ClearCadence(c, led, buz)
  PROVE  Arbiter!Clear
<1> DEFINE mid == ClearLed(cadence, CurrentPriority, led)
<1>1. mid \in Table /\ CurrentPriority \in Priority /\ cadence \in Table
  BY ClearLedFacts DEF IInv, TypeOK
<1>2. cadence' = ClearBuzzer(mid, CurrentPriority, buz)
  BY DEF ClearCadence, ClearBoth
<1>3. ActiveIn(mid) \in Arbiter!Half(ActiveSet)
  BY <1>1, ClearLedHalf DEF ActiveSet, ActiveIn
<1> HIDE DEF mid
<1>4. ActiveIn(cadence') \in Arbiter!Half(ActiveIn(mid))
  BY <1>1, <1>2, ClearBuzzerHalf
<1>5. Arbiter!Elect(ActiveSet')
  BY UpdateElects DEF ClearCadence, IInv, TypeOK
<1>6. QED
  BY <1>3, <1>4, <1>5 DEF Arbiter!Clear, ActiveSet, ActiveIn

\* A slot that is played leaves the arbiter as it is, or ends what it plays.
LEMMA PlayFinishes ==
  ASSUME IInv, ProcBuzLedCad
  PROVE  Arbiter!Finish \/ UNCHANGED Arbiter!vars
<1> DEFINE played == PlayRow(cadence[CurrentPriority])
<1>1. /\ Active(cadence', CurrentPriority) => Active(cadence, CurrentPriority)
      /\ \A p \in Priority \ {CurrentPriority} : cadence'[p] = cadence[p]
  BY PlayFacts DEF ProcBuzLedCad, IInv, TypeOK
<1>2. Active(cadence', CurrentPriority) <=> \E o \in Output : played[o].noOfCycles > 0
  BY DEF ProcBuzLedCad, Active, IInv, TypeOK, Table
<1>3. \A p \in Priority \ {CurrentPriority} : Active(cadence', p) <=> Active(cadence, p)
  BY <1>1 DEF Active
<1>4. CASE Active(cadence', CurrentPriority)
  <2>1. ActiveSet' = ActiveSet
    BY <1>1, <1>3, <1>4 DEF ActiveSet, ActiveIn
  <2>2. CurrentPriority' = CurrentPriority
    BY <1>2, <1>4 DEF ProcBuzLedCad
  <2>3. QED
    BY <2>1, <2>2 DEF Arbiter!vars, ActiveSet, ActiveIn
<1>5. CASE ~Active(cadence', CurrentPriority)
  <2>1. UpdateCadPriority
    BY <1>2, <1>5 DEF ProcBuzLedCad
  <2>2. Arbiter!Elect(ActiveSet')
    BY <2>1, UpdateElects DEF IInv, TypeOK
  <2>3. ActiveSet' = ActiveSet \ {CurrentPriority}
    BY <1>3, <1>5 DEF ActiveSet, ActiveIn, IInv, TypeOK
  <2>4. CASE Active(cadence, CurrentPriority)
    BY <2>2, <2>3, <2>4 DEF Arbiter!Finish, ActiveSet, ActiveIn, IInv, TypeOK
  <2>5. CASE ~Active(cadence, CurrentPriority)
    <3>1. ActiveSet = {}
      BY <2>5 DEF ActiveSet, ActiveIn, IInv, CurrentIsHighest, HighestActive
    <3>2. ActiveSet' = ActiveSet /\ CurrentPriority' = CurrentPriority
      BY <2>2, <2>3, <3>1 DEF Arbiter!Elect
    <3>3. QED
      BY <3>2 DEF Arbiter!vars, ActiveSet, ActiveIn
  <2>6. QED
    BY <2>4, <2>5
<1>6. QED
  BY <1>4, <1>5

\* The driver implements the arbiter: urgent responses pre-empt, nothing but
\* the response being played ends by being played, a clear drops no
\* priority but the current one, and whoever was pre-empted gets the turn back.
THEOREM KeepsPromise == Spec => KeepsArbiterPromise
<1>1. Init => Arbiter!Init
  <2> SUFFICES ASSUME Init PROVE Arbiter!Init
    OBVIOUS
  <2>1. CurrentPriority \in Priority /\ CurrentIsHighest
    BY InitInv DEF IInv, TypeOK
  <2>2. ActiveSet # {} => CurrentPriority \in ActiveSet /\ \A q \in ActiveSet : CurrentPriority <= q
    BY <2>1 DEF CurrentIsHighest, HighestActive, ActiveSet, ActiveIn, Priority
  <2>3. QED
    BY <2>1, <2>2 DEF Arbiter!Init, ActiveSet, ActiveIn
<1>2. IInv /\ [Next]_vars => [Arbiter!Next]_Arbiter!vars
  <2> SUFFICES ASSUME IInv, [Next]_vars PROVE Arbiter!Next \/ UNCHANGED Arbiter!vars
    OBVIOUS
  <2>1. ASSUME NEW c \in Client, NEW r \in Resp, SetRed(c, r) PROVE Arbiter!Next
    BY <2>1, FillRaises DEF SetRed, Arbiter!Next, Output, RED_LED
  <2>2. ASSUME NEW c \in Client, SetGreen(c) PROVE Arbiter!Next
    <3>1. call[c].resp \in Resp
      BY DEF IInv, TypeOK, Call
    <3>2. QED
      BY <2>2, <3>1, FillRaises DEF SetGreen, Arbiter!Next, Output, GREEN_LED
  <2>3. ASSUME NEW c \in Client, SetBuzzerCad(c) PROVE Arbiter!Next
    <3>1. call[c].resp \in Resp
      BY DEF IInv, TypeOK, Call
    <3>2. QED
      BY <2>3, <3>1, FillRaises DEF SetBuzzerCad, Arbiter!Next, Output, BUZZER
  <2>4. ASSUME NEW c \in Client, NEW a \in ClearArg, ClearCadence(c, a[1], a[2]) PROVE Arbiter!Next
    <3>1. a[1] \in Selector /\ a[2] \in Selector
      BY ClientAssumption
    <3>2. QED
      BY <2>4, <3>1, ClearClears DEF Arbiter!Next
  <2>5. CASE UNCHANGED <<cadence, CurrentPriority>>
    BY <2>5 DEF Arbiter!vars, Active
  <2>6. CASE ProcBuzLedCad
    BY <2>6, PlayFinishes DEF Arbiter!Next
  <2>7. QED
    BY <2>1, <2>2, <2>3, <2>4, <2>5, <2>6 DEF Next, SetPins, SyncBuzLedCad, vars
<1>3. QED
  BY <1>1, <1>2, Invariance, PTL DEF Spec, KeepsArbiterPromise, Arbiter!Spec

=============================================================================
