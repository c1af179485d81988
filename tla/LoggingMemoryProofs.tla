------------------------- MODULE LoggingMemoryProofs -------------------------
(***************************************************************************)
(* LoggingMemory for every selection and trigger: the Swi beside it leaves *)
(* what UploadTables promises, and finds the memory of a trigger that is   *)
(* armed, except where a disconnect or a selection takes it away.          *)
(***************************************************************************)
EXTENDS LoggingMemory, UploadTablesProofs

\* The actions of the trigger are stutters of UploadTables; so are those of the Swi, until
\* it uses something freed.
LEMMA TablesImplemented == MemorySpec => Spec
<1>1. MemoryInit => Init
  BY DEF MemoryInit
<1>2. [MemoryNext]_<<vars, signals>> => [Next]_vars
  <2>1. Session => Next
    BY DEF Session, Next, LogInfoTerm
  <2>2. SessionEnds \/ TriggerSelected => Next
    BY DEF SessionEnds, TriggerSelected, Next
  <2>3. ArmTrigger \/ CancelLogging => UNCHANGED vars
    BY DEF ArmTrigger, CancelLogging
  <2>4. CheckTrigger \/ CheckFreed => Next \/ UNCHANGED vars
    BY DEF CheckTrigger, CheckFreed, Next, LogInfoTerm
  <2> QED
    BY <2>1, <2>2, <2>3, <2>4 DEF MemoryNext
<1> QED
  BY <1>1, <1>2, PTL DEF MemorySpec, Spec

\* With the Swi and the trigger beside it, a selection still leaves everything or nothing
\* and loses none of its memory: NoLeak, which a lost trigger is excepted from.
THEOREM NothingLeaksInMemory == MemorySpec => [](NoLeak /\ AllOrNothing)
BY TablesImplemented, NothingLeaks, SelectionIsWhole, PTL

-----------------------------------------------------------------------------
\* A trigger is armed between packets, with memory, and stays armed in UploadLogInfoTerm
\* only when a disconnect or a new selection calls it.
ArmedInv ==
  armed /\ at \notin Undefined =>
    \/ at = "idle" /\ nSys > 0 /\ OldTrigSigVals \in ptrs
    \/ at \in Freeing /\ by \in {"disconnect", "select"}

\* UploadLogInfoTerm takes over from an upInfo with systems.
LEMMA TermFacts ==
  ASSUME NEW why, NEW next, Term(why, next), nSys > 0
  PROVE  at' \in Undefined \/ (at' \in Freeing /\ by' = why)
BY DEF Term, Freeing, Undefined

LEMMA SessionKeeps ==
  ASSUME ArmedInv, Session \/ SessionEnds
  PROVE  ArmedInv'
<1> SUFFICES ASSUME armed', at' \notin Undefined
             PROVE  at' \in Freeing /\ by' \in {"disconnect", "select"}
  BY DEF ArmedInv
<1>1. armed /\ ~SessionEnds /\ ~Reset
  <2>1. ~SessionEnds
    BY DEF SessionEnds, Signals!Disarm
  <2>2. CASE UNCHANGED signals /\ ~Reset
    BY <2>1, <2>2 DEF signals
  <2>3. CASE Reset /\ ~Signals!Destroy
    BY <2>1, <2>3
       DEF Session, LogInfoInit, DisconnectFromHost, FreeTables, FreeBufs, FreeTrigger, Reset,
           Wild, SelectSignals, AllocSysTables, AllocMaps, AllocMap, AllocSections,
           AllocCircBufs, BufsInit, AllocBufs, AllocTids, Undefined
  <2>4. ~Signals!Destroy
    BY DEF Signals!Destroy
  <2> QED
    BY <2>1, <2>2, <2>3, <2>4 DEF Session
<1>2. at \notin Undefined
  <2>1. CASE Wild
    BY <2>1 DEF Wild, vars
  <2>2. CASE ~Wild
    BY <1>1, <2>2
       DEF Session, LogInfoInit, DisconnectFromHost, FreeTables, FreeBufs, FreeTrigger,
           SelectSignals, AllocSysTables, AllocMaps, AllocMap, AllocSections, AllocCircBufs,
           BufsInit, AllocBufs, AllocTids, Undefined
  <2> QED
    BY <2>1, <2>2
<1>3. CASE at = "idle"
  <2>1. nSys > 0
    BY <1>1, <1>2, <1>3 DEF ArmedInv, Freeing
  <2>2. (\E next : Term("select", next)) \/ Term("disconnect", NoSelection)
    BY <1>1, <1>3
       DEF Session, LogInfoInit, DisconnectFromHost, FreeTables, FreeBufs, FreeTrigger, Wild,
           SelectSignals, AllocSysTables, AllocMaps, AllocMap, AllocSections, AllocCircBufs,
           BufsInit, AllocBufs, AllocTids, Undefined
  <2> QED
    BY <2>1, <2>2, TermFacts
<1>4. CASE at \in Freeing
  <2>1. by \in {"disconnect", "select"}
    BY <1>1, <1>2, <1>4 DEF ArmedInv, Freeing
  <2>2. FreeTables \/ FreeBufs \/ FreeTrigger
    BY <1>1, <1>4
       DEF Session, LogInfoInit, DisconnectFromHost, Wild, SelectSignals, AllocSysTables,
           AllocMaps, AllocMap, AllocSections, AllocCircBufs, BufsInit, AllocBufs, AllocTids,
           Undefined, Freeing
  <2>3. by' = by /\ at' \in Freeing
    BY <2>2 DEF FreeTables, FreeBufs, FreeTrigger, caller, Freeing
  <2> QED
    BY <2>1, <2>3
<1> QED
  BY <1>1, <1>2, <1>3, <1>4 DEF ArmedInv

LEMMA ArmedStep ==
  ASSUME IInv, ArmedInv, [MemoryNext]_<<vars, signals>>
  PROVE  ArmedInv'
<1>1. CASE UNCHANGED <<vars, signals>>
  BY <1>1 DEF vars, memory, caller, signals, ArmedInv
<1>2. CASE TriggerSelected \/ CancelLogging
  BY <1>2 DEF TriggerSelected, CancelLogging, Signals!Select, Signals!Destroy, Signals!Disarm,
              ArmedInv
<1>3. CASE ArmTrigger
  <2>1. at = "idle" /\ OldTrigSigVals \in ptrs /\ UNCHANGED vars
    BY <1>3 DEF ArmTrigger
  <2>2. nSys > 0
    BY <2>1 DEF IInv, Owned, Undefined
  <2> QED
    BY <2>1, <2>2 DEF vars, memory, ArmedInv
<1>4. CASE CheckTrigger \/ CheckFreed
  <2>1. CASE SwiUsesFreed
    BY <2>1 DEF SwiUsesFreed, Undefined, ArmedInv
  <2>2. CASE UNCHANGED vars
    BY <1>4, <2>1, <2>2 DEF CheckTrigger, CheckFreed, vars, memory, caller, ArmedInv
  <2> QED
    BY <1>4, <2>1, <2>2 DEF CheckTrigger, CheckFreed
<1> QED
  BY <1>1, <1>2, <1>3, <1>4, SessionKeeps DEF MemoryNext

\* UploadCheckTriggerSignals, which tests no pointer, finds the old values and the
\* tables of a complete selection whenever the Swi may call it for an armed trigger, in
\* the middle of UploadLogInfoTerm too, unless a disconnect or a selection called that.
THEOREM ArmedTriggerHasMemory == MemorySpec => []ArmedHasMemory
<1>1. MemoryInit => ArmedInv
  BY DEF MemoryInit, Signals!Init, ArmedInv
<1>2. ASSUME IInv, ArmedInv PROVE ArmedHasMemory
  <2>1. SUFFICES ASSUME armed, at = "idle", nSys > 0, OldTrigSigVals \in ptrs PROVE HasMemory
    BY <1>2 DEF ArmedHasMemory, ArmedInv
  <2>2. Owned /\ Progress /\ Selected
    BY <1>2, <2>1 DEF IInv, Selected, Undefined
  <2>3. heap = ptrs
    BY <2>1, <2>2 DEF Owned, Freeing
  <2>4. Complete
    BY <2>1, <2>2 DEF Complete, Owned, Progress, SysDone, Has
  <2> QED
    BY <2>1, <2>3, <2>4 DEF HasMemory, Complete
<1> QED
  BY TablesImplemented, Invariant, ArmedStep, <1>1, <1>2, PTL DEF MemorySpec

\* The assertions of UploadLogInfoInit hold with the Swi and the trigger beside it.
THEOREM NothingIsOverwrittenInMemory == MemorySpec => []AssertsHold
BY TablesImplemented, NothingIsOverwritten, PTL

-----------------------------------------------------------------------------
\* The sums of widths that place the first section and end it.
LEMMA EmptySum == ASSUME NEW w PROVE Signals!SumOf(w, 0) = 0
<1> DEFINE step(g) == [s \in SUBSET {} |->
             IF s = {} THEN 0 ELSE w[CHOOSE x \in s : TRUE] + g[s \ {CHOOSE x \in s : TRUE}]]
           sum == CHOOSE g : g = step(g)
<1>1. (1 .. 0) = {}
  OBVIOUS
<1>2. Signals!SumOf(w, 0) = sum[{}]
  BY <1>1, Zenon DEF Signals!SumOf, Signals!MapThenSumSet, Signals!MapThenFoldSet
<1>3. \E g : g = step(g)
  <2> DEFINE g == [s \in SUBSET {} |-> 0]
  <2>1. g = step(g)
    OBVIOUS
  <2> QED
    BY <2>1
<1>4. sum = step(sum)
  BY <1>3
<1> HIDE DEF sum
<1> QED
  BY <1>2, <1>4

LEMMA FirstSum == ASSUME NEW w, w[1] \in Int PROVE Signals!SumOf(w, 1) = w[1]
<1> DEFINE step(g) == [s \in SUBSET {1} |->
             IF s = {} THEN 0 ELSE w[CHOOSE x \in s : TRUE] + g[s \ {CHOOSE x \in s : TRUE}]]
           sum == CHOOSE g : g = step(g)
<1>1. (1 .. 1) = {1}
  OBVIOUS
<1>2. Signals!SumOf(w, 1) = sum[{1}]
  BY <1>1, Zenon DEF Signals!SumOf, Signals!MapThenSumSet, Signals!MapThenFoldSet
<1>3. \E g : g = step(g)
  <2> DEFINE g == [s \in SUBSET {1} |-> IF s = {} THEN 0 ELSE w[1]]
  <2>1. ASSUME NEW s \in SUBSET {1} PROVE g[s] = step(g)[s]
    <3>1. CASE s = {}
      BY <3>1
    <3>2. CASE s = {1}
      <4>1. (CHOOSE x \in s : TRUE) = 1 /\ s \ {1} = {} /\ g[{}] = 0
        BY <3>2
      <4> QED
        BY <3>2, <4>1
    <3> QED
      BY <2>1, <3>1, <3>2
  <2>2. g = step(g)
    BY <2>1
  <2> QED
    BY <2>2
<1>4. sum = step(sum)
  BY <1>3
<1> HIDE DEF sum
<1>5. sum[{}] = 0
  BY <1>4
<1>6. (CHOOSE x \in {1} : TRUE) = 1 /\ {1} \ {1} = {}
  OBVIOUS
<1> QED
  BY <1>2, <1>4, <1>5, <1>6

\* A trigger with one section: its memory is what was allocated for it, a cell for
\* each of its signals.
OneSectionEach == \A w \in Widths : Len(w) = 1
LEMMA OneSectionFacts ==
  ASSUME OneSectionEach, widths \in Widths
  PROVE  /\ Signals!Sections = {1} /\ Signals!Offset(widths, 1) = 0
         /\ widths[1] \in Nat /\ Signals!Elements(1) = 0 .. widths[1] - 1
         /\ Signals!CellsOf(widths, 1) = Signals!Elements(1)
         /\ Signals!Memory = Signals!Elements(1) /\ Signals!Allocated = Signals!Elements(1)
         /\ Signals!Signals = [{1} \X Signals!Elements(1) -> Values]
<1>1. Len(widths) = 1 /\ widths[1] \in Nat /\ RealSize \in Nat
  BY SignalsAssumption DEF OneSectionEach
<1>2. Signals!Sections = {1} /\ Signals!Elements(1) = 0 .. widths[1] - 1
  BY <1>1 DEF Signals!Sections, Signals!Elements
<1>3. Signals!Offset(widths, 1) = 0
  BY <1>1, EmptySum DEF Signals!Offset
<1>4. Signals!CellsOf(widths, 1) = Signals!Elements(1)
  BY <1>1, <1>2, <1>3 DEF Signals!CellsOf
<1>5. Signals!AllocatedFor(widths) = Signals!Elements(1)
  BY <1>1, <1>2, FirstSum DEF Signals!AllocatedFor
<1>6. Signals!Memory = Signals!Elements(1) /\ Signals!Allocated = Signals!Elements(1)
  BY <1>1, <1>2, <1>4, <1>5 DEF Signals!Memory, Signals!MemoryFor, Signals!Allocated, Signals!Sections
<1>7. UNION {{i} \X Signals!Elements(i) : i \in {1}} = {1} \X Signals!Elements(1)
  OBVIOUS
<1> QED
  BY <1>1, <1>2, <1>3, <1>4, <1>6, <1>7 DEF Signals!Signals

\* While a trigger is armed its memory holds the signals of the check before.
OldIsBefore ==
  /\ widths \in Widths
  /\ armed => /\ before # Signals!None => haveOldTrigSigVal
              /\ haveOldTrigSigVal /\ Signals!Elements(1) # {} => before # Signals!None
              /\ before # Signals!None =>
                   /\ before \in Signals!Signals
                   /\ \A j \in Signals!Elements(1) : before[<<1, j>>] = oldTrigSigVals[j]

\* A check that the trigger outlives stores the signals, all of them.
LEMMA CheckKeepsOld ==
  ASSUME OneSectionEach, OldIsBefore, NEW new \in Signals!Signals, Signals!Check(new)
  PROVE  OldIsBefore'
<1> DEFINE E == Signals!Elements(1)
<1>1. widths' = widths /\ widths \in Widths /\ before' = new /\ Signals!Signals' = Signals!Signals
      /\ E' = E
  BY DEF Signals!Check, Signals!selection, OldIsBefore, Signals!Signals, Signals!Sections, Signals!Elements
<1> SUFFICES ASSUME armed' PROVE /\ E # {} => new # Signals!None
                                 /\ haveOldTrigSigVal'
                                 /\ \A j \in E : new[<<1, j>>] = oldTrigSigVals'[j]
  BY <1>1 DEF OldIsBefore
<1>2. new \in [{1} \X E -> Values]
  BY <1>1, OneSectionFacts
<1>3. PICK old \in [Signals!Memory -> Values] :
        oldTrigSigVals' = Signals!Updated(new, old, Signals!Sections) /\ haveOldTrigSigVal'
  BY DEF Signals!Check
<1>4. E # {} => new # Signals!None
  <2>1. SUFFICES ASSUME NEW j \in E PROVE new # Signals!None
    OBVIOUS
  <2>2. <<1, j>> \in DOMAIN new
    BY <1>2
  <2> QED
    BY <2>2 DEF Signals!None
<1>5. ASSUME NEW j \in E PROVE new[<<1, j>>] = oldTrigSigVals'[j]
  <2>1. Signals!Sections = {1} /\ Signals!Memory = E /\ Signals!CellsOf(widths, 1) = E
        /\ Signals!Offset(widths, 1) = 0 /\ j \in Nat
    BY <1>1, OneSectionFacts
  <2>2. (CHOOSE i \in {1} : j \in Signals!CellsOf(widths, i)) = 1
    BY <2>1
  <2>3. Signals!Updated(new, old, {1})[j] = new[<<1, j - Signals!Offset(widths, 1)>>]
    BY <2>1, <2>2, Zenon DEF Signals!Updated
  <2> QED
    BY <1>3, <2>1, <2>3
<1> QED
  BY <1>3, <1>4, <1>5

\* What a selection, an arming or the end of a trigger leaves.
LEMMA OthersKeepOld ==
  ASSUME OldIsBefore, Signals!Select \/ Signals!Arm \/ Signals!Destroy \/ Signals!Disarm
  PROVE  OldIsBefore' /\ (armed => before' = Signals!None)
<1>1. CASE Signals!Select
  BY <1>1 DEF Signals!Select, OldIsBefore
<1>2. CASE Signals!Arm
  BY <1>2 DEF Signals!Arm, Signals!selection, OldIsBefore
<1>3. CASE Signals!Destroy
  BY <1>3 DEF Signals!Destroy, Signals!selection, OldIsBefore
<1>4. CASE Signals!Disarm
  BY <1>4 DEF Signals!Disarm, Signals!selection, OldIsBefore
<1> QED
  BY <1>1, <1>2, <1>3, <1>4

\* The comparisons of the code are those of the sides of the level.
LEMMA CrossesIsSides ==
  ASSUME NEW new \in Values, NEW old \in Values
  PROVE  /\ Signals!Rises(new, old) <=> Signals!Side(new) > Signals!Side(old)
         /\ Signals!Falls(new, old) <=> Signals!Side(new) < Signals!Side(old)
BY SignalsAssumption DEF Signals!Rises, Signals!Falls, Signals!Side

LEMMA CheckFiresOnCrossing ==
  ASSUME OneSectionEach, OldIsBefore, NEW new \in Signals!Signals, Signals!Check(new)
  PROVE  ~armed' <=> before # Signals!None /\ Signals!Crossing(before, before')
<1> DEFINE E == Signals!Elements(1)
<1>1. /\ armed /\ before' = new /\ widths \in Widths /\ Signals!Sections = {1}
      /\ Signals!Memory = E /\ Signals!Allocated = E /\ Signals!Offset(widths, 1) = 0
      /\ new \in [{1} \X E -> Values] /\ E \subseteq Nat
      /\ before # Signals!None => before \in [{1} \X E -> Values]
  <2>1. widths \in Widths /\ armed /\ before' = new
    BY DEF Signals!Check, OldIsBefore
  <2>2. before # Signals!None => before \in Signals!Signals
    BY <2>1 DEF OldIsBefore
  <2>3. /\ Signals!Sections = {1} /\ Signals!Memory = E /\ Signals!Allocated = E
        /\ Signals!Offset(widths, 1) = 0 /\ E = 0 .. widths[1] - 1 /\ widths[1] \in Nat
        /\ Signals!Signals = [{1} \X E -> Values]
    BY <2>1, OneSectionFacts
  <2>4. E \subseteq Nat
    BY <2>3
  <2> HIDE DEF E
  <2> QED
    BY <2>1, <2>2, <2>3, <2>4
<1>2. PICK old \in [E -> Values] :
        /\ \A j \in E : old[j] = oldTrigSigVals[j]
        /\ ~armed' <=> Signals!Crossed(new, old) # {}
  BY <1>1 DEF Signals!Check
<1>3. Signals!Crossed(new, old) # {} <=>
        haveOldTrigSigVal /\ \E j \in E : Signals!Crosses(new[<<1, j>>], old[j])
  <2>1. \A j \in E : Signals!Offset(widths, 1) + j = j
    BY <1>1
  <2> QED
    BY <1>1, <2>1 DEF Signals!Crossed
<1>4. haveOldTrigSigVal /\ E # {} <=> before # Signals!None /\ E # {}
  BY <1>1 DEF OldIsBefore
<1>5. ASSUME before # Signals!None, NEW j \in E
      PROVE  Signals!Crosses(new[<<1, j>>], old[j]) <=>
               \/ lookForRising /\ Signals!Side(new[<<1, j>>]) > Signals!Side(before[<<1, j>>])
               \/ lookForFalling /\ Signals!Side(new[<<1, j>>]) < Signals!Side(before[<<1, j>>])
  <2>1. old[j] = before[<<1, j>>] /\ old[j] \in Values
    BY <1>1, <1>2, <1>5 DEF OldIsBefore
  <2>2. new[<<1, j>>] \in Values
    BY <1>1
  <2> QED
    BY <2>1, <2>2, CrossesIsSides DEF Signals!Crosses
<1>6. ASSUME before # Signals!None
      PROVE  Signals!Crossing(before, new) <=> \E j \in E : Signals!Crosses(new[<<1, j>>], old[j])
  <2>1. DOMAIN before = {1} \X E
    BY <1>1, <1>6
  <2> HIDE DEF E
  <2>2. ASSUME NEW s \in DOMAIN before PROVE \E j \in E : s = <<1, j>>
    BY <2>1, <2>2
  <2>3. \A j \in E : <<1, j>> \in DOMAIN before
    BY <2>1
  <2> QED
    BY <1>5, <1>6, <2>2, <2>3 DEF Signals!Crossing
<1> QED
  BY <1>1, <1>2, <1>3, <1>4, <1>6

LEMMA OldIsBeforeStep ==
  ASSUME OneSectionEach, OldIsBefore, [MemoryNext]_<<vars, signals>>
  PROVE  /\ OldIsBefore'
         /\ armed /\ before' # Signals!None =>
              \/ UNCHANGED signals
              \/ ~armed' <=> before # Signals!None /\ Signals!Crossing(before, before')
<1>1. \/ UNCHANGED signals
      \/ Signals!Select \/ Signals!Arm \/ Signals!Destroy \/ Signals!Disarm
      \/ \E new \in Signals!Signals : Signals!Check(new)
  BY DEF MemoryNext, Session, SessionEnds, TriggerSelected, ArmTrigger, CancelLogging,
         CheckTrigger, CheckFreed, signals
<1>2. CASE UNCHANGED signals
  <2>1. /\ widths' = widths /\ armed' = armed /\ before' = before
        /\ oldTrigSigVals' = oldTrigSigVals /\ haveOldTrigSigVal' = haveOldTrigSigVal
    BY <1>2 DEF signals
  <2> QED
    BY <1>2, <2>1 DEF OldIsBefore, Signals!Signals, Signals!Sections, Signals!Elements
<1>3. CASE Signals!Select \/ Signals!Arm \/ Signals!Destroy \/ Signals!Disarm
  BY <1>3, OthersKeepOld
<1>4. CASE \E new \in Signals!Signals : Signals!Check(new)
  BY <1>4, CheckKeepsOld, CheckFiresOnCrossing
<1> QED
  BY <1>1, <1>2, <1>3, <1>4

\* An armed trigger with one section of signals fires exactly at the checks that find a
\* signal on another side of the level, in a direction that is looked for, than the
\* check before did; the first check after arming never does. Selections, failed
\* allocations and ends of sessions may come between any two of these steps.
THEOREM TriggerFiresOnCrossing == OneSectionEach => (MemorySpec => FiresOnCrossing)
<1> SUFFICES ASSUME OneSectionEach PROVE MemorySpec => FiresOnCrossing
  OBVIOUS
<1>1. MemoryInit => OldIsBefore
  BY DEF MemoryInit, Signals!Init, OldIsBefore
<1>2. ASSUME OldIsBefore, [MemoryNext]_<<vars, signals>>
      PROVE  OldIsBefore' /\
             [armed /\ before' # Signals!None =>
                (~armed' <=> before # Signals!None /\ Signals!Crossing(before, before'))]_(Signals!vars)
  BY <1>2, OldIsBeforeStep DEF signals, Signals!vars, Signals!selection
<1> QED
  BY <1>1, <1>2, PTL DEF MemorySpec, FiresOnCrossing, Signals!FiresOnCrossing
=============================================================================
