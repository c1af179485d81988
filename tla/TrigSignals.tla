----------------------------- MODULE TrigSignals -----------------------------
(***************************************************************************)
(* The signals of a trigger (updown_c6000.c): while it is armed            *)
(* UploadCheckTriggerSignals compares them, at each hit of its sample      *)
(* time, with their old values, which are kept in memory of the trigger's  *)
(* own, and reports a crossing of the level. Signals come in sections.     *)
(***************************************************************************)
EXTENDS Integers, Sequences, FiniteSetsExt

CONSTANTS
  Selections,    \* of the host: the widths of the sections of a trigger
  RealSize,      \* sizeof(real_T), in bytes
  Values, Level  \* of a signal, and of the trigger

VARIABLES
  widths,              \* of the sections: nBytes / sizeof(real_T)
  lookForRising, lookForFalling,
  armed,
  oldTrigSigVals,      \* the memory from this pointer on
  haveOldTrigSigVal,
  before               \* history: the signals of the last check since it was armed

selection == <<widths, lookForRising, lookForFalling>>
vars == <<selection, armed, oldTrigSigVals, haveOldTrigSigVal, before>>

Sections == 1 .. Len(widths)
Elements(i) == 0 .. widths[i] - 1
Signals == [UNION {{i} \X Elements(i) : i \in Sections} -> Values]
None == << >>

SumOf(w, n) == MapThenSumSet(LAMBDA i : w[i], 1 .. n)

\* UploadInitTrigger allocates a cell for every signal.
AllocatedFor(w) == 0 .. SumOf(w, Len(w)) - 1
Allocated == AllocatedFor(widths)

\* oldSigPtr points to cells and is moved on by the bytes of a section.
Offset(w, i) == RealSize * SumOf(w, i - 1)
CellsOf(w, i) == {Offset(w, i) + j : j \in 0 .. w[i] - 1}
MemoryFor(w) == AllocatedFor(w) \cup UNION {CellsOf(w, i) : i \in 1 .. Len(w)}
Memory == MemoryFor(widths)

TypeOK ==
  /\ widths \in Selections /\ armed \in BOOLEAN
  /\ oldTrigSigVals \in [Memory -> Values] /\ before \in Signals \cup {None}
  /\ armed => haveOldTrigSigVal = (before # None)

\* Selected, and not armed yet. What malloc returns holds anything.
Init ==
  /\ widths \in Selections
  /\ lookForRising \in BOOLEAN /\ lookForFalling \in BOOLEAN
  /\ lookForRising \/ lookForFalling
  /\ armed = FALSE /\ haveOldTrigSigVal = FALSE /\ before = None
  /\ oldTrigSigVals \in [Memory -> Values]

-----------------------------------------------------------------------------
\* UploadInitTrigger: another trigger.
Select ==
  /\ ~armed /\ widths' \in Selections
  /\ lookForRising' \in BOOLEAN /\ lookForFalling' \in BOOLEAN
  /\ lookForRising' \/ lookForFalling'
  /\ armed' = FALSE /\ haveOldTrigSigVal' = FALSE /\ before' = None
  /\ oldTrigSigVals' \in [MemoryFor(widths') -> Values]

\* UploadArmTrigger.
ArmKeepsOld ==                                                         \* mutant
  /\ ~armed /\ armed' = TRUE /\ before' = None
  /\ UNCHANGED <<selection, oldTrigSigVals, haveOldTrigSigVal>>
Arm ==
  /\ ~armed /\ armed' = TRUE /\ haveOldTrigSigVal' = FALSE /\ before' = None
  /\ UNCHANGED <<selection, oldTrigSigVals>>

Rises(new, old) == (new >= Level /\ old < Level) \/ (new > Level /\ old = Level)
Falls(new, old) == (new < Level /\ old >= Level) \/ (new = Level /\ old > Level)
Crosses(new, old) ==
  (lookForRising /\ Rises(new, old)) \/ (lookForFalling /\ Falls(new, old))

\* The sections with a crossing, of which the first ends the check.
Crossed(new, old) ==
  {i \in Sections : haveOldTrigSigVal /\
     \E j \in Elements(i) : Crosses(new[<<i, j>>], old[Offset(widths, i) + j])}

Updated(new, old, sections) ==
  [c \in Memory |->
     IF \E i \in sections : c \in CellsOf(widths, i)
     THEN LET i == CHOOSE i \in sections : c \in CellsOf(widths, i)
          IN new[<<i, c - Offset(widths, i)>>]
     ELSE old[c]]

\* UploadCheckTriggerSignals of the new signals. The memory behind the allocation is
\* somebody else's, who may have changed it.
Check(new) ==
  \E old \in [Memory -> Values] :
    /\ armed /\ \A c \in Allocated : old[c] = oldTrigSigVals[c]
    /\ LET crossed == Crossed(new, old) IN
       IF crossed = {}
       THEN /\ oldTrigSigVals' = Updated(new, old, Sections)
            /\ haveOldTrigSigVal' = TRUE /\ UNCHANGED armed
       ELSE /\ oldTrigSigVals' = Updated(new, old, 1 .. Min(crossed) - 1)
            /\ armed' = FALSE /\ UNCHANGED haveOldTrigSigVal
    /\ before' = new
    /\ UNCHANGED selection

\* UploadDestroyTrigger. What the freed memory holds is of no matter.
Destroy ==
  /\ armed' = FALSE /\ haveOldTrigSigVal' = FALSE /\ before' = None
  /\ UNCHANGED <<selection, oldTrigSigVals>>

\* Another state than armed: UploadEndLoggingSession, UploadCancelLogging.
Disarm ==
  /\ armed' = FALSE /\ before' = None
  /\ UNCHANGED <<selection, oldTrigSigVals, haveOldTrigSigVal>>

Next == Select \/ Arm \/ Destroy \/ Disarm \/ \E new \in Signals : Check(new)

Spec == Init /\ [][Next]_vars

-----------------------------------------------------------------------------
\* "Check the trigger signals for crossings. Return true if a trigger event is
\* encountered." A check ends the wait exactly if, since the one before it, some
\* signal has come to another side of the level in a direction that is looked for;
\* the first check after arming never does, whatever an earlier event left behind.
\* (Held with one section. "Allocate space to hold the old values of the trigger
\* signals": those of a second section are kept outside of that space.)
Side(v) == IF v < Level THEN -1 ELSE IF v = Level THEN 0 ELSE 1
Crossing(then, now) ==
  \E s \in DOMAIN then :
    \/ lookForRising /\ Side(now[s]) > Side(then[s])
    \/ lookForFalling /\ Side(now[s]) < Side(then[s])
FiresOnCrossing ==
  [][armed /\ before' # None => (~armed' <=> (before # None /\ Crossing(before, before')))]_vars
=============================================================================
