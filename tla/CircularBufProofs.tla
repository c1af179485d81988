-------------------------- MODULE CircularBufProofs --------------------------
(***************************************************************************)
(* Proofs about CircularBuf, for every buffer size, every set of time      *)
(* point sizes and every interleaving of the clock Swi with the background *)
(* task. Pre-triggers of more than one point are included, and what is     *)
(* claimed of them holds until MOVE_TAIL_ONESTEP takes the word behind the *)
(* allocation for the size of a time point (see SizesAreRead).             *)
(***************************************************************************)
EXTENDS CircularBuf, TLAPS, FiniteSetTheorems, WellFoundedInduction

\* No host selects a negative trigger delay.
NoPreTrig == PreDurations = {0}

\* No host selects a pre-trigger of one point, whose window empties the buffer (see
\* PreTrigKeepsNewest).
PreTrigsFit == 1 \notin PreDurations

\* Points are added before the trigger has fired for its pre-trigger only, and the
\* server is only at work on the buffer of a fired or terminating event.
Control ==
  /\ ppc = "assign" => (pre /\ state = "ARMED") \/ (~pre /\ state = "FIRED")
  /\ cpc # "idle" => state \in {"FIRED", "TERMINATING"}
  /\ state = "ARMED" => ~misread

RangeInv == DataOK /\ IndicesInRange /\ Control

USE BufAssumption DEF Cells, States

\* Where tmpHead goes is inside the buffer whenever the code found room.
LEMMA AdvanceInRange ==
  ASSUME head \in Cells, tail \in Cells, tmpHead \in Cells,
         NEW n \in Nat \ {0}, Room >= n
  PROVE  AdvanceHead(n) \in Cells
  BY DEF AdvanceHead, Wraps, NotWrapped, Room

\* The copy writes stream positions only.
LEMMA CopyType ==
  ASSUME tail \in Cells, tmpHead \in Cells, npos \in Nat,
         mem \in [Cells -> Nat], NEW n \in Nat \ {0}
  PROVE  CopyData(n) \in [Cells -> Nat]
  BY DEF CopyData, AdvanceHead, Wraps, NotWrapped

\* A set of naturals has a least element: the minimum that NextStart takes exists.
LEMMA Smallest ==
  ASSUME NEW T, T \subseteq Nat, T # {}
  PROVE  \E x \in T : \A y \in T : x <= y
<1> DEFINE R == {ss \in Nat \X Nat : ss[1] < ss[2]}
<1>1. IsWellFoundedOn(R, Nat)
  BY NatLessThanWellFounded DEF OpToRel
<1>2. PICK x \in T : \A y \in T : ~ (<<y, x>> \in R)
  <2> HIDE DEF R
  <2> QED
    BY <1>1, WFMin
<1>3. ASSUME NEW y \in T PROVE x <= y
  <2>1. x \in Nat /\ y \in Nat /\ ~ (<<y, x>> \in R)
    BY <1>2
  <2> QED
    BY <2>1
<1> QED
  BY <1>2, <1>3

LEMMA NextStartFacts ==
  ASSUME wpos \in Nat, starts \subseteq 1 .. wpos, NEW s \in 1 .. wpos
  PROVE  /\ NextStart(s) \in {t \in starts : t > s} \cup {wpos + 1}
         /\ \A t \in starts : t > s => NextStart(s) <= t
<1> DEFINE T == {t \in starts : t > s} \cup {wpos + 1}
<1>1. T \subseteq Nat /\ T # {}
  <2>1. \A t \in starts : t \in Nat
    OBVIOUS
  <2>2. wpos + 1 \in Nat
    OBVIOUS
  <2> QED
    BY <2>1, <2>2, Zenon
<1>2. \E x \in T : \A y \in T : x <= y
  <2> HIDE DEF T
  <2> QED
    BY <1>1, Smallest
<1>3. NextStart(s) \in T /\ \A y \in T : NextStart(s) <= y
  <2>1. NextStart(s) = CHOOSE x \in T : \A y \in T : x <= y
    BY DEF NextStart, Min
  <2> HIDE DEF T
  <2> QED
    BY <1>2, <2>1
<1> QED
  BY <1>3

\* The tail never moves backwards.
LEMMA StepLensType == ASSUME DataOK PROVE StepLens \subseteq Nat
<1>1. CASE tail + 1 < BufSize /\ mem[tail + 1] - 1 \in starts
  <2> DEFINE s == mem[tail + 1] - 1
  <2>1. s \in 1 .. wpos /\ wpos \in Nat /\ starts \subseteq 1 .. wpos
    BY <1>1 DEF DataOK
  <2> HIDE DEF s
  <2>2. NextStart(s) \in {t \in starts : t > s} \cup {wpos + 1}
    BY <2>1, NextStartFacts
  <2>3. \A m \in {t \in starts : t > s} \cup {wpos + 1} : m - s \in Nat
    BY <2>1
  <2>4. NextStart(s) - s \in Nat
    BY <2>2, <2>3, Zenon
  <2> QED
    BY <1>1, <2>4, Zenon DEF StepLens, s
<1>2. CASE ~(tail + 1 < BufSize /\ mem[tail + 1] - 1 \in starts)
  BY <1>2, Zenon DEF StepLens
<1> QED
  BY <1>1, <1>2

LEMMA SlidesWhen ==
  ASSUME NEW fires \in BOOLEAN
  PROVE  Slides(fires) <=> state = "ARMED" /\ ~fires /\ preDur > 0 /\ WindowFull
<1>1. Fired(fires) = "ARMED" <=> state = "ARMED" /\ ~fires
  BY DEF Fired
<1> QED
  BY <1>1, Zenon DEF Slides

\* Once tail has gone astray nothing is said of the buffer, and it is left as it is.
LEMMA NextIsStep == [Next]_vars => [Step]_buffer
BY Zenon DEF Next, MoveTailAstray, Astray, vars

\* UploadBufAddTimePoint's start, without and with a pre-trigger window that slides.
LEMMA BeginFacts ==
  ASSUME DataOK, IndicesInRange, NEW len \in PointLens, NEW fires \in BOOLEAN,
         BeginTimePoint(len, fires)
  PROVE  /\ ppc = "idle" /\ ppc' = "assign" /\ tmpHead' = head /\ left' = len /\ npos' = wpos
         /\ \/ state \in {"ARMED", "FIRED"} /\ state' = "FIRED" /\ ~pre'
            \/ state = "ARMED" /\ state' = "ARMED" /\ pre' /\ preDur > 0
         /\ (empty' <=> empty) /\ (drained' <=> drained) /\ (inOrder' <=> inOrder)
         /\ (misread' <=> misread)
         /\ UNCHANGED <<head, newTail, preDur, mem, cpc, wpos>>
         /\ ~Slides(fires) => UNCHANGED <<tail, rpos, host, preCount>>
                              /\ starts' = {s \in starts : s > rpos}
         /\ Slides(fires) =>
              /\ state' = "ARMED" /\ preCount' = preCount - 1
              /\ \E n \in StepLens :
                   /\ tail' = IF tail + n >= BufSize THEN tail + n - BufSize ELSE tail + n
                   /\ rpos' = rpos + n /\ host' = host + n
                   /\ starts' = {s \in starts : s > rpos + n}
<1>1. /\ ppc = "idle" /\ ppc' = "assign" /\ tmpHead' = head /\ left' = len /\ npos' = wpos
      /\ (empty' <=> empty) /\ (drained' <=> drained) /\ (inOrder' <=> inOrder)
      /\ (misread' <=> misread)
      /\ UNCHANGED <<head, newTail, preDur, mem, cpc, wpos>>
  BY Zenon DEF BeginTimePoint
<1>2. \/ state \in {"ARMED", "FIRED"} /\ state' = "FIRED" /\ ~pre'
      \/ state = "ARMED" /\ state' = "ARMED" /\ pre' /\ preDur > 0
  <2>1. CASE state = "ARMED" /\ fires
    <3>1. state' = "FIRED" /\ (pre' <=> ("FIRED" = "ARMED" /\ preDur > 0))
      BY <2>1, Zenon DEF BeginTimePoint, Fired
    <3> QED
      BY <2>1, <3>1
  <2>2. CASE ~(state = "ARMED" /\ fires)
    <3>1. state' = state /\ (pre' <=> (state = "ARMED" /\ preDur > 0))
          /\ (state = "FIRED" \/ (state = "ARMED" /\ preDur > 0))
      BY <2>2, Zenon DEF BeginTimePoint, Fired
    <3> QED
      BY <3>1
  <2> QED
    BY <2>1, <2>2
<1>3. ASSUME Slides(fires)
      PROVE  /\ state' = "ARMED" /\ preCount' = preCount - 1
             /\ \E n \in StepLens :
                  /\ tail' = IF tail + n >= BufSize THEN tail + n - BufSize ELSE tail + n
                  /\ rpos' = rpos + n /\ host' = host + n
                  /\ starts' = {s \in starts : s > rpos + n}
  <2>1. state = "ARMED" /\ ~fires
    BY <1>3, SlidesWhen
  <2> QED
    BY <1>3, <2>1, Zenon DEF BeginTimePoint, Fired
<1>4. ASSUME ~Slides(fires)
      PROVE  UNCHANGED <<tail, rpos, host, preCount>> /\ starts' = {s \in starts : s > rpos}
  <2>1. /\ preCount' = preCount
        /\ \E n \in {0} :
             /\ tail' = IF tail + n >= BufSize /\ FALSE THEN tail + n - BufSize ELSE tail + n
             /\ rpos' = rpos + n
             /\ host' = host + n
             /\ starts' = {s \in starts : s > rpos + n}
    BY <1>4, Zenon DEF BeginTimePoint
  <2> QED
    BY <2>1 DEF DataOK, IndicesInRange
<1> QED
  BY <1>1, <1>2, <1>3, <1>4

LEMMA RangeInit == Init => RangeInv
  BY DEF NULL, Init, RangeInv, DataOK, IndicesInRange, Control

\* A window that slides inside the buffer keeps the pointers in it.
LEMMA RangeStep ==
  ASSUME RangeInv, [Step]_buffer,
         \A len \in PointLens, fires \in BOOLEAN :
           BeginTimePoint(len, fires) /\ Slides(fires) => tail' \in Cells
  PROVE  RangeInv'
<1> USE DEF RangeInv, DataOK, IndicesInRange, Control
<1> USE DEF circ, trig, prod, hist
<1>1. ASSUME NEW len \in PointLens, NEW fires \in BOOLEAN, BeginTimePoint(len, fires)
      PROVE  RangeInv'
  <2> DEFINE Same == UNCHANGED <<tail, rpos, host, preCount>>
  <2>1. /\ ppc' = "assign" /\ tmpHead' = head /\ left' = len /\ npos' = wpos
        /\ \/ state \in {"ARMED", "FIRED"} /\ state' = "FIRED" /\ ~pre'
           \/ state = "ARMED" /\ state' = "ARMED" /\ pre' /\ preDur > 0
        /\ (misread' <=> misread)
        /\ UNCHANGED <<head, newTail, preDur, mem, cpc, wpos>>
    BY <1>1, BeginFacts
  <2>2. tail' \in Cells /\ rpos' \in Nat /\ host' \in Nat /\ preCount' \in Nat
        /\ starts' \subseteq starts
    <3>1. CASE Slides(fires)
      <4>1. StepLens \subseteq Nat /\ preCount' = preCount - 1 /\ preCount > 0
        BY <1>1, <3>1, StepLensType, BeginFacts, SlidesWhen DEF WindowFull
      <4>2. PICK n \in StepLens : rpos' = rpos + n /\ host' = host + n
                                  /\ starts' = {s \in starts : s > rpos + n}
        BY <1>1, <3>1, BeginFacts
      <4> QED
        BY <1>1, <3>1, <4>1, <4>2
    <3>2. CASE ~Slides(fires)
      <4>1. UNCHANGED <<tail, rpos, host, preCount>> /\ starts' = {s \in starts : s > rpos}
        BY <1>1, <3>2, BeginFacts
      <4> QED
        BY <4>1
    <3> QED
      BY <3>1, <3>2
  <2>3. cpc' # "idle" => state' \in {"FIRED", "TERMINATING"}
    BY <2>1
  <2> QED
    BY <2>1, <2>2, <2>3
<1>2. ASSUME NEW n \in SectionLens, AssignMem(n) PROVE RangeInv'
  <2>1. AdvanceHead(n) \in Cells /\ CopyData(n) \in [Cells -> Nat]
    BY <1>2, AdvanceInRange, CopyType DEF AssignMem
  <2> QED
    BY <1>2, <2>1 DEF AssignMem
<1>3. ASSUME NEW n \in SectionLens, OverFlow(n) PROVE RangeInv'
  BY <1>3 DEF OverFlow
<1>4. CASE EndTimePoint
  <2>1. /\ ppc = "assign" /\ ppc' = "idle" /\ (misread' <=> misread)
        /\ UNCHANGED <<tail, newTail, state, preDur, mem, tmpHead, left, npos, cpc,
                       rpos, host>>
    BY <1>4, Zenon DEF EndTimePoint
  <2>2. CASE npos - wpos <= HdrLen
    <3>1. UNCHANGED <<head, preCount, wpos, starts>>
      BY <1>4, <2>2, Zenon DEF EndTimePoint
    <3> QED
      BY <2>1, <3>1
  <2>3. CASE ~(npos - wpos <= HdrLen)
    <3>1. /\ head' = tmpHead /\ wpos' = npos /\ starts' = starts \cup {wpos + 1}
          /\ preCount' = preCount \/ preCount' = preCount + 1
      BY <1>4, <2>3, Zenon DEF EndTimePoint
    <3>2. starts' \subseteq 1 .. wpos'
      BY <2>3, <3>1
    <3> QED
      BY <2>1, <3>1, <3>2
  <2> QED
    BY <2>2, <2>3
<1>5. CASE CheckEndTrigger
  BY <1>5 DEF CheckEndTrigger
<1>6. CASE ArmTrigger
  BY <1>6 DEF ArmTrigger, NULL
<1>7. CASE ScanBufs
  BY <1>7 DEF ScanBufs
<1>8. CASE EndTest
  BY <1>8 DEF EndTest
<1>9. CASE SendSection1
  BY <1>9 DEF SendSection1, Send, Bytes1, Bytes2
<1>10. CASE SendSection2
  BY <1>10 DEF SendSection2, Send, Bytes1, Bytes2
<1>11. CASE SendFails
  BY <1>11 DEF SendFails
<1>12. CASE BufDataSent
  <2>1. CASE StoreTail
    <3>1. starts' \subseteq 1 .. wpos'
      BY <2>1 DEF StoreTail
    <3>2. rpos' \in Nat
      BY <2>1 DEF StoreTail, Bytes1, Bytes2
    <3> QED
      BY <2>1, <3>1, <3>2 DEF StoreTail
  <2>2. CASE CompareHead
    BY <2>2 DEF CompareHead
  <2>3. CASE StoreEmpty
    BY <2>3 DEF StoreEmpty
  <2> QED
    BY <1>12, <2>1, <2>2, <2>3 DEF BufDataSent
<1>13. CASE CancelLogging
  BY <1>13 DEF CancelLogging
<1>14. CASE UNCHANGED buffer
  BY <1>14 DEF buffer
<1> QED
  BY <1>1, <1>2, <1>3, <1>4, <1>5, <1>6, <1>7, <1>8, <1>9, <1>10, <1>11, <1>12,
     <1>13, <1>14 DEF Step, AddTimePoint, ServerWork

\* The flags are set to truth values only.
LEMMA FlagsStep == FlagsOK /\ [Next]_vars => FlagsOK'
<1> SUFFICES ASSUME FlagsOK, [Step]_buffer, astray' \in BOOLEAN PROVE FlagsOK'
  <2>1. ASSUME FlagsOK, [Next]_vars PROVE astray' \in BOOLEAN
    BY <2>1, Zenon DEF FlagsOK, Next, MoveTailAstray, Astray, vars
  <2> QED
    BY <2>1, NextIsStep, Zenon
<1> USE DEF FlagsOK, circ, trig, prod, hist
<1>1. ASSUME NEW len \in PointLens, NEW fires \in BOOLEAN, BeginTimePoint(len, fires)
      PROVE  FlagsOK'
  BY <1>1, Zenon DEF BeginTimePoint
<1>2. ASSUME NEW n \in SectionLens, AssignMem(n) PROVE FlagsOK'
  BY <1>2, Zenon DEF AssignMem
<1>3. ASSUME NEW n \in SectionLens, OverFlow(n) PROVE FlagsOK'
  BY <1>3, Zenon DEF OverFlow
<1>4. CASE EndTimePoint
  BY <1>4, Zenon DEF EndTimePoint
<1>5. CASE CheckEndTrigger
  BY <1>5, Zenon DEF CheckEndTrigger
<1>6. CASE ArmTrigger
  BY <1>6, Zenon DEF ArmTrigger
<1>7. CASE ScanBufs
  BY <1>7, Zenon DEF ScanBufs
<1>8. CASE EndTest
  BY <1>8, Zenon DEF EndTest
<1>9. CASE SendSection1
  BY <1>9, Zenon DEF SendSection1, Send
<1>10. CASE SendSection2
  BY <1>10, Zenon DEF SendSection2, Send
<1>11. CASE SendFails
  BY <1>11, Zenon DEF SendFails
<1>12. CASE BufDataSent
  BY <1>12, Zenon DEF BufDataSent, StoreTail, CompareHead, StoreEmpty
<1>13. CASE CancelLogging
  BY <1>13, Zenon DEF CancelLogging
<1>14. CASE UNCHANGED buffer
  BY <1>14, Zenon DEF buffer
<1> QED
  BY <1>1, <1>2, <1>3, <1>4, <1>5, <1>6, <1>7, <1>8, <1>9, <1>10, <1>11, <1>12,
     <1>13, <1>14 DEF Step, AddTimePoint, ServerWork

\* The types of the variables, and the asserts of SetExtBufListFields (1811): no
\* pointer ever leaves the buffer, even when a time point is larger than it.
THEOREM PointersStayInRange ==
  ASSUME NoPreTrig PROVE Spec => [](TypeOK /\ IndicesInRange)
<1>1. Init => FlagsOK
  BY Zenon DEF Init, FlagsOK
<1>2. FlagsOK /\ RangeInv => TypeOK /\ IndicesInRange
  BY DEF RangeInv, TypeOK
<1>3. ASSUME RangeInv, [Step]_buffer PROVE RangeInv'
  <2>1. preDur = 0
    BY <1>3 DEF RangeInv, DataOK, NoPreTrig
  <2> QED
    BY <1>3, <2>1, RangeStep, SlidesWhen
<1> QED
  BY RangeInit, FlagsStep, NextIsStep, <1>1, <1>2, <1>3, PTL DEF Spec

-----------------------------------------------------------------------------
\* No time point is larger than the whole buffer.
PointsFit == \A len \in PointLens : len <= BufSize

\* What UploadBufAssignMem takes for room is room: D cells are in use.
LEMMA RoomIsRoom ==
  ASSUME tail \in Cells, NEW D \in 1 .. BufSize, tmpHead = At(D), ~empty
  PROVE  Room = BufSize - D
  BY DEF Room, NotWrapped, At

LEMMA RoomWhenEmpty ==
  ASSUME tail \in Cells, NEW D \in 0 .. BufSize, tmpHead = At(D), empty
  PROVE  Room >= BufSize - D
  BY BufAssumption DEF Room, NotWrapped, At, Cells

\* The sections given out for n more cells continue the ones in use.
LEMMA AdvanceIsAt ==
  ASSUME tail \in Cells, NEW D \in 0 .. BufSize, tmpHead = At(D),
         NEW n \in Nat \ {0}, D + n <= BufSize, Room >= n
  PROVE  /\ Wraps(n) <=> tmpHead + n >= BufSize
         /\ AdvanceHead(n) = At(D + n)
  BY DEF Wraps, NotWrapped, AdvanceHead, Room, At

\* The copy leaves the cells in use alone and fills the next n.
LEMMA CopyPlaces ==
  ASSUME tail \in Cells, NEW D \in 0 .. BufSize, tmpHead = At(D), npos \in Nat,
         mem \in [Cells -> Nat],
         NEW n \in Nat \ {0}, D + n <= BufSize, Room >= n
  PROVE  /\ \A k \in 0 .. D - 1 : CopyData(n)[At(k)] = mem[At(k)]
         /\ \A k \in D .. D + n - 1 : CopyData(n)[At(k)] = npos + 1 + (k - D)
<1>1. (Wraps(n) <=> tmpHead + n >= BufSize) /\ AdvanceHead(n) = At(D + n)
  BY AdvanceIsAt
<1>2. ASSUME NEW i \in Cells
      PROVE  CopyData(n)[i] =
               IF i >= tmpHead /\ i < tmpHead + n THEN npos + 1 + (i - tmpHead)
               ELSE IF tmpHead + n >= BufSize /\ i < At(D + n)
                    THEN npos + 1 + (BufSize - tmpHead) + i
                    ELSE mem[i]
  BY <1>1 DEF CopyData
<1>3. ASSUME NEW k \in 0 .. D + n - 1
      PROVE  At(k) \in Cells
  BY DEF At
<1>4. ASSUME NEW k \in 0 .. D - 1 PROVE CopyData(n)[At(k)] = mem[At(k)]
  <2> DEFINE i == At(k)
  <2>0. i \in Cells
    BY <1>3
  <2>1. ~(At(k) >= tmpHead /\ At(k) < tmpHead + n)
    BY DEF At
  <2>2. ~(tmpHead + n >= BufSize /\ At(k) < At(D + n))
    BY DEF At
  <2> HIDE DEF i
  <2>3. CopyData(n)[i] =
          IF i >= tmpHead /\ i < tmpHead + n THEN npos + 1 + (i - tmpHead)
          ELSE IF tmpHead + n >= BufSize /\ i < At(D + n)
               THEN npos + 1 + (BufSize - tmpHead) + i
               ELSE mem[i]
    BY <1>2, <2>0
  <2> QED
    BY <2>1, <2>2, <2>3, Zenon DEF i
<1>5. ASSUME NEW k \in D .. D + n - 1 PROVE CopyData(n)[At(k)] = npos + 1 + (k - D)
  <2> DEFINE i == At(k)
  <2>1. i \in Cells /\ tmpHead \in Cells
    BY <1>3 DEF At
  <2>2. CopyData(n)[i] =
          IF i >= tmpHead /\ i < tmpHead + n THEN npos + 1 + (i - tmpHead)
          ELSE IF tmpHead + n >= BufSize /\ i < At(D + n)
               THEN npos + 1 + (BufSize - tmpHead) + i
               ELSE mem[i]
    BY <1>2, <2>1
  <2>3. CASE i >= tmpHead
    <3>1. i - tmpHead = k - D /\ i < tmpHead + n
      BY <2>3 DEF At
    <3>2. CopyData(n)[i] = npos + 1 + (i - tmpHead)
      BY <2>2, <2>3, <3>1
    <3> QED
      BY <3>1, <3>2
  <2>4. CASE ~(i >= tmpHead)
    <3>1. tmpHead + n >= BufSize /\ i < At(D + n) /\ (BufSize - tmpHead) + i = k - D
      BY <2>4 DEF At
    <3>2. CopyData(n)[i] = npos + 1 + (BufSize - tmpHead) + i
      BY <2>2, <2>4, <3>1
    <3>3. npos + 1 + (BufSize - tmpHead) + i = npos + 1 + ((BufSize - tmpHead) + i)
      BY <2>1
    <3> QED
      BY <3>1, <3>2, <3>3
  <2> QED
    BY <2>3, <2>4
<1> QED
  BY <1>4, <1>5

-----------------------------------------------------------------------------
FifoParts == Pointers /\ Assigning /\ Contents /\ Hosted

\* While the trigger is armed the buffer holds whole time points, which preTrig.count
\* counts; there is room in the window for one that is added.
Window ==
  state = "ARMED" =>
    /\ starts \subseteq rpos + 1 .. wpos
    /\ Used > 0 => rpos + 1 \in starts
    /\ preCount = Cardinality(starts) /\ preCount <= preDur
    /\ ppc = "assign" => preCount < preDur

\* The cells seen from a tail that has moved by n.
LEMMA AtMoves ==
  ASSUME tail \in Cells, NEW n \in 0 .. BufSize, NEW k \in 0 .. BufSize - n, tail' = At(n)
  PROVE  At(k)' = At(n + k)
BY DEF At

LEMMA AtInRange ==
  ASSUME tail \in Cells, NEW n \in 0 .. BufSize PROVE At(n) \in Cells
BY DEF At

LEMMA StartsFinite == ASSUME DataOK PROVE IsFiniteSet(starts)
<1>1. wpos \in Int /\ starts \in SUBSET (1 .. wpos)
  BY DEF DataOK
<1>2. IsFiniteSet(1 .. wpos)
  BY <1>1, FS_Interval
<1> QED
  BY <1>1, <1>2, FS_Subset

\* A full window gives up its oldest time point and keeps at least one.
LEMMA SlideFacts ==
  ASSUME PreTrigsFit, RangeInv, FifoParts, Window, NEW len \in PointLens,
         NEW fires \in BOOLEAN, BeginTimePoint(len, fires), Slides(fires)
  PROVE  \E n \in 1 .. Used - 1 :
           /\ rpos + n + 1 \in starts
           /\ tail' = At(n) /\ rpos' = rpos + n /\ host' = host + n
           /\ starts' = {s \in starts : s > rpos + n}
           /\ starts' = starts \ {rpos + 1} /\ rpos + 1 \in starts
<1> DEFINE m == NextStart(rpos + 1)
<1>1. /\ state = "ARMED" /\ ppc = "idle" /\ preDur \in PreDurations \ {0} /\ preDur # 1
      /\ preCount = preDur /\ preDur \in Nat
      /\ preCount = Cardinality(starts) /\ starts \subseteq rpos + 1 .. wpos
      /\ wpos \in Nat /\ rpos \in Nat /\ tail \in Cells /\ Used \in 0 .. BufSize
  <2>1. preDur \in PreDurations \ {0}
    BY SlidesWhen DEF RangeInv, DataOK
  <2>2. ppc = "idle"
    BY Zenon DEF BeginTimePoint
  <2>3. state = "ARMED" /\ preCount = preDur
    BY SlidesWhen, Zenon DEF WindowFull
  <2>4. /\ starts \subseteq rpos + 1 .. wpos /\ preCount = Cardinality(starts)
    BY <2>3, Zenon DEF Window
  <2>5. preDur # 1
    BY <2>1, Zenon DEF PreTrigsFit
  <2>6. Used \in 0 .. BufSize
    BY Zenon DEF FifoParts, Pointers
  <2>7. wpos \in Nat /\ rpos \in Nat /\ tail \in Cells /\ preDur \in Nat
    BY <2>1 DEF RangeInv, DataOK, IndicesInRange
  <2> QED
    BY <2>1, <2>2, <2>3, <2>4, <2>5, <2>6, <2>7, Zenon
<1>2. PICK t \in starts : t # rpos + 1
  <2> SUFFICES ASSUME starts \subseteq {rpos + 1} PROVE FALSE
    OBVIOUS
  <2>1. IsFiniteSet({rpos + 1}) /\ Cardinality({rpos + 1}) = 1
    BY FS_Singleton
  <2>2. Cardinality(starts) <= 1
    <3>1. starts \in SUBSET {rpos + 1}
      OBVIOUS
    <3>2. Cardinality(starts) <= Cardinality({rpos + 1})
      BY <2>1, <3>1, FS_Subset, Zenon
    <3> QED
      BY <2>1, <3>2
  <2> QED
    BY <1>1, <2>2
<1>3. t \in rpos + 2 .. wpos /\ Used \in 2 .. BufSize /\ rpos + 1 \in starts /\ rpos + 1 \in 1 .. wpos
  <2>1. t \in rpos + 2 .. wpos
    BY <1>1, <1>2
  <2>2. Used \in 2 .. BufSize
    BY <1>1, <2>1 DEF Used
  <2>3. rpos + 1 \in starts
    BY <1>1, <2>2 DEF Window
  <2> QED
    BY <1>1, <2>1, <2>2, <2>3
<1>4. tail + 1 < BufSize /\ At(1) = tail + 1
  <2>1. StepLens # {}
    BY BeginFacts, Zenon DEF RangeInv
  <2>2. tail + 1 < BufSize
    BY <2>1, Zenon DEF StepLens
  <2> QED
    BY <1>1, <2>2 DEF At
<1>5. mem[tail + 1] = rpos + 1 + 1
  <2>1. 1 \in 0 .. Stored - 1
    BY <1>1, <1>3 DEF Stored
  <2> QED
    BY <1>4, <2>1, Zenon DEF FifoParts, Contents
<1>6. StepLens = {m - (rpos + 1)}
  <2>1. mem[tail + 1] - 1 = rpos + 1
    BY <1>1, <1>5
  <2> QED
    BY <1>3, <1>4, <2>1, Zenon DEF StepLens
<1>7. m \in starts /\ m > rpos + 1 /\ \A s \in starts : s > rpos + 1 => m <= s
  <2> HIDE DEF m
  <2>1. /\ m \in {s \in starts : s > rpos + 1} \cup {wpos + 1}
        /\ \A s \in starts : s > rpos + 1 => m <= s
    <3>1. starts \subseteq 1 .. wpos
      BY <1>1
    <3> QED
      BY <1>1, <1>3, <3>1, NextStartFacts, Zenon DEF m
  <2>2. m # wpos + 1
    BY <1>1, <1>3, <2>1
  <2> QED
    BY <2>1, <2>2
<1> DEFINE n == m - (rpos + 1)
<1>8. /\ tail' = IF tail + n >= BufSize THEN tail + n - BufSize ELSE tail + n
      /\ rpos' = rpos + n /\ host' = host + n /\ starts' = {s \in starts : s > rpos + n}
  BY <1>6, BeginFacts, Zenon DEF RangeInv
<1> HIDE DEF m
<1>9. m \in rpos + 2 .. wpos /\ n \in 1 .. Used - 1 /\ rpos + n + 1 = m /\ rpos + n = m - 1
  BY <1>1, <1>7 DEF Used
<1>10. starts' = starts \ {rpos + 1}
  <2>1. ASSUME NEW s \in starts PROVE s > rpos + n <=> s # rpos + 1
    BY <1>1, <1>7, <1>9
  <2> HIDE DEF n
  <2> QED
    BY <1>8, <2>1, Zenon
<1>11. tail' = At(n)
  BY <1>1, <1>8, <1>9 DEF At
<1> QED
  BY <1>1, <1>3, <1>7, <1>8, <1>9, <1>10, <1>11, Zenon

\* UploadBufAddTimePoint, one call at a time.
LEMMA FifoBegin ==
  ASSUME PreTrigsFit, PointsFit, RangeInv, FifoParts, Window, NEW len \in PointLens,
         NEW fires \in BOOLEAN, BeginTimePoint(len, fires)
  PROVE  FifoParts'
<1> USE DEF RangeInv, DataOK, IndicesInRange, Control
<1>1. /\ ppc = "idle" /\ ppc' = "assign" /\ tmpHead' = head /\ left' = len /\ npos' = wpos
      /\ state \in {"ARMED", "FIRED"} /\ state' \in {"ARMED", "FIRED"}
      /\ (empty' <=> empty) /\ (drained' <=> drained) /\ (inOrder' <=> inOrder)
      /\ UNCHANGED <<head, newTail, mem, cpc, wpos>>
  BY BeginFacts
<1>2. CASE ~Slides(fires)
  <2>1. UNCHANGED <<tail, rpos, host>>
    BY <1>2, BeginFacts
  <2>2. Used' = Used /\ Listed' = Listed /\ SentSoFar' = SentSoFar
    BY <1>1, <2>1 DEF Used, Listed, SentSoFar, Bytes1, Bytes2
  <2>3. Pointers' /\ Assigning'
    BY <1>1, <2>1, <2>2 DEF FifoParts, Pointers, Assigning, Used, At, PointsFit, Settling, Sending
  <2>4. Contents'
    BY <1>1, <2>1 DEF FifoParts, Contents, Stored, Used, At
  <2>5. Hosted'
    BY <1>1, <2>1, <2>2 DEF FifoParts, Hosted
  <2> QED
    BY <2>3, <2>4, <2>5 DEF FifoParts
<1>3. CASE Slides(fires)
  <2>1. PICK n \in 1 .. Used - 1 : tail' = At(n) /\ rpos' = rpos + n /\ host' = host + n
    BY <1>3, SlideFacts
  <2>2. cpc = "idle" /\ Used \in 0 .. BufSize /\ head = At(Used) /\ Stored = Used /\ ~empty
    BY <1>1, <1>3, <2>1, SlidesWhen DEF FifoParts, Pointers, Settling, Stored
  <2>3. Used' = Used - n /\ Used' > 0 /\ Stored' = Used - n /\ n \in 0 .. BufSize
    BY <1>1, <2>1, <2>2 DEF Used, Stored
  <2>3a. PICK u \in 1 .. BufSize - n : u = Used - n /\ n + u = Used
    BY <2>2, <2>3
  <2>4. ASSUME NEW k \in 0 .. u PROVE At(k)' = At(n + k)
    <3>1. k \in 0 .. BufSize - n
      BY <2>2, <2>3
    <3> QED
      BY <2>1, <2>3, <3>1, AtMoves
  <2>5. head' = At(u)'
    <3>1. u \in 0 .. u
      OBVIOUS
    <3> QED
      BY <1>1, <2>2, <2>4, <2>3a, <3>1
  <2>6. Pointers'
    <3>1. head' = At(Used)'
      BY <2>3, <2>5, <2>3a, Zenon DEF At
    <3> QED
      BY <1>1, <2>2, <2>3, <3>1 DEF Pointers, Settling, Sending
  <2>7. Assigning'
    <3>1. npos' - rpos' = u /\ npos' - wpos' = 0
      BY <1>1, <2>1, <2>3a DEF Used
    <3>2. tmpHead' = At(npos - rpos)'
      BY <1>1, <2>5, <3>1, Zenon DEF At
    <3> QED
      BY <1>1, <2>2, <2>3, <3>1, <3>2 DEF Assigning, PointsFit
  <2>8. Contents'
    <3>1. ASSUME NEW k \in 0 .. u - 1 PROVE mem'[At(k)'] = rpos' + 1 + k
      <4>1. k \in 0 .. u /\ n + k \in 0 .. Stored - 1
        BY <2>2, <2>3a
      <4>2. mem[At(n + k)] = rpos + 1 + (n + k)
        BY <4>1 DEF FifoParts, Contents
      <4> QED
        BY <1>1, <2>1, <2>4, <4>1, <4>2
    <3> QED
      BY <2>3, <2>3a, <3>1 DEF Contents
  <2>9. Hosted'
    BY <1>1, <2>1, <2>2 DEF FifoParts, Hosted, SentSoFar
  <2> QED
    BY <2>6, <2>7, <2>8, <2>9 DEF FifoParts
<1> QED
  BY <1>2, <1>3

LEMMA FifoAssign ==
  ASSUME RangeInv, FifoParts, NEW n \in SectionLens, AssignMem(n)
  PROVE  FifoParts'
<1> USE DEF RangeInv, DataOK, IndicesInRange, Control
<1> DEFINE D == npos - rpos
<1>1. /\ ppc = "assign" /\ n <= left /\ Room >= n
      /\ mem' = CopyData(n) /\ tmpHead' = AdvanceHead(n)
      /\ left' = left - n /\ npos' = npos + n
      /\ (empty' <=> empty) /\ (drained' <=> drained) /\ (inOrder' <=> inOrder)
      /\ UNCHANGED <<head, tail, newTail, state, ppc, cpc, wpos, rpos, host>>
  BY Zenon DEF AssignMem, circ, trig, hist
<1>2. Used' = Used /\ Listed' = Listed /\ SentSoFar' = SentSoFar
  BY <1>1 DEF Used, Listed, SentSoFar, Bytes1, Bytes2
<1>3. D \in 0 .. BufSize /\ tmpHead = At(D) /\ n \in Nat \ {0} /\ D = Used + (npos - wpos)
  BY <1>1 DEF FifoParts, Pointers, Assigning, Used
<1>4. D + n <= BufSize
  <2>1. CASE empty
    <3>1. cpc \notin Settling /\ Used = 0
      BY <2>1 DEF FifoParts, Pointers
    <3> QED
      BY <1>1, <1>3, <3>1 DEF FifoParts, Assigning
  <2>2. CASE ~empty /\ Used = 0
    <3>1. D = 0 /\ tmpHead = tail
      BY <1>1, <1>3, <2>2 DEF FifoParts, Assigning, At
    <3> QED
      BY <1>1, <1>3, <2>2, <3>1 DEF Room, NotWrapped
  <2>3. CASE ~empty /\ Used # 0
    <3>1. D \in 1 .. BufSize
      BY <1>1, <1>3, <2>3 DEF FifoParts, Assigning, Pointers
    <3> HIDE DEF D
    <3>2. Room = BufSize - D
      BY <1>3, <2>3, <3>1, RoomIsRoom
    <3> QED
      BY <1>1, <1>3, <3>1, <3>2
  <2> QED
    BY <2>1, <2>2, <2>3
<1>5. AdvanceHead(n) = At(D + n)
  <2> HIDE DEF D
  <2> QED
    BY <1>1, <1>3, <1>4, AdvanceIsAt
<1>6. Pointers'
  BY <1>1, <1>2 DEF FifoParts, Pointers, At, Settling, Sending
<1>7. ~empty /\ Used = 0 => FALSE
  BY <1>1, <1>3 DEF FifoParts, Assigning, At, Room, NotWrapped
<1>8. Assigning'
  <2>1. npos' - rpos' = D + n
    BY <1>1
  <2>2. tmpHead' = IF tail + (D + n) < BufSize THEN tail + (D + n) ELSE tail + (D + n) - BufSize
    BY <1>1, <1>5 DEF At
  <2>3. tmpHead' = At(npos - rpos)'
    BY <1>1, <2>1, <2>2 DEF At
  <2>4. npos' >= wpos' /\ npos' - rpos' <= BufSize /\ npos' - wpos' + left' <= BufSize
    BY <1>1, <1>3, <1>4, <2>1 DEF FifoParts, Assigning
  <2> QED
    BY <1>1, <1>2, <1>7, <2>3, <2>4 DEF Assigning
<1>9. Contents'
  <2>1. /\ \A k \in 0 .. D - 1 : CopyData(n)[At(k)] = mem[At(k)]
        /\ \A k \in D .. D + n - 1 : CopyData(n)[At(k)] = npos + 1 + (k - D)
    <3>1. tail \in Cells /\ npos \in Nat /\ mem \in [Cells -> Nat]
      OBVIOUS
    <3> HIDE DEF D, RangeInv, DataOK, IndicesInRange, Control
    <3> QED
      BY <1>1, <1>3, <1>4, <3>1, CopyPlaces
  <2>2. Stored = D /\ Stored' = D + n
    BY <1>1 DEF Stored
  <2>3. ASSUME NEW k \in 0 .. D + n - 1 PROVE CopyData(n)[At(k)] = rpos + 1 + k
    <3>1. CASE k < D
      BY <2>1, <2>2, <3>1 DEF FifoParts, Contents
    <3>2. CASE ~(k < D)
      BY <2>1, <3>2
    <3> QED
      BY <3>1, <3>2
  <2> QED
    BY <1>1, <2>2, <2>3 DEF Contents, At
<1>10. Hosted'
  BY <1>1, <1>2 DEF FifoParts, Hosted
<1> QED
  BY <1>6, <1>8, <1>9, <1>10 DEF FifoParts

LEMMA FifoEnd ==
  ASSUME RangeInv, FifoParts, EndTimePoint
  PROVE  FifoParts'
<1> USE DEF RangeInv, DataOK, IndicesInRange, Control
<1>1. /\ ppc = "assign" /\ ppc' = "idle" /\ left = 0
      /\ (drained' <=> drained) /\ (inOrder' <=> inOrder)
      /\ UNCHANGED <<tail, newTail, state, mem, cpc, rpos, host>>
  BY Zenon DEF EndTimePoint
<1>2. Listed' = Listed /\ SentSoFar' = SentSoFar
  BY <1>1 DEF Listed, SentSoFar, Bytes1, Bytes2
<1>3. Assigning' /\ Hosted'
  BY <1>1, <1>2 DEF FifoParts, Assigning, Hosted
<1>4. CASE npos - wpos <= HdrLen
  <2>1. UNCHANGED <<head, wpos>> /\ (empty' <=> empty)
    BY <1>4, Zenon DEF EndTimePoint
  <2>2. Pointers'
    BY <1>1, <1>2, <2>1 DEF FifoParts, Pointers, Used, At, Settling, Sending
  <2>3. Contents'
    BY <1>1, <2>1 DEF FifoParts, Contents, Stored, Used, At, Assigning
  <2> QED
    BY <1>3, <2>2, <2>3 DEF FifoParts
<1>5. CASE ~(npos - wpos <= HdrLen)
  <2>1. head' = tmpHead /\ wpos' = npos /\ ~empty'
    BY <1>5, Zenon DEF EndTimePoint
  <2>2. npos > wpos
    BY <1>5
  <2>3. Used' = npos - rpos /\ Used' > 0 /\ Used' >= Used
    BY <1>1, <2>1, <2>2 DEF Used, FifoParts, Pointers
  <2>4. cpc # "compared" \/ Used # 0
    BY <1>1, <2>2 DEF FifoParts, Assigning, Pointers, Settling
  <2>5. Pointers'
    <3>1. Used' \in 0 .. BufSize /\ head' = At(Used)'
      BY <1>1, <2>1, <2>3 DEF FifoParts, Assigning, At
    <3>2. cpc' \in Settling => ~empty'
      BY <2>1
    <3>3. (cpc' \notin Settling => (empty' <=> Used' = 0))
      BY <2>1, <2>3
    <3>4. cpc' = "compared" => (drained' <=> Used' = 0)
      BY <1>1, <2>3, <2>4 DEF FifoParts, Pointers
    <3>5. cpc' \in Sending => Listed' <= Used'
      BY <1>1, <1>2, <2>3 DEF FifoParts, Pointers, Listed, Used, Bytes1, Bytes2
    <3> QED
      BY <3>1, <3>2, <3>3, <3>4, <3>5 DEF Pointers, Settling, Sending
  <2>6. Contents'
    BY <1>1, <2>1, <2>3 DEF FifoParts, Contents, Stored, At
  <2> QED
    BY <1>3, <2>5, <2>6 DEF FifoParts
<1> QED
  BY <1>4, <1>5

\* What leaves the pointers and the data alone leaves the invariant alone; the
\* server may meanwhile move between its idle and its end test.
LEMMA FifoFrame ==
  ASSUME RangeInv, FifoParts,
         UNCHANGED <<head, tail, newTail, mem, wpos, rpos, host>>,
         (ppc' = ppc /\ UNCHANGED <<npos, left, tmpHead>>) \/ ppc' = "idle",
         (empty' <=> empty) /\ (drained' <=> drained) /\ (inOrder' <=> inOrder),
         \/ cpc' = cpc /\ (state' # "UNARMED" => state # "UNARMED")
         \/ /\ cpc' \in {"idle", "endTest"}
            /\ state' = "UNARMED" \/ (cpc \in {"idle", "endTest"} /\ state # "UNARMED"),
         cpc' \in Settling <=> cpc \in Settling
  PROVE  FifoParts'
<1> USE DEF RangeInv, DataOK, IndicesInRange, Control
<1>1. Listed' = Listed /\ Used' = Used /\ \A k : At(k)' = At(k)
  BY DEF Listed, Used, Bytes1, Bytes2, At
<1>2. Pointers'
  BY DEF FifoParts, Pointers, Settling, Sending, Listed, Used, Bytes1, Bytes2, At
<1>3. Assigning'
  <2>1. CASE ppc' = "idle"
    BY <2>1 DEF Assigning
  <2>2. CASE ppc' = ppc /\ UNCHANGED <<npos, left, tmpHead>>
    <3>1. Assigning
      BY Zenon DEF FifoParts
    <3> HIDE DEF RangeInv, DataOK, IndicesInRange, Control
    <3> QED
      BY <2>2, <3>1 DEF Assigning, Used, At
  <2> QED
    BY <2>1, <2>2
<1>4. Contents'
  <2>1. Contents
    BY Zenon DEF FifoParts
  <2>2. wpos \in Nat /\ rpos \in Nat /\ npos \in Nat /\ ppc \in {"idle", "assign"}
    OBVIOUS
  <2>3. ppc = "assign" => npos >= wpos
    BY Zenon DEF FifoParts, Assigning
  <2> HIDE DEF RangeInv, DataOK, IndicesInRange, Control
  <2>4. CASE ppc' = ppc /\ UNCHANGED <<npos, left, tmpHead>>
    <3>1. Stored' = Stored
      BY <1>1, <2>4, Zenon DEF Stored
    <3> QED
      BY <1>1, <2>1, <3>1 DEF Contents
  <2>5. CASE ppc' = "idle"
    <3>1. Stored' = Used
      BY <1>1, <2>5 DEF Stored
    <3>2. Used \in Int /\ Stored \in Int /\ Used <= Stored
      BY <2>2, <2>3 DEF Stored, Used
    <3> QED
      BY <1>1, <2>1, <3>1, <3>2 DEF Contents
  <2> QED
    BY <2>4, <2>5
<1>5. Hosted'
  BY DEF FifoParts, Hosted, SentSoFar, Listed, Bytes1, Bytes2
<1> QED
  BY <1>2, <1>3, <1>4, <1>5 DEF FifoParts

LEMMA FifoScan ==
  ASSUME RangeInv, FifoParts, ScanBufs
  PROVE  FifoParts'
<1> USE DEF RangeInv, DataOK, IndicesInRange, Control
<1>1. /\ ppc = "idle" /\ ppc' = "idle" /\ cpc = "idle" /\ state # "UNARMED"
      /\ (empty' <=> empty) /\ (drained' <=> drained) /\ (inOrder' <=> inOrder)
      /\ UNCHANGED <<head, tail, state, mem, wpos, rpos, host>>
  BY Zenon DEF ScanBufs, trig, prod, hist
<1>2. \/ empty /\ cpc' = "endTest" /\ newTail' = newTail
      \/ ~empty /\ cpc' = "send1" /\ newTail' = head
  BY Zenon DEF ScanBufs
<1>3. cpc' = "send1" => Listed' <= Used
  <2> SUFFICES ASSUME cpc' = "send1" PROVE Listed' <= Used
    OBVIOUS
  <2>1. newTail' = At(Used) /\ Used \in 1 .. BufSize
    BY <1>1, <1>2 DEF FifoParts, Pointers, Settling
  <2> QED
    BY <1>1, <2>1 DEF Listed, Bytes1, Bytes2, At
<1>4. Pointers'
  BY <1>1, <1>2, <1>3 DEF FifoParts, Pointers, Used, At, Settling, Sending
<1>5. Assigning' /\ Contents'
  BY <1>1 DEF FifoParts, Assigning, Contents, Stored, Used, At
<1>6. Hosted'
  BY <1>1, <1>2 DEF FifoParts, Hosted, SentSoFar
<1> QED
  BY <1>4, <1>5, <1>6 DEF FifoParts

\* A new event starts from empty buffers, whatever happened before.
LEMMA FifoArm ==
  ASSUME RangeInv, ArmTrigger
  PROVE  FifoParts'
<1> USE DEF RangeInv, DataOK, IndicesInRange, Control
<1>1. /\ ppc' = "idle" /\ cpc' = "idle" /\ empty' /\ inOrder'
      /\ head' = 0 /\ tail' = 0 /\ rpos' = wpos /\ host' = wpos /\ wpos' = wpos
  <2>1. ppc = "idle" /\ cpc = "idle"
    BY DEF ArmTrigger
  <2> QED
    BY <2>1, Zenon DEF ArmTrigger, prod
<1>2. Used' = 0 /\ SentSoFar' = 0
  BY <1>1 DEF Used, SentSoFar
<1>3. Pointers'
  BY <1>1, <1>2 DEF Pointers, At, Settling, Sending
<1>4. Assigning' /\ Contents' /\ Hosted'
  BY <1>1, <1>2 DEF Assigning, Contents, Stored, Hosted
<1> QED
  BY <1>3, <1>4 DEF FifoParts

\* The first section of the list holds the oldest cells, in order.
LEMMA FifoSend1 ==
  ASSUME RangeInv, FifoParts, SendSection1
  PROVE  FifoParts'
<1> USE DEF RangeInv, DataOK, IndicesInRange, Control
<1> DEFINE b == Bytes1(tail, newTail)
<1>1. /\ ppc = "idle" /\ ppc' = "idle" /\ cpc = "send1" /\ state # "UNARMED"
      /\ (empty' <=> empty) /\ (drained' <=> drained)
      /\ UNCHANGED <<head, tail, newTail, state, mem, wpos, rpos>>
      /\ cpc' = IF Bytes2(tail, newTail) > 0 THEN "send2" ELSE "sent"
      /\ host' = host + b
  <2>1. ppc = "idle" /\ cpc = "send1" /\ state # "UNARMED"
    BY DEF SendSection1
  <2> QED
    BY <2>1, Zenon DEF SendSection1, Send, circ, trig, prod
<1>2. inOrder' <=> (inOrder /\ \A i \in 0 .. b - 1 : mem[tail + i] = host + 1 + i)
  BY Zenon DEF SendSection1, Send
<1>3. host = rpos /\ inOrder
  BY <1>1 DEF FifoParts, Hosted, SentSoFar
<1>4. /\ Listed \in 1 .. Used /\ Used \in 0 .. BufSize /\ Stored = Used
      /\ b \in 1 .. Listed /\ tail + b <= BufSize
  BY <1>1 DEF FifoParts, Pointers, Sending, Stored, Listed, Bytes1, Bytes2
<1>5. ASSUME NEW i \in 0 .. b - 1 PROVE mem[tail + i] = host + 1 + i
  <2> HIDE DEF b
  <2>1. i \in 0 .. Stored - 1 /\ At(i) = tail + i
    BY <1>4 DEF At
  <2> QED
    BY <1>3, <2>1 DEF FifoParts, Contents
<1>6. Listed' = Listed /\ Used' = Used
  BY <1>1 DEF Listed, Used, Bytes1, Bytes2
<1>7. SentSoFar' = b
  BY <1>1 DEF SentSoFar, Listed, Bytes1, Bytes2
<1>8. Hosted'
  BY <1>1, <1>2, <1>3, <1>5, <1>7 DEF Hosted
<1>9. Pointers'
  BY <1>1, <1>6 DEF FifoParts, Pointers, At, Settling, Sending
<1>10. Assigning' /\ Contents'
  BY <1>1, <1>6 DEF FifoParts, Assigning, Contents, Stored, At
<1> QED
  BY <1>8, <1>9, <1>10 DEF FifoParts

\* The second section continues the first one from the start of the buffer.
LEMMA FifoSend2 ==
  ASSUME RangeInv, FifoParts, SendSection2
  PROVE  FifoParts'
<1> USE DEF RangeInv, DataOK, IndicesInRange, Control
<1> DEFINE a == Bytes1(tail, newTail)
<1> DEFINE b == Bytes2(tail, newTail)
<1>1. /\ ppc = "idle" /\ ppc' = "idle" /\ cpc = "send2" /\ cpc' = "sent"
      /\ state # "UNARMED"
      /\ (empty' <=> empty) /\ (drained' <=> drained)
      /\ UNCHANGED <<head, tail, newTail, state, mem, wpos, rpos>>
      /\ host' = host + b
  <2>1. ppc = "idle" /\ cpc = "send2" /\ state # "UNARMED"
    BY DEF SendSection2
  <2> QED
    BY <2>1, Zenon DEF SendSection2, Send, circ, trig, prod
<1>2. inOrder' <=> (inOrder /\ \A i \in 0 .. b - 1 : mem[0 + i] = host + 1 + i)
  BY Zenon DEF SendSection2, Send
<1>3. host = rpos + a /\ inOrder
  BY <1>1 DEF FifoParts, Hosted, SentSoFar
<1>4. /\ Listed \in 1 .. Used /\ Used \in 0 .. BufSize /\ Stored = Used
      /\ Listed = a + b /\ a \in Nat /\ b \in Nat
      /\ b > 0 => tail + a = BufSize
  BY <1>1 DEF FifoParts, Pointers, Sending, Stored, Listed, Bytes1, Bytes2
<1>5. ASSUME NEW i \in 0 .. b - 1 PROVE mem[0 + i] = host + 1 + i
  <2> HIDE DEF a, b
  <2>1. a + i \in 0 .. Stored - 1 /\ At(a + i) = i /\ 0 + i = i
    BY <1>4 DEF At
  <2>2. mem[i] = rpos + 1 + (a + i)
    BY <2>1 DEF FifoParts, Contents
  <2>3. rpos + 1 + (a + i) = host + 1 + i
    BY <1>3, <1>4
  <2> QED
    BY <2>1, <2>2, <2>3
<1>6. Listed' = Listed /\ Used' = Used
  BY <1>1 DEF Listed, Used, Bytes1, Bytes2
<1>7. SentSoFar' = a + b
  BY <1>1 DEF SentSoFar, Listed, Bytes1, Bytes2
<1>8. Hosted'
  <2>1. inOrder'
    BY <1>2, <1>3, <1>5, Zenon
  <2>2. host' = rpos' + SentSoFar'
    <3> HIDE DEF a, b, RangeInv, DataOK, IndicesInRange, Control
    <3>1. rpos \in Nat
      BY DEF RangeInv, DataOK
    <3> QED
      BY <1>1, <1>3, <1>4, <1>7, <3>1
  <2> QED
    BY <2>1, <2>2, Zenon DEF Hosted
<1>9. Pointers'
  BY <1>1, <1>6 DEF FifoParts, Pointers, At, Settling, Sending
<1>10. Assigning' /\ Contents'
  BY <1>1, <1>6 DEF FifoParts, Assigning, Contents, Stored, At
<1> QED
  BY <1>8, <1>9, <1>10 DEF FifoParts

\* newTail is where the cells after the listed ones start.
LEMMA FifoStoreTail ==
  ASSUME RangeInv, FifoParts, StoreTail
  PROVE  FifoParts'
<1> USE DEF RangeInv, DataOK, IndicesInRange, Control
<1>1. /\ ppc = "idle" /\ ppc' = "idle" /\ cpc = "sent" /\ cpc' = "stored"
      /\ state # "UNARMED" /\ tail' = newTail /\ rpos' = rpos + Listed
      /\ (empty' <=> empty) /\ (drained' <=> drained) /\ (inOrder' <=> inOrder)
      /\ UNCHANGED <<head, newTail, state, mem, wpos, host>>
  <2>1. /\ ppc = "idle" /\ cpc = "sent" /\ state # "UNARMED"
        /\ rpos' = rpos + Listed
    BY DEF StoreTail, Listed, Bytes1, Bytes2
  <2> QED
    BY <2>1, Zenon DEF StoreTail, trig, prod
<1>2. Listed \in 1 .. Used /\ Used \in 0 .. BufSize /\ Stored = Used
  BY <1>1 DEF FifoParts, Pointers, Sending, Stored, Listed, Bytes1, Bytes2
<1>3. Used' = Used - Listed
  BY <1>1, <1>2 DEF Used
<1>4. newTail = At(Listed)
  BY <1>1 DEF Listed, Bytes1, Bytes2, At
<1>5. ASSUME NEW k \in 0 .. Used - Listed
      PROVE  (IF newTail + k < BufSize THEN newTail + k ELSE newTail + k - BufSize)
               = At(Listed + k)
  BY <1>2, <1>4, <1>5 DEF At, Used
<1>6. head' = At(Used)'
  <2>1. head = At(Used)
    BY DEF FifoParts, Pointers
  <2>2. Listed + (Used - Listed) = Used /\ Used - Listed \in 0 .. Used - Listed
    BY <1>2
  <2>3. head = IF newTail + (Used - Listed) < BufSize THEN newTail + (Used - Listed)
               ELSE newTail + (Used - Listed) - BufSize
    BY <1>5, <2>1, <2>2, Zenon
  <2> QED
    BY <1>1, <1>3, <2>3 DEF At
<1>7. Pointers'
  <2>1. ~empty
    BY <1>1, <1>2 DEF FifoParts, Pointers, Settling
  <2> QED
    BY <1>1, <1>2, <1>3, <1>6, <2>1 DEF Pointers, Settling, Sending
<1>8. Assigning'
  BY <1>1 DEF Assigning
<1>9. Contents'
  <2>1. Stored' = Used - Listed
    BY <1>1, <1>3 DEF Stored
  <2>2. ASSUME NEW k \in 0 .. Used - Listed - 1
        PROVE  mem[At(Listed + k)] = rpos + Listed + 1 + k
    BY <1>2 DEF FifoParts, Contents
  <2>3. ASSUME NEW k \in 0 .. Stored' - 1
        PROVE  mem'[IF newTail + k < BufSize THEN newTail + k ELSE newTail + k - BufSize]
                 = rpos' + 1 + k
    <3>1. k \in 0 .. Used - Listed - 1 /\ k \in 0 .. Used - Listed
      BY <1>2, <2>1
    <3> QED
      BY <1>1, <1>2, <1>5, <2>2, <3>1
  <2> QED
    BY <1>1, <2>3 DEF Contents, At
<1>10. Hosted'
  <2>1. host = rpos + Listed /\ inOrder
    BY <1>1 DEF FifoParts, Hosted, SentSoFar
  <2>2. SentSoFar' = 0
    BY <1>1 DEF SentSoFar
  <2> QED
    BY <1>1, <2>1, <2>2, <1>2 DEF Hosted
<1> QED
  BY <1>7, <1>8, <1>9, <1>10 DEF FifoParts

\* The comparison is right unless it takes a full buffer for an empty one.
LEMMA FifoCompare ==
  ASSUME RangeInv, FifoParts, CompareHead, ~misread'
  PROVE  FifoParts'
<1> USE DEF RangeInv, DataOK, IndicesInRange, Control
<1>1. /\ ppc = "idle" /\ ppc' = "idle" /\ cpc = "stored" /\ cpc' = "compared"
      /\ (drained' <=> tail = head)
      /\ ~(tail = head /\ wpos > rpos)
      /\ (empty' <=> empty) /\ (inOrder' <=> inOrder)
      /\ UNCHANGED <<head, tail, newTail, state, mem, wpos, rpos, host>>
  BY Zenon DEF CompareHead, circ, trig, prod
<1>2. drained' <=> Used = 0
  BY <1>1 DEF FifoParts, Pointers, At, Used
<1>3. Pointers'
  BY <1>1, <1>2 DEF FifoParts, Pointers, Used, At, Settling, Sending
<1>4. Assigning' /\ Contents' /\ Hosted'
  BY <1>1 DEF FifoParts, Assigning, Contents, Stored, Used, At, Hosted, SentSoFar
<1> QED
  BY <1>3, <1>4 DEF FifoParts

LEMMA FifoStoreEmpty ==
  ASSUME RangeInv, FifoParts, StoreEmpty
  PROVE  FifoParts'
<1> USE DEF RangeInv, DataOK, IndicesInRange, Control
<1>1. /\ ppc = "idle" /\ ppc' = "idle" /\ cpc = "compared" /\ cpc' = "idle"
      /\ (empty' <=> drained) /\ (drained' <=> drained) /\ (inOrder' <=> inOrder)
      /\ UNCHANGED <<head, tail, newTail, state, mem, wpos, rpos, host>>
  BY Zenon DEF StoreEmpty, trig, prod, hist
<1>2. Pointers'
  BY <1>1 DEF FifoParts, Pointers, Used, At, Settling, Sending
<1>3. Assigning' /\ Contents' /\ Hosted'
  BY <1>1 DEF FifoParts, Assigning, Contents, Stored, Used, At, Hosted, SentSoFar
<1> QED
  BY <1>2, <1>3 DEF FifoParts

-----------------------------------------------------------------------------
FifoInv == RangeInv /\ FlagsOK /\ Fifo /\ Window

\* misread is set by the comparison of UploadBufDataSent and cleared by a new
\* event only.
LEMMA MisreadStep ==
  ASSUME [Step]_buffer PROVE (misread' <=> misread) \/ CompareHead \/ ArmTrigger
<1> USE DEF circ, trig, prod, hist
<1>1. ASSUME NEW len \in PointLens, NEW fires \in BOOLEAN, BeginTimePoint(len, fires)
      PROVE  misread' <=> misread
  BY <1>1, Zenon DEF BeginTimePoint
<1>2. ASSUME NEW n \in SectionLens, AssignMem(n) PROVE misread' <=> misread
  BY <1>2, Zenon DEF AssignMem
<1>3. ASSUME NEW n \in SectionLens, OverFlow(n) PROVE misread' <=> misread
  BY <1>3, Zenon DEF OverFlow
<1>4. CASE EndTimePoint
  BY <1>4, Zenon DEF EndTimePoint
<1>5. CASE CheckEndTrigger \/ CancelLogging \/ SendFails
  BY <1>5, Zenon DEF CheckEndTrigger, CancelLogging, SendFails
<1>6. CASE ScanBufs \/ EndTest \/ SendSection1 \/ SendSection2
  BY <1>6, Zenon DEF ScanBufs, EndTest, SendSection1, SendSection2
<1>7. CASE StoreTail \/ StoreEmpty
  BY <1>7, Zenon DEF StoreTail, StoreEmpty
<1>8. CASE UNCHANGED buffer
  BY <1>8, Zenon DEF buffer
<1> QED
  BY <1>1, <1>2, <1>3, <1>4, <1>5, <1>6, <1>7, <1>8
  DEF Step, AddTimePoint, ServerWork, BufDataSent

\* The steps that change neither the pointers nor the data.
LEMMA FifoQuiet ==
  ASSUME RangeInv, FifoParts,
         \/ \E n \in SectionLens : OverFlow(n)
         \/ CheckEndTrigger \/ EndTest \/ SendFails \/ CancelLogging
         \/ UNCHANGED buffer
  PROVE  FifoParts'
<1> USE DEF RangeInv, DataOK, IndicesInRange, Control
<1>1. ASSUME NEW n \in SectionLens, OverFlow(n) PROVE FifoParts'
  <2>1. state # "UNARMED"
    BY <1>1 DEF OverFlow
  <2>2. /\ ppc' = "idle" /\ cpc' = cpc
        /\ (empty' <=> empty) /\ (drained' <=> drained) /\ (inOrder' <=> inOrder)
        /\ UNCHANGED <<head, tail, newTail, mem, wpos, rpos, host>>
    BY <1>1, Zenon DEF OverFlow, circ, hist
  <2> QED
    BY <2>1, <2>2, FifoFrame
<1>2. CASE CheckEndTrigger
  <2>1. state = "FIRED"
    BY <1>2 DEF CheckEndTrigger
  <2>2. /\ ppc' = ppc /\ cpc' = cpc
        /\ (empty' <=> empty) /\ (drained' <=> drained) /\ (inOrder' <=> inOrder)
        /\ UNCHANGED <<head, tail, newTail, mem, wpos, rpos, host, npos, left, tmpHead>>
    BY <1>2, Zenon DEF CheckEndTrigger, circ, prod, hist
  <2> QED
    BY <2>1, <2>2, FifoFrame
<1>3. CASE EndTest
  <2>1. cpc = "endTest" /\ cpc' = "idle" /\ state # "UNARMED" /\ ppc' = ppc
    BY <1>3 DEF EndTest, prod
  <2>2. /\ (empty' <=> empty) /\ (drained' <=> drained) /\ (inOrder' <=> inOrder)
        /\ UNCHANGED <<head, tail, newTail, mem, wpos, rpos, host, npos, left, tmpHead>>
    BY <1>3, Zenon DEF EndTest, circ, prod, hist
  <2> QED
    BY <2>1, <2>2, FifoFrame DEF Settling
<1>4. CASE SendFails
  <2>1. cpc \in {"send1", "send2"} /\ cpc' = "idle" /\ state' = "UNARMED" /\ ppc' = ppc
    BY <1>4 DEF SendFails, prod
  <2>2. /\ (empty' <=> empty) /\ (drained' <=> drained) /\ (inOrder' <=> inOrder)
        /\ UNCHANGED <<head, tail, newTail, mem, wpos, rpos, host, npos, left, tmpHead>>
    BY <1>4, Zenon DEF SendFails, circ, prod, hist
  <2> QED
    BY <2>1, <2>2, FifoFrame DEF Settling
<1>5. CASE CancelLogging
  <2>1. state # "UNARMED"
    BY <1>5 DEF CancelLogging
  <2>2. /\ ppc' = ppc /\ cpc' = cpc
        /\ (empty' <=> empty) /\ (drained' <=> drained) /\ (inOrder' <=> inOrder)
        /\ UNCHANGED <<head, tail, newTail, mem, wpos, rpos, host, npos, left, tmpHead>>
    BY <1>5, Zenon DEF CancelLogging, circ, prod, hist
  <2> QED
    BY <2>1, <2>2, FifoFrame
<1>6. CASE UNCHANGED buffer
  <2>1. /\ ppc' = ppc /\ cpc' = cpc /\ state' = state
        /\ (empty' <=> empty) /\ (drained' <=> drained) /\ (inOrder' <=> inOrder)
        /\ UNCHANGED <<head, tail, newTail, mem, wpos, rpos, host, npos, left, tmpHead>>
    BY <1>6, Zenon DEF buffer, circ, trig, prod, hist
  <2> QED
    BY <2>1, FifoFrame
<1> QED
  BY <1>1, <1>2, <1>3, <1>4, <1>5, <1>6

LEMMA FifoStep ==
  ASSUME PreTrigsFit, PointsFit
  PROVE  RangeInv /\ Fifo /\ Window /\ [Step]_buffer => Fifo'
<1> SUFFICES ASSUME RangeInv, Fifo, Window, [Step]_buffer, ~misread' PROVE FifoParts'
  BY Zenon DEF Fifo, FifoParts
<1>1. CASE ArmTrigger
  BY <1>1, FifoArm
<1>2. CASE ~ArmTrigger
  <2>1. ~misread
    BY <1>2, MisreadStep, Zenon DEF CompareHead
  <2>2. FifoParts
    BY <2>1, Zenon DEF Fifo, FifoParts
  <2> QED
    BY <1>2, <2>2, FifoBegin, FifoAssign, FifoEnd, FifoScan, FifoSend1, FifoSend2,
       FifoStoreTail, FifoCompare, FifoStoreEmpty, FifoQuiet, Zenon
    DEF Step, AddTimePoint, ServerWork, BufDataSent
<1> QED
  BY <1>1, <1>2

\* An armed trigger's buffer has not been misread.
LEMMA ArmedParts == ASSUME RangeInv, Fifo, state = "ARMED" PROVE FifoParts
BY Zenon DEF RangeInv, Control, Fifo, FifoParts

LEMMA SlideInRange ==
  ASSUME PreTrigsFit, RangeInv, Fifo, Window, NEW len \in PointLens,
         NEW fires \in BOOLEAN, BeginTimePoint(len, fires), Slides(fires)
  PROVE  tail' \in Cells
<1>1. FifoParts
  BY ArmedParts, SlidesWhen
<1>2. PICK n \in 1 .. Used - 1 : tail' = At(n)
  BY <1>1, SlideFacts
<1>3. n \in 0 .. BufSize /\ tail \in Cells
  BY <1>1, <1>2 DEF FifoParts, Pointers, RangeInv, IndicesInRange
<1> QED
  BY <1>2, <1>3, AtInRange

\* The steps that add points to the window of an armed trigger.
LEMMA WindowBegin ==
  ASSUME PreTrigsFit, RangeInv, FifoParts, Window, NEW len \in PointLens,
         NEW fires \in BOOLEAN, BeginTimePoint(len, fires)
  PROVE  Window'
<1> SUFFICES ASSUME state' = "ARMED"
             PROVE  /\ starts' \subseteq rpos' + 1 .. wpos'
                    /\ Used' > 0 => rpos' + 1 \in starts'
                    /\ preCount' = Cardinality(starts')
                    /\ preCount' < preDur' /\ preCount' <= preDur'
  BY Zenon DEF Window
<1>1. /\ state = "ARMED" /\ preDur \in PreDurations \ {0} /\ preDur' = preDur
      /\ left' = len /\ npos' = wpos /\ wpos' = wpos /\ wpos \in Nat /\ rpos \in Nat
      /\ tail \in Cells /\ preCount \in Nat /\ preDur \in Nat
  BY BeginFacts DEF RangeInv, DataOK, IndicesInRange
<1>2. /\ starts \subseteq rpos + 1 .. wpos
      /\ Used > 0 => rpos + 1 \in starts
      /\ preCount = Cardinality(starts) /\ preCount <= preDur
  BY <1>1, Zenon DEF Window
<1>4. CASE ~Slides(fires)
  <2>1. UNCHANGED <<tail, rpos, preCount>> /\ starts' = {s \in starts : s > rpos} /\ Used' = Used
    BY <1>1, <1>4, BeginFacts DEF RangeInv, Used
  <2>2. starts' = starts
    <3>1. \A s \in starts : s > rpos
      BY <1>1, <1>2
    <3> QED
      BY <2>1, <3>1, Zenon
  <2>3. preCount < preDur /\ preCount' = preCount
    <3>1. ~fires
      <4>1. fires => state' = "FIRED"
        BY <1>1, Zenon DEF BeginTimePoint, Fired
      <4>2. state' # "FIRED"
        OBVIOUS
      <4> QED
        BY <4>1, <4>2
    <3>2. preDur > 0
      BY <1>1
    <3> QED
      BY <1>1, <1>2, <1>4, <2>1, <3>1, <3>2, SlidesWhen DEF WindowFull
  <2>4. tail' = tail /\ rpos' = rpos
    BY <2>1
  <2> QED
    BY <1>1, <1>2, <2>1, <2>2, <2>3, <2>4, Zenon
<1>5. CASE Slides(fires)
  <2>1. PICK n \in 1 .. Used - 1 :
           /\ rpos + n + 1 \in starts
           /\ tail' = At(n) /\ rpos' = rpos + n
           /\ starts' = {s \in starts : s > rpos + n}
           /\ starts' = starts \ {rpos + 1} /\ rpos + 1 \in starts
    BY <1>5, SlideFacts
  <2>2. Used \in 0 .. BufSize /\ Used' = Used - n /\ n \in Int
    BY <1>1, <2>1 DEF FifoParts, Pointers, Used
  <2>5. ASSUME NEW s \in starts' PROVE s \in rpos' + 1 .. wpos'
    <3>1. s \in starts /\ s > rpos + n /\ s \in rpos + 1 .. wpos
      BY <1>2, <2>1, <2>5
    <3> QED
      BY <1>1, <2>1, <2>2, <3>1
  <2>7. rpos' + 1 \in starts'
    <3>1. rpos' + 1 = rpos + n + 1 /\ rpos + n + 1 > rpos + n
      BY <1>1, <2>1, <2>2
    <3> QED
      BY <2>1, <3>1
  <2>8. preCount' = Cardinality(starts') /\ preCount' < preDur' /\ preCount' <= preDur'
    <3>1. IsFiniteSet(starts)
      BY StartsFinite DEF RangeInv
    <3>2. Cardinality(starts') = Cardinality(starts) - 1
      <4>1. starts' = starts \ {rpos + 1} /\ rpos + 1 \in starts
        BY <2>1, Zenon
      <4>2. Cardinality(starts \ {rpos + 1}) = Cardinality(starts) - 1
        BY <3>1, <4>1, FS_RemoveElement, Zenon
      <4> QED
        BY <4>1, <4>2
    <3>3. preCount' = preCount - 1
      BY <1>5, BeginFacts DEF RangeInv
    <3> QED
      BY <1>1, <1>2, <3>2, <3>3
  <2>9. starts' \subseteq rpos' + 1 .. wpos'
    BY <2>5, Zenon
  <2> QED
    BY <2>7, <2>8, <2>9, Zenon
<1> QED
  BY <1>4, <1>5

LEMMA WindowEnd ==
  ASSUME RangeInv, FifoParts, Window, EndTimePoint
  PROVE  Window'
<1> SUFFICES ASSUME state = "ARMED", state' = "ARMED" PROVE Window'
  <2>1. state' = state
    BY DEF EndTimePoint
  <2> QED
    BY <2>1 DEF Window
<1>1. /\ ppc = "assign" /\ ppc' = "idle" /\ left = 0 /\ pre
      /\ UNCHANGED <<tail, rpos, preDur>>
      /\ wpos \in Nat /\ rpos \in Nat /\ npos \in Nat /\ preCount \in Nat /\ preDur \in Nat
  BY DEF EndTimePoint, RangeInv, DataOK, Control
<1>2. /\ starts \subseteq rpos + 1 .. wpos
      /\ Used > 0 => rpos + 1 \in starts
      /\ preCount = Cardinality(starts) /\ preCount < preDur
  BY <1>1, Zenon DEF Window
<1>3. Used \in Nat /\ npos >= wpos
  BY <1>1 DEF FifoParts, Pointers, Assigning
<1>4. CASE npos - wpos <= HdrLen
  <2>1. UNCHANGED <<preCount, wpos, starts>>
    BY <1>4, Zenon DEF EndTimePoint
  <2>2. Used' = Used
    BY <1>1, <2>1 DEF Used
  <2> QED
    BY <1>1, <1>2, <2>1, <2>2 DEF Window
<1>5. CASE ~(npos - wpos <= HdrLen)
  <2>1. preCount' = preCount + 1 /\ wpos' = npos /\ starts' = starts \cup {wpos + 1}
    BY <1>1, <1>5, Zenon DEF EndTimePoint
  <2>2. Used' = Used + (npos - wpos) /\ npos > wpos
    BY <1>1, <1>5, <2>1 DEF Used
  <2>4. starts' \subseteq rpos' + 1 .. wpos' /\ wpos + 1 \notin starts
    BY <1>1, <1>2, <1>3, <2>1, <2>2 DEF Used
  <2>6. rpos' + 1 \in starts'
    <3>1. CASE Used > 0
      BY <1>1, <1>2, <2>1, <3>1
    <3>2. CASE Used = 0
      BY <1>1, <2>1, <3>2 DEF Used
    <3> QED
      BY <1>3, <3>1, <3>2
  <2>7. preCount' = Cardinality(starts') /\ preCount' <= preDur'
    <3>1. IsFiniteSet(starts)
      BY StartsFinite DEF RangeInv
    <3>2. Cardinality(starts') = Cardinality(starts) + 1
      BY <2>1, <2>4, <3>1, FS_AddElement
    <3> QED
      BY <1>1, <1>2, <2>1, <3>2
  <2> QED
    BY <1>1, <1>2, <2>4, <2>6, <2>7 DEF Window
<1> QED
  BY <1>4, <1>5

LEMMA WindowArm == ASSUME RangeInv, ArmTrigger PROVE Window'
<1>1. /\ tail' = 0 /\ rpos' = wpos /\ wpos' = wpos /\ starts' = {} /\ preCount' = 0
      /\ ppc' = "idle"
  BY DEF ArmTrigger, prod
<1>2. Used' = 0 /\ preDur' \in Nat
  <2>1. preDur' = preDur \/ preDur' \in PreDurations
    BY DEF ArmTrigger
  <2>2. preDur \in Nat /\ wpos \in Nat
    BY DEF RangeInv, DataOK
  <2>3. preDur' \in Nat
    BY <2>1, <2>2
  <2>4. Used' = wpos - wpos
    BY <1>1 DEF Used
  <2> QED
    BY <2>2, <2>3, <2>4
<1>3. Cardinality({}) = 0
  BY FS_EmptySet
<1> QED
  BY <1>1, <1>2, <1>3 DEF Window

\* The server does not work on the buffer of an armed trigger.
LEMMA WindowStep ==
  ASSUME PreTrigsFit, RangeInv, Fifo, Window, [Step]_buffer PROVE Window'
<1> USE DEF circ, trig, prod, hist
<1>1. ASSUME NEW len \in PointLens, NEW fires \in BOOLEAN, BeginTimePoint(len, fires)
      PROVE  Window'
  <2>1. CASE state = "ARMED"
    BY <1>1, <2>1, ArmedParts, WindowBegin
  <2>2. CASE state # "ARMED"
    BY <1>1, <2>2, BeginFacts DEF Window, RangeInv
  <2> QED
    BY <2>1, <2>2
<1>2. ASSUME NEW n \in SectionLens, AssignMem(n) PROVE Window'
  <2>1. /\ npos' = npos + n /\ left' = left - n /\ n \in Nat
        /\ UNCHANGED <<state, tail, wpos, rpos, starts, preCount, preDur, ppc>>
    BY <1>2 DEF AssignMem
  <2>2. Used' = Used
    BY <2>1 DEF Used
  <2> QED
    BY <2>1, <2>2 DEF Window
<1>3. ASSUME NEW n \in SectionLens, OverFlow(n) PROVE Window'
  <2>1. /\ state' = state \/ state' = "TERMINATING"
        /\ ppc' = "idle"
        /\ UNCHANGED <<tail, wpos, rpos, starts, preCount, preDur>>
    BY <1>3 DEF OverFlow
  <2>2. Used' = Used
    BY <2>1 DEF Used
  <2> QED
    BY <2>1, <2>2 DEF Window
<1>4. CASE EndTimePoint
  <2>1. CASE state = "ARMED"
    BY <1>4, <2>1, ArmedParts, WindowEnd
  <2>2. CASE state # "ARMED"
    BY <1>4, <2>2 DEF EndTimePoint, Window
  <2> QED
    BY <2>1, <2>2
<1>5. CASE ArmTrigger
  BY <1>5, WindowArm
<1>6. CASE CheckEndTrigger \/ SendFails \/ CancelLogging
  BY <1>6 DEF CheckEndTrigger, SendFails, CancelLogging, Window
<1>7. CASE ServerWork
  <2>1. state \in {"FIRED", "TERMINATING"}
    BY <1>7 DEF ServerWork, ScanBufs, EndTest, SendSection1, SendSection2, BufDataSent,
                StoreTail, CompareHead, StoreEmpty, RangeInv, Control
  <2>2. state' = state \/ state' \in {"HOLDING_OFF", "UNARMED"}
    BY <1>7 DEF ServerWork, ScanBufs, EndTest, SendSection1, SendSection2, BufDataSent,
                StoreTail, CompareHead, StoreEmpty
  <2> QED
    BY <2>1, <2>2 DEF Window
<1>8. CASE UNCHANGED buffer
  BY <1>8 DEF buffer, Window, Used
<1> QED
  BY <1>1, <1>2, <1>3, <1>4, <1>5, <1>6, <1>7, <1>8 DEF Step, AddTimePoint

LEMMA FifoInvariant == ASSUME PreTrigsFit, PointsFit PROVE Spec => []FifoInv
<1>1. Init => FlagsOK
  BY Zenon DEF Init, FlagsOK
<1>2. Init => Fifo
  <2> SUFFICES ASSUME Init PROVE Pointers /\ Assigning /\ Contents /\ Hosted
    BY Zenon DEF Fifo
  <2>1. /\ empty /\ inOrder /\ head = 0 /\ tail = 0 /\ wpos = 0 /\ rpos = 0 /\ host = 0
        /\ ppc = "idle" /\ cpc = "idle"
    BY Zenon DEF Init
  <2> QED
    BY <2>1 DEF Pointers, Assigning, Contents, Hosted, Used, Stored, At, Sending,
       Settling, SentSoFar
<1>3. Init => Window
  BY DEF Init, Window
<1>4. ASSUME RangeInv, Fifo, Window, [Step]_buffer PROVE RangeInv'
  BY <1>4, RangeStep, SlideInRange
<1>5. ASSUME RangeInv, Fifo, Window, [Step]_buffer PROVE Window'
  BY <1>5, WindowStep
<1> QED
  BY RangeInit, FlagsStep, FifoStep, NextIsStep, <1>1, <1>2, <1>3, <1>4, <1>5, PTL DEF Spec, FifoInv

\* Every logged cell keeps its place until it is sent or dropped, and the host gets the
\* cells in order.
THEOREM LoggedDataIsKept ==
  ASSUME PreTrigsFit, PointsFit PROVE Spec => [](IndicesInRange /\ Intact /\ InOrder)
<1>1. ASSUME FifoInv PROVE Intact
  <2> SUFFICES ASSUME FifoParts PROVE Used \in 0 .. BufSize
                                      /\ \A k \in 0 .. Used - 1 : mem[At(k)] = rpos + 1 + k
    BY <1>1, Zenon DEF FifoInv, Fifo, FifoParts, Intact
  <2>1. Used \in 0 .. BufSize
    BY DEF FifoParts, Pointers
  <2>2. Stored \in Int /\ Stored >= Used
    BY <1>1, <2>1 DEF FifoInv, RangeInv, DataOK, FifoParts, Assigning, Stored, Used
  <2> QED
    BY <2>1, <2>2 DEF FifoParts, Contents
<1>2. ASSUME FifoInv PROVE IndicesInRange /\ InOrder
  BY <1>2, Zenon DEF FifoInv, RangeInv, Fifo, InOrder, Hosted
<1> QED
  BY FifoInvariant, <1>1, <1>2, PTL

\* The empty flag and head are right whenever UploadBufDataSent is not half way: the
\* window of a pre-trigger never empties the buffer.
THEOREM EmptyFlagIsExact ==
  ASSUME PreTrigsFit, PointsFit PROVE Spec => []EmptyIsExact
<1>1. ASSUME FifoInv PROVE EmptyIsExact
  <2> SUFFICES ASSUME FifoParts, cpc \notin Settling PROVE (empty <=> Used = 0) /\ head = At(Used)
    BY <1>1, Zenon DEF FifoInv, Fifo, FifoParts, EmptyIsExact, Settling
  <2> QED
    BY Zenon DEF FifoParts, Pointers
<1> QED
  BY FifoInvariant, <1>1, PTL

\* While the trigger is armed the buffer holds the last time points, at most
\* preTrig.duration of them, and preTrig.count counts them.
THEOREM WindowIsCounted ==
  ASSUME PreTrigsFit, PointsFit PROVE Spec => []PreTrigWindow
<1>1. FifoInv => PreTrigWindow
  BY Zenon DEF FifoInv, Window, PreTrigWindow
<1> QED
  BY FifoInvariant, <1>1, PTL

\* What UploadBufAssignMem finds missing is missing, unless UploadBufDataSent is half
\* way with everything sent.
LEMMA NoRoomExplained ==
  ASSUME FifoInv, FifoParts, cpc \notin Settling \/ Used # 0,
         ppc = "assign", NEW n \in SectionLens, n <= left, Room < n
  PROVE  left > BufSize - (npos - rpos)
<1> USE DEF RangeInv, DataOK, IndicesInRange
<1> DEFINE D == npos - rpos
<1>1. RangeInv /\ n \in Nat
  BY DEF FifoInv
<1>2. D \in 0 .. BufSize /\ D = Used + (npos - wpos) /\ npos >= wpos /\ tmpHead = At(D)
  BY <1>1 DEF FifoParts, Pointers, Assigning, Used
<1>3. CASE empty
  <2> HIDE DEF D
  <2>0. tail \in Cells
    BY <1>1
  <2>1. Room >= BufSize - D
    BY <1>2, <1>3, <2>0, RoomWhenEmpty
  <2>2. left \in Nat /\ tmpHead \in Cells
    BY <1>1
  <2> HIDE DEF RangeInv, DataOK, IndicesInRange
  <2>3. Room \in Int
    BY <2>0, <2>2, BufAssumption DEF Room, Cells
  <2> QED
    BY <1>1, <1>2, <2>1, <2>2, <2>3 DEF D
<1>4. CASE ~empty
  <2>1. Used # 0
    BY <1>4 DEF FifoParts, Pointers
  <2>2. D \in 1 .. BufSize
    BY <1>1, <1>2, <2>1 DEF FifoParts, Pointers
  <2> HIDE DEF D
  <2>3. Room = BufSize - D
    BY <1>1, <1>2, <1>4, <2>2, RoomIsRoom
  <2> QED
    BY <1>1, <2>2, <2>3 DEF D
<1> QED
  BY <1>3, <1>4

\* An armed trigger with a window skips a time point only when the point, or what is
\* left of it, does not fit beside the points of the window.
THEOREM WindowKeepsNewest ==
  ASSUME PreTrigsFit, PointsFit PROVE Spec => PreTrigKeepsNewest
<1>1. ASSUME FifoInv, [Step]_buffer, pre, ppc = "assign", ppc' = "idle", left > 0
      PROVE  left > BufSize - (npos - rpos)
  <2>1. PICK n \in SectionLens : OverFlow(n)
    <3>1. ~ EndTimePoint
      <4>1. EndTimePoint => left = 0
        BY Zenon DEF EndTimePoint
      <4> QED
        BY <1>1, <4>1
    <3>2. ppc # "idle" /\ ppc' # ppc
      BY <1>1
    <3> QED
      BY <1>1, <3>1, <3>2, Zenon DEF Step, AddTimePoint, BeginTimePoint, AssignMem, CheckEndTrigger,
         ArmTrigger, ServerWork, ScanBufs, EndTest, SendSection1, SendSection2, BufDataSent,
         StoreTail, CompareHead, StoreEmpty, SendFails, CancelLogging, buffer, prod
  <2>2. n <= left /\ Room < n
    BY <2>1 DEF OverFlow
  <2>3. state = "ARMED" /\ cpc = "idle" /\ RangeInv /\ Fifo
    BY <1>1 DEF FifoInv, RangeInv, Control
  <2> QED
    BY <1>1, <2>2, <2>3, ArmedParts, NoRoomExplained DEF Settling
<1>2. ASSUME FifoInv, [Next]_vars
      PROVE  [pre /\ ppc = "assign" /\ ppc' = "idle" /\ left > 0 =>
                left > BufSize - (npos - rpos)]_vars
  BY <1>1, <1>2, NextIsStep, Zenon
<1> QED
  BY FifoInvariant, <1>2, PTL DEF Spec, PreTrigKeepsNewest

\* Logging is given up only when the rest of the point does not fit.
THEOREM OverFlowsAreExplained ==
  ASSUME PreTrigsFit, PointsFit PROVE Spec => OverFlowIsExplained
<1> DEFINE Explained == \/ left > BufSize - (npos - rpos)
                        \/ cpc \in {"stored", "compared"} /\ Used = 0
                        \/ misread
<1>1. ASSUME FifoInv, NEW n \in SectionLens, OverFlow(n) PROVE Explained
  <2>1. n <= left /\ Room < n /\ ppc = "assign"
    BY <1>1 DEF OverFlow
  <2> SUFFICES ASSUME FifoParts, cpc \notin Settling \/ Used # 0
               PROVE  left > BufSize - (npos - rpos)
    BY <1>1, Zenon DEF FifoInv, Fifo, FifoParts, Settling
  <2> QED
    BY <1>1, <2>1, NoRoomExplained
<1> HIDE DEF Explained
<1>2. ASSUME FifoInv, [Step]_buffer PROVE overFlow' /\ ~overFlow => Explained
  <2>1. ASSUME NEW len \in PointLens, NEW fires \in BOOLEAN, BeginTimePoint(len, fires)
        PROVE  overFlow' <=> overFlow
    BY <2>1, Zenon DEF BeginTimePoint
  <2>2. ASSUME NEW n \in SectionLens, AssignMem(n) PROVE overFlow' <=> overFlow
    BY <2>2, Zenon DEF AssignMem, trig
  <2>3. CASE EndTimePoint \/ CheckEndTrigger \/ CancelLogging
    BY <2>3, Zenon DEF EndTimePoint, CheckEndTrigger, CancelLogging
  <2>4. CASE ArmTrigger \/ SendFails
    BY <2>4, Zenon DEF ArmTrigger, SendFails
  <2>5. CASE EndTest
    BY <2>5, Zenon DEF EndTest
  <2>6. CASE ScanBufs \/ SendSection1 \/ SendSection2 \/ BufDataSent
    BY <2>6, Zenon DEF ScanBufs, SendSection1, SendSection2, BufDataSent, StoreTail,
       CompareHead, StoreEmpty, trig
  <2>7. CASE UNCHANGED buffer
    BY <2>7, Zenon DEF buffer, trig
  <2> QED
    BY <1>1, <1>2, <2>1, <2>2, <2>3, <2>4, <2>5, <2>6, <2>7, Zenon
    DEF Step, AddTimePoint, ServerWork
<1>3. ASSUME FifoInv, [Next]_vars
      PROVE  [overFlow' /\ ~overFlow =>
                \/ left > BufSize - (npos - rpos)
                \/ cpc \in {"stored", "compared"} /\ Used = 0
                \/ misread]_vars
  BY <1>2, <1>3, NextIsStep, Zenon DEF Explained
<1> QED
  BY FifoInvariant, <1>3, PTL DEF Spec, OverFlowIsExplained

-----------------------------------------------------------------------------
\* The buffer implements the bounded stream of BoundedStream: a time point is
\* accepted when head moves and released when tail does.

LEMMA PhaseIs ==
  /\ misread => Phase = "spoilt"
  /\ ~misread /\ state \in {"UNARMED", "HOLDING_OFF"} => Phase = "closed"
  /\ ~misread /\ state \in {"ARMED", "FIRED"} => Phase = "open"
  /\ ~misread /\ state = "TERMINATING" => Phase = "closing"
  BY DEF Phase

LEMMA PhaseIsNext ==
  /\ misread' => Phase' = "spoilt"
  /\ ~misread' /\ state' \in {"UNARMED", "HOLDING_OFF"} => Phase' = "closed"
  /\ ~misread' /\ state' \in {"ARMED", "FIRED"} => Phase' = "open"
  /\ ~misread' /\ state' = "TERMINATING" => Phase' = "closing"
  BY DEF Phase

LEMMA PhaseFrame ==
  ASSUME ~misread, ~misread', state \in States, state' = state
  PROVE  Phase' = Phase
  BY PhaseIs, PhaseIsNext DEF States

\* The steps of a buffer that is not misread, one by one.
LEMMA StreamStep ==
  ASSUME PreTrigsFit, RangeInv, RangeInv', FifoParts, Window, ~misread, ~misread', [Step]_buffer
  PROVE  Stream!Next \/ UNCHANGED Stream!vars
<1> USE DEF RangeInv, DataOK, IndicesInRange, Control, circ, trig, prod, hist, Stream!vars
<1>0. state \in States
  OBVIOUS
<1>1. ASSUME NEW len \in PointLens, NEW fires \in BOOLEAN, BeginTimePoint(len, fires)
      PROVE  Stream!Next \/ UNCHANGED Stream!vars
  <2>1. /\ state \in {"ARMED", "FIRED"} /\ state' \in {"ARMED", "FIRED"} /\ wpos' = wpos
        /\ Phase = "open" /\ Phase' = "open"
    BY <1>1, BeginFacts, PhaseIs, PhaseIsNext
  <2>2. CASE ~Slides(fires)
    <3>1. rpos' = rpos
      BY <1>1, <2>2, BeginFacts
    <3> QED
      BY <2>1, <3>1
  <2>3. CASE Slides(fires)
    <3>1. PICK n \in 1 .. Used - 1 : rpos' = rpos + n
      BY <1>1, <2>3, SlideFacts
    <3>2. rpos' \in Nat /\ rpos' > rpos /\ rpos' <= wpos
      BY <3>1 DEF Used
    <3>3. Stream!Release
      BY <2>1, <3>2 DEF Stream!Release
    <3> QED
      BY <3>3 DEF Stream!Next
  <2> QED
    BY <2>2, <2>3
<1>2. ASSUME NEW n \in SectionLens, AssignMem(n) PROVE UNCHANGED Stream!vars
  BY <1>2, PhaseIs, PhaseIsNext DEF AssignMem
<1>3. ASSUME NEW n \in SectionLens, OverFlow(n) PROVE Stream!Close \/ UNCHANGED Stream!vars
  <2>1. /\ \/ state = "ARMED" /\ state' = "ARMED"
           \/ state = "FIRED" /\ state' = "TERMINATING"
        /\ wpos' = wpos /\ rpos' = rpos
    BY <1>3 DEF OverFlow
  <2> QED
    BY <2>1, PhaseIs, PhaseIsNext DEF Stream!Close
<1>4. CASE EndTimePoint
  <2>1. ppc = "assign" /\ state' = state /\ rpos' = rpos
    BY <1>4, Zenon DEF EndTimePoint
  <2>2. CASE npos - wpos <= HdrLen
    <3>1. wpos' = wpos
      BY <1>4, <2>2, Zenon DEF EndTimePoint
    <3> QED
      BY <1>0, <2>1, <3>1, PhaseFrame, Zenon DEF Stream!vars
  <2>3. CASE ~(npos - wpos <= HdrLen)
    <3>1. wpos' = npos /\ npos > wpos
      BY <1>4, <2>3 DEF EndTimePoint
    <3>2. npos - rpos <= BufSize
      BY <2>1 DEF FifoParts, Assigning
    <3>3. Stream!Accept
      BY <2>1, <3>1, <3>2, PhaseIs, PhaseIsNext DEF Stream!Accept
    <3> QED
      BY <3>3 DEF Stream!Next
  <2> QED
    BY <2>2, <2>3
<1>5. CASE CheckEndTrigger
  <2>1. Stream!Close
    BY <1>5, PhaseIs, PhaseIsNext DEF CheckEndTrigger, Stream!Close
  <2> QED
    BY <2>1 DEF Stream!Next
<1>6. CASE ArmTrigger
  <2>1. state \in {"UNARMED", "HOLDING_OFF"} /\ state' = "ARMED"
    BY <1>6 DEF ArmTrigger
  <2>2. rpos' = wpos /\ wpos' = wpos
    BY <1>6, Zenon DEF ArmTrigger
  <2>3. Stream!Open
    BY <2>1, <2>2, PhaseIs, PhaseIsNext DEF Stream!Open
  <2> QED
    BY <2>3 DEF Stream!Next
<1>7. CASE ScanBufs \/ SendSection1 \/ SendSection2 \/ CompareHead \/ StoreEmpty
  <2>1. state' = state /\ wpos' = wpos /\ rpos' = rpos
    BY <1>7, Zenon DEF ScanBufs, SendSection1, SendSection2, CompareHead, StoreEmpty
  <2> QED
    BY <1>0, <2>1, PhaseFrame, Zenon DEF Stream!vars
<1>8. CASE EndTest
  <2>1. /\ wpos' = wpos /\ rpos' = rpos
        /\ \/ state' = state
           \/ state = "TERMINATING" /\ state' \in {"UNARMED", "HOLDING_OFF"}
    BY <1>8 DEF EndTest
  <2>2. UNCHANGED Stream!vars \/ Stream!End
    BY <2>1, PhaseIs, PhaseIsNext DEF Stream!End
  <2> QED
    BY <2>2 DEF Stream!Next
<1>9. CASE SendFails
  <2>1. /\ wpos' = wpos /\ rpos' = rpos /\ state' = "UNARMED"
        /\ state \in {"FIRED", "TERMINATING"}
    BY <1>9 DEF SendFails
  <2>2. Stream!End
    BY <2>1, PhaseIs, PhaseIsNext DEF Stream!End
  <2> QED
    BY <2>2 DEF Stream!Next
<1>10. CASE StoreTail
  <2>1. /\ cpc = "sent" /\ wpos' = wpos /\ state' = state /\ rpos' = rpos + Listed
        /\ state \in {"FIRED", "TERMINATING"}
    BY <1>10 DEF StoreTail, Listed, Bytes1, Bytes2
  <2>2. Listed \in 1 .. Used
    <3>1. Listed <= Used /\ Used \in Nat
      <4>1. cpc \in Sending
        BY <2>1 DEF Sending
      <4>2. Listed <= Used /\ Used \in 0 .. BufSize
        BY <4>1, Zenon DEF FifoParts, Pointers
      <4> QED
        BY <4>2
    <3>2. Listed \in Nat \ {0}
      <4>1. tail \in Cells /\ newTail \in Cells
        BY <2>1
      <4> HIDE DEF RangeInv, DataOK, IndicesInRange, Control
      <4> QED
        BY <4>1, BufAssumption DEF Listed, Bytes1, Bytes2, Cells
    <3> QED
      BY <3>1, <3>2
  <2>3. rpos' > rpos /\ rpos' <= wpos
    BY <2>1, <2>2 DEF Used
  <2>4. Stream!Release
    BY <2>1, <2>3, PhaseIs, PhaseIsNext DEF Stream!Release
  <2> QED
    BY <2>4 DEF Stream!Next
<1>11. CASE CancelLogging
  <2>1. state # "UNARMED" /\ state' = "TERMINATING" /\ wpos' = wpos /\ rpos' = rpos
    BY <1>11 DEF CancelLogging
  <2>2. UNCHANGED Stream!vars \/ Stream!Close \/ Stream!Reclose
    BY <2>1, PhaseIs, PhaseIsNext DEF Stream!Close, Stream!Reclose
  <2> QED
    BY <2>2 DEF Stream!Next
<1>12. CASE UNCHANGED buffer
  <2>1. state' = state /\ wpos' = wpos /\ rpos' = rpos
    BY <1>12, Zenon DEF buffer, circ, trig, hist
  <2> QED
    BY <1>0, <2>1, PhaseFrame, Zenon DEF Stream!vars
<1> QED
  BY <1>1, <1>2, <1>3, <1>4, <1>5, <1>6, <1>7, <1>8, <1>9, <1>10, <1>11, <1>12
  DEF Step, AddTimePoint, ServerWork, BufDataSent, Stream!Next

\* The buffer, its pointers and its flags are a bounded stream of cells: whatever the Swi
\* and the server do in it is an append, a release, a drop or a stutter there.
THEOREM BufferImplementsStream ==
  ASSUME PreTrigsFit, PointsFit PROVE Spec => ImplementsStream
<1>1. ASSUME Init PROVE Stream!Init
  BY <1>1, PhaseIs, Zenon DEF Init, Stream!Init
<1>2. ASSUME FifoInv, FifoInv', [Step]_buffer PROVE [Stream!Next]_(Stream!vars)
  <2> USE DEF FifoInv, RangeInv, DataOK
  <2>1. CASE misread /\ misread'
    <3>1. Stream!Spoilt
      BY <1>2, <2>1, PhaseIs, PhaseIsNext DEF Stream!Spoilt
    <3> QED
      BY <3>1 DEF Stream!Next
  <2>2. CASE misread /\ ~misread'
    <3>1. ArmTrigger
      BY <1>2, <2>2, MisreadStep, Zenon DEF CompareHead
    <3>2. state' = "ARMED" /\ rpos' = wpos /\ wpos' = wpos
      BY <3>1, Zenon DEF ArmTrigger
    <3>3. Stream!Open
      BY <2>2, <3>2, PhaseIs, PhaseIsNext DEF Stream!Open
    <3> QED
      BY <3>3 DEF Stream!Next
  <2>3. CASE ~misread /\ misread'
    <3>1. CompareHead
      BY <1>2, <2>3, MisreadStep, Zenon DEF ArmTrigger
    <3>2. cpc = "stored" /\ wpos' = wpos /\ rpos' = rpos /\ wpos > rpos
      BY <2>3, <3>1, Zenon DEF CompareHead
    <3>3. state \in {"FIRED", "TERMINATING"}
      BY <1>2, <3>2 DEF Control
    <3>4. Stream!Spoil
      BY <2>3, <3>2, <3>3, PhaseIs, PhaseIsNext DEF Stream!Spoil
    <3> QED
      BY <3>4 DEF Stream!Next
  <2>4. CASE ~misread /\ ~misread'
    <3>1. FifoParts
      BY <1>2, <2>4, Zenon DEF Fifo, FifoParts
    <3> QED
      BY <1>2, <2>4, <3>1, StreamStep
  <2> QED
    BY <2>1, <2>2, <2>3, <2>4, Zenon
<1> QED
  BY FifoInvariant, NextIsStep, <1>1, <1>2, PTL DEF Spec, ImplementsStream, Stream!Spec
=============================================================================
