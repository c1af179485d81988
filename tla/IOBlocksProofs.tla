--------------------------- MODULE IOBlocksProofs ---------------------------
(***************************************************************************)
(* The buffered blocks for every buffer size, stream, region and number of *)
(* steps. The kinds of blocks share nothing, so each has an invariant of   *)
(* its own, and a step of another kind leaves it alone.                    *)
(***************************************************************************)
EXTENDS IOBlocks, SequenceTheorems, WellFoundedInduction, TLAPS

-----------------------------------------------------------------------------
(* Memory read blocks. *)

\* Regions have starts of their own and a whole number of vectors, and a slot is
\* left: with all of them taken the code steps no block at all.
RegionsApart ==
  \A m \in Models :
    /\ m \in Seq([start : Nat, size : Nat, vec : Nat \ {0}, periodic : BOOLEAN])
    /\ Len(m) < MaxBlocks
    /\ \A b \in 1 .. Len(m) : \E k \in Nat \ {0} : m[b].size = k * m[b].vec
    /\ \A b, c \in 1 .. Len(m) : m[b].start = m[c].start => b = c

\* Where the n-th copy of a block begins.
Turn(b, n) ==
  LET done == (n - 1) * blocks[b].vec IN
  blocks[b].start
    + (IF blocks[b].periodic THEN done % blocks[b].size
       ELSE IF done < blocks[b].size THEN done ELSE blocks[b].size)

\* The slot of a block is the one it started, and its index is behind its last copy.
SlotsFollow ==
  /\ blocks \in Models /\ block_num \in 0 .. Len(blocks)
  /\ DOMAIN steps = 1 .. Len(blocks) /\ DOMAIN out = 1 .. Len(blocks)
  /\ DOMAIN mem_idx = 0 .. MaxBlocks - 1 /\ DOMAIN mem_start_idx = 0 .. MaxBlocks - 1
  /\ \A b \in 1 .. Len(blocks) :
       /\ steps[b] \in Nat
       /\ steps[b] > 0 => block_num = Len(blocks)
       /\ steps[b] > 0 => out[b] = [from |-> Turn(b, steps[b]), len |-> blocks[b].size]
  /\ \A b \in 1 .. block_num :
       /\ mem_start_idx[b - 1] = blocks[b].start
       /\ mem_idx[b - 1] = IF steps[b] = 0 THEN blocks[b].start
                           ELSE Memory!Advanced(b, Turn(b, steps[b]))

LEMMA ModIs ==
  ASSUME NEW a \in Nat, NEW q \in Nat, NEW r \in Nat, NEW s \in Nat \ {0},
         a = q * s + r, r < s
  PROVE  a % s = r
OBVIOUS

LEMMA DivMod ==
  ASSUME NEW a \in Nat, NEW s \in Nat \ {0}
  PROVE  a = ((a \div s) * s) + (a % s) /\ a % s \in 0 .. s - 1 /\ a \div s \in Nat
OBVIOUS

LEMMA MulMonotone ==
  ASSUME NEW a \in Nat, NEW b \in Nat, NEW v \in Nat, a <= b
  PROVE  a * v <= b * v /\ a * v \in Nat /\ b * v \in Nat
OBVIOUS

LEMMA MulNext ==
  ASSUME NEW a \in Int, NEW v \in Int
  PROVE  (a + 1) * v = a * v + v /\ (a - 1) * v = a * v - v /\ a * v \in Int
OBVIOUS

\* Going round a region of k vectors by vectors.
LEMMA GoingRound ==
  ASSUME NEW n \in Nat \ {0}, NEW v \in Nat \ {0}, NEW k \in Nat \ {0}
  PROVE  /\ ((n - 1) * v) % (k * v) \in Nat
         /\ (((n - 1) * v) % (k * v)) + v <= k * v
         /\ (n * v) % (k * v) =
              IF (((n - 1) * v) % (k * v)) + v = k * v THEN 0 ELSE (((n - 1) * v) % (k * v)) + v
<1>1. PICK q \in Nat, r \in 0 .. k - 1 : n - 1 = (q * k) + r
  <2>1. n - 1 \in Nat
    OBVIOUS
  <2> QED
    BY <2>1, DivMod
<1>2. PICK s \in Nat \ {0} : s = k * v
  BY MulMonotone, 1 \in Nat
<1>3. PICK w \in Nat : w = r * v
  BY <1>1, MulMonotone
<1>4. w + v <= s
  BY <1>1, <1>2, <1>3, MulMonotone, MulNext
<1>5. PICK t \in Nat : t = q * s
  BY <1>1, <1>2
<1>6. (n - 1) * v = t + w /\ n * v = t + w + v
  <2>1. (q * k) * v = q * (k * v) /\ ((q * k) + r) * v = (q * k) * v + r * v
    BY <1>1
  <2>2. (n - 1) * v = t + w
    BY <1>1, <1>2, <1>3, <1>5, <2>1
  <2> QED
    BY <2>2, MulNext
<1>7. (t + w) % s = w
  <2>1. t + w \in Nat /\ t + w = q * s + w /\ w < s
    BY <1>4, <1>5
  <2> QED
    BY <2>1, ModIs
<1>8. (t + w + v) % s = IF w + v = s THEN 0 ELSE w + v
  <2>1. CASE w + v = s
    <3>1. t + w + v = (q + 1) * s + 0
      BY <1>1, <1>5, <2>1, MulNext
    <3>2. \A a \in Nat, i \in Nat : a = i * s + 0 => a % s = 0
      BY ModIs
    <3>3. t + w + v \in Nat /\ q + 1 \in Nat
      BY <1>1
    <3>4. (t + w + v) % s = 0
      BY <3>1, <3>2, <3>3
    <3> QED
      BY <2>1, <3>4
  <2>2. CASE w + v # s
    <3>1. /\ t + w + v = q * s + (w + v) /\ w + v \in Nat /\ w + v < s
          /\ t + w + v \in Nat
      BY <1>4, <1>5, <2>2
    <3>2. (t + w + v) % s = w + v
      BY <3>1, ModIs
    <3> QED
      BY <2>2, <3>2
  <2> QED
    BY <2>1, <2>2
<1> QED
  BY <1>2, <1>4, <1>6, <1>7, <1>8

\* What a model of the hypothesis gives of one of its blocks.
LEMMA RegionFacts ==
  ASSUME RegionsApart, blocks \in Models, NEW b \in 1 .. Len(blocks)
  PROVE  /\ blocks[b].start \in Nat /\ blocks[b].vec \in Nat \ {0}
         /\ blocks[b].periodic \in BOOLEAN
         /\ \E k \in Nat \ {0} : blocks[b].size = k * blocks[b].vec
<1>1. /\ blocks \in Seq([start : Nat, size : Nat, vec : Nat \ {0}, periodic : BOOLEAN])
      /\ \A c \in 1 .. Len(blocks) :
           \E k \in Nat \ {0} : blocks[c].size = k * blocks[c].vec
  BY DEF RegionsApart
<1> DEFINE Region == [start : Nat, size : Nat, vec : Nat \ {0}, periodic : BOOLEAN]
<1>2. blocks[b] \in Region
  <2>1. blocks \in Seq(Region)
    BY <1>1
  <2> HIDE DEF Region
  <2> QED
    BY <2>1
<1> QED
  BY <1>1, <1>2

\* The index moves from turn to turn.
LEMMA NextTurn ==
  ASSUME RegionsApart, blocks \in Models, NEW b \in 1 .. Len(blocks), NEW n \in Nat
  PROVE  Memory!IndexNow(b, IF n = 0 THEN blocks[b].start
                            ELSE Memory!Advanced(b, Turn(b, n))) = Turn(b, n + 1)
<1>1. PICK st \in Nat, v \in Nat \ {0}, k \in Nat \ {0}, periodic \in BOOLEAN :
        /\ st = blocks[b].start /\ v = blocks[b].vec /\ periodic = blocks[b].periodic
        /\ k * v = blocks[b].size
  BY RegionFacts
<1>2. PICK s \in Nat \ {0} : s = k * v
  BY MulMonotone, 1 \in Nat
<1>3. \A m \in Nat :
        Turn(b, m) = st + (IF periodic THEN ((m - 1) * v) % s
                           ELSE IF (m - 1) * v < s THEN (m - 1) * v ELSE s)
  BY <1>1, <1>2 DEF Turn
<1>4. \A i \in Int : Memory!IndexNow(b, i) = IF periodic /\ i >= st + s THEN st ELSE i
  BY <1>1, <1>2 DEF Memory!IndexNow, Memory!RegionEnd
<1>5. \A i \in Int : Memory!Advanced(b, i) = IF i < st + s THEN i + v ELSE i
  BY <1>1, <1>2 DEF Memory!Advanced, Memory!RegionEnd
<1>6. (n + 1) - 1 = n
  OBVIOUS
<1>7. PICK y \in Nat : y = n * v
  OBVIOUS
<1>8. CASE n = 0
  <2>1. y = 0 /\ 0 % s = 0
    BY <1>7, <1>8
  <2>2. Turn(b, n + 1) = st + (IF periodic THEN y % s ELSE IF y < s THEN y ELSE s)
    <3>1. n + 1 \in Nat
      OBVIOUS
    <3> QED
      BY <1>3, <1>6, <1>7, <3>1
  <2> QED
    BY <1>1, <1>4, <1>8, <2>1, <2>2
<1>9. CASE n # 0 /\ periodic
  <2>1. PICK x \in Nat : x = ((n - 1) * v) % s
    BY <1>2, <1>9, GoingRound
  <2>2. x + v <= s /\ y % s = IF x + v = s THEN 0 ELSE x + v
    <3>1. n \in Nat \ {0}
      BY <1>9
    <3>2. /\ (((n - 1) * v) % s) + v <= s
          /\ (n * v) % s = IF (((n - 1) * v) % s) + v = s THEN 0 ELSE (((n - 1) * v) % s) + v
      BY <1>2, <3>1, GoingRound
    <3> QED
      BY <1>7, <2>1, <3>2
  <2>3. Turn(b, n) = st + x /\ Turn(b, n + 1) = st + (y % s)
    BY <1>3, <1>6, <1>7, <1>9, <2>1
  <2>4. Memory!Advanced(b, st + x) = st + x + v
    BY <1>5, <2>2
  <2> QED
    BY <1>4, <1>9, <2>2, <2>3, <2>4
<1>10. CASE n # 0 /\ ~ periodic
  <2>1. PICK done \in Nat : done = (n - 1) * v
    BY <1>10
  <2>2. y = done + v
    BY <1>7, <2>1, MulNext
  <2>3. done < s => done + v <= s
    <3>1. CASE n <= k
      BY <1>2, <1>7, <2>2, <3>1, MulMonotone
    <3>2. CASE k <= n - 1
      BY <1>2, <1>10, <2>1, <3>2, MulMonotone
    <3> QED
      BY <3>1, <3>2
  <2>4. /\ Turn(b, n) = st + (IF done < s THEN done ELSE s)
        /\ Turn(b, n + 1) = st + (IF y < s THEN y ELSE s)
    BY <1>3, <1>6, <1>7, <1>10, <2>1
  <2> QED
    BY <1>4, <1>5, <1>10, <2>2, <2>3, <2>4
<1> QED
  BY <1>8, <1>9, <1>10

LEMMA SlotsInit == RegionsApart /\ Init => SlotsFollow
<1> SUFFICES ASSUME RegionsApart, Init PROVE SlotsFollow
  OBVIOUS
<1>1. blocks \in Models /\ Len(blocks) \in Nat
  BY DEF Init, Memory!Init, RegionsApart
<1> QED
  BY <1>1 DEF Init, Memory!Init, Memory!Slots, Memory!BlockIds, SlotsFollow

\* In a model with all blocks started the slot of a block is its own.
LEMMA OwnSlot ==
  ASSUME RegionsApart, SlotsFollow, block_num = Len(blocks), NEW b \in 1 .. Len(blocks)
  PROVE  Memory!SlotOf(b) = b - 1
<1>1. Memory!SlotsOf(b) = {b - 1}
  <2>1. blocks \in Models /\ Len(blocks) \in Nat
    BY DEF SlotsFollow, RegionsApart
  <2>2. \A s \in 0 .. Len(blocks) - 1 :
          s + 1 \in 1 .. block_num /\ mem_start_idx[s] = blocks[s + 1].start
    <3> TAKE s \in 0 .. Len(blocks) - 1
    <3>1. s + 1 \in 1 .. block_num /\ (s + 1) - 1 = s
      BY <2>1
    <3> QED
      BY <3>1 DEF SlotsFollow
  <2>3. \A s \in 0 .. Len(blocks) - 1 : blocks[s + 1].start = blocks[b].start <=> s + 1 = b
    BY <2>1, <2>2 DEF RegionsApart
  <2> QED
    BY <2>1, <2>2, <2>3 DEF Memory!SlotsOf
<1> QED
  BY <1>1 DEF Memory!SlotOf, Memory!Min

LEMMA SlotsStep ==
  ASSUME RegionsApart, SlotsFollow, [Next]_vars
  PROVE  SlotsFollow'
<1>1. /\ blocks \in Models /\ Len(blocks) \in Nat /\ Len(blocks) < MaxBlocks
      /\ MaxBlocks \in Nat
  BY BlocksAssumption DEF SlotsFollow, RegionsApart
<1>2. CASE UNCHANGED memoryVars
  BY <1>2 DEF memoryVars, SlotsFollow, Turn, Memory!Advanced, Memory!RegionEnd
<1>3. CASE Memory!MEMRDInit
  <2>1. /\ block_num < Len(blocks) /\ block_num' = block_num + 1
        /\ mem_idx' = [mem_idx EXCEPT ![block_num] = blocks[block_num + 1].start]
        /\ mem_start_idx' = [mem_start_idx EXCEPT ![block_num] = blocks[block_num + 1].start]
        /\ UNCHANGED <<blocks, steps, out>>
    BY <1>3 DEF Memory!MEMRDInit
  <2>2. \A b \in 1 .. Len(blocks) : steps[b] = 0
    BY <1>1, <2>1 DEF SlotsFollow
  <2>3. block_num \in 0 .. MaxBlocks - 1 /\ block_num + 1 \in 1 .. Len(blocks)
    BY <1>1, <2>1 DEF SlotsFollow
  <2>4. \A b \in 1 .. block_num + 1 :
          mem_idx'[b - 1] = blocks[b].start /\ mem_start_idx'[b - 1] = blocks[b].start
    <3> TAKE b \in 1 .. block_num + 1
    <3>1. CASE b = block_num + 1
      BY <2>1, <2>3, <3>1 DEF SlotsFollow
    <3>2. CASE b \in 1 .. block_num /\ b - 1 # block_num /\ b - 1 \in 0 .. MaxBlocks - 1
      BY <1>1, <2>1, <2>2, <2>3, <3>2 DEF SlotsFollow
    <3> QED
      BY <1>1, <2>3, <3>1, <3>2
  <2> QED
    BY <1>1, <2>1, <2>2, <2>3, <2>4 DEF SlotsFollow
<1>4. ASSUME NEW b \in 1 .. Len(blocks), Memory!MEMRDStep(b)
      PROVE  SlotsFollow'
  <2> DEFINE now == Memory!IndexNow(b, mem_idx[b - 1])
  <2>1. block_num = Len(blocks) /\ Memory!SlotOf(b) = b - 1
    BY <1>4, OwnSlot DEF Memory!MEMRDStep
  <2>2. /\ steps' = [steps EXCEPT ![b] = @ + 1]
        /\ out' = [out EXCEPT ![b] = [from |-> now, len |-> blocks[b].size]]
        /\ mem_idx' = [mem_idx EXCEPT ![b - 1] = Memory!Advanced(b, now)]
        /\ UNCHANGED <<blocks, block_num, mem_start_idx>>
    BY <1>1, <1>4, <2>1 DEF Memory!MEMRDStep
  <2>3. now = Turn(b, steps[b] + 1)
    BY <1>1, <2>1, NextTurn DEF SlotsFollow
  <2> HIDE DEF now
  <2>4. \A c \in 1 .. Len(blocks) : \A n : Turn(c, n)' = Turn(c, n')
    BY <2>2 DEF Turn
  <2>5. \A c \in 1 .. Len(blocks) :
          /\ steps'[c] = IF c = b THEN steps[b] + 1 ELSE steps[c]
          /\ out'[c] = IF c = b THEN [from |-> now, len |-> blocks[b].size] ELSE out[c]
          /\ mem_idx'[c - 1] = IF c = b THEN Memory!Advanced(b, now) ELSE mem_idx[c - 1]
    BY <1>1, <2>2 DEF SlotsFollow
  <2>6. /\ blocks' \in Models /\ block_num' \in 0 .. Len(blocks')
        /\ DOMAIN steps' = 1 .. Len(blocks') /\ DOMAIN out' = 1 .. Len(blocks')
        /\ DOMAIN mem_idx' = 0 .. MaxBlocks - 1 /\ DOMAIN mem_start_idx' = 0 .. MaxBlocks - 1
    BY <2>2 DEF SlotsFollow
  <2>7. \A c \in 1 .. Len(blocks') :
          /\ steps'[c] \in Nat /\ (steps'[c] > 0 => block_num' = Len(blocks'))
          /\ steps'[c] > 0 => out'[c] = [from |-> Turn(c, steps[c])', len |-> blocks'[c].size]
    <3> TAKE c \in 1 .. Len(blocks')
    <3>1. c \in 1 .. Len(blocks) /\ steps[c] \in Nat
      BY <2>2 DEF SlotsFollow
    <3>2. Turn(c, steps[c])' = Turn(c, IF c = b THEN steps[b] + 1 ELSE steps[c])
      BY <2>2, <2>5, <3>1 DEF Turn
    <3> QED
      BY <2>1, <2>2, <2>3, <2>5, <3>1, <3>2 DEF SlotsFollow
  <2>8. \A c \in 1 .. block_num' :
          /\ mem_start_idx'[c - 1] = blocks'[c].start
          /\ mem_idx'[c - 1] = IF steps'[c] = 0 THEN blocks'[c].start
                               ELSE Memory!Advanced(c, Turn(c, steps[c]))'
    <3> TAKE c \in 1 .. block_num'
    <3>1. c \in 1 .. Len(blocks) /\ c \in 1 .. block_num /\ steps[c] \in Nat
      BY <2>1, <2>2 DEF SlotsFollow
    <3>2. Memory!Advanced(c, Turn(c, steps[c]))'
            = Memory!Advanced(c, Turn(c, IF c = b THEN steps[b] + 1 ELSE steps[c]))
      BY <2>2, <2>5, <3>1 DEF Turn, Memory!Advanced, Memory!RegionEnd
    <3> QED
      BY <2>1, <2>2, <2>3, <2>5, <3>1, <3>2 DEF SlotsFollow
  <2> QED
    BY <2>6, <2>7, <2>8 DEF SlotsFollow
<1>5. CASE Memory!Done
  BY <1>2, <1>5 DEF Memory!Done, Memory!vars, memoryVars
<1> QED
  BY <1>2, <1>3, <1>4, <1>5
     DEF Next, FileStep, UartStep, MemoryStep, vars, memoryVars, Memory!Next, Memory!BlockIds

\* The turns of a block that has vectors left are the vectors of its region.
LEMMA TurnInRegion ==
  ASSUME RegionsApart, blocks \in Models, NEW b \in 1 .. Len(blocks), steps[b] \in Nat \ {0},
         Memory!VectorsLeft(b)
  PROVE  /\ Turn(b, steps[b])
              = blocks[b].start + (((steps[b] - 1) * blocks[b].vec) % blocks[b].size)
         /\ blocks[b].vec <= blocks[b].size
         /\ Turn(b, steps[b]) + blocks[b].vec <= Memory!RegionEnd(b)
<1>1. PICK st \in Nat, v \in Nat \ {0}, k \in Nat \ {0}, periodic \in BOOLEAN :
        /\ st = blocks[b].start /\ v = blocks[b].vec /\ periodic = blocks[b].periodic
        /\ k * v = blocks[b].size
  BY RegionFacts
<1>2. PICK n \in Nat \ {0} : n = steps[b]
  OBVIOUS
<1>3. PICK s \in Nat \ {0}, done \in Nat, x \in Nat :
        s = k * v /\ done = (n - 1) * v /\ x = ((n - 1) * v) % (k * v)
  <2>1. k * v \in Nat \ {0} /\ n - 1 \in Nat
    BY MulMonotone, 1 \in Nat
  <2>2. (n - 1) * v \in Nat
    BY <2>1, MulMonotone
  <2> QED
    BY <2>1, <2>2, GoingRound
<1>4. x + v <= s
  BY <1>3, GoingRound
<1>5. periodic \/ done < s
  BY <1>1, <1>2, <1>3 DEF Memory!VectorsLeft
<1>6. done < s => x = done
  <2>1. \A a \in Nat : a < s => a % s = a
    OBVIOUS
  <2> QED
    BY <1>3, <2>1
<1>7. Turn(b, steps[b]) = st + x
  BY <1>1, <1>2, <1>3, <1>5, <1>6 DEF Turn
<1>8. ((steps[b] - 1) * blocks[b].vec) % blocks[b].size = x
  BY <1>1, <1>2, <1>3
<1>9. blocks[b].size = s /\ Memory!RegionEnd(b) = st + s
  BY <1>1, <1>3 DEF Memory!RegionEnd
<1>10. st + x + v <= st + s /\ v <= s
  BY <1>4
<1> QED
  BY <1>1, <1>7, <1>8, <1>9, <1>10

\* The vector a memory read block outputs is the next one of its region, inside it,
\* whatever steps the others take: for any number of blocks and any regions with starts
\* of their own. Nothing is said of a block that has output all of its region and is not
\* periodic, nor of what a copy writes behind the output.
THEOREM RegionsComeInTurn == RegionsApart => (Spec => []InTurn)
<1> SUFFICES ASSUME RegionsApart PROVE Spec => []InTurn
  OBVIOUS
<1>1. Init => SlotsFollow
  BY SlotsInit
<1>2. SlotsFollow /\ [Next]_vars => SlotsFollow'
  BY SlotsStep
<1>3. SlotsFollow => InTurn
  <2> SUFFICES ASSUME SlotsFollow, NEW b \in 1 .. Len(blocks), steps[b] > 0,
                      Memory!VectorsLeft(b)
               PROVE  /\ out[b].from = blocks[b].start
                            + (((steps[b] - 1) * blocks[b].vec) % blocks[b].size)
                      /\ blocks[b].vec <= out[b].len
                      /\ out[b].from + blocks[b].vec <= Memory!RegionEnd(b)
    BY DEF InTurn, Memory!InTurn, Memory!BlockIds
  <2>1. /\ steps[b] \in Nat \ {0} /\ blocks \in Models
        /\ out[b].from = Turn(b, steps[b]) /\ out[b].len = blocks[b].size
    BY DEF SlotsFollow
  <2> QED
    BY <2>1, TurnInRegion
<1> QED
  BY <1>1, <1>2, <1>3, PTL DEF Spec

-----------------------------------------------------------------------------
(* ToFile blocks. *)

Writes == [file : {1}, half : {0, 1}, len : Nat, pos : Nat, at : Nat]

\* Records of the writes that the device has not copied yet.
Left(j) == j.len - j.pos
Pending ==
  IF jobs = << >> THEN 0
  ELSE IF Len(jobs) = 1 THEN Left(jobs[1]) ELSE Left(jobs[1]) + Left(jobs[2])

\* Records that the device has in the file.
Delivered == logged[1] - idx - Pending

\* What is left of a write are the records from the n-th on.
Holds(j, n) ==
  /\ j.len \in 1 .. MaxIdx /\ j.pos \in 0 .. j.len - 1
  /\ \A k \in j.pos .. j.len - 1 : mem[j.half][k] = <<1, n + k - j.pos + 1>>

\* The writes that the device works at, while it keeps up: with double buffering one of
\* the half that is not in use, as old as the half in use is full, and before it one of
\* the half in use as long as that is empty; without, one of the only half, which is
\* empty.
OneWrite(j) ==
  /\ jobs = <<j>> /\ Holds(j, Delivered)
  /\ IF doubleBuffering THEN j.half = 1 - inUse /\ j.at = logged[1] - idx
     ELSE j.half = inUse /\ idx = 0
TwoWrites(i, j) ==
  /\ jobs = <<i, j>> /\ doubleBuffering /\ idx = 0
  /\ i.half = inUse /\ j.half = 1 - inUse
  /\ i.at = logged[1] - MaxIdx /\ j.at = logged[1]
  /\ Holds(i, Delivered) /\ Holds(j, Delivered + Left(i))
InFlight ==
  \/ jobs = << >>
  \/ \E j \in Writes : OneWrite(j)
  \/ \E i, j \in Writes : TwoWrites(i, j)

\* What is logged is in the file, in a write or in the half in use.
FileFollows ==
  /\ phase \in {"init", "step", "terminate", "done"} /\ turn = 1
  /\ doubleBuffering \in BOOLEAN /\ inUse \in {0, 1} /\ idx \in 0 .. MaxIdx - 1
  /\ mem \in [{0, 1} -> [0 .. MaxIdx - 1 -> Nat \X Nat]]
  /\ DOMAIN file = {1} /\ DOMAIN logged = {1} /\ logged[1] \in Nat
  /\ phase = "init" => jobs = << >> /\ logged[1] = 0 /\ idx = 0
  /\ phase \in {"step", "terminate"} => fd = 1
  /\ phase = "done" => jobs = << >> /\ idx = 0
  /\ ~ doubleBuffering => idx = 0
  /\ InFlight
  /\ Delivered \in Nat /\ file[1] = File!Logged(1, Delivered)
  /\ \A k \in 0 .. idx - 1 : mem[inUse][k] = <<1, logged[1] - idx + k + 1>>

LEMMA LoggedMore ==
  ASSUME NEW n \in Nat, NEW i \in Nat
  PROVE  /\ Append(File!Logged(1, n), <<1, n + 1>>) = File!Logged(1, n + 1)
         /\ File!Logged(1, n) \o [k \in 1 .. i |-> <<1, n + k>>] = File!Logged(1, n + i)
         /\ File!Logged(1, 0) = << >>
<1>1. \A m \in Nat : /\ File!Logged(1, m) \in Seq({1} \X Nat)
                     /\ Len(File!Logged(1, m)) = m
                     /\ \A k \in 1 .. m : File!Logged(1, m)[k] = <<1, k>>
  BY DEF File!Logged, File!Record
<1>2. Append(File!Logged(1, n), <<1, n + 1>>) = File!Logged(1, n + 1)
  BY DEF File!Logged, File!Record
<1>3. File!Logged(1, n) \o [k \in 1 .. i |-> <<1, n + k>>] = File!Logged(1, n + i)
  BY DEF File!Logged, File!Record
<1>4. File!Logged(1, 0) = << >>
  BY DEF File!Logged, File!Record
<1> QED
  BY <1>2, <1>3, <1>4

LEMMA LoggedPrefix ==
  ASSUME NEW n \in Nat, NEW m \in 0 .. n
  PROVE  File!IsPrefix(File!Logged(1, m), File!Logged(1, n))
BY DEF File!IsPrefix, File!Logged, File!Record

LEMMA FileInit == Init => FileFollows
<1> SUFFICES ASSUME Init PROVE FileFollows
  OBVIOUS
<1>1. /\ phase = "init" /\ turn = 1 /\ doubleBuffering = FALSE
      /\ mem = [h \in {0, 1} |-> [c \in 0 .. MaxIdx - 1 |-> <<0, 0>>]]
      /\ idx = 0 /\ inUse = 0 /\ jobs = << >>
      /\ file = [b \in {1} |-> << >>] /\ logged = [b \in {1} |-> 0]
  <2>1. 1 .. 1 = {1}
    OBVIOUS
  <2> QED
    BY <2>1 DEF Init, File!Init, File!Blocks, File!Blank, File!Halves
<1>2. Delivered = 0
  BY <1>1 DEF Delivered, Pending
<1>3. mem \in [{0, 1} -> [0 .. MaxIdx - 1 -> Nat \X Nat]]
  BY <1>1
<1>4. idx \in 0 .. MaxIdx - 1
  BY <1>1, BlocksAssumption
<1>5. file[1] = File!Logged(1, Delivered)
  <2>1. File!Logged(1, 0) = << >>
    BY LoggedMore, 0 \in Nat
  <2> QED
    BY <1>1, <1>2, <2>1
<1>6. \A k \in 0 .. idx - 1 : mem[inUse][k] = <<1, logged[1] - idx + k + 1>>
  BY <1>1
<1>7. DOMAIN file = {1} /\ DOMAIN logged = {1} /\ logged[1] = 0
  BY <1>1
<1> QED
  BY <1>1, <1>2, <1>3, <1>4, <1>5, <1>6, <1>7 DEF FileFollows, InFlight

\* While the device keeps up, a record is put into a half that no write is left of.
LEMMA InTime ==
  ASSUME FileFollows, File!DeviceKeepsUp
  PROVE  jobs = << >> \/ \E j \in Writes : OneWrite(j) /\ doubleBuffering /\ j.half = 1 - inUse
<1>1. inUse \in {0, 1} /\ InFlight
  BY DEF FileFollows
<1>2. ASSUME NEW j \in Writes, OneWrite(j), ~ doubleBuffering
      PROVE  FALSE
  <2>1. jobs = <<j>>
    BY <1>2 DEF OneWrite
  <2>2. 1 \in DOMAIN jobs
    BY <2>1
  <2> QED
    BY <1>2, <2>2 DEF File!DeviceKeepsUp
<1>3. ASSUME NEW i \in Writes, NEW j \in Writes, TwoWrites(i, j)
      PROVE  FALSE
  <2>1. jobs = <<i, j>> /\ i.at = logged[1] - MaxIdx
    BY <1>3 DEF TwoWrites
  <2>2. 1 \in DOMAIN jobs /\ jobs[1].at = logged[1] - MaxIdx
    BY <2>1
  <2>3. logged[1] \in Nat /\ logged[1] - jobs[1].at < MaxIdx
    BY <2>2 DEF File!DeviceKeepsUp, FileFollows
  <2> QED
    BY <2>2, <2>3, BlocksAssumption
<1> QED
  BY <1>1, <1>2, <1>3 DEF InFlight, OneWrite

LEMMA FileStepKeeps ==
  ASSUME FileFollows, [Next]_vars, ~ late'
  PROVE  FileFollows'
<1> USE BlocksAssumption
<1>1. CASE UNCHANGED fileVars
  <2>1. UNCHANGED <<phase, turn, doubleBuffering, mem, idx, inUse, fd, jobs, file, logged>>
    BY <1>1 DEF fileVars
  <2>2. Delivered' = Delivered
    BY <2>1 DEF Delivered, Pending, Left
  <2>3. InFlight' <=> InFlight
    BY <2>1, <2>2 DEF InFlight, OneWrite, TwoWrites, Holds, Left
  <2> QED
    BY <2>1, <2>2, <2>3 DEF FileFollows
<1>2. CASE File!ToFileInit
  <2>1. /\ phase = "init" /\ phase' = "step" /\ turn' = 1 /\ fd' = 1
        /\ mem' = [h \in {0, 1} |-> [c \in 0 .. MaxIdx - 1 |-> <<0, 0>>]]
        /\ doubleBuffering' \in BOOLEAN
        /\ UNCHANGED <<idx, inUse, jobs, file, logged>>
    BY <1>2 DEF File!ToFileInit, File!NextTurn, File!Halves, File!Blank, FileFollows
  <2>2. Delivered' = Delivered
    BY <2>1 DEF Delivered, Pending, Left
  <2>3. InFlight'
    BY <2>1 DEF InFlight, FileFollows
  <2> QED
    BY <2>1, <2>2, <2>3 DEF FileFollows
<1>3. CASE File!ToFileStep
  <2> DEFINE n == logged[1]
  <2>1. /\ phase = "step" /\ turn = 1 /\ phase' \in {"step", "terminate"} /\ turn' = 1
        /\ logged' = [logged EXCEPT ![1] = n + 1]
        /\ File!WriteWhenFull /\ UNCHANGED <<doubleBuffering, fd, file>>
    BY <1>3 DEF File!ToFileStep, File!NextTurn, FileFollows
  <2>10. File!DeviceKeepsUp
    <3>1. late' = (late \/ ~ File!DeviceKeepsUp)
      BY <1>3 DEF File!ToFileStep
    <3> QED
      BY <3>1
  <2>2. fd = 1 /\ n \in Nat /\ logged'[1] = n + 1 /\ DOMAIN logged' = {1}
    BY <2>1 DEF FileFollows
  <2>3. mem' = [mem EXCEPT ![inUse][idx] = <<1, n + 1>>]
    BY <1>3, <2>1, <2>2 DEF File!ToFileStep, File!Record
  <2>4. /\ mem' \in [{0, 1} -> [0 .. MaxIdx - 1 -> Nat \X Nat]]
        /\ \A h \in {0, 1} : \A k \in 0 .. MaxIdx - 1 :
             mem'[h][k] = IF h = inUse /\ k = idx THEN <<1, n + 1>> ELSE mem[h][k]
    <3>1. <<1, n + 1>> \in Nat \X Nat
      BY <2>2
    <3> QED
      BY <2>3, <3>1 DEF FileFollows
  <2>5. \A k \in 0 .. idx : mem'[inUse][k] = <<1, n - idx + k + 1>>
    <3> TAKE k \in 0 .. idx
    <3>1. idx \in 0 .. MaxIdx - 1 /\ inUse \in {0, 1} /\ k \in 0 .. MaxIdx - 1
      BY DEF FileFollows
    <3>2. CASE k = idx
      <4>1. n - idx + k + 1 = n + 1
        BY <2>2, <3>1, <3>2
      <4> QED
        BY <2>4, <3>1, <3>2, <4>1
    <3>3. CASE k # idx
      <4>1. k \in 0 .. idx - 1
        BY <3>1, <3>3
      <4>2. mem[inUse][k] = <<1, n - idx + k + 1>>
        BY <4>1 DEF FileFollows
      <4> QED
        BY <2>4, <3>1, <3>3, <4>2
    <3> QED
      BY <3>2, <3>3
  <2>8. idx \in Int /\ MaxIdx \in Int /\ doubleBuffering \in BOOLEAN
    BY DEF FileFollows
  <2>9. jobs = << >> \/ \E j \in Writes : OneWrite(j) /\ doubleBuffering /\ j.half = 1 - inUse
    BY <2>10, InTime
  <2>6. CASE ~ doubleBuffering \/ idx + 1 >= MaxIdx
    <3>1. /\ jobs' = Append(jobs, [file |-> 1, half |-> inUse, len |-> idx + 1, pos |-> 0,
                                   at |-> n + 1])
          /\ idx' = 0 /\ inUse' = IF doubleBuffering THEN 1 - inUse ELSE inUse
      BY <2>1, <2>2, <2>6 DEF File!WriteWhenFull, File!Job
    <3>2. idx \in 0 .. MaxIdx - 1 /\ inUse \in {0, 1} /\ inUse' \in {0, 1}
      BY <3>1 DEF FileFollows
    <3>3. PICK j \in Writes :
            /\ jobs' = Append(jobs, j)
            /\ j.file = 1 /\ j.half = inUse /\ j.len = idx + 1 /\ j.pos = 0 /\ Left(j) = idx + 1
            /\ j.at = n + 1
      <4> DEFINE i == [file |-> 1, half |-> inUse, len |-> idx + 1, pos |-> 0, at |-> n + 1]
      <4>1. i \in Writes
        BY <2>2, <3>2 DEF Writes
      <4> QED
        BY <3>1, <3>2, <4>1 DEF Left
    <3>7. PICK e \in Int : e = n - idx
      BY <2>2, <3>2
    <3>4. Holds(j, e)'
      <4>1. \A k \in j.pos .. j.len - 1 : mem'[j.half][k] = <<1, e + k - j.pos + 1>>
        <5> TAKE k \in j.pos .. j.len - 1
        <5>1. k \in 0 .. idx
          BY <3>2, <3>3
        <5>2. e + k - j.pos + 1 = n - idx + k + 1
          BY <2>2, <3>2, <3>3, <3>7, <5>1
        <5> QED
          BY <2>5, <3>3, <5>1, <5>2
      <4>2. j.len \in 1 .. MaxIdx /\ j.pos \in 0 .. j.len - 1
        BY <3>2, <3>3
      <4> QED
        BY <4>1, <4>2 DEF Holds
    <3>5. Pending \in Int /\ Delivered \in Nat /\ Delivered = e - Pending
      <4>1. Pending \in Int
        BY <2>9 DEF Pending, OneWrite, Writes, Left
      <4> QED
        BY <2>2, <3>2, <3>7, <4>1 DEF Delivered, FileFollows
    <3>6. Delivered' = Delivered /\ InFlight'
      <4>1. CASE jobs = << >>
        <5>1. jobs' = <<j>> /\ jobs' # << >> /\ Len(jobs') = 1 /\ jobs'[1] = j /\ Pending = 0
          BY <3>3, <4>1 DEF Pending
        <5>2. Delivered = e /\ Delivered' = e
          BY <2>2, <3>1, <3>2, <3>3, <3>5, <3>7, <5>1 DEF Pending, Delivered
        <5>3. IF doubleBuffering' THEN j.half = 1 - inUse' /\ j.at = logged'[1] - idx'
              ELSE j.half = inUse' /\ idx' = 0
          BY <2>1, <2>2, <2>8, <3>1, <3>2, <3>3
        <5>4. OneWrite(j)'
          BY <3>4, <5>1, <5>2, <5>3 DEF OneWrite
        <5> QED
          BY <5>2, <5>4 DEF InFlight
      <4>2. ASSUME NEW i \in Writes, OneWrite(i), doubleBuffering, i.half = 1 - inUse
            PROVE  Delivered' = Delivered /\ InFlight'
        <5>7. jobs = <<i>> /\ Pending = Left(i) /\ Left(i) \in Int
          BY <4>2 DEF Pending, OneWrite, Writes, Left
        <5>8. jobs' = <<i, j>>
          <6>1. <<i>> \in Seq(Writes) /\ Len(<<i>>) = 1 /\ <<i>>[1] = i
            BY <4>2
          <6>2. /\ Append(<<i>>, j) \in Seq(Writes) /\ Len(Append(<<i>>, j)) = 2
                /\ Append(<<i>>, j)[1] = i /\ Append(<<i>>, j)[2] = j
            BY <6>1, AppendProperties
          <6>3. /\ <<i, j>> \in Seq(Writes) /\ Len(<<i, j>>) = 2
                /\ <<i, j>>[1] = i /\ <<i, j>>[2] = j
            BY <4>2
          <6>4. Append(<<i>>, j) = <<i, j>>
            <7> DEFINE longer == Append(<<i>>, j)
                       pair == <<i, j>>
            <7>1. /\ longer \in Seq(Writes) /\ pair \in Seq(Writes)
                  /\ Len(longer) = 2 /\ Len(pair) = 2
                  /\ longer[1] = pair[1] /\ longer[2] = pair[2]
              BY <6>2, <6>3
            <7> HIDE DEF longer, pair
            <7>2. \A m \in 1 .. Len(longer) : longer[m] = pair[m]
              BY <7>1
            <7> QED
              BY <7>1, <7>2, SeqEqual DEF longer, pair
          <6> QED
            BY <3>3, <5>7, <6>4
        <5>1. /\ jobs = <<i>> /\ jobs' = <<i, j>> /\ jobs' # << >> /\ Len(jobs') = 2
              /\ jobs'[1] = i /\ jobs'[2] = j /\ Pending = Left(i) /\ Left(i) \in Int
          BY <5>7, <5>8
        <5>2. Pending' = Left(i) + (idx + 1)
          BY <3>3, <5>1 DEF Pending
        <5>3. Delivered = e - Left(i) /\ Delivered' = Delivered
          BY <2>2, <3>1, <3>2, <3>5, <3>7, <5>1, <5>2, SMTT(40) DEF Delivered
        <5>4. Delivered' + Left(i) = e
          BY <5>1, <5>3
        <5>5. Holds(i, Delivered)'
          <6>1. i.half # inUse /\ i.half \in {0, 1} /\ Holds(i, Delivered)
            BY <3>2, <4>2 DEF OneWrite, Writes
          <6>2. \A k \in i.pos .. i.len - 1 : mem'[i.half][k] = mem[i.half][k]
            <7> TAKE k \in i.pos .. i.len - 1
            <7>1. k \in 0 .. MaxIdx - 1
              BY <6>1 DEF Holds
            <7> QED
              BY <2>4, <6>1, <7>1
          <6> QED
            BY <5>3, <6>1, <6>2 DEF Holds
        <5>6. doubleBuffering' /\ idx' = 0 /\ i.half = inUse' /\ j.half = 1 - inUse'
          BY <2>1, <3>1, <3>2, <3>3, <4>2
        <5>10. i.at = logged'[1] - MaxIdx /\ j.at = logged'[1]
          <6>1. i.at = n - idx /\ idx + 1 = MaxIdx
            BY <2>6, <3>2, <4>2 DEF OneWrite
          <6> QED
            BY <2>2, <3>2, <3>3, <6>1
        <5>9. TwoWrites(i, j)'
          BY <3>4, <5>1, <5>4, <5>5, <5>6, <5>10 DEF TwoWrites, Left
        <5> QED
          BY <5>3, <5>9 DEF InFlight
      <4> QED
        BY <2>9, <4>1, <4>2
    <3>8. idx' \in 0 .. MaxIdx - 1 /\ idx' = 0
      BY <3>1
    <3>9. \A k \in 0 .. idx' - 1 : mem'[inUse'][k] = <<1, logged'[1] - idx' + k + 1>>
      BY <3>1
    <3>12. file'[1] = File!Logged(1, Delivered') /\ DOMAIN file' = {1} /\ Delivered' \in Nat
      BY <2>1, <3>6 DEF FileFollows
    <3>13. fd' = 1 /\ logged'[1] \in Nat
      BY <2>1, <2>2
    <3>14. doubleBuffering' = doubleBuffering /\ phase' \in {"step", "terminate"} /\ turn' = 1
      BY <2>1
    <3> QED
      BY <2>2, <2>4, <2>8, <3>2, <3>6, <3>8, <3>9, <3>12, <3>13, <3>14 DEF FileFollows
  <2>7. CASE doubleBuffering /\ idx + 1 < MaxIdx
    <3>1. idx' = idx + 1 /\ UNCHANGED <<jobs, inUse>>
      BY <2>1, <2>7 DEF File!WriteWhenFull, FileFollows
    <3>2. /\ Delivered' = Delivered /\ idx \in 0 .. MaxIdx - 1
          /\ idx' \in 0 .. MaxIdx - 1 /\ inUse \in {0, 1}
      <4>1. Pending' = Pending /\ Pending \in Int
        BY <2>9, <3>1 DEF Pending, OneWrite, Writes, Left
      <4> QED
        BY <2>2, <2>7, <3>1, <4>1 DEF Delivered, FileFollows
    <3>3. ASSUME NEW j \in Writes, OneWrite(j), j.half = 1 - inUse
          PROVE  OneWrite(j)'
      <4>1. \A k \in j.pos .. j.len - 1 : mem'[j.half][k] = <<1, Delivered' + k - j.pos + 1>>
        <5> TAKE k \in j.pos .. j.len - 1
        <5>1. j.half # inUse /\ j.half \in {0, 1} /\ k \in 0 .. MaxIdx - 1
          BY <3>2, <3>3 DEF OneWrite, Holds
        <5>2. mem'[j.half][k] = mem[j.half][k]
          BY <2>4, <5>1
        <5> QED
          BY <3>2, <3>3, <5>2 DEF OneWrite, Holds
      <4>2. j.at = logged'[1] - idx'
        BY <2>2, <2>7, <3>1, <3>2, <3>3 DEF OneWrite
      <4> QED
        BY <2>1, <2>7, <3>1, <3>3, <4>1, <4>2 DEF OneWrite, Holds
    <3>4. \A k \in 0 .. idx' - 1 : mem'[inUse'][k] = <<1, logged'[1] - idx' + k + 1>>
      <4> TAKE k \in 0 .. idx' - 1
      <4>1. k \in 0 .. idx /\ logged'[1] - idx' + k + 1 = n - idx + k + 1
        BY <2>2, <3>1, <3>2
      <4> QED
        BY <2>5, <3>1, <4>1
    <3>5. InFlight'
      BY <2>9, <3>1, <3>3 DEF InFlight
    <3>6. /\ file'[1] = File!Logged(1, Delivered') /\ DOMAIN file' = {1}
          /\ Delivered' \in Nat
      BY <2>1, <3>2 DEF FileFollows
    <3>7. fd' = 1 /\ logged'[1] \in Nat /\ inUse' \in {0, 1}
      BY <2>1, <2>2, <3>1, <3>2
    <3>8. doubleBuffering' = doubleBuffering
      BY <2>1
    <3>9. phase' \notin {"init", "done"} /\ doubleBuffering' = TRUE
      BY <2>1, <2>7, <2>8, <3>8
    <3>10. mem' \in [{0, 1} -> [0 .. MaxIdx - 1 -> Nat \X Nat]]
      BY <2>4
    <3>11. phase' \in {"step", "terminate"} /\ turn' = 1 /\ DOMAIN logged' = {1}
      BY <2>1, <2>2
    <3> QED
      BY <3>2, <3>4, <3>5, <3>6, <3>7, <3>9, <3>10, <3>11 DEF FileFollows
  <2> QED
    BY <2>6, <2>7, <2>8
<1>4. CASE File!ToFileTerminate
  <2>1. /\ phase = "terminate" /\ jobs = << >> /\ phase' = "done" /\ turn' = 1
        /\ idx' = 0 /\ inUse' = 0
        /\ UNCHANGED <<doubleBuffering, mem, jobs, logged>>
    BY <1>4 DEF File!ToFileTerminate, File!NextTurn, FileFollows
  <2>5. fd = 1
    BY <2>1 DEF FileFollows
  <2>6. file' = [file EXCEPT ![1] = @ \o [k \in 1 .. idx |-> mem[inUse][k - 1]]]
    BY <1>4, <2>5 DEF File!ToFileTerminate
  <2>2. /\ Delivered = logged[1] - idx /\ Delivered' = logged[1]
        /\ Delivered \in Nat /\ logged[1] \in Nat /\ idx \in Nat
        /\ file[1] = File!Logged(1, Delivered)
    BY <2>1, SMTT(40) DEF Delivered, Pending, FileFollows
  <2>10. InFlight'
    BY <2>1 DEF InFlight
  <2>3. [k \in 1 .. idx |-> mem[inUse][k - 1]] = [k \in 1 .. idx |-> <<1, Delivered + k>>]
    <3>1. \A k \in 1 .. idx : mem[inUse][k - 1] = <<1, Delivered + k>>
      <4> TAKE k \in 1 .. idx
      <4>1. k - 1 \in 0 .. idx - 1
        BY <2>2
      <4>2. mem[inUse][k - 1] = <<1, logged[1] - idx + (k - 1) + 1>>
        BY <4>1 DEF FileFollows
      <4>3. logged[1] - idx + (k - 1) + 1 = Delivered + k
        BY <2>2
      <4> QED
        BY <4>2, <4>3
    <3> QED
      BY <3>1
  <2>4. file'[1] = File!Logged(1, Delivered')
    <3>1. file'[1] = file[1] \o [k \in 1 .. idx |-> mem[inUse][k - 1]]
      BY <2>6 DEF FileFollows
    <3>2. file'[1] = File!Logged(1, Delivered) \o [k \in 1 .. idx |-> <<1, Delivered + k>>]
      BY <2>2, <2>3, <3>1
    <3>3. Delivered + idx = Delivered'
      BY <2>2
    <3>4. File!Logged(1, Delivered) \o [k \in 1 .. idx |-> <<1, Delivered + k>>]
            = File!Logged(1, Delivered + idx)
      BY <2>2, LoggedMore
    <3> QED
      BY <3>2, <3>3, <3>4
  <2>7. DOMAIN file' = {1}
    BY <2>6 DEF FileFollows
  <2>8. idx' \in 0 .. MaxIdx - 1
    BY <2>1
  <2>9. \A k \in 0 .. idx' - 1 : mem'[inUse'][k] = <<1, logged'[1] - idx' + k + 1>>
    BY <2>1
  <2> QED
    BY <2>1, <2>2, <2>4, <2>7, <2>8, <2>9, <2>10 DEF FileFollows
<1>5. CASE File!Transfer
  <2>1. /\ jobs # << >>
        /\ UNCHANGED <<phase, turn, doubleBuffering, mem, idx, inUse, fd, logged>>
    BY <1>5 DEF File!Transfer, File!buffers
  <2>2. PICK j \in Writes :
          /\ Head(jobs) = j /\ jobs[1] = j /\ Holds(j, Delivered)
          /\ OneWrite(j) \/ \E i \in Writes : TwoWrites(j, i)
    <3>1. InFlight
      BY DEF FileFollows
    <3>2. ASSUME NEW j \in Writes, OneWrite(j)
          PROVE  Head(jobs) = j /\ jobs[1] = j /\ Holds(j, Delivered)
      BY <3>2 DEF OneWrite
    <3>3. ASSUME NEW j \in Writes, NEW i \in Writes, TwoWrites(j, i)
          PROVE  Head(jobs) = j /\ jobs[1] = j /\ Holds(j, Delivered)
      BY <3>3 DEF TwoWrites
    <3> QED
      BY <2>1, <3>1, <3>2, <3>3 DEF InFlight
  <2>3. PICK d \in Nat : d = Delivered
    BY DEF FileFollows
  <2>4. /\ j.file = 1 /\ j.half \in {0, 1} /\ j.len \in Nat /\ j.pos \in 0 .. j.len - 1
        /\ j.len \in 1 .. MaxIdx /\ Left(j) \in Nat
        /\ \A k \in j.pos .. j.len - 1 : mem[j.half][k] = <<1, d + k - j.pos + 1>>
    BY <2>2, <2>3 DEF Holds, Writes, Left
  <2>5. file'[1] = File!Logged(1, d + 1) /\ DOMAIN file' = {1}
    <3>1. file' = [file EXCEPT ![1] = Append(@, mem[j.half][j.pos])]
      BY <1>5, <2>2, <2>4 DEF File!Transfer
    <3>2. mem[j.half][j.pos] = <<1, d + 1>>
      <4>1. d + j.pos - j.pos + 1 = d + 1
        BY <2>4
      <4> QED
        BY <2>4, <4>1, SMTT(40)
    <3>3. file'[1] = Append(File!Logged(1, d), <<1, d + 1>>)
      BY <2>3, <3>1, <3>2 DEF FileFollows
    <3>4. Append(File!Logged(1, d), <<1, d + 1>>) = File!Logged(1, d + 1)
      BY LoggedMore
    <3> QED
      BY <3>1, <3>3, <3>4 DEF FileFollows
  <2>6. logged[1] \in Nat /\ idx \in Nat /\ logged' = logged /\ idx' = idx
    BY <2>1 DEF FileFollows
  <2>7. jobs' = IF j.pos + 1 < j.len THEN [jobs EXCEPT ![1].pos = @ + 1] ELSE Tail(jobs)
    BY <1>5, <2>2 DEF File!Transfer
  \* What is left of the write, when the record was not its last.
  <2>8. PICK more \in Writes :
          /\ more = [j EXCEPT !.pos = j.pos + 1]
          /\ more.half = j.half /\ more.at = j.at /\ Left(more) = Left(j) - 1
          /\ j.pos + 1 < j.len => Holds(more, d + 1)'
    <3> DEFINE i == [j EXCEPT !.pos = j.pos + 1]
    <3>0. j \in [file : {1}, half : {0, 1}, len : Nat, pos : Nat, at : Nat]
      BY DEF Writes
    <3>1. i \in Writes /\ i.half = j.half /\ i.at = j.at /\ i.len = j.len /\ i.pos = j.pos + 1
      BY <3>0 DEF Writes
    <3> HIDE DEF i
    <3>2. Left(i) = Left(j) - 1
      BY <2>4, <3>1 DEF Left
    <3>3. ASSUME j.pos + 1 < j.len PROVE Holds(i, d + 1)'
      <4>1. \A k \in i.pos .. i.len - 1 : mem'[i.half][k] = <<1, (d + 1) + k - i.pos + 1>>
        <5> TAKE k \in i.pos .. i.len - 1
        <5>1. k \in j.pos .. j.len - 1 /\ (d + 1) + k - i.pos + 1 = d + k - j.pos + 1
          <6>1. j.pos \in Nat /\ j.len \in Nat /\ i.pos = j.pos + 1 /\ i.len = j.len
            BY <2>4, <3>0, <3>1
          <6>2. \A p, q \in Nat : \A m \in (p + 1) .. (q - 1) :
                  m \in p .. q - 1 /\ (d + 1) + m - (p + 1) + 1 = d + m - p + 1
            OBVIOUS
          <6>3. k \in (j.pos + 1) .. (j.len - 1)
            BY <6>1
          <6> QED
            BY <6>1, <6>2, <6>3, SMTT(40)
        <5> QED
          BY <2>1, <2>4, <3>1, <5>1
      <4>2. i.len \in 1 .. MaxIdx /\ i.pos \in 0 .. i.len - 1
        BY <2>4, <3>1, <3>3
      <4> QED
        BY <4>1, <4>2 DEF Holds
    <3> QED
      BY <3>1, <3>2, <3>3 DEF i
  <2>9. Delivered' = d + 1 /\ InFlight'
    <3>1. CASE OneWrite(j)
      <4>1. jobs = <<j>> /\ Tail(jobs) = << >> /\ Pending = Left(j)
        BY <3>1 DEF OneWrite, Pending
      <4>2. CASE j.pos + 1 < j.len
        <5>1. jobs' = <<more>>
          BY <2>7, <2>8, <4>1, <4>2
        <5>2. Pending' = Left(more)
          BY <5>1 DEF Pending
        <5>3. Delivered' = d + 1
          BY <2>3, <2>4, <2>6, <2>8, <4>1, <5>2, SMTT(40) DEF Delivered
        <5>4. OneWrite(more)'
          BY <2>1, <2>8, <3>1, <4>2, <5>1, <5>3 DEF OneWrite
        <5> QED
          BY <5>3, <5>4 DEF InFlight
      <4>3. CASE ~ (j.pos + 1 < j.len)
        <5>1. jobs' = << >> /\ Left(j) = 1
          BY <2>4, <2>7, <4>1, <4>3 DEF Left
        <5>2. Pending' = 0
          BY <5>1 DEF Pending
        <5>3. Delivered' = d + 1
          BY <2>3, <2>6, <4>1, <5>1, <5>2 DEF Delivered
        <5> QED
          BY <5>1, <5>3 DEF InFlight
      <4> QED
        BY <4>2, <4>3
    <3>2. ASSUME NEW i \in Writes, TwoWrites(j, i)
          PROVE  Delivered' = d + 1 /\ InFlight'
      <4>1. /\ jobs = <<j, i>> /\ Tail(jobs) = <<i>> /\ Pending = Left(j) + Left(i)
            /\ doubleBuffering /\ idx = 0 /\ j.half = inUse /\ i.half = 1 - inUse
            /\ j.at = logged[1] - MaxIdx /\ i.at = logged[1]
        BY <3>2 DEF TwoWrites, Pending
      <4>2. PICK e \in Int : e = d + Left(j)
        BY <2>4
      <4>3. Left(i) \in Int /\ Holds(i, e)'
        BY <2>1, <2>3, <3>2, <4>2, SMTT(40) DEF TwoWrites, Holds, Left
      <4>4. CASE j.pos + 1 < j.len
        <5>1. jobs' = <<more, i>>
          <6>1. [jobs EXCEPT ![1].pos = @ + 1] = [jobs EXCEPT ![1] = [j EXCEPT !.pos = j.pos + 1]]
            BY <4>1
          <6>2. jobs' = [jobs EXCEPT ![1] = more]
            BY <2>7, <2>8, <4>4, <6>1
          <6> QED
            BY <4>1, <6>2
        <5>2. Pending' = Left(more) + Left(i)
          BY <5>1 DEF Pending
        <5>7. /\ Delivered = logged[1] - idx - (Left(j) + Left(i)) /\ Left(j) \in Int
              /\ Delivered' = logged[1] - idx - ((Left(j) - 1) + Left(i))
          BY <2>4, <2>6, <2>8, <4>1, <5>2 DEF Delivered
        <5>8. Left(i) \in Int /\ Left(more) = Left(j) - 1
          BY <2>8, <4>3
        <5>3. Delivered' = d + 1 /\ Delivered' + Left(more) = e
          BY <2>3, <2>6, <4>2, <5>7, <5>8, SMTT(40)
        <5>4. doubleBuffering' /\ idx' = 0 /\ more.half = inUse' /\ i.half = 1 - inUse'
          BY <2>1, <2>8, <4>1
        <5>5. Left(more)' = Left(more)
          BY DEF Left
        <5>9. more.at = logged'[1] - MaxIdx /\ i.at = logged'[1]
          BY <2>1, <2>8, <4>1
        <5>6. TwoWrites(more, i)'
          BY <2>8, <4>3, <4>4, <5>1, <5>3, <5>4, <5>5, <5>9 DEF TwoWrites
        <5> QED
          BY <5>3, <5>6 DEF InFlight
      <4>5. CASE ~ (j.pos + 1 < j.len)
        <5>1. jobs' = <<i>> /\ Left(j) = 1
          BY <2>4, <2>7, <4>1, <4>5 DEF Left
        <5>2. Pending' = Left(i)
          BY <5>1 DEF Pending
        <5>3. Delivered' = d + 1 /\ Delivered' = e
          BY <2>3, <2>4, <2>6, <4>1, <4>2, <4>3, <5>1, <5>2 DEF Delivered
        <5>5. i.at = logged'[1] - idx'
          BY <2>1, <2>6, <4>1
        <5>4. OneWrite(i)'
          BY <2>1, <4>1, <4>3, <5>1, <5>3, <5>5 DEF OneWrite
        <5> QED
          BY <5>3, <5>4 DEF InFlight
      <4> QED
        BY <4>4, <4>5
    <3> QED
      BY <2>2, <3>1, <3>2
  <2>10. phase \in {"step", "terminate"}
    BY <2>1 DEF FileFollows
  <2>11. file'[1] = File!Logged(1, Delivered') /\ Delivered' \in Nat
    BY <2>5, <2>9
  <2> QED
    BY <2>1, <2>5, <2>9, <2>10, <2>11 DEF FileFollows
<1>6. CASE File!Done
  BY <1>1, <1>6 DEF File!Done, File!vars, File!buffers, fileVars
<1> QED
  BY <1>1, <1>2, <1>3, <1>4, <1>5, <1>6
     DEF Next, FileStep, UartStep, MemoryStep, vars, fileVars, File!Next

\* What FileFollows says of the file.
LEMMA FileInvariant == Spec => [](FileInOrder /\ FileComplete)
<1>1. Init => late \/ FileFollows
  BY FileInit
<1>2. (late \/ FileFollows) /\ [Next]_vars => (late \/ FileFollows)'
  <2> SUFFICES ASSUME late \/ FileFollows, [Next]_vars, ~ late'
               PROVE  FileFollows'
    OBVIOUS
  <2>1. late => late'
    BY DEF Next, FileStep, UartStep, MemoryStep, vars, fileVars, File!Next, File!ToFileInit,
           File!ToFileStep, File!ToFileTerminate, File!Transfer, File!Done, File!vars
  <2> QED
    BY <2>1, FileStepKeeps
<1>3. late \/ FileFollows => FileInOrder /\ FileComplete
  <2> SUFFICES ASSUME FileFollows PROVE FileInOrder /\ FileComplete
    BY DEF FileInOrder, FileComplete, File!FileInOrder, File!FileComplete
  <2>1. File!Blocks = {1}
    BY DEF File!Blocks
  <2>2. Delivered \in 0 .. logged[1] /\ logged[1] \in Nat
    <3>1. Pending \in Nat
      <4>1. CASE jobs = << >>
        BY <4>1 DEF Pending
      <4>2. ASSUME NEW j \in Writes, OneWrite(j) PROVE Pending \in Nat
        BY <4>2 DEF OneWrite, Holds, Pending, Left
      <4>3. ASSUME NEW i \in Writes, NEW j \in Writes, TwoWrites(i, j) PROVE Pending \in Nat
        <5>1. jobs = <<i, j>> /\ Left(i) \in Nat /\ Left(j) \in Nat
          BY <4>3 DEF TwoWrites, Holds, Left
        <5> QED
          BY <5>1 DEF Pending
      <4> QED
        BY <4>1, <4>2, <4>3 DEF FileFollows, InFlight
    <3> QED
      BY <3>1 DEF FileFollows, Delivered
  <2>3. phase = "done" => Delivered = logged[1]
    BY <2>2 DEF FileFollows, Delivered, Pending
  <2> QED
    BY <2>1, <2>2, <2>3, LoggedPrefix
       DEF FileFollows, FileInOrder, FileComplete, File!FileInOrder, File!FileComplete
<1> QED
  BY <1>1, <1>2, <1>3, PTL DEF Spec

\* As long as no write takes longer than a half is for (a tenth of a second when double
\* buffered, a step when not), the file is the beginning of what was logged, with one or
\* two writes under way and for any size of the buffers (mdaqfile.c 122-135). That the
\* device keeps up is not proved: nothing in the code sees to it.
THEOREM RecordsStayInOrder == Spec => []FileInOrder
BY FileInvariant, PTL

\* Under the same condition the file is all of what was logged after the end of the
\* model, for any size of the buffers (mdaqfile.c 141-160).
THEOREM FileIsComplete == Spec => []FileComplete
BY FileInvariant, PTL

-----------------------------------------------------------------------------
(* UART receive blocks. *)

\* One block looks for the header, and no other has smaller messages: the blocks
\* share the buffer, and each computes from its own size what room is left in it.
OneReceiver ==
  /\ Header \in Seq(Nat)
  /\ \A b \in Lines : Stream[b] \in Seq(Nat) /\ Len(Stream[b]) \in Nat
  /\ \A a, b \in Framed : a = b
  /\ \A a \in Framed, b \in Lines : Size[a] <= Size[b]

\* The m bytes of the stream up to the q-th are the first of the header.
Matched(a, q, m) ==
  m <= q /\ \A i \in 1 .. m : Stream[a][q - m + i] = Header[i]

\* A nonempty set of natural numbers has a smallest element.
LEMMA Smallest ==
  ASSUME NEW T, T \subseteq Nat, T # {}
  PROVE  \E x \in T : \A y \in T : x <= y
<1> DEFINE R == {ss \in Nat \X Nat : ss[1] < ss[2]}
<1>1. IsWellFoundedOn(R, Nat)
  BY NatLessThanWellFounded DEF OpToRel
<1>2. \E x \in T : \A y \in T : ~ (<<y, x>> \in R)
  <2> HIDE DEF R
  <2> QED
    BY <1>1, WFMin
<1>3. PICK x \in T : \A y \in T : ~ (<<y, x>> \in R)
  BY <1>2
<1>4. ASSUME NEW y \in T PROVE x <= y
  <2>1. x \in Nat /\ y \in Nat /\ ~ (<<y, x>> \in R)
    BY <1>3
  <2> QED
    BY <2>1
<1> QED
  BY <1>3, <1>4

\* The bytes of a part of a stream.
LEMMA Part ==
  ASSUME OneReceiver, NEW a \in Lines, NEW i \in Nat \ {0}, NEW j \in Nat,
         i <= j + 1, j <= Len(Stream[a])
  PROVE  /\ SubSeq(Stream[a], i, j) \in Seq(Nat)
         /\ Len(SubSeq(Stream[a], i, j)) = j - i + 1
         /\ \A k \in 1 .. j - i + 1 : SubSeq(Stream[a], i, j)[k] = Stream[a][i + k - 1]
<1> DEFINE line == Stream[a]
<1>1. line \in Seq(Nat)
  BY DEF OneReceiver
<1> HIDE DEF line
<1>2. \A k \in i .. j : line[k] \in Nat
  <2>1. \A k \in i .. j : k \in 1 .. Len(line)
    BY DEF line
  <2> QED
    BY <1>1, <2>1, ElementOfSeq
<1>3. /\ SubSeq(line, i, j) \in Seq(Nat)
      /\ Len(SubSeq(line, i, j)) = IF i <= j THEN j - i + 1 ELSE 0
      /\ \A k \in 1 .. j - i + 1 : SubSeq(line, i, j)[k] = line[i + k - 1]
  BY <1>2, SubSeqProperties, i \in Int, j \in Int
<1> QED
  BY <1>3 DEF line

LEMMA PartOfPart ==
  ASSUME NEW line \in Seq(Nat), NEW len \in Nat, len = Len(line),
         NEW i \in 1 .. len, NEW j \in 1 .. len,
         NEW m \in 1 .. j - i + 1, NEW n \in 1 .. j - i + 1
  PROVE  SubSeq(SubSeq(line, i, j), m, n) = SubSeq(line, i + m - 1, i + n - 1)
<1>1. i \in 1 .. Len(line) /\ j \in 1 .. Len(line)
  OBVIOUS
<1> QED
  BY <1>1, SubSeqOfSubSeq

\* One byte of a piece.
AtNext(x, byte) == IF byte = Header[x.at + 1] THEN x.at + 1 ELSE 0
ScannedNext(x, byte, k) ==
  IF x.end > 0 THEN x
  ELSE [at |-> AtNext(x, byte), end |-> IF AtNext(x, byte) = Len(Header) THEN k ELSE 0]

\* The recursive function exists, hence Scanned satisfies its equation.
LEMMA ScannedUnfolds ==
  ASSUME NEW piece, Len(piece) \in Nat
  PROVE  Uart!Scanned(piece) =
           [k \in 0 .. Len(piece) |->
              IF k = 0 THEN [at |-> msg_header_at, end |-> 0]
              ELSE ScannedNext(Uart!Scanned(piece)[k - 1], piece[k], k)]
<1> DEFINE first == [at |-> msg_header_at, end |-> 0]
<1> DEFINE Step(x, k) == ScannedNext(x, piece[k], k)
<1> DEFINE Upto(m, f) == f = [k \in 0 .. m |-> IF k = 0 THEN first ELSE Step(f[k - 1], k)]
<1> DEFINE Bad == {m \in 0 .. Len(piece) : ~ \E f : Upto(m, f)}
<1>0. Uart!Scanned(piece) = CHOOSE f : Upto(Len(piece), f)
  BY DEF Uart!Scanned, Uart!HeaderLen, ScannedNext, AtNext
<1> HIDE DEF Step, first
<1>1. Bad = {}
  <2> SUFFICES ASSUME Bad # {} PROVE FALSE
    OBVIOUS
  <2>1. PICK m \in Bad : \A y \in Bad : m <= y
    <3>1. Bad \subseteq Nat
      OBVIOUS
    <3> QED
      BY <3>1, Smallest
  <2>2. CASE m = 0
    <3>1. Upto(0, [k \in 0 .. 0 |-> first])
      OBVIOUS
    <3> QED
      BY <2>1, <2>2, <3>1
  <2>3. CASE m # 0
    <3>1. m \in Nat /\ m - 1 \in 0 .. Len(piece)
      BY <2>1, <2>3
    <3>2. m - 1 \notin Bad
      <4> HIDE DEF Bad
      <4> QED
        BY <2>1, <3>1
    <3>3. PICK f : Upto(m - 1, f)
      BY <3>1, <3>2
    <3> DEFINE g == [k \in 0 .. m |-> IF k = m THEN Step(f[m - 1], m) ELSE f[k]]
    <3>4. Upto(m, g)
      <4>1. ASSUME NEW k \in 0 .. m
            PROVE  g[k] = IF k = 0 THEN first ELSE Step(g[k - 1], k)
        <5>1. CASE k = m
          BY <2>3, <3>1, <5>1
        <5>2. CASE k # m
          <6>1. k \in 0 .. m - 1
            BY <3>1, <5>2
          <6>2. f[k] = IF k = 0 THEN first ELSE Step(f[k - 1], k)
            BY <3>3, <6>1
          <6>3. k # 0 => k - 1 \in 0 .. m /\ k - 1 # m
            BY <3>1, <6>1
          <6> QED
            BY <5>2, <6>2, <6>3
        <5> QED
          BY <5>1, <5>2
      <4> QED
        BY <4>1
    <3> HIDE DEF g
    <3> QED
      BY <2>1, <3>4
  <2> QED
    BY <2>2, <2>3
<1>2. \E f : Upto(Len(piece), f)
  <2>1. Len(piece) \in 0 .. Len(piece) /\ Len(piece) \notin Bad
    BY <1>1
  <2> HIDE DEF Upto
  <2> QED
    BY <2>1
<1>3. Upto(Len(piece), Uart!Scanned(piece))
  <2> HIDE DEF Upto
  <2> QED
    BY <1>0, <1>2, Zenon
<1> QED
  BY <1>3 DEF Step, first

\* What is known of the scan after k bytes of a piece that follows the p-th of the stream:
\* what is matched began in the piece or goes on from what was matched before it.
ScanIs(a, p, k, x) ==
  /\ x.end \in 0 .. k /\ x.at \in 0 .. Len(Header)
  /\ x.end = 0 => x.at < Len(Header) /\ Matched(a, p + k, x.at) /\ x.at <= msg_header_at + k
  /\ x.end > 0 => Matched(a, p + x.end, Len(Header)) /\ Len(Header) <= msg_header_at + x.end

LEMMA ScanOneMore ==
  ASSUME OneReceiver, NEW a \in Framed, NEW p \in Nat, NEW k \in Nat,
         p + k + 1 <= Len(Stream[a]), NEW x, ScanIs(a, p, k, x),
         msg_header_at \in 0 .. Len(Header) - 1
  PROVE  ScanIs(a, p, k + 1, ScannedNext(x, Stream[a][p + k + 1], k + 1))
<1> DEFINE byte == Stream[a][p + k + 1]
<1> DEFINE y == ScannedNext(x, byte, k + 1)
<1>1. Len(Header) \in Nat /\ Len(Header) > 0
  BY BlocksAssumption DEF OneReceiver
<1>2. PICK e \in 0 .. k, u \in 0 .. Len(Header) : e = x.end /\ u = x.at
  BY DEF ScanIs
<1>3. CASE e > 0
  <2>1. y = x
    BY <1>2, <1>3 DEF ScannedNext
  <2>2. ScanIs(a, p, k + 1, x)
    BY <1>2, <1>3 DEF ScanIs
  <2> QED
    BY <2>1, <2>2
<1>4. CASE e = 0
  <2>1. u < Len(Header) /\ u <= p + k /\ \A i \in 1 .. u : Stream[a][p + k - u + i] = Header[i]
    BY <1>2, <1>4 DEF ScanIs, Matched
  <2>2. PICK at \in 0 .. Len(Header) : at = IF byte = Header[u + 1] THEN u + 1 ELSE 0
    BY <1>1, <2>1
  <2>3. y = [at |-> at, end |-> IF at = Len(Header) THEN k + 1 ELSE 0]
    BY <1>2, <1>4, <2>2 DEF ScannedNext, AtNext
  <2>4. /\ at <= p + (k + 1)
        /\ \A i \in 1 .. at : Stream[a][p + (k + 1) - at + i] = Header[i]
    <3>1. CASE byte = Header[u + 1]
      <4>1. at = u + 1 /\ at <= p + (k + 1)
        BY <2>1, <2>2, <3>1
      <4>2. \A i \in 1 .. at : Stream[a][p + (k + 1) - at + i] = Header[i]
        <5> TAKE i \in 1 .. at
        <5>1. CASE i = at
          <6>1. p + (k + 1) - at + i = p + k + 1
            BY <5>1
          <6> QED
            BY <3>1, <4>1, <5>1, <6>1
        <5>2. CASE i # at
          <6>1. i \in 1 .. u /\ p + (k + 1) - at + i = p + k - u + i
            BY <4>1, <5>2
          <6> QED
            BY <2>1, <6>1
        <5> QED
          BY <5>1, <5>2
      <4> QED
        BY <4>1, <4>2
    <3>2. CASE byte # Header[u + 1]
      <4>1. at = 0
        BY <2>2, <3>2
      <4> QED
        BY <4>1
    <3> QED
      BY <3>1, <3>2
  <2>5. y.at = at /\ y.end = IF at = Len(Header) THEN k + 1 ELSE 0
    BY <2>3
  <2>6. Matched(a, p + (k + 1), at)
    BY <2>4 DEF Matched
  <2>8. at <= msg_header_at + (k + 1)
    <3>1. u <= msg_header_at + k /\ msg_header_at \in Nat
      BY <1>1, <1>2, <1>4 DEF ScanIs
    <3> QED
      BY <2>2, <3>1
  <2>7. ScanIs(a, p, k + 1, y)
    <3> HIDE DEF y
    <3>1. CASE at = Len(Header)
      <4>1. y.end = k + 1
        BY <2>5, <3>1
      <4> QED
        BY <1>1, <2>5, <2>6, <2>8, <3>1, <4>1 DEF ScanIs
    <3>2. CASE at # Len(Header)
      <4>1. y.end = 0
        BY <2>5, <3>2
      <4> QED
        BY <1>1, <2>5, <2>6, <2>8, <3>2, <4>1 DEF ScanIs
    <3> QED
      BY <3>1, <3>2
  <2> QED
    BY <2>7
<1> QED
  BY <1>2, <1>3, <1>4

\* Whatever piece is read next: the end that the scan finds is the end of a header,
\* and without one the stream ends with what the scan has matched.
LEMMA ScanFinds ==
  ASSUME OneReceiver, NEW a \in Framed, NEW p \in Nat, NEW n \in Nat,
         p + n <= Len(Stream[a]), msg_header_at \in 0 .. Len(Header) - 1,
         Matched(a, p, msg_header_at)
  PROVE  ScanIs(a, p, n, Uart!Scan(SubSeq(Stream[a], p + 1, p + n)))
<1> DEFINE piece == SubSeq(Stream[a], p + 1, p + n)
<1> DEFINE S == Uart!Scanned(piece)
<1> DEFINE Bad == {k \in 0 .. n : ~ ScanIs(a, p, k, S[k])}
<1>1. Len(piece) = n /\ \A k \in 1 .. n : piece[k] = Stream[a][p + k]
  <2>1. /\ Len(piece) = (p + n) - (p + 1) + 1
        /\ \A k \in 1 .. (p + n) - (p + 1) + 1 : piece[k] = Stream[a][(p + 1) + k - 1]
    <3>1. a \in Lines /\ p + 1 \in Nat \ {0} /\ p + n \in Nat /\ p + 1 <= (p + n) + 1
      BY BlocksAssumption
    <3> QED
      BY <3>1, Part
  <2>2. (p + n) - (p + 1) + 1 = n /\ \A k \in 1 .. n : (p + 1) + k - 1 = p + k
    OBVIOUS
  <2> QED
    BY <2>1, <2>2
<1>2. \A k \in 0 .. n : S[k] = IF k = 0 THEN [at |-> msg_header_at, end |-> 0]
                              ELSE ScannedNext(S[k - 1], Stream[a][p + k], k)
  <2> HIDE DEF piece
  <2>1. S = [k \in 0 .. n |-> IF k = 0 THEN [at |-> msg_header_at, end |-> 0]
                              ELSE ScannedNext(S[k - 1], piece[k], k)]
    BY <1>1, ScannedUnfolds
  <2> HIDE DEF S
  <2> SUFFICES ASSUME NEW k \in 0 .. n
               PROVE  S[k] = IF k = 0 THEN [at |-> msg_header_at, end |-> 0]
                             ELSE ScannedNext(S[k - 1], Stream[a][p + k], k)
    OBVIOUS
  <2>2. S[k] = IF k = 0 THEN [at |-> msg_header_at, end |-> 0]
               ELSE ScannedNext(S[k - 1], piece[k], k)
    BY <2>1
  <2>3. k # 0 => k \in 1 .. n
    OBVIOUS
  <2> QED
    BY <1>1, <2>2, <2>3
<1> HIDE DEF S
<1>3. Bad = {}
  <2> SUFFICES ASSUME Bad # {} PROVE FALSE
    OBVIOUS
  <2>1. PICK k \in Bad : \A y \in Bad : k <= y
    <3>1. Bad \subseteq Nat
      OBVIOUS
    <3> QED
      BY <3>1, Smallest
  <2>2. CASE k = 0
    <3>1. S[0] = [at |-> msg_header_at, end |-> 0]
      BY <1>2
    <3>2. Len(Header) \in Nat /\ p + 0 = p
      BY DEF OneReceiver
    <3>3. ScanIs(a, p, 0, S[0])
      BY <3>1, <3>2 DEF ScanIs
    <3> QED
      BY <2>1, <2>2, <3>3
  <2>3. CASE k # 0
    <3>1. k - 1 \in 0 .. n /\ (k - 1) + 1 = k /\ k - 1 \notin Bad
      BY <2>1, <2>3
    <3>2. ScanIs(a, p, k - 1, S[k - 1])
      BY <3>1
    <3>3. p + (k - 1) + 1 = p + k /\ p + k <= Len(Stream[a])
      <4>1. Len(Stream[a]) \in Nat /\ k \in 0 .. n
        BY <2>1, BlocksAssumption DEF OneReceiver
      <4> QED
        BY <4>1
    <3>4. ScanIs(a, p, k, ScannedNext(S[k - 1], Stream[a][p + k], k))
      BY <3>1, <3>2, <3>3, ScanOneMore
    <3> QED
      BY <1>2, <2>1, <2>3, <3>4
  <2> QED
    BY <2>2, <2>3
<1>4. Uart!Scan(piece) = S[n]
  BY <1>1 DEF Uart!Scan, S
<1>5. ScanIs(a, p, n, S[n])
  BY <1>3
<1>6. ScanIs(a, p, n, Uart!Scan(piece))
  <2> HIDE DEF piece
  <2> QED
    BY <1>4, <1>5
<1> QED
  BY <1>6

\* A message of the stream begins at its k-th byte: behind a header, and whole.
Message(a, k) ==
  /\ k \in Len(Header) + 1 .. Len(Stream[a]) - Size[a] + 1
  /\ Matched(a, k - 1, Len(Header))

\* Where in the stream the bytes that are kept began.
First(a) == pos[a] - Len(rx_buffer) + 1

Places == [at : Nat, msg : Seq(Nat)]

\* What was output are messages, and none begins before the one before it has ended.
Given(a) ==
  /\ given[a] \in Seq(Places)
  /\ \A j \in 1 .. Len(given[a]) :
       /\ Message(a, given[a][j].at)
       /\ given[a][j].msg = SubSeq(Stream[a], given[a][j].at, given[a][j].at + Size[a] - 1)
  /\ \A i, j \in 1 .. Len(given[a]) :
       i < j => given[a][i].at + Size[a] + Len(Header) <= given[a][j].at

\* All of it ended at the q-th byte at the latest.
EndedBy(a, q) == \A j \in 1 .. Len(given[a]) : given[a][j].at + Size[a] - 1 <= q

\* The first bytes kept, as many as a message has, are the ones of the line.
Kept(a) ==
  \A i \in 1 .. Size[a] : i <= Len(rx_buffer) => rx_buffer[i] = Stream[a][First(a) + i - 1]

\* The bytes kept are the beginning of a message, and the ones that were read last; or
\* nothing is kept, and the last bytes are matched with the header.
Receives(a) ==
  /\ pos[a] \in 0 .. Len(Stream[a]) /\ msg_header_at \in 0 .. Len(Header) - 1
  /\ Matched(a, pos[a], msg_header_at)
  /\ rx_buffer \in Seq(Nat) /\ Given(a)
  /\ Len(rx_buffer) = 0 => EndedBy(a, pos[a] - msg_header_at)
  /\ Len(rx_buffer) > 0 =>
       /\ msg_header_at = 0 /\ First(a) \in Nat \ {0}
       /\ Matched(a, First(a) - 1, Len(Header))
       /\ Len(rx_buffer) < Size[a] + Len(Header)
       /\ Kept(a) /\ EndedBy(a, First(a) - 1 - Len(Header))

Receiving ==
  /\ DOMAIN pos = Lines /\ DOMAIN given = Lines
  /\ Framed = {} => rx_buffer = << >>
  /\ \A a \in Framed : Receives(a)

LEMMA ReceiverFacts ==
  ASSUME OneReceiver, NEW a \in Framed
  PROVE  /\ a \in Lines /\ Size[a] \in Nat \ {0} /\ Len(Header) \in Nat \ {0}
         /\ Stream[a] \in Seq(Nat) /\ Len(Stream[a]) \in Nat
         /\ RxBufSize \in Nat /\ Size[a] <= RxBufSize
BY BlocksAssumption DEF OneReceiver

LEMMA ReceivingInit == OneReceiver /\ Init => Receiving
<1> SUFFICES ASSUME OneReceiver, Init PROVE Receiving
  OBVIOUS
<1>1. /\ rx_buffer = << >> /\ msg_header_at = 0
      /\ pos = [b \in Lines |-> 0] /\ given = [b \in Lines |-> << >>]
  BY DEF Init, Uart!Init
<1>2. ASSUME NEW a \in Framed PROVE Receives(a)
  <2>1. pos[a] = 0 /\ given[a] = << >>
    BY <1>1, ReceiverFacts
  <2>2. Len(rx_buffer) = 0 /\ rx_buffer \in Seq(Nat)
        /\ given[a] \in Seq(Places) /\ Len(given[a]) = 0
    <3>1. << >> \in Seq(Nat) /\ << >> \in Seq(Places) /\ Len(<< >>) = 0
      BY EmptySeq
    <3> QED
      BY <1>1, <2>1, <3>1
  <2>3. Given(a) /\ EndedBy(a, pos[a] - msg_header_at)
    BY <2>2 DEF Given, EndedBy
  <2>4. Matched(a, 0, 0)
    BY DEF Matched
  <2> QED
    BY <1>1, <2>1, <2>2, <2>3, <2>4, ReceiverFacts DEF Receives
<1> QED
  BY <1>1, <1>2 DEF Receiving

\* Steps that read nothing of the block's line and output nothing of it.
LEMMA OtherSteps ==
  ASSUME NEW a, Receives(a), UNCHANGED <<rx_buffer, msg_header_at, pos[a], given[a]>>
  PROVE  Receives(a)'
<1>1. First(a)' = First(a)
  BY DEF First
<1> QED
  BY <1>1, ZenonT(40) DEF Receives, Matched, Given, Message, EndedBy, Kept

\* A message from behind all the others is output, and nothing is kept.
LEMMA OneMoreMessage ==
  ASSUME OneReceiver, NEW a \in Framed, Receives(a),
         NEW k, Message(a, k), EndedBy(a, k - 1 - Len(Header)),
         pos'[a] \in 0 .. Len(Stream[a]), k + Size[a] - 1 <= pos'[a],
         given'[a] = Append(given[a],
                            [at |-> k, msg |-> SubSeq(Stream[a], k, k + Size[a] - 1)]),
         rx_buffer' = << >>, msg_header_at' = 0
  PROVE  Receives(a)'
<1>0. PICK n \in Nat, sz, hl \in Nat \ {0}, len \in Nat :
        n = Len(given[a]) /\ sz = Size[a] /\ hl = Len(Header) /\ len = Len(Stream[a])
  <2>1. given[a] \in Seq(Places)
    BY DEF Receives, Given
  <2>2. Len(given[a]) \in Nat
    BY <2>1, LenProperties
  <2>3. Size[a] \in Nat \ {0} /\ Len(Header) \in Nat \ {0} /\ Len(Stream[a]) \in Nat
    BY ReceiverFacts
  <2> QED
    BY <2>2, <2>3
<1> DEFINE msg == SubSeq(Stream[a], k, k + sz - 1)
           new == [at |-> k, msg |-> msg]
<1>1. given[a] \in Seq(Places)
  BY DEF Receives, Given
<1>2. k \in Nat \ {0} /\ k + sz - 1 <= len /\ k + sz - 1 \in Nat
  <2>1. k \in hl + 1 .. len - sz + 1
    BY <1>0 DEF Message
  <2> QED
    BY <2>1
<1>3. new \in Places /\ new.at = k /\ new.msg = msg
  <2>1. a \in Lines
    BY ReceiverFacts
  <2>2. k <= (k + sz - 1) + 1 /\ k + sz - 1 <= Len(Stream[a])
    BY <1>0, <1>2
  <2>3. msg \in Seq(Nat)
    BY <1>2, <2>1, <2>2, Part
  <2> HIDE DEF msg
  <2> QED
    BY <1>2, <2>3 DEF Places
<1> HIDE DEF new
<1>4. /\ given'[a] \in Seq(Places) /\ Len(given'[a]) = n + 1
      /\ \A j \in 1 .. n : given'[a][j] = given[a][j]
      /\ given'[a][n + 1] = new
  <2>1. given'[a] = Append(given[a], new)
    BY <1>0 DEF new
  <2>2. /\ Append(given[a], new) \in Seq(Places) /\ Len(Append(given[a], new)) = n + 1
        /\ \A j \in 1 .. n : Append(given[a], new)[j] = given[a][j]
        /\ Append(given[a], new)[n + 1] = new
    BY <1>0, <1>1, <1>3, AppendProperties
  <2> QED
    BY <2>1, <2>2
<1>5. Len(rx_buffer') = 0 /\ rx_buffer' \in Seq(Nat)
  BY EmptySeq
<1>6. \A j \in 1 .. n : given[a][j].at \in Nat /\ given[a][j].at + sz + hl <= k
  <2> TAKE j \in 1 .. n
  <2>1. given[a][j] \in Places
    BY <1>0, <1>1, ElementOfSeq
  <2>2. PICK at \in Nat : at = given[a][j].at
    BY <2>1 DEF Places
  <2>3. at + sz - 1 <= k - 1 - hl
    BY <1>0, <2>2 DEF EndedBy
  <2>4. at + sz + hl <= k
    BY <1>2, <2>3
  <2> QED
    BY <2>2, <2>4
<1>7. ASSUME NEW i \in 1 .. n + 1, NEW j \in 1 .. n + 1, i < j
      PROVE  given'[a][i].at + Size[a] + Len(Header) <= given'[a][j].at
  <2>1. i \in 1 .. n
    BY <1>7
  <2>2. CASE j = n + 1
    BY <1>0, <1>3, <1>4, <1>6, <2>1, <2>2
  <2>3. CASE j \in 1 .. n
    BY <1>0, <1>4, <1>7, <2>1, <2>3 DEF Receives, Given
  <2>4. j = n + 1 \/ j \in 1 .. n
    OBVIOUS
  <2> QED
    BY <2>2, <2>3, <2>4
<1>8. ASSUME NEW j \in 1 .. n + 1
      PROVE  /\ Message(a, given'[a][j].at)
             /\ given'[a][j].msg
                  = SubSeq(Stream[a], given'[a][j].at, given'[a][j].at + Size[a] - 1)
  <2>1. CASE j = n + 1
    BY <1>0, <1>3, <1>4, <2>1
  <2>2. CASE j \in 1 .. n
    BY <1>0, <1>4, <2>2 DEF Receives, Given
  <2>3. j = n + 1 \/ j \in 1 .. n
    OBVIOUS
  <2> QED
    BY <2>1, <2>2, <2>3
<1>9. ASSUME NEW j \in 1 .. n + 1
      PROVE  given'[a][j].at + sz - 1 <= pos'[a] - 0
  <2>1. PICK q \in Nat, h \in Nat : q = pos'[a] /\ h = k /\ h + sz - 1 <= q
    BY <1>0, <1>2
  <2>2. CASE j = n + 1
    <3>1. given'[a][j].at = h
      BY <1>3, <1>4, <2>1, <2>2
    <3>2. h + sz - 1 <= q - 0
      BY <2>1
    <3> QED
      BY <2>1, <3>1, <3>2
  <2>3. CASE j \in 1 .. n
    <3>1. PICK at \in Nat : at = given'[a][j].at /\ at + sz + hl <= h
      BY <1>4, <1>6, <2>1, <2>3
    <3>2. at + sz - 1 <= q - 0
      <4>1. h + sz - 1 <= q /\ at + sz + hl <= h
        BY <2>1, <3>1
      <4> QED
        BY <4>1
    <3> QED
      BY <2>1, <3>1, <3>2
  <2>4. j = n + 1 \/ j \in 1 .. n
    OBVIOUS
  <2> QED
    BY <2>2, <2>3, <2>4
<1>10. Given(a)' /\ EndedBy(a, pos[a] - msg_header_at)'
  <2>1. \A j : Message(a, j)' <=> Message(a, j)
    BY DEF Message, Matched
  <2>2. Given(a)'
    BY <1>4, <1>7, <1>8, <2>1 DEF Given
  <2>3. EndedBy(a, pos[a] - msg_header_at)'
    BY <1>0, <1>4, <1>9 DEF EndedBy
  <2> QED
    BY <2>2, <2>3
<1>11. Matched(a, pos[a], msg_header_at)'
  <2>1. pos'[a] \in Nat
    BY <1>0
  <2> QED
    BY <2>1 DEF Matched
<1>12. msg_header_at' \in 0 .. Len(Header) - 1
  BY ReceiverFacts
<1> QED
  BY <1>5, <1>10, <1>11, <1>12 DEF Receives

\* The numbers of a state, by names of their own.
LEMMA Numbers ==
  ASSUME OneReceiver, NEW a \in Framed, Receives(a)
  PROVE  \E p, len, l \in Nat, sz, hl \in Nat \ {0} :
           /\ p = pos[a] /\ len = Len(Stream[a]) /\ l = Len(rx_buffer)
           /\ sz = Size[a] /\ hl = Len(Header) /\ p <= len
<1>1. Len(rx_buffer) \in Nat
  <2>1. rx_buffer \in Seq(Nat)
    BY DEF Receives
  <2> QED
    BY <2>1, LenProperties
<1>2. Len(Stream[a]) \in Nat /\ Size[a] \in Nat \ {0} /\ Len(Header) \in Nat \ {0}
  BY ReceiverFacts
<1>3. pos[a] \in 0 .. Len(Stream[a])
  BY DEF Receives
<1>4. pos[a] \in Nat /\ pos[a] <= Len(Stream[a])
  BY <1>2, <1>3
<1> QED
  BY <1>1, <1>2, <1>4

\* Bytes from behind a header are kept, as long as they are no message.
LEMMA KeptBytes ==
  ASSUME OneReceiver, NEW a \in Framed, Receives(a), NEW f \in Nat \ {0},
         pos'[a] \in 0 .. Len(Stream[a]), f <= pos'[a] + 1,
         Matched(a, f - 1, Len(Header)), pos'[a] - f + 1 < Size[a] + Len(Header),
         EndedBy(a, f - 1 - Len(Header)),
         rx_buffer' \in Seq(Nat), Len(rx_buffer') = pos'[a] - f + 1,
         \A i \in 1 .. Size[a] : i <= Len(rx_buffer') => rx_buffer'[i] = Stream[a][f + i - 1],
         msg_header_at' = 0, given'[a] = given[a]
  PROVE  Receives(a)'
<1>1. PICK q \in Nat, hl \in Nat : q = pos'[a] /\ hl = Len(Header)
  BY ReceiverFacts
<1>2. First(a)' = f
  BY <1>1 DEF First
<1>3. Given(a)'
  BY DEF Receives, Given, Message, Matched
<1>4. Matched(a, pos[a], msg_header_at)' /\ Matched(a, First(a) - 1, Len(Header))'
  BY <1>1, <1>2 DEF Matched
<1>5. EndedBy(a, First(a) - 1 - Len(Header))' /\ Kept(a)'
  BY <1>2 DEF EndedBy, Kept
<1>6. EndedBy(a, pos[a] - msg_header_at)'
  <2> SUFFICES ASSUME NEW j \in 1 .. Len(given[a])
               PROVE  given[a][j].at + Size[a] - 1 <= q - 0
    BY <1>1 DEF EndedBy
  <2>1. PICK at \in Nat, sz \in Nat : at = given[a][j].at /\ sz = Size[a]
    <3>1. given[a][j] \in Places
      BY ElementOfSeq DEF Receives, Given
    <3> QED
      BY <3>1, ReceiverFacts DEF Places
  <2>2. at + sz - 1 <= f - 1 - hl
    BY <1>1, <2>1 DEF EndedBy
  <2>3. f <= q + 1
    BY <1>1
  <2>4. at + sz - 1 <= q - 0
    BY <2>2, <2>3
  <2> QED
    BY <2>1, <2>4
<1>7. msg_header_at' \in 0 .. Len(Header) - 1
  BY ReceiverFacts
<1> QED
  BY <1>1, <1>2, <1>3, <1>4, <1>5, <1>6, <1>7 DEF Receives

\* The beginning of a message is there, and n more bytes of it are read.
LEMMA ContinueKeeps ==
  ASSUME OneReceiver, NEW a \in Framed, Receives(a), DOMAIN pos = Lines, DOMAIN given = Lines,
         NEW n \in Nat \ {0}, Uart!Continue(a, n)
  PROVE  Receives(a)'
<1>1. /\ a \in Lines /\ Size[a] \in Nat \ {0} /\ Len(Header) \in Nat \ {0}
      /\ Stream[a] \in Seq(Nat) /\ Len(Stream[a]) \in Nat
  BY ReceiverFacts
<1>2. PICK p, len, l \in Nat, sz, hl \in Nat \ {0} :
        /\ p = pos[a] /\ len = Len(Stream[a]) /\ l = Len(rx_buffer)
        /\ sz = Size[a] /\ hl = Len(Header) /\ p <= len
  BY Numbers
<1>3. /\ l > 0 /\ n <= len - p /\ pos'[a] = p + n /\ msg_header_at' = 0
      /\ msg_header_at = 0
  BY <1>1, <1>2
     DEF Uart!Continue, Uart!Continues, Uart!Reads, Uart!Readable, Uart!rx_buf_idx
<1>4. PICK f \in Nat \ {0} :
        /\ f = First(a) /\ f = p - l + 1 /\ Matched(a, f - 1, hl)
        /\ EndedBy(a, f - 1 - hl)
        /\ \A i \in 1 .. sz : i <= l => rx_buffer[i] = Stream[a][f + i - 1]
  <2>1. /\ First(a) \in Nat \ {0} /\ Matched(a, First(a) - 1, hl)
        /\ EndedBy(a, First(a) - 1 - hl) /\ Kept(a)
    BY <1>2, <1>3 DEF Receives
  <2>2. First(a) = p - l + 1
    BY <1>2 DEF First
  <2> QED
    BY <1>2, <2>1, <2>2 DEF Kept
<1>20. n <= len - p /\ p <= len /\ l > 0 /\ f = p - l + 1
  BY <1>2, <1>3, <1>4
<1> DEFINE piece == SubSeq(Stream[a], p + 1, p + n)
           all == rx_buffer \o piece
<1>5. /\ piece \in Seq(Nat) /\ Len(piece) = n
      /\ \A i \in 1 .. n : piece[i] = Stream[a][p + i]
  <2>1. p + 1 \in Nat \ {0} /\ p + n \in Nat /\ p + 1 <= (p + n) + 1 /\ p + n <= len
    BY <1>20
  <2>4. p + n <= Len(Stream[a]) /\ a \in Lines
    BY <1>1, <1>2, <2>1
  <2>2. /\ piece \in Seq(Nat) /\ Len(piece) = (p + n) - (p + 1) + 1
        /\ \A i \in 1 .. (p + n) - (p + 1) + 1 : piece[i] = Stream[a][(p + 1) + i - 1]
    BY <2>1, <2>4, Part
  <2>3. (p + n) - (p + 1) + 1 = n /\ \A i \in 1 .. n : (p + 1) + i - 1 = p + i
    OBVIOUS
  <2> QED
    BY <2>2, <2>3
<1>6. /\ all \in Seq(Nat) /\ Len(all) = l + n
      /\ \A i \in 1 .. sz : i <= l + n => all[i] = Stream[a][f + i - 1]
  <2> HIDE DEF piece
  <2>1. rx_buffer \in Seq(Nat)
    BY DEF Receives
  <2>5. /\ all \in Seq(Nat) /\ Len(all) = Len(rx_buffer) + Len(piece)
        /\ \A i \in 1 .. Len(rx_buffer) + Len(piece) :
             all[i] = IF i <= Len(rx_buffer) THEN rx_buffer[i] ELSE piece[i - Len(rx_buffer)]
    BY <1>5, <2>1, ConcatProperties
  <2>2. /\ all \in Seq(Nat) /\ Len(all) = l + n
        /\ \A i \in 1 .. l + n : all[i] = IF i <= l THEN rx_buffer[i] ELSE piece[i - l]
    <3> HIDE DEF all
    <3> QED
      BY <1>2, <1>5, <2>5
  <2> HIDE DEF all
  <2> SUFFICES ASSUME NEW i \in 1 .. sz, i <= l + n PROVE all[i] = Stream[a][f + i - 1]
    BY <2>2
  <2>6. i \in 1 .. l + n
    OBVIOUS
  <2>3. CASE i <= l
    <3>1. all[i] = rx_buffer[i]
      BY <2>2, <2>3, <2>6
    <3>2. rx_buffer[i] = Stream[a][f + i - 1]
      BY <1>4, <2>3
    <3> QED
      BY <3>1, <3>2
  <2>4. CASE i > l
    <3>1. i - l \in 1 .. n /\ p + (i - l) = f + i - 1
      BY <1>20, <2>4
    <3> QED
      BY <1>5, <2>2, <2>4, <3>1
  <2> QED
    BY <2>3, <2>4
<1>7. Uart!Piece(a, n) = piece
  BY <1>2 DEF Uart!Piece
<1> HIDE DEF piece
<1>8. pos'[a] \in 0 .. Len(Stream[a]) /\ f <= pos'[a]
  <2>1. p + n \in 0 .. len /\ f <= p + n
    BY <1>20
  <2> QED
    BY <1>2, <1>3, <2>1
<1> HIDE DEF all
<1>9. CASE l + n >= sz
  <2>1. /\ rx_buffer' = << >>
        /\ given' = [given EXCEPT ![a] = Append(@, [at |-> pos'[a] - Len(all) + 1,
                                                   msg |-> SubSeq(all, 1, sz)])]
    BY <1>2, <1>6, <1>7, <1>9 DEF Uart!Continue, Uart!Outputs, all
  <2>2. SubSeq(all, 1, sz) = SubSeq(Stream[a], f, f + sz - 1)
    <3>1. /\ f + sz - 1 \in Nat /\ f <= (f + sz - 1) + 1 /\ f + sz - 1 <= len
          /\ (f + sz - 1) - f + 1 = sz
      BY <1>20, <1>9
    <3>2. PICK e \in Nat : e = f + sz - 1
      BY <3>1
    <3> DEFINE part == SubSeq(Stream[a], f, e)
               msg == SubSeq(all, 1, sz)
    <3>3. /\ part \in Seq(Nat) /\ Len(part) = e - f + 1
          /\ \A i \in 1 .. e - f + 1 : part[i] = Stream[a][f + i - 1]
      <4>1. a \in Lines /\ f <= e + 1 /\ e <= Len(Stream[a])
        BY <1>1, <1>2, <3>1, <3>2
      <4> QED
        BY <4>1, Part
    <3>4. /\ msg \in Seq(Nat) /\ Len(msg) = sz
          /\ \A i \in 1 .. sz : msg[i] = all[i]
      <4>1. \A i \in 1 .. sz : all[i] \in Nat
        BY <1>6, <1>9, ElementOfSeq
      <4>2. /\ msg \in Seq(Nat) /\ Len(msg) = IF 1 <= sz THEN sz - 1 + 1 ELSE 0
            /\ \A i \in 1 .. sz - 1 + 1 : msg[i] = all[1 + i - 1]
        BY <4>1, SubSeqProperties
      <4>3. \A i \in 1 .. sz : 1 + i - 1 = i
        OBVIOUS
      <4> QED
        BY <4>2, <4>3
    <3> HIDE DEF part, msg
    <3>5. \A i \in 1 .. sz : i <= l + n
      BY <1>9
    <3>6. Len(part) = sz /\ \A i \in 1 .. sz : msg[i] = part[i]
      BY <1>6, <3>1, <3>2, <3>3, <3>4, <3>5
    <3>7. msg = part
      BY <3>3, <3>4, <3>6, SeqEqual
    <3> QED
      BY <3>2, <3>7 DEF part, msg
  <2>6. pos'[a] - Len(all) + 1 = f
    <3>1. pos'[a] = p + n /\ Len(all) = l + n
      BY <1>3, <1>6
    <3> QED
      BY <1>20, <3>1
  <2>3. given'[a] = Append(given[a],
                           [at |-> f, msg |-> SubSeq(Stream[a], f, f + Size[a] - 1)])
    BY <1>1, <1>2, <2>1, <2>2, <2>6
  <2>4. Message(a, f)
    <3>1. hl <= f - 1
      BY <1>4 DEF Matched
    <3>2. f \in hl + 1 .. len - sz + 1
      BY <1>20, <1>9, <3>1
    <3> QED
      BY <1>2, <1>4, <3>2 DEF Message
  <2>5. f + Size[a] - 1 <= pos'[a]
    <3>1. f + sz - 1 <= p + n
      BY <1>20, <1>9
    <3>2. Size[a] = sz /\ pos'[a] = p + n
      BY <1>2, <1>3
    <3> QED
      BY <3>1, <3>2
  <2> QED
    BY <1>2, <1>3, <1>4, <1>8, <2>1, <2>3, <2>4, <2>5, OneMoreMessage
<1>10. CASE ~ (l + n >= sz)
  <2>1. /\ rx_buffer' = all /\ given' = given
    BY <1>2, <1>6, <1>7, <1>10 DEF Uart!Continue, Uart!out, all
  <2>2. (p + n) - f + 1 < sz + hl /\ f <= (p + n) + 1 /\ l + n = (p + n) - f + 1
    BY <1>20, <1>10
  <2>3. /\ pos'[a] - f + 1 < Size[a] + Len(Header) /\ f <= pos'[a] + 1
        /\ Len(rx_buffer') = pos'[a] - f + 1
    BY <1>2, <1>3, <1>6, <2>1, <2>2
  <2>4. Matched(a, f - 1, Len(Header)) /\ given'[a] = given[a]
    BY <1>2, <1>4, <2>1
  <2>5. /\ rx_buffer' \in Seq(Nat)
        /\ \A i \in 1 .. Size[a] :
             i <= Len(rx_buffer') => rx_buffer'[i] = Stream[a][f + i - 1]
    BY <1>2, <1>6, <2>1
  <2>6. EndedBy(a, f - 1 - Len(Header)) /\ msg_header_at' = 0
    BY <1>2, <1>3, <1>4
  <2> QED
    BY <1>8, <2>3, <2>4, <2>5, <2>6, KeptBytes
<1> QED
  BY <1>9, <1>10

\* A piece is searched for the end of the header.
LEMMA SearchKeeps ==
  ASSUME OneReceiver, NEW a \in Framed, Receives(a), DOMAIN pos = Lines, DOMAIN given = Lines,
         NEW n \in Nat \ {0}, Uart!Search(a, n)
  PROVE  Receives(a)'
<1>1. /\ a \in Lines /\ Size[a] \in Nat \ {0} /\ Len(Header) \in Nat \ {0}
      /\ Stream[a] \in Seq(Nat) /\ Len(Stream[a]) \in Nat
  BY ReceiverFacts
<1>2. PICK p, len, l \in Nat, sz, hl \in Nat \ {0} :
        /\ p = pos[a] /\ len = Len(Stream[a]) /\ l = Len(rx_buffer)
        /\ sz = Size[a] /\ hl = Len(Header) /\ p <= len
  BY Numbers
<1>22. RxBufSize \in Nat /\ sz <= RxBufSize
  BY <1>2, ReceiverFacts
<1>3. Len(rx_buffer) = 0 /\ rx_buffer \in Seq(Nat)
  <2>1. Len(rx_buffer) \in Nat /\ rx_buffer \in Seq(Nat)
    BY LenProperties DEF Receives
  <2> QED
    BY <2>1 DEF Receives, Uart!Search, Uart!Continues, Uart!rx_buf_idx
<1>21. PICK u \in 0 .. hl - 1 : u = msg_header_at /\ EndedBy(a, p - u) /\ Matched(a, p, u)
  BY <1>2, <1>3 DEF Receives
<1>4. n <= len - p /\ pos'[a] = p + n /\ n <= sz + hl
  BY <1>1, <1>2, <1>3
     DEF Uart!Search, Uart!Reads, Uart!Readable, Uart!ReadLen, Uart!rx_buf_idx, Uart!HeaderLen
<1>20. n <= len - p /\ p <= len /\ n <= sz + hl
  BY <1>2, <1>4
<1> DEFINE piece == SubSeq(Stream[a], p + 1, p + n)
<1> DEFINE scan == Uart!Scan(piece)
<1>5. Uart!Piece(a, n) = piece
  BY <1>2 DEF Uart!Piece
<1>6. ScanIs(a, p, n, scan)
  <2>1. /\ msg_header_at \in 0 .. Len(Header) - 1 /\ Matched(a, p, msg_header_at)
        /\ p + n <= Len(Stream[a]) /\ n \in Nat
    BY <1>2, <1>4 DEF Receives
  <2> QED
    BY <2>1, ScanFinds
<1>7. /\ scan.end > 0 => Uart!Found(a, piece, scan.end)
      /\ ~ (scan.end > 0) =>
           msg_header_at' = scan.at /\ UNCHANGED rx_buffer /\ Uart!Reports(a, -1)
  BY <1>5 DEF Uart!Search, Uart!TimedOut
<1> HIDE DEF scan
<1>8. PICK end \in 0 .. n, at \in 0 .. hl : end = scan.end /\ at = scan.at
  BY <1>2, <1>6 DEF ScanIs
<1>9. pos'[a] \in 0 .. Len(Stream[a]) /\ pos[a] <= pos'[a]
  <2>1. p + n \in 0 .. len /\ p <= p + n
    BY <1>20
  <2> QED
    BY <1>2, <1>4, <2>1
<1>10. CASE end > 0
  <2> DEFINE f == p + end + 1
  <2> DEFINE rest == SubSeq(piece, end + 1, Len(piece))
  <2>11. piece \in Seq(Nat)
    <3>1. p + 1 \in Nat \ {0} /\ p + n \in Nat /\ p + 1 <= (p + n) + 1 /\ p + n <= len
      BY <1>20
    <3> QED
      BY <1>1, <1>2, <3>1, Part
  <2>1. Len(piece) = n
    <3>1. /\ p + 1 \in Nat \ {0} /\ p + n \in Nat /\ p + 1 <= (p + n) + 1
          /\ p + n <= len /\ (p + n) - (p + 1) + 1 = n
      BY <1>20
    <3>2. Len(piece) = (p + n) - (p + 1) + 1
      BY <1>1, <1>2, <3>1, Part
    <3> QED
      BY <3>1, <3>2
  <2>2. rest = SubSeq(Stream[a], f, p + n)
    <3>1. CASE end = n
      <4>1. rest = << >>
        <5>1. end + 1 \in Int /\ n \in Int /\ n < end + 1
          BY <3>1
        <5> QED
          BY <2>1, <5>1, SubSeqEmpty
      <4>2. SubSeq(Stream[a], f, p + n) = << >>
        <5>1. f \in Int /\ p + n \in Int /\ p + n < f
          BY <3>1
        <5> QED
          BY <5>1, SubSeqEmpty
      <4> QED
        BY <4>1, <4>2
    <3>2. CASE end # n
      <4>1. /\ p + 1 \in 1 .. len /\ p + n \in 1 .. len
            /\ end + 1 \in 1 .. (p + n) - (p + 1) + 1 /\ n \in 1 .. (p + n) - (p + 1) + 1
            /\ (p + 1) + (end + 1) - 1 = f /\ (p + 1) + n - 1 = p + n
        BY <1>20, <3>2
      <4>2. SubSeq(piece, end + 1, n)
              = SubSeq(Stream[a], (p + 1) + (end + 1) - 1, (p + 1) + n - 1)
        <5>4. p + 1 \in Nat /\ p + n \in Nat /\ end + 1 \in Nat
          OBVIOUS
        <5>1. PICK line \in Seq(Nat), i \in Nat, e \in Nat, m \in Nat :
                line = Stream[a] /\ i = p + 1 /\ e = p + n /\ m = end + 1
          BY <1>1, <5>4, Zenon
        <5>2. /\ len = Len(line) /\ i \in 1 .. len /\ e \in 1 .. len
              /\ m \in 1 .. e - i + 1 /\ n \in 1 .. e - i + 1
          BY <1>2, <4>1, <5>1
        <5>3. SubSeq(SubSeq(line, i, e), m, n) = SubSeq(line, i + m - 1, i + n - 1)
          BY <5>2, PartOfPart
        <5> QED
          BY <5>1, <5>3
      <4> QED
        BY <2>1, <4>1, <4>2
    <3> QED
      BY <3>1, <3>2
  <2>3. Len(SubSeq(Stream[a], f, p + n)) = n - end
    <3>1. /\ f \in Nat \ {0} /\ p + n \in Nat /\ f <= (p + n) + 1
          /\ p + n <= len /\ (p + n) - f + 1 = n - end
      BY <1>20
    <3> HIDE DEF f
    <3>2. Len(SubSeq(Stream[a], f, p + n)) = (p + n) - f + 1
      BY <1>1, <1>2, <3>1, Part, SMTT(40)
    <3> QED
      BY <3>1, <3>2
  <2>4. Matched(a, f - 1, Len(Header))
    <3>1. f - 1 = p + end
      OBVIOUS
    <3> QED
      BY <1>6, <1>8, <1>10, <3>1 DEF ScanIs
  <2>5. Uart!Found(a, piece, end)
    BY <1>7, <1>8, <1>10
  <2> HIDE DEF rest, piece
  <2>6. EndedBy(a, f - 1 - hl)
    <3>1. hl <= u + end
      <4>1. Len(Header) <= msg_header_at + end
        BY <1>6, <1>8, <1>10 DEF ScanIs
      <4> QED
        BY <1>2, <1>21, <4>1
    <3> SUFFICES ASSUME NEW j \in 1 .. Len(given[a])
                 PROVE  given[a][j].at + Size[a] - 1 <= f - 1 - hl
      BY DEF EndedBy
    <3>2. PICK begin \in Nat : begin = given[a][j].at
      <4>1. given[a][j] \in Places
        BY ElementOfSeq DEF Receives, Given
      <4> QED
        BY <4>1 DEF Places
    <3>3. begin + sz - 1 <= p - u
      BY <1>2, <1>21, <3>2 DEF EndedBy
    <3>4. begin + sz - 1 <= f - 1 - hl
      BY <3>1, <3>3
    <3> QED
      BY <1>2, <3>2, <3>4
  <2>7. msg_header_at' = 0
    BY <2>5 DEF Uart!Found
  <2>8. f \in Nat \ {0}
    OBVIOUS
  <2>9. CASE n - end = sz
    <3>1. /\ rx_buffer' = << >>
          /\ given' = [given EXCEPT ![a] = Append(@, [at |-> pos'[a] - sz + 1, msg |-> rest])]
      BY <1>2, <2>2, <2>3, <2>5, <2>9 DEF Uart!Found, Uart!Outputs, rest
    <3>2. p + n = f + sz - 1 /\ pos'[a] - sz + 1 = f
      BY <1>4, <2>9
    <3>3. given'[a] = Append(given[a],
                             [at |-> f, msg |-> SubSeq(Stream[a], f, f + Size[a] - 1)])
      BY <1>1, <1>2, <2>2, <3>1, <3>2
    <3>4. Message(a, f)
      <4>1. hl <= f - 1
        BY <1>2, <2>4 DEF Matched
      <4>2. f \in hl + 1 .. len - sz + 1
        BY <1>20, <2>9, <4>1
      <4> QED
        BY <1>2, <2>4, <4>2 DEF Message
    <3>5. f + Size[a] - 1 <= pos'[a]
      <4>1. f + sz - 1 <= p + n
        BY <2>9
      <4> QED
        BY <1>2, <1>4, <4>1
    <3> HIDE DEF f
    <3> QED
      BY <1>2, <1>9, <2>6, <2>7, <3>1, <3>3, <3>4, <3>5, OneMoreMessage
  <2>10. CASE n - end # sz
    <3>1. rx_buffer' = Uart!Moved(piece, rest) /\ given' = given
      BY <1>2, <1>4, <2>2, <2>3, <2>5, <2>10 DEF Uart!Found, Uart!Reports, rest
    <3>2. pos'[a] - f + 1 < Size[a] + Len(Header) /\ f <= pos'[a] + 1
      <4>1. (p + n) - f + 1 < sz + hl /\ f <= (p + n) + 1
        BY <1>20, <1>10
      <4> HIDE DEF f
      <4> QED
        BY <1>2, <1>4, <4>1
    <3>3. /\ rest \in Seq(Nat) /\ Len(rest) = n - end
          /\ \A i \in 1 .. n - end : rest[i] = Stream[a][f + i - 1]
      <4>1. /\ f \in Nat \ {0} /\ p + n \in Nat /\ f <= (p + n) + 1
            /\ p + n <= len /\ (p + n) - f + 1 = n - end
        BY <1>20
      <4> HIDE DEF f
      <4>2. a \in Lines /\ p + n <= Len(Stream[a])
        BY <1>1, <1>2, <4>1
      <4>3. PICK e \in Nat : e = p + n /\ f <= e + 1 /\ e - f + 1 = n - end
        BY <4>1
      <4>4. /\ SubSeq(Stream[a], f, e) \in Seq(Nat) /\ Len(SubSeq(Stream[a], f, e)) = e - f + 1
            /\ \A i \in 1 .. e - f + 1 : SubSeq(Stream[a], f, e)[i] = Stream[a][f + i - 1]
        BY <4>1, <4>2, <4>3, Part
      <4> QED
        BY <2>2, <4>3, <4>4
    <3>4. \A i \in 1 .. n : piece[i] \in Nat
      BY <2>1, <2>11, ElementOfSeq
    <3>5. \A i \in 1 .. n - end : (IF i <= RxBufSize THEN rest[i] ELSE piece[i]) \in Nat
      <4> TAKE i \in 1 .. n - end
      <4>1. rest[i] \in Nat
        BY <3>3, ElementOfSeq
      <4>2. i \in 1 .. n
        OBVIOUS
      <4> QED
        BY <3>4, <4>1, <4>2
    <3>6. /\ rx_buffer' = [i \in 1 .. n - end |-> IF i <= RxBufSize THEN rest[i] ELSE piece[i]]
          /\ n - end \in Nat
      BY <3>1, <3>3 DEF Uart!Moved
    <3>7. rx_buffer' \in Seq(Nat) /\ Len(rx_buffer') = n - end
      BY <3>5, <3>6
    <3>8. \A i \in 1 .. sz : i <= n - end => rx_buffer'[i] = Stream[a][f + i - 1]
      <4> SUFFICES ASSUME NEW i \in 1 .. sz, i <= n - end
                   PROVE  rx_buffer'[i] = Stream[a][f + i - 1]
        OBVIOUS
      <4>1. i \in 1 .. n - end /\ i <= RxBufSize
        BY <1>22
      <4> HIDE DEF f
      <4> QED
        BY <3>3, <3>6, <4>1
    <3>9. Len(rx_buffer') = pos'[a] - f + 1
      BY <1>4, <3>7
    <3>10. given'[a] = given[a] /\ EndedBy(a, f - 1 - Len(Header))
      BY <1>2, <2>6, <3>1
    <3> HIDE DEF f
    <3>11. \A i \in 1 .. Size[a] : i <= Len(rx_buffer') => rx_buffer'[i] = Stream[a][f + i - 1]
      BY <1>2, <3>7, <3>8
    <3> QED
      BY <1>9, <2>4, <2>7, <2>8, <3>2, <3>7, <3>9, <3>10, <3>11, KeptBytes
  <2> QED
    BY <2>9, <2>10
<1>11. CASE end = 0
  <2>1. msg_header_at' = at /\ rx_buffer' = rx_buffer /\ given' = given
    BY <1>7, <1>8, <1>11 DEF Uart!Reports
  <2>2. at < hl /\ Matched(a, p + n, at)
    BY <1>2, <1>6, <1>8, <1>11 DEF ScanIs
  <2>3. Matched(a, pos[a], msg_header_at)'
    BY <1>4, <2>1, <2>2 DEF Matched
  <2>4. Given(a)'
    BY <2>1 DEF Receives, Given, Message, Matched
  <2>5. EndedBy(a, pos[a] - msg_header_at)'
    <3>1. at <= u + n
      BY <1>6, <1>8, <1>11, <1>21 DEF ScanIs
    <3> SUFFICES ASSUME NEW j \in 1 .. Len(given[a])
                 PROVE  given[a][j].at + Size[a] - 1 <= (p + n) - at
      BY <1>4, <2>1 DEF EndedBy
    <3>2. PICK begin \in Nat : begin = given[a][j].at
      <4>1. given[a][j] \in Places
        BY ElementOfSeq DEF Receives, Given
      <4> QED
        BY <4>1 DEF Places
    <3>3. begin + sz - 1 <= p - u
      BY <1>2, <1>21, <3>2 DEF EndedBy
    <3>4. begin + sz - 1 <= (p + n) - at
      BY <3>1, <3>3
    <3> QED
      BY <1>2, <3>2, <3>4
  <2>6. msg_header_at' \in 0 .. Len(Header) - 1
    BY <1>2, <2>1, <2>2
  <2> QED
    BY <1>3, <1>9, <2>1, <2>3, <2>4, <2>5, <2>6 DEF Receives
<1> QED
  BY <1>8, <1>10, <1>11

LEMMA ReceivingStep ==
  ASSUME OneReceiver, Receiving, [Next]_vars
  PROVE  Receiving'
<1>1. ASSUME UNCHANGED uartVars PROVE Receiving'
  <2>1. UNCHANGED <<rx_buffer, msg_header_at, pos, given>>
    BY <1>1 DEF uartVars
  <2>2. \A a \in Framed : Receives(a)'
    BY <2>1, OtherSteps DEF Receiving
  <2> QED
    BY <2>1, <2>2 DEF Receiving
<1>2. ASSUME NEW b \in Lines, Uart!ReadNothing(b) PROVE Receiving'
  <2>1. UNCHANGED <<rx_buffer, msg_header_at, pos, given>>
    BY <1>2 DEF Uart!ReadNothing, Uart!Reports
  <2>2. \A a \in Framed : Receives(a)'
    BY <2>1, OtherSteps DEF Receiving
  <2> QED
    BY <2>1, <2>2 DEF Receiving
<1>3. ASSUME NEW b \in Lines, NEW n \in Nat \ {0}, Uart!ReadPlain(b, n) PROVE Receiving'
  <2>1. /\ UNCHANGED <<rx_buffer, msg_header_at, given>> /\ b \notin Framed
        /\ pos' = [pos EXCEPT ![b] = @ + n]
    BY <1>3 DEF Uart!ReadPlain, Uart!Reports, Uart!Reads
  <2>2. ASSUME NEW a \in Framed PROVE Receives(a)'
    <3>1. pos'[a] = pos[a]
      BY <2>1
    <3> QED
      BY <2>1, <3>1, OtherSteps DEF Receiving
  <2> QED
    BY <2>1, <2>2 DEF Receiving
<1>4. ASSUME NEW b \in Framed, NEW n \in Nat \ {0},
             Uart!Continue(b, n) \/ Uart!Search(b, n)
      PROVE  Receiving'
  <2>1. DOMAIN pos' = Lines /\ DOMAIN given' = Lines
    <3>1. pos' = [pos EXCEPT ![b] = @ + n]
      BY <1>4 DEF Uart!Continue, Uart!Search, Uart!Reads
    <3>2. CASE Uart!Continue(b, n)
      <4>1. given' = given \/ \E m : given' = [given EXCEPT ![b] = Append(@, m)]
        BY <3>2 DEF Uart!Continue, Uart!Outputs, Uart!out
      <4> QED
        BY <3>1, <4>1 DEF Receiving
    <3>3. CASE Uart!Search(b, n)
      <4>1. given' = given \/ \E m : given' = [given EXCEPT ![b] = Append(@, m)]
        BY <3>3 DEF Uart!Search, Uart!Found, Uart!Outputs, Uart!Reports
      <4> QED
        BY <3>1, <4>1 DEF Receiving
    <3> QED
      BY <1>4, <3>2, <3>3
  <2>2. Receives(b)'
    BY <1>4, ContinueKeeps, SearchKeeps DEF Receiving
  <2>3. \A a \in Framed : a = b
    BY DEF OneReceiver
  <2> QED
    BY <2>1, <2>2, <2>3 DEF Receiving
<1>5. ASSUME UartStep PROVE Receiving'
  <2>1. PICK b \in Lines : Uart!UARTRecv(b)
    BY <1>5 DEF UartStep, Uart!Next
  <2>2. CASE Uart!ReadNothing(b)
    BY <1>2, <2>2
  <2>3. ASSUME NEW n \in 1 .. Len(Stream[b]),
               Uart!Continue(b, n) \/ Uart!Search(b, n) \/ Uart!ReadPlain(b, n)
        PROVE  Receiving'
    <3>1. n \in Nat \ {0}
      BY DEF OneReceiver
    <3>2. CASE Uart!ReadPlain(b, n)
      BY <1>3, <3>1, <3>2
    <3>3. CASE Uart!Continue(b, n) \/ Uart!Search(b, n)
      <4>1. b \in Framed
        BY <3>3 DEF Uart!Continue, Uart!Search
      <4> QED
        BY <1>4, <3>1, <3>3, <4>1
    <3> QED
      BY <2>3, <3>2, <3>3
  <2> QED
    BY <2>1, <2>2, <2>3 DEF Uart!UARTRecv
<1> QED
  BY <1>1, <1>5 DEF Next, FileStep, MemoryStep, vars

\* What is matched with all of the header is a header.
LEMMA MessageIsGenuine ==
  ASSUME OneReceiver, NEW a \in Framed, NEW k, Message(a, k)
  PROVE  Uart!Behind(a, k)
<1>1. PICK len \in Nat, sz, hl \in Nat \ {0} :
        len = Len(Stream[a]) /\ sz = Size[a] /\ hl = Len(Header)
  BY ReceiverFacts
<1>2. k \in hl + 1 .. len - sz + 1 /\ Matched(a, k - 1, hl)
  BY <1>1 DEF Message
<1>3. SubSeq(Stream[a], k - hl, k - 1) = Header
  <2>1. /\ k - hl \in Nat \ {0} /\ k - 1 \in Nat /\ k - hl <= (k - 1) + 1
        /\ k - 1 <= len /\ (k - 1) - (k - hl) + 1 = hl
    BY <1>2
  <2>2. /\ SubSeq(Stream[a], k - hl, k - 1) \in Seq(Nat)
        /\ Len(SubSeq(Stream[a], k - hl, k - 1)) = (k - 1) - (k - hl) + 1
        /\ \A i \in 1 .. (k - 1) - (k - hl) + 1 :
             SubSeq(Stream[a], k - hl, k - 1)[i] = Stream[a][(k - hl) + i - 1]
    <3>1. PICK i \in Nat \ {0}, j \in Nat : i = k - hl /\ j = k - 1
      BY <2>1
    <3>2. i <= j + 1 /\ j <= Len(Stream[a]) /\ a \in Lines
      BY <1>1, <2>1, <3>1, ReceiverFacts
    <3>3. /\ SubSeq(Stream[a], i, j) \in Seq(Nat)
          /\ Len(SubSeq(Stream[a], i, j)) = j - i + 1
          /\ \A x \in 1 .. j - i + 1 : SubSeq(Stream[a], i, j)[x] = Stream[a][i + x - 1]
      BY <3>2, Part
    <3> QED
      BY <3>1, <3>3
  <2>3. \A i \in 1 .. hl : SubSeq(Stream[a], k - hl, k - 1)[i] = Header[i]
    <3> TAKE i \in 1 .. hl
    <3>1. (k - hl) + i - 1 = (k - 1) - hl + i
      BY <1>2
    <3>2. Stream[a][(k - 1) - hl + i] = Header[i]
      BY <1>2 DEF Matched
    <3> QED
      BY <2>1, <2>2, <3>1, <3>2
  <2>4. Header \in Seq(Nat)
    BY DEF OneReceiver
  <2>5. Len(SubSeq(Stream[a], k - hl, k - 1)) = hl
    BY <2>1, <2>2
  <2> QED
    BY <1>1, <2>2, <2>3, <2>4, <2>5, SeqEqual
<1> QED
  BY <1>1, <1>2, <1>3 DEF Uart!Behind, Uart!HeaderLen

LEMMA ReceivingIsGenuine == OneReceiver /\ Receiving => MessagesAreGenuine
<1> SUFFICES ASSUME OneReceiver, Receiving PROVE MessagesAreGenuine
  OBVIOUS
<1>1. ASSUME NEW a \in Framed
      PROVE  /\ \A j \in DOMAIN given[a] :
                  /\ Uart!Behind(a, given[a][j].at)
                  /\ given[a][j].msg
                       = SubSeq(Stream[a], given[a][j].at, given[a][j].at + Size[a] - 1)
             /\ \A i, j \in DOMAIN given[a] : i < j =>
                  given[a][i].at + Size[a] + Len(Header) <= given[a][j].at
  <2>1. Receives(a)
    BY DEF Receiving
  <2>2. Given(a)
    BY <2>1 DEF Receives
  <2>3. DOMAIN given[a] = 1 .. Len(given[a])
    <3>1. given[a] \in Seq(Places)
      BY <2>2 DEF Given
    <3> QED
      BY <3>1, LenProperties
  <2> QED
    BY <2>2, <2>3, MessageIsGenuine DEF Given
<1>2. ASSUME NEW b \in Lines PROVE Uart!ReadLen(b) > 0
  <2>1. Size[b] \in Nat \ {0} /\ Len(Header) \in Nat
    BY BlocksAssumption DEF OneReceiver
  <2>2. CASE Framed = {}
    <3>1. Len(rx_buffer) = 0
      BY <2>2, EmptySeq DEF Receiving
    <3> QED
      BY <2>1, <3>1 DEF Uart!ReadLen, Uart!HeaderLen, Uart!rx_buf_idx
  <2>3. CASE Framed # {}
    <3>1. PICK a \in Framed : Receives(a)
      BY <2>3 DEF Receiving
    <3>2. PICK l \in Nat, sz, hl \in Nat \ {0} :
            l = Len(rx_buffer) /\ sz = Size[a] /\ hl = Len(Header)
      BY <3>1, Numbers
    <3>3. l < sz + hl
      BY <3>1, <3>2 DEF Receives
    <3>4. sz <= Size[b]
      BY <3>2 DEF OneReceiver
    <3> QED
      BY <2>1, <3>2, <3>3, <3>4 DEF Uart!ReadLen, Uart!HeaderLen, Uart!rx_buf_idx
  <2> QED
    BY <2>2, <2>3
<1> QED
  BY <1>1, <1>2
     DEF MessagesAreGenuine, Uart!Genuine, Uart!InOrder, Uart!RoomToRead, Uart!HeaderLen

\* What a block outputs is from behind a header, in the order of the line and no byte of
\* it twice, and a read always has room: for every stream and header, messages of any
\* size that RX_BUF_SIZE has room for, and however the stream is cut into pieces.
THEOREM MessagesComeFromTheLine == OneReceiver => (Spec => []MessagesAreGenuine)
<1> SUFFICES ASSUME OneReceiver PROVE Spec => []MessagesAreGenuine
  OBVIOUS
<1>1. Init => Receiving
  BY ReceivingInit
<1>2. Receiving /\ [Next]_vars => Receiving'
  BY ReceivingStep
<1>3. Receiving => MessagesAreGenuine
  BY ReceivingIsGenuine
<1> QED
  BY <1>1, <1>2, <1>3, PTL DEF Spec
=============================================================================
