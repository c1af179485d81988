-------------------------- MODULE UploadSessionProofs --------------------------
(***************************************************************************)
(* Data logging sessions for every number of sample times and upInfos,     *)
(* every buffer size and whatever triggers the host selects.               *)
(*                                                                         *)
(* First what one base rate tick makes of an upInfo (the fold over the     *)
(* sample times is unfolded once, by its smallest counterexample), then    *)
(* the invariant of the session.                                           *)
(***************************************************************************)
EXTENDS UploadSession, WellFoundedInduction, TLAPS

\* A nonempty set of natural numbers has a smallest element.
LEMMA Smallest ==
  ASSUME NEW T, T \subseteq Nat, T # {}
  PROVE  \E x \in T : \A y \in T : x <= y
<1> DEFINE R == {ss \in Nat \X Nat : ss[1] < ss[2]}
<1>1. IsWellFoundedOn(R, Nat)
  BY NatLessThanWellFounded DEF OpToRel
<1>2. \E x \in T : \A y \in T : ~ (<<y, x>> \in R)
  <2> HIDE DEF R
  <2> QED
    BY <1>1, WFMin
<1>3. PICK x \in T : \A y \in T : ~ (<<y, x>> \in R)
  BY <1>2
<1>4. ASSUME NEW y \in T PROVE x <= y
  <2>1. x \in Nat /\ y \in Nat /\ ~ (<<y, x>> \in R)
    BY <1>3
  <2> QED
    BY <2>1
<1> QED
  BY <1>3, <1>4

-----------------------------------------------------------------------------
\* rtExtModeUpload of the n-th sample time.
UploadOf(y, n, hits, in) ==
  IF n - 1 \in hits THEN AddTimePoint(y, n - 1, in) ELSE y

\* The recursive function exists, hence Uploaded satisfies its equation.
LEMMA UploadedUnfolds ==
  ASSUME NEW x, NEW hits, NEW in
  PROVE  Uploaded(x, hits, in) =
           [n \in 0 .. NumTids |->
              IF n = 0 THEN x
              ELSE UploadOf(Uploaded(x, hits, in)[n - 1], n, hits, in)]
<1> DEFINE Step(y, n) == UploadOf(y, n, hits, in)
<1> DEFINE Upto(m, f) == f = [n \in 0 .. m |-> IF n = 0 THEN x ELSE Step(f[n - 1], n)]
<1> DEFINE Bad == {m \in 0 .. NumTids : ~ \E f : Upto(m, f)}
<1>0. Uploaded(x, hits, in) = CHOOSE f : Upto(NumTids, f)
  BY DEF Uploaded, UploadOf
<1> HIDE DEF Step
<1>1. Bad = {}
  <2> SUFFICES ASSUME Bad # {} PROVE FALSE
    OBVIOUS
  <2>1. PICK m \in Bad : \A y \in Bad : m <= y
    <3>1. Bad \subseteq Nat
      BY TriggerAssumption
    <3> QED
      BY <3>1, Smallest
  <2>2. CASE m = 0
    <3>1. Upto(0, [n \in 0 .. 0 |-> x])
      OBVIOUS
    <3> QED
      BY <2>1, <2>2, <3>1
  <2>3. CASE m # 0
    <3>1. m \in Nat /\ m - 1 \in 0 .. NumTids
      BY <2>1, <2>3, TriggerAssumption
    <3>2. m - 1 \notin Bad
      BY <2>1, <3>1
    <3>3. PICK f : Upto(m - 1, f)
      BY <3>1, <3>2
    <3> DEFINE g == [n \in 0 .. m |-> IF n = m THEN Step(f[m - 1], m) ELSE f[n]]
    <3>4. Upto(m, g)
      <4>1. ASSUME NEW n \in 0 .. m
            PROVE  g[n] = IF n = 0 THEN x ELSE Step(g[n - 1], n)
        <5>1. CASE n = m
          BY <2>3, <3>1, <5>1
        <5>2. CASE n # m
          <6>1. n \in 0 .. m - 1
            BY <3>1, <5>2
          <6>2. f[n] = IF n = 0 THEN x ELSE Step(f[n - 1], n)
            BY <3>3, <6>1
          <6>3. n # 0 => n - 1 \in 0 .. m /\ n - 1 # m
            BY <3>1, <6>1
          <6> QED
            BY <5>2, <6>2, <6>3
        <5> QED
          BY <5>1, <5>2
      <4> QED
        BY <4>1
    <3> HIDE DEF g
    <3> QED
      BY <2>1, <3>4
  <2> QED
    BY <2>2, <2>3
<1>2. \E f : Upto(NumTids, f)
  <2>1. NumTids \in 0 .. NumTids /\ NumTids \notin Bad
    BY <1>1, TriggerAssumption
  <2> HIDE DEF Upto
  <2> QED
    BY <2>1
<1>3. Upto(NumTids, Uploaded(x, hits, in))
  <2> HIDE DEF Upto
  <2> QED
    BY <1>0, <1>2, Zenon
<1> QED
  BY <1>3 DEF Step

\* Induction over the sample times from the k-th on.
LEMMA UploadedFrom ==
  ASSUME NEW x, NEW hits, NEW in, NEW P, NEW k \in 0 .. NumTids,
         Uploaded(x, hits, in)[k] \in P,
         \A y \in P : \A t \in Tids \cap hits : t >= k => AddTimePoint(y, t, in) \in P
  PROVE  Uploaded(x, hits, in)[NumTids] \in P
<1> DEFINE f == Uploaded(x, hits, in)
<1> DEFINE Bad == {m \in k .. NumTids : f[m] \notin P}
<1>1. ASSUME NEW n \in 1 .. NumTids PROVE f[n] = UploadOf(f[n - 1], n, hits, in)
  BY UploadedUnfolds, TriggerAssumption
<1> HIDE DEF f
<1>2. Bad = {}
  <2> SUFFICES ASSUME Bad # {} PROVE FALSE
    OBVIOUS
  <2>1. PICK m \in Bad : \A y \in Bad : m <= y
    <3>1. Bad \subseteq Nat
      BY TriggerAssumption
    <3> QED
      BY <3>1, Smallest
  <2>2. m # k
    BY <2>1 DEF f
  <2>3. m - 1 \in k .. NumTids /\ m \in 1 .. NumTids /\ m - 1 \in Tids /\ m - 1 >= k
    BY <2>1, <2>2, TriggerAssumption DEF Tids
  <2>4. m - 1 \notin Bad
    BY <2>1, <2>3
  <2>5. f[m - 1] \in P
    BY <2>3, <2>4
  <2>6. f[m] = UploadOf(f[m - 1], m, hits, in)
    BY <1>1, <2>3
  <2>7. UploadOf(f[m - 1], m, hits, in) \in P
    BY <2>3, <2>5 DEF UploadOf
  <2> QED
    BY <2>1, <2>6, <2>7
<1> QED
  BY <1>2, TriggerAssumption DEF f

LEMMA UploadedAll ==
  ASSUME NEW x, NEW hits, NEW in, NEW P, x \in P,
         \A y \in P : \A t \in Tids : AddTimePoint(y, t, in) \in P
  PROVE  Uploaded(x, hits, in)[NumTids] \in P
<1>1. 0 \in 0 .. NumTids /\ Uploaded(x, hits, in)[0] = x
  BY UploadedUnfolds, TriggerAssumption
<1> QED
  BY <1>1, UploadedFrom

-----------------------------------------------------------------------------
\* What the Swi leaves of upInfo x when it makes y of it: the settings and what the
\* host was told; nothing happens between events, a running event only ends, and no
\* point of it leaves its buffer.
Kept(x, y) ==
  /\ y.cancelled = x.cancelled /\ y.duration = x.duration /\ y.holdOff = x.holdOff
  /\ x.state \in {"UNARMED", "TERMINATING"} => y = x
  /\ y.state = "UNARMED" => x.state = "UNARMED"
  /\ x.state = "FIRED" =>
       y.state \in {"FIRED", "TERMINATING"} /\ \A t \in Tids : x.buf[t] <= y.buf[t]
  /\ y.ended => x.ended /\ (x.state = "HOLDING_OFF" => y.state = "HOLDING_OFF")

LEMMA KeptComposes ==
  ASSUME NEW x \in Infos, NEW y \in Infos, NEW z \in Infos, Kept(x, y), Kept(y, z)
  PROVE  Kept(x, z)
<1>1. x.state = "FIRED" => \A t \in Tids : x.buf[t] <= z.buf[t]
  <2> SUFFICES ASSUME x.state = "FIRED", NEW t \in Tids PROVE x.buf[t] <= z.buf[t]
    OBVIOUS
  <2>1. x.buf[t] \in Int /\ y.buf[t] \in Int /\ z.buf[t] \in Int
    BY TriggerAssumption DEF Infos
  <2>2. x.buf[t] <= y.buf[t] /\ (y.state = "FIRED" => y.buf[t] <= z.buf[t])
    BY DEF Kept
  <2>3. y.state = "TERMINATING" => z = y
    BY DEF Kept
  <2> QED
    BY <2>1, <2>2, <2>3 DEF Kept
<1> QED
  BY <1>1 DEF Kept

LEMMA ArmType ==
  ASSUME NEW x \in Infos
  PROVE  Arm(x) \in Infos
<1>1. [t \in Tids |-> 0] \in [Tids -> 0 .. BufPoints]
  BY TriggerAssumption
<1> DEFINE zero == [t \in Tids |-> 0]
<1> DEFINE y == [x EXCEPT !.state = "ARMED", !.overFlow = FALSE, !.buf = zero,
                         !.count = 0, !.preCount = 0]
<1>2. "ARMED" \in States
  BY DEF States
<1>3. Arm(x) = [y EXCEPT !.points = 0, !.skipped = 0, !.ended = FALSE]
  BY DEF Arm, Infos
<1> HIDE DEF zero
<1>4. y \in Infos
  BY <1>1, <1>2 DEF Infos, zero
<1> HIDE DEF y
<1>5. [y EXCEPT !.points = 0, !.skipped = 0, !.ended = FALSE] \in Infos
  <2>1. [y EXCEPT !.points = 0, !.skipped = 0] \in Infos
    <3>1. \A z \in Infos, n \in Int : [z EXCEPT !.points = n] \in Infos
      BY DEF Infos
    <3>2. \A z \in Infos, n \in Nat : [z EXCEPT !.skipped = n] \in Infos
      BY DEF Infos
    <3>3. [y EXCEPT !.points = 0, !.skipped = 0]
            = [[y EXCEPT !.points = 0] EXCEPT !.skipped = 0]
      BY <1>4 DEF Infos
    <3>4. 0 \in Int /\ 0 \in Nat
      OBVIOUS
    <3> QED
      BY <1>4, <3>1, <3>2, <3>3, <3>4
  <2>2. \A z \in Infos : [z EXCEPT !.ended = FALSE] \in Infos
    BY DEF Infos
  <2>3. [y EXCEPT !.points = 0, !.skipped = 0, !.ended = FALSE]
          = [[y EXCEPT !.points = 0, !.skipped = 0] EXCEPT !.ended = FALSE]
    BY <1>4 DEF Infos
  <2> QED
    BY <2>1, <2>2, <2>3
<1> QED
  BY <1>3, <1>5

LEMMA CheckTriggerKeeps ==
  ASSUME NEW x \in Infos
  PROVE  CheckTrigger(x) \in Infos /\ Kept(x, CheckTrigger(x))
<1>1. x.state \in States /\ \A t \in Tids : x.buf[t] <= x.buf[t]
  BY TriggerAssumption DEF Infos
<1>2. CASE x.state = "HOLDING_OFF"
  <2>1. CASE x.count = x.holdOff
    <3>1. CheckTrigger(x) = Arm(x)
      BY <1>2, <2>1 DEF CheckTrigger
    <3>2. Kept(x, Arm(x))
      BY <1>2 DEF Kept, Arm, Infos
    <3> QED
      BY <3>1, <3>2, ArmType
  <2>2. CASE x.count # x.holdOff
    <3>1. CheckTrigger(x) = [x EXCEPT !.count = @ + 1]
      BY <1>2, <2>2 DEF CheckTrigger
    <3> QED
      BY <1>2, <3>1 DEF Kept, Infos
  <2> QED
    BY <2>1, <2>2
<1>3. CASE x.state = "DELAYED"
  <2>1. CASE x.count >= x.delay
    <3>1. CheckTrigger(x) = [x EXCEPT !.state = "FIRED", !.count = x.preCount]
      BY <1>3, <2>1 DEF CheckTrigger
    <3> QED
      BY <1>3, <3>1 DEF Kept, Infos, States
  <2>2. CASE ~ (x.count >= x.delay)
    <3>1. CheckTrigger(x) = [x EXCEPT !.count = @ + 1]
      BY <1>3, <2>2 DEF CheckTrigger
    <3> QED
      BY <1>3, <3>1 DEF Kept, Infos
  <2> QED
    BY <2>1, <2>2
<1>4. CASE x.state \notin {"HOLDING_OFF", "DELAYED"}
  <2>1. CheckTrigger(x) = x
    BY <1>4 DEF CheckTrigger
  <2> QED
    BY <1>1, <1>4, <2>1 DEF Kept
<1> QED
  BY <1>2, <1>3, <1>4

LEMMA CheckEndTriggerKeeps ==
  ASSUME NEW x \in Infos
  PROVE  CheckEndTrigger(x) \in Infos /\ Kept(x, CheckEndTrigger(x))
<1>1. \A t \in Tids : x.buf[t] <= x.buf[t]
  BY TriggerAssumption DEF Infos
<1>2. CASE x.state = "FIRED"
  <2>1. CheckEndTrigger(x) =
          [x EXCEPT !.count = @ + 1,
                    !.state = IF x.count + 1 = x.duration THEN "TERMINATING" ELSE @]
    BY <1>2 DEF CheckEndTrigger
  <2>2. CheckEndTrigger(x) \in Infos
    <3> DEFINE st == IF x.count + 1 = x.duration THEN "TERMINATING" ELSE "FIRED"
    <3>1. st \in States /\ x.count + 1 \in Nat
      BY DEF States, Infos
    <3>2. CheckEndTrigger(x) = [x EXCEPT !.count = x.count + 1, !.state = st]
      BY <1>2, <2>1
    <3> HIDE DEF st
    <3> QED
      BY <3>1, <3>2 DEF Infos
  <2>3. Kept(x, CheckEndTrigger(x))
    BY <1>1, <1>2, <2>1 DEF Kept, Infos
  <2> QED
    BY <2>2, <2>3
<1>3. CASE x.state # "FIRED"
  BY <1>1, <1>3 DEF CheckEndTrigger, Kept
<1> QED
  BY <1>2, <1>3

LEMMA FireKeeps ==
  ASSUME NEW x \in Infos, NEW t \in Tids, NEW crosses
  PROVE  Fire(x, t, crosses) \in Infos /\ Kept(x, Fire(x, t, crosses))
<1>1. \A s \in Tids : x.buf[s] <= x.buf[s]
  BY TriggerAssumption DEF Infos
<1>2. CASE x.state # "ARMED"
  BY <1>1, <1>2 DEF Fire, Kept
<1>3. CASE x.state = "ARMED"
  BY <1>3 DEF Fire, Kept, Infos, States
<1> QED
  BY <1>2, <1>3

\* A step of the Swi that keeps the settings and the state.
SameEvent(x, y) ==
  /\ y.cancelled = x.cancelled /\ y.duration = x.duration /\ y.holdOff = x.holdOff
  /\ y.ended = x.ended /\ y.state = x.state

LEMMA SlideFacts ==
  ASSUME NEW x \in Infos, NEW t \in Tids, x.preDur > 0
  PROVE  Slide(x, t) \in Infos /\ SameEvent(x, Slide(x, t))
<1>0. /\ x.buf \in [Tids -> 0 .. BufPoints] /\ x.buf[t] \in 0 .. BufPoints
      /\ x.preCount \in Nat /\ x.preDur \in Nat /\ BufPoints \in Nat \ {0}
      /\ x.points \in Int
  BY TriggerAssumption DEF Infos
<1>1. CASE x.preCount # x.preDur
  BY <1>1 DEF Slide, SameEvent
<1>2. CASE x.preCount = x.preDur
  <2> DEFINE left == CASE x.buf[t] = 0 -> 0 [] x.buf[t] = 1 -> BufPoints
                       [] x.buf[t] > 1 -> x.buf[t] - 1
  <2> DEFINE new == [x.buf EXCEPT ![t] = left]
  <2> DEFINE under == x.underFlow \/ x.buf[t] = 0
  <2> DEFINE pts == IF t = 0 THEN x.points - 1 ELSE x.points
  <2>1. left \in 0 .. BufPoints /\ pts \in Int
    BY <1>0
  <2>2. under \in BOOLEAN /\ x.preCount - 1 \in Nat
    BY <1>0, <1>2 DEF Infos
  <2>3. Slide(x, t) = [x EXCEPT !.preCount = x.preCount - 1, !.buf = new, !.points = pts,
                                !.underFlow = under]
    BY <1>0, <1>2 DEF Slide, Infos
  <2> HIDE DEF left, under, pts
  <2>4. new \in [Tids -> 0 .. BufPoints]
    BY <1>0, <2>1
  <2> HIDE DEF new
  <2> QED
    BY <2>1, <2>2, <2>3, <2>4 DEF Infos, SameEvent
<1> QED
  BY <1>1, <1>2

LEMMA StoreFacts ==
  ASSUME NEW x \in Infos, NEW t \in Tids, x.buf[t] < BufPoints
  PROVE  /\ Store(x, t) \in Infos /\ SameEvent(x, Store(x, t))
         /\ Store(x, t).points = IF t = 0 THEN x.points + 1 ELSE x.points
         /\ Store(x, t).preCount = IF x.state = "ARMED" THEN x.preCount + 1 ELSE x.preCount
         /\ Store(x, t).buf = [x.buf EXCEPT ![t] = @ + 1]
<1> DEFINE new == [x.buf EXCEPT ![t] = @ + 1]
<1> DEFINE pts == IF t = 0 THEN x.points + 1 ELSE x.points
<1> DEFINE pre == IF x.state = "ARMED" THEN x.preCount + 1 ELSE x.preCount
<1>1. new \in [Tids -> 0 .. BufPoints] /\ pts \in Int /\ pre \in Nat
  BY TriggerAssumption DEF Infos
<1>2. Store(x, t) = [x EXCEPT !.buf = new, !.points = pts, !.preCount = pre]
  BY DEF Store, Infos
<1> HIDE DEF new, pts, pre
<1>3. Store(x, t) \in Infos /\ SameEvent(x, Store(x, t))
  BY <1>1, <1>2 DEF Infos, SameEvent
<1>4. Store(x, t).points = pts /\ Store(x, t).buf = new /\ Store(x, t).preCount = pre
  BY <1>2 DEF Infos
<1> QED
  BY <1>3, <1>4 DEF new, pts, pre

LEMMA SkipFacts ==
  ASSUME NEW x \in Infos, NEW t \in Tids
  PROVE  /\ Skip(x, t) \in Infos /\ SameEvent(x, Skip(x, t))
         /\ Skip(x, t).buf = x.buf /\ Skip(x, t).preCount = x.preCount
         /\ Skip(x, t).points = x.points /\ Skip(x, t).underFlow = x.underFlow
         /\ Skip(x, t).skipped =
              IF t = 0 /\ x.state = "FIRED" THEN x.skipped + 1 ELSE x.skipped
<1> DEFINE n == IF t = 0 /\ x.state = "FIRED" THEN x.skipped + 1 ELSE x.skipped
<1>1. n \in Nat
  BY DEF Infos
<1>2. Skip(x, t) = [x EXCEPT !.skipped = n]
  BY DEF Skip, Infos
<1> HIDE DEF n
<1>3. Skip(x, t).skipped = n
  BY <1>2 DEF Infos
<1>4. /\ Skip(x, t) \in Infos /\ SameEvent(x, Skip(x, t))
      /\ Skip(x, t).buf = x.buf /\ Skip(x, t).preCount = x.preCount
      /\ Skip(x, t).points = x.points /\ Skip(x, t).underFlow = x.underFlow
  BY <1>1, <1>2 DEF Infos, SameEvent
<1> QED
  BY <1>3, <1>4 DEF n

\* A step that keeps settings and state leaves a fired trigger's points in place.
LEMMA SameEventKept ==
  ASSUME NEW x \in Infos, NEW y \in Infos, SameEvent(x, y), x.state \in {"ARMED", "FIRED"},
         x.state = "FIRED" => \A t \in Tids : x.buf[t] <= y.buf[t]
  PROVE  Kept(x, y)
BY DEF Kept, SameEvent

LEMMA AddKeeps ==
  ASSUME NEW x \in Infos, NEW t \in Tids, NEW in, x.state \in {"ARMED", "FIRED"}
  PROVE  Add(x, t, in) \in Infos /\ Kept(x, Add(x, t, in))
<1>0. \A u \in Tids : x.buf[u] \in Int /\ x.buf[u] <= x.buf[u]
  BY TriggerAssumption DEF Infos
<1>1. CASE ~Fits(x, t, in)
  <2>1. Add(x, t, in) = GiveUp(x)
    BY <1>1 DEF Add
  <2>2. CASE x.state = "ARMED"
    BY <1>0, <2>1, <2>2, SameEventKept DEF GiveUp, SameEvent
  <2>3. CASE x.state = "FIRED"
    <3>1. Add(x, t, in) = [x EXCEPT !.overFlow = TRUE, !.state = "TERMINATING"]
      BY <2>1, <2>3 DEF GiveUp
    <3> QED
      BY <1>0, <2>3, <3>1 DEF Kept, Infos, States
  <2> QED
    BY <2>2, <2>3
<1>2. CASE Fits(x, t, in) /\ t \notin in.active
  <2>1. Add(x, t, in) = Skip(x, t)
    BY <1>2 DEF Add
  <2> QED
    BY <1>0, <2>1, SkipFacts, SameEventKept
<1>3. CASE Fits(x, t, in) /\ t \in in.active
  <2>1. Add(x, t, in) = Store(x, t) /\ x.buf[t] < BufPoints
    BY <1>3 DEF Add, Fits
  <2>2. /\ Store(x, t) \in Infos /\ SameEvent(x, Store(x, t))
        /\ Store(x, t).buf = [x.buf EXCEPT ![t] = @ + 1]
    BY <2>1, StoreFacts
  <2>3. x.buf \in [Tids -> 0 .. BufPoints]
    BY DEF Infos
  <2>4. \A u \in Tids : x.buf[u] <= Store(x, t).buf[u]
    BY <1>0, <2>2, <2>3
  <2> QED
    BY <2>1, <2>2, <2>4, SameEventKept
<1> QED
  BY <1>1, <1>2, <1>3

\* The point of sample time t, by what becomes of it.
LEMMA AddTimePointCases ==
  ASSUME NEW x \in Infos, NEW t \in Tids, NEW in
  PROVE  LET f == Fire(x, t, in.crosses)
             y == AddTimePoint(x, t, in)
             preTrig == f.state = "ARMED" /\ f.preDur > 0
         IN
         \/ ~preTrig /\ f.state # "FIRED" /\ y = f
         \/ (preTrig \/ f.state = "FIRED") /\ t \notin f.signals /\ y = Skip(f, t)
         \/ preTrig /\ t \in f.signals /\ y = Add(Slide(f, t), t, in)
         \/ f.state = "FIRED" /\ t \in f.signals /\ y = Add(f, t, in)
<1> DEFINE f == Fire(x, t, in.crosses)
<1> DEFINE preTrig == f.state = "ARMED" /\ f.preDur > 0
<1> DEFINE y == AddTimePoint(x, t, in)
<1>1. CASE ~preTrig /\ f.state # "FIRED"
  BY <1>1 DEF AddTimePoint
<1>2. CASE (preTrig \/ f.state = "FIRED") /\ t \notin f.signals
  BY <1>2 DEF AddTimePoint
<1>3. CASE preTrig /\ t \in f.signals
  BY <1>3 DEF AddTimePoint
<1>4. CASE f.state = "FIRED" /\ t \in f.signals
  BY <1>4 DEF AddTimePoint
<1> QED
  BY <1>1, <1>2, <1>3, <1>4

LEMMA AddTimePointKeeps ==
  ASSUME NEW x \in Infos, NEW t \in Tids, NEW in
  PROVE  AddTimePoint(x, t, in) \in Infos /\ Kept(x, AddTimePoint(x, t, in))
<1> DEFINE f == Fire(x, t, in.crosses)
<1> DEFINE y == AddTimePoint(x, t, in)
<1> DEFINE preTrig == f.state = "ARMED" /\ f.preDur > 0
<1>1. f \in Infos /\ Kept(x, f)
  BY FireKeeps
<1>2. \/ ~preTrig /\ f.state # "FIRED" /\ y = f
      \/ (preTrig \/ f.state = "FIRED") /\ t \notin f.signals /\ y = Skip(f, t)
      \/ preTrig /\ t \in f.signals /\ y = Add(Slide(f, t), t, in)
      \/ f.state = "FIRED" /\ t \in f.signals /\ y = Add(f, t, in)
  BY AddTimePointCases, Zenon
<1>3. x \in Infos
  OBVIOUS
<1> HIDE DEF f, y
<1>4. \A u \in Tids : f.buf[u] <= f.buf[u]
  BY <1>1, TriggerAssumption DEF Infos
<1>5. ASSUME y = f PROVE y \in Infos /\ Kept(x, y)
  BY <1>1, <1>5
<1>6. ASSUME preTrig \/ f.state = "FIRED", y = Skip(f, t)
      PROVE  y \in Infos /\ Kept(x, y)
  <2>1. y \in Infos /\ SameEvent(f, y) /\ y.buf = f.buf
    BY <1>1, <1>6, SkipFacts
  <2>2. Kept(f, y)
    BY <1>1, <1>4, <1>6, <2>1, SameEventKept
  <2> QED
    BY <1>1, <1>3, <2>1, <2>2, KeptComposes
<1>7. ASSUME preTrig, y = Add(Slide(f, t), t, in)
      PROVE  y \in Infos /\ Kept(x, y)
  <2>1. Slide(f, t) \in Infos /\ SameEvent(f, Slide(f, t))
    BY <1>1, <1>7, SlideFacts
  <2>2. Slide(f, t).state = "ARMED" /\ Kept(f, Slide(f, t))
    BY <1>1, <1>7, <2>1, SameEventKept DEF SameEvent
  <2>3. y \in Infos /\ Kept(Slide(f, t), y)
    BY <1>7, <2>1, <2>2, AddKeeps
  <2>4. Kept(f, y)
    BY <1>1, <2>1, <2>2, <2>3, KeptComposes
  <2> QED
    BY <1>1, <1>3, <2>3, <2>4, KeptComposes
<1>8. ASSUME f.state = "FIRED", y = Add(f, t, in)
      PROVE  y \in Infos /\ Kept(x, y)
  <2>1. y \in Infos /\ Kept(f, y)
    BY <1>1, <1>8, AddKeeps
  <2> QED
    BY <1>1, <1>3, <2>1, KeptComposes
<1>9. y \in Infos /\ Kept(x, y)
  BY <1>2, <1>5, <1>6, <1>7, <1>8
<1> QED
  BY <1>9 DEF y

\* A whole tick.
LEMMA TickKeeps ==
  ASSUME NEW x \in Infos, NEW hits, NEW in
  PROVE  Tick(x, hits, in) \in Infos /\ Kept(x, Tick(x, hits, in))
<1> DEFINE P == {y \in Infos : Kept(x, y)}
<1> DEFINE z == Uploaded(CheckTrigger(x), hits, in)[NumTids]
<1>1. CheckTrigger(x) \in P
  BY CheckTriggerKeeps
<1>2. ASSUME NEW y \in P, NEW t \in Tids PROVE AddTimePoint(y, t, in) \in P
  <2>1. y \in Infos /\ Kept(x, y)
    BY <1>2
  <2>2. AddTimePoint(y, t, in) \in Infos /\ Kept(y, AddTimePoint(y, t, in))
    BY <2>1, AddTimePointKeeps
  <2> QED
    BY <2>1, <2>2, KeptComposes
<1>3. z \in P
  <2> HIDE DEF P
  <2> QED
    BY <1>1, <1>2, UploadedAll
<1>4. Tick(x, hits, in) = CheckEndTrigger(z)
  BY DEF Tick
<1> HIDE DEF z
<1>5. z \in Infos /\ Kept(x, z)
  BY <1>3
<1> QED
  BY <1>4, <1>5, CheckEndTriggerKeeps, KeptComposes

-----------------------------------------------------------------------------
\* What the functions of the background task make of an upInfo.

\* The host cancelled an event that is terminating and will not be armed again; it
\* was told that the event is over, and the trigger holds off or was cancelled.
EndOK(x) ==
  /\ x.cancelled => x.state = "TERMINATING" /\ x.holdOff = OneShot
  /\ x.ended => x.state = "HOLDING_OFF" \/ x.cancelled

LEMMA UnarmedFacts ==
  Unarmed \in Infos /\ EndOK(Unarmed) /\ Idle(Unarmed) /\ Unarmed.duration = 0
<1>1. [t \in Tids |-> 0] \in [Tids -> 0 .. BufPoints] /\ 0 \in Tids
  BY TriggerAssumption DEF Tids
<1>2. "UNARMED" \in States
  BY DEF States
<1> QED
  BY <1>1, <1>2 DEF Unarmed, Infos, EndOK, Idle

\* UploadLogInfoInit leaves an idle upInfo with buffers for some tids.
LEMMA SelectedFacts ==
  ASSUME NEW tids \in SUBSET Tids
  PROVE  LET x == [Unarmed EXCEPT !.signals = tids] IN
         x \in Infos /\ EndOK(x) /\ Idle(x) /\ x.duration = 0
<1> DEFINE x == [Unarmed EXCEPT !.signals = tids]
<1>1. x \in Infos
  BY UnarmedFacts DEF Infos
<1>2. /\ x.state = Unarmed.state /\ x.holdOff = Unarmed.holdOff
      /\ x.cancelled = Unarmed.cancelled /\ x.ended = Unarmed.ended
      /\ x.duration = Unarmed.duration
  BY UnarmedFacts DEF Infos
<1> HIDE DEF x
<1>3. EndOK(x) /\ Idle(x) /\ x.duration = 0
  BY <1>2, UnarmedFacts DEF EndOK, Idle
<1> QED
  BY <1>1, <1>3 DEF x

LEMMA InitTriggerFacts ==
  ASSUME NEW x \in Infos, NEW tr \in Triggers, Idle(x), EndOK(x)
  PROVE  /\ InitTrigger(x, tr) \in Infos /\ EndOK(InitTrigger(x, tr))
         /\ Idle(InitTrigger(x, tr))
<1> DEFINE y == InitTrigger(x, tr)
<1> DEFINE delay == IF tr.delay < 0 THEN 0 ELSE tr.delay
<1> DEFINE pre == IF tr.delay < 0 THEN -tr.delay ELSE 0
<1>1. /\ tr.manual \in BOOLEAN /\ tr.tid \in Tids /\ tr.duration \in Nat
      /\ tr.holdOff \in Int /\ delay \in Nat /\ pre \in Nat
  <2>1. tr \in [manual : BOOLEAN, tid : Tids, duration : Nat \ {0},
                holdOff : Nat \cup {OneShot}, delay : Int]
    BY TriggerAssumption
  <2> QED
    BY <2>1 DEF OneShot
<1>2. y = [x EXCEPT !.manual = tr.manual, !.tid = tr.tid, !.duration = tr.duration,
                    !.holdOff = tr.holdOff, !.delay = delay, !.preDur = pre]
  BY DEF InitTrigger
<1> HIDE DEF y, delay, pre
<1>3. y \in Infos
  BY <1>1, <1>2 DEF Infos
<1>4. y.state = x.state /\ y.cancelled = x.cancelled /\ y.ended = x.ended
  BY <1>2 DEF Infos
<1> QED
  BY <1>3, <1>4 DEF y, EndOK, Idle

LEMMA ArmFacts ==
  ASSUME NEW x \in Infos, Idle(x), EndOK(x)
  PROVE  Arm(x) \in Infos /\ EndOK(Arm(x))
<1>1. Arm(x).cancelled = x.cancelled /\ Arm(x).ended = FALSE
  BY DEF Arm, Infos
<1> QED
  BY <1>1, ArmType DEF EndOK, Idle

LEMMA CancelFacts ==
  ASSUME NEW x \in Infos, EndOK(x)
  PROVE  /\ Cancel(x) \in Infos /\ EndOK(Cancel(x))
         /\ Idle(x) => Cancel(x) = x
         /\ ~Idle(x) => Cancel(x).state = "TERMINATING"
<1>1. CASE x.state = "UNARMED"
  BY <1>1 DEF Cancel, Idle
<1>2. CASE x.state # "UNARMED"
  <2>1. Cancel(x) = [x EXCEPT !.state = "TERMINATING", !.holdOff = OneShot,
                              !.cancelled = TRUE]
    BY <1>2 DEF Cancel
  <2>2. "TERMINATING" \in States /\ OneShot \in Int
    BY DEF States, OneShot
  <2>3. /\ Cancel(x).state = "TERMINATING" /\ Cancel(x).holdOff = OneShot
        /\ Cancel(x).cancelled
    BY <2>1 DEF Infos
  <2>4. Cancel(x) \in Infos
    BY <2>1, <2>2 DEF Infos
  <2> QED
    BY <1>2, <2>3, <2>4 DEF EndOK, Idle
<1> QED
  BY <1>1, <1>2

LEMMA FlushFacts ==
  ASSUME NEW x \in Infos, EndOK(x)
  PROVE  LET y == PrepareForFinalFlush(x) IN
         /\ y \in Infos /\ EndOK(y)
         /\ Idle(x) => y = x
         /\ Flushes(x) => y.state = "TERMINATING" /\ y.holdOff = OneShot
<1> DEFINE y == PrepareForFinalFlush(x)
<1>1. CASE ~Flushes(x)
  BY <1>1 DEF PrepareForFinalFlush
<1>2. CASE Flushes(x)
  <2>1. y = [x EXCEPT !.state = "TERMINATING", !.holdOff = OneShot]
    BY <1>2 DEF PrepareForFinalFlush
  <2>2. "TERMINATING" \in States /\ OneShot \in Int
    BY DEF States, OneShot
  <2>3. /\ y.state = "TERMINATING" /\ y.holdOff = OneShot
        /\ y.cancelled = x.cancelled /\ y.ended = x.ended
    BY <2>1 DEF Infos
  <2>4. y \in Infos
    BY <2>1, <2>2 DEF Infos
  <2> QED
    BY <1>2, <2>3, <2>4 DEF EndOK, Idle, Flushes
<1> QED
  BY <1>1, <1>2

LEMMA HoldOffFacts ==
  ASSUME NEW x \in Infos, EndOK(x), x.holdOff # OneShot
  PROVE  HoldOff(x) \in Infos /\ EndOK(HoldOff(x)) /\ ~Idle(HoldOff(x))
<1>1. "HOLDING_OFF" \in States
  BY DEF States
<1>2. /\ HoldOff(x).state = "HOLDING_OFF" /\ HoldOff(x).cancelled = x.cancelled
  BY DEF HoldOff, Infos
<1>3. HoldOff(x) \in Infos
  BY <1>1 DEF HoldOff, Infos
<1> QED
  BY <1>2, <1>3 DEF EndOK, Idle

LEMMA DataSentFacts ==
  ASSUME NEW x \in Infos, NEW t \in Tids, NEW n \in Nat, n <= x.buf[t], EndOK(x)
  PROVE  LET y == DataSent(x, t, n) IN
         /\ y \in Infos /\ EndOK(y) /\ y.state = x.state /\ y.holdOff = x.holdOff
         /\ y.buf[t] = x.buf[t] - n
         /\ \A s \in Tids \ {t} : y.buf[s] = x.buf[s]
<1> DEFINE new == [x.buf EXCEPT ![t] = @ - n]
<1> DEFINE y == DataSent(x, t, n)
<1>1. new \in [Tids -> 0 .. BufPoints] /\ new[t] = x.buf[t] - n
      /\ \A s \in Tids \ {t} : new[s] = x.buf[s]
  BY TriggerAssumption DEF Infos
<1>2. y = [x EXCEPT !.buf = new]
  BY DEF DataSent
<1> HIDE DEF new, y
<1>3. /\ y.state = x.state /\ y.holdOff = x.holdOff /\ y.buf = new
      /\ y.cancelled = x.cancelled /\ y.ended = x.ended
  BY <1>2 DEF Infos
<1>4. y \in Infos
  BY <1>1, <1>2 DEF Infos
<1>5. EndOK(y)
  BY <1>3 DEF EndOK
<1> QED
  BY <1>1, <1>3, <1>4, <1>5 DEF y

LEMMA TickFacts ==
  ASSUME NEW x \in Infos, NEW hits, NEW in, EndOK(x)
  PROVE  LET y == Tick(x, hits, in) IN
         /\ y \in Infos /\ EndOK(y) /\ Kept(x, y)
         /\ Idle(x) => Idle(y) /\ y.duration = x.duration
<1> DEFINE y == Tick(x, hits, in)
<1>1. y \in Infos /\ Kept(x, y)
  BY TickKeeps
<1> HIDE DEF y
<1>2. EndOK(y)
  BY <1>1 DEF Kept, EndOK
<1>3. Idle(x) => y = x
  BY <1>1 DEF Kept, Idle
<1> QED
  BY <1>1, <1>2, <1>3 DEF y

-----------------------------------------------------------------------------
\* The invariant: the record of the background task, what the server has found ...
Shape ==
  srv = [at |-> srv.at, mode |-> srv.mode, u |-> srv.u, list |-> srv.list,
         pkg |-> srv.pkg, final |-> srv.final]

Served ==
  srv.at \in {"send", "test"} => info[srv.u].state \in {"FIRED", "TERMINATING"}

Listed ==
  srv.at = "send" =>
    /\ DOMAIN srv.list # {}
    /\ \A t \in DOMAIN srv.list :
         srv.list[t] \in Nat /\ srv.list[t] <= info[srv.u].buf[t]

\* ... how each session ends, that one without memory is idle, and memory is freed
\* but not yet forgotten only inside UploadLogInfoTerm ...
Ends == \A u \in Infoes : EndOK(info[u])

Memory ==
  \A u \in Infoes :
    /\ alloc[u] = "none" => Idle(info[u]) /\ info[u].duration = 0
    /\ alloc[u] = "freed" => srv.at = "reset" /\ srv.u = u

\* ... and that a final flush has left nothing of the upInfos before its own.
Flushing ==
  /\ srv.mode = "shutdown" => stopReq
  /\ srv.at = "pkt" => srv.mode = "work"
  /\ srv.at \in {"prepare", "free", "reset"} => srv.mode # "work"
  /\ srv.at = "reset" => alloc[srv.u] # "held"
  /\ srv.mode # "work" =>
       \A v \in Infoes : v < srv.u => Idle(info[v]) /\ alloc[v] = "none"

SInv ==
  /\ TypeOK /\ Shape /\ Served /\ Listed /\ Ends /\ Memory /\ Flushing
  /\ CleanDisconnect

LEMMA AtPktFacts ==
  /\ AtPkt.at = "pkt" /\ AtPkt.mode = "work" /\ AtPkt.u = 0 /\ AtPkt.pkg = 0
  /\ AtPkt.final = FALSE /\ DOMAIN AtPkt.list = {} /\ 0 \in Infoes
BY InfosAssumption DEF AtPkt, Infoes

LEMMA SInvInit == Init => SInv
<1> SUFFICES ASSUME Init PROVE SInv
  OBVIOUS
<1>1. \A u \in Infoes : info[u] = Unarmed /\ alloc[u] = "none"
  BY DEF Init
<1>2. TypeOK
  <2>1. info \in [Infoes -> Infos] /\ alloc \in [Infoes -> {"none", "held", "freed"}]
    BY UnarmedFacts DEF Init
  <2>2. srv = AtPkt /\ uploadSem = 1 /\ connected = FALSE /\ stopReq = FALSE
    BY DEF Init
  <2>3. /\ srv.at = "pkt" /\ srv.mode = "work" /\ srv.u = 0 /\ srv.pkg = 0
        /\ srv.final = FALSE /\ DOMAIN srv.list = {}
    BY <2>2, AtPktFacts
  <2>4. srv.u \in Infoes /\ DOMAIN srv.list \subseteq Tids
    BY <2>3, AtPktFacts
  <2>5. srv.at \in Places
    BY <2>3 DEF Places
  <2>6. connected \in BOOLEAN /\ stopReq \in BOOLEAN /\ srv.final \in BOOLEAN
    BY <2>2, <2>3, Zenon
  <2>7. uploadSem \in {0, 1} /\ srv.pkg \in 0 .. 2
        /\ srv.mode \in {"work", "disconnect", "shutdown"}
    BY <2>2, <2>3
  <2> QED
    BY <2>1, <2>4, <2>5, <2>6, <2>7, Zenon DEF TypeOK
<1>3. Shape
  BY DEF Init, Shape, AtPkt
<1>4. Served /\ Listed /\ Flushing
  BY AtPktFacts DEF Init, Served, Listed, Flushing
<1>5. Ends /\ Memory /\ CleanDisconnect
  BY <1>1, UnarmedFacts DEF Ends, Memory, CleanDisconnect
<1> QED
  BY <1>2, <1>3, <1>4, <1>5 DEF SInv

LEMMA OneStepKeeps ==
  ASSUME SInv, OneStep
  PROVE  SInv'
<1>1. PICK hits \in SUBSET Tids, in \in [Infoes -> Inputs] :
        info' = [u \in Infoes |-> Tick(info[u], hits, in[u])]
  BY DEF OneStep
<1>2. ASSUME NEW u \in Infoes
      PROVE  /\ info'[u] \in Infos /\ EndOK(info'[u]) /\ Kept(info[u], info'[u])
             /\ Idle(info[u]) => Idle(info'[u]) /\ info'[u].duration = info[u].duration
  <2>1. info[u] \in Infos /\ EndOK(info[u])
    BY DEF SInv, TypeOK, Ends
  <2>2. info'[u] = Tick(info[u], hits, in[u])
    BY <1>1
  <2> QED
    BY <2>1, <2>2, TickFacts
<1>3. UNCHANGED <<alloc, connected, stopReq, srv>> /\ uploadSem' \in {0, 1}
  BY DEF OneStep, SInv, TypeOK
<1>4. TypeOK'
  <2>1. info' \in [Infoes -> Infos]
    BY <1>1, <1>2
  <2> QED
    BY <1>3, <2>1 DEF SInv, TypeOK
<1>5. Shape'
  BY <1>3 DEF SInv, Shape
<1>6. Served' /\ Listed'
  <2>1. srv.u \in Infoes /\ DOMAIN srv.list \subseteq Tids
    BY DEF SInv, TypeOK
  <2>2. srv.at \in {"send", "test"} => info'[srv.u].state \in {"FIRED", "TERMINATING"}
    BY <1>2, <2>1 DEF SInv, Served, Kept
  <2>3. ASSUME srv.at = "send", NEW t \in DOMAIN srv.list
        PROVE  srv.list[t] <= info'[srv.u].buf[t]
    <3>1. t \in Tids /\ srv.list[t] \in Nat /\ srv.list[t] <= info[srv.u].buf[t]
      BY <2>1, <2>3 DEF SInv, Listed
    <3>2. info[srv.u].buf[t] <= info'[srv.u].buf[t]
      <4>1. info[srv.u].state \in {"FIRED", "TERMINATING"} /\ Kept(info[srv.u], info'[srv.u])
        BY <1>2, <2>1, <2>3 DEF SInv, Served
      <4>2. info[srv.u].buf[t] \in Int
        BY <2>1, <3>1, TriggerAssumption DEF SInv, TypeOK, Infos
      <4> QED
        BY <3>1, <4>1, <4>2 DEF Kept
    <3>3. info[srv.u].buf[t] \in Int /\ info'[srv.u].buf[t] \in Int
      BY <1>2, <2>1, <3>1, TriggerAssumption DEF SInv, TypeOK, Infos
    <3> QED
      BY <3>1, <3>2, <3>3
  <2> QED
    BY <1>3, <2>2, <2>3 DEF SInv, Served, Listed
<1>7. Ends' /\ Memory' /\ Flushing' /\ CleanDisconnect'
  <2>1. srv.u \in Infoes
    BY DEF SInv, TypeOK
  <2> QED
    BY <1>2, <1>3, <2>1 DEF SInv, Ends, Memory, Flushing, CleanDisconnect
<1> QED
  BY <1>4, <1>5, <1>6, <1>7 DEF SInv

-----------------------------------------------------------------------------
\* Where the background task goes on.

\* What a step of the task has to leave in the upInfos.
Sound ==
  /\ info' \in [Infoes -> Infos] /\ alloc' \in [Infoes -> {"none", "held", "freed"}]
  /\ uploadSem' \in {0, 1} /\ connected' \in BOOLEAN /\ stopReq' \in BOOLEAN
  /\ \A u \in Infoes :
       /\ EndOK(info'[u])
       /\ alloc'[u] = "none" => Idle(info'[u]) /\ info'[u].duration = 0

Clean == \A u \in Infoes : Idle(info'[u]) /\ alloc'[u] = "none"

NoneFreed == \A u \in Infoes : alloc'[u] # "freed"

LEMMA ToUploadFacts ==
  /\ ToUpload.at = "pend" /\ ToUpload.mode = "work" /\ ToUpload.u = 0
  /\ ToUpload.pkg = 0 /\ ToUpload.final = FALSE /\ DOMAIN ToUpload.list = {}
  /\ ToUpload = [at |-> ToUpload.at, mode |-> ToUpload.mode, u |-> ToUpload.u,
                 list |-> ToUpload.list, pkg |-> ToUpload.pkg, final |-> ToUpload.final]
<1>1. ToUpload = [at |-> "pend", mode |-> "work", u |-> 0, list |-> << >>, pkg |-> 0,
                  final |-> FALSE]
  <2>1. ToUpload = [AtPkt EXCEPT !.at = "pend"]
    BY DEF ToUpload
  <2> QED
    BY <2>1 DEF AtPkt
<1>2. /\ ToUpload.at = "pend" /\ ToUpload.mode = "work" /\ ToUpload.u = 0
      /\ ToUpload.pkg = 0 /\ DOMAIN ToUpload.list = {}
  BY <1>1
<1>3. ToUpload.final = FALSE
  BY <1>1, Zenon
<1>4. ToUpload = [at |-> ToUpload.at, mode |-> ToUpload.mode, u |-> ToUpload.u,
                 list |-> ToUpload.list, pkg |-> ToUpload.pkg, final |-> ToUpload.final]
  BY <1>1
<1> QED
  BY <1>2, <1>3, <1>4, Zenon

\* Neither the server nor a list is involved in what follows.
LEMMA MovesOn ==
  ASSUME Sound, Shape', srv'.at \in Places \ {"send", "test"},
         srv'.mode \in {"work", "disconnect", "shutdown"}, srv'.u \in Infoes,
         srv'.pkg \in 0 .. 2, srv'.final \in BOOLEAN, DOMAIN srv'.list \subseteq Tids,
         Flushing', \A u \in Infoes : alloc'[u] = "freed" => srv'.at = "reset" /\ srv'.u = u,
         ~connected' /\ srv'.mode = "work" => Clean
  PROVE  SInv'
<1>1. TypeOK'
  BY DEF Sound, TypeOK
<1>2. Served' /\ Listed'
  BY DEF Served, Listed
<1>3. Ends' /\ Memory'
  BY DEF Sound, Ends, Memory
<1>4. CleanDisconnect'
  BY DEF CleanDisconnect, Clean
<1> QED
  BY <1>1, <1>2, <1>3, <1>4 DEF SInv

LEMMA ToUploadKeeps ==
  ASSUME Sound, NoneFreed, ~connected' => Clean, srv' = ToUpload
  PROVE  SInv'
<1>1. /\ srv'.at = "pend" /\ srv'.mode = "work" /\ srv'.u = 0 /\ srv'.pkg = 0
      /\ srv'.final = FALSE /\ DOMAIN srv'.list = {}
  BY ToUploadFacts
<1>2. Shape'
  BY ToUploadFacts DEF Shape
<1>3. Flushing'
  BY <1>1 DEF Flushing
<1>4. srv'.at \in Places \ {"send", "test"} /\ srv'.u \in Infoes /\ srv'.pkg \in 0 .. 2
      /\ DOMAIN srv'.list \subseteq Tids
  BY <1>1, InfosAssumption DEF Places, Infoes
<1>5. srv'.mode \in {"work", "disconnect", "shutdown"} /\ srv'.final \in BOOLEAN
  BY <1>1
<1>6. \A u \in Infoes : alloc'[u] = "freed" => srv'.at = "reset" /\ srv'.u = u
  BY DEF NoneFreed
<1> QED
  BY <1>2, <1>3, <1>4, <1>5, <1>6, MovesOn

LEMMA DoneFacts ==
  ASSUME SInv
  PROVE  /\ Done = [at |-> Done.at, mode |-> Done.mode, u |-> Done.u,
                    list |-> Done.list, pkg |-> Done.pkg, final |-> Done.final]
         /\ Done.pkg = 0 /\ DOMAIN Done.list = {} /\ Done.final \in BOOLEAN
         /\ Done.u \in Infoes
         /\ \/ /\ srv.mode # "work" /\ Done.at = "free" /\ Done.mode = srv.mode
               /\ Done.u = srv.u /\ Done.final = srv.final
            \/ /\ srv.mode = "work" /\ Done.at \in {"pend", "pkt"} /\ Done.mode = "work"
               /\ Done.final = FALSE
            \/ /\ srv.mode = "work" /\ Done.at = "prepare" /\ Done.mode = "shutdown"
               /\ Done.u = 0 /\ stopReq /\ Done.final = FALSE
<1>1. srv.u \in Infoes /\ NumInfos \in Nat \ {0} /\ 0 \in Infoes /\ srv.final \in BOOLEAN
  BY InfosAssumption, AtPktFacts DEF SInv, TypeOK
<1>2. CASE srv.mode # "work"
  <2>1. Done = [srv EXCEPT !.at = "free", !.list = << >>, !.pkg = 0]
    BY <1>2 DEF Done
  <2>2. Done = [at |-> "free", mode |-> srv.mode, u |-> srv.u, list |-> << >>,
                pkg |-> 0, final |-> srv.final]
    BY <2>1 DEF SInv, Shape
  <2>3. Done.final = srv.final
    BY <2>2
  <2>4. /\ Done.at = "free" /\ Done.mode = srv.mode /\ Done.u = srv.u
        /\ Done.pkg = 0 /\ DOMAIN Done.list = {}
    BY <2>2
  <2>5. Done = [at |-> Done.at, mode |-> Done.mode, u |-> Done.u,
                list |-> Done.list, pkg |-> Done.pkg, final |-> Done.final]
    BY <2>2
  <2>6. Done.final \in BOOLEAN /\ Done.u \in Infoes
    BY <1>1, <2>3, <2>4, Zenon
  <2>7. Done.pkg = 0 /\ DOMAIN Done.list = {}
    BY <2>4
  <2>8. /\ srv.mode # "work" /\ Done.at = "free" /\ Done.mode = srv.mode
        /\ Done.u = srv.u /\ Done.final = srv.final
    BY <1>2, <2>3, <2>4
  <2> QED
    BY <2>5, <2>6, <2>7, <2>8, Zenon
<1>3. CASE srv.mode = "work" /\ srv.u + 1 < NumInfos
  <2>1. Done = [AtPkt EXCEPT !.at = "pend", !.u = srv.u + 1]
    BY <1>1, <1>3 DEF Done, Infoes
  <2>2. srv.u + 1 \in Infoes
    BY <1>1, <1>3 DEF Infoes
  <2>3. Done = [at |-> "pend", mode |-> "work", u |-> srv.u + 1, list |-> << >>,
                pkg |-> 0, final |-> FALSE]
    BY <2>1 DEF AtPkt
  <2>4. Done.final \in BOOLEAN
    BY <2>3, Zenon
  <2> QED
    BY <1>3, <2>2, <2>3, <2>4
<1>4. CASE srv.mode = "work" /\ srv.u + 1 = NumInfos /\ stopReq
  <2>1. Done = [AtPkt EXCEPT !.at = "prepare", !.mode = "shutdown"]
    BY <1>1, <1>4 DEF Done
  <2>2. Done = [at |-> "prepare", mode |-> "shutdown", u |-> 0, list |-> << >>,
                pkg |-> 0, final |-> FALSE]
    BY <2>1 DEF AtPkt
  <2>3. Done.final \in BOOLEAN
    BY <2>2, Zenon
  <2> QED
    BY <1>1, <1>4, <2>2, <2>3
<1>5. CASE srv.mode = "work" /\ ~(srv.u + 1 < NumInfos)
           /\ ~(srv.u + 1 = NumInfos /\ stopReq)
  <2>1. Done = AtPkt
    BY <1>5 DEF Done
  <2>2. Done = [at |-> "pkt", mode |-> "work", u |-> 0, list |-> << >>,
                pkg |-> 0, final |-> FALSE]
    BY <2>1 DEF AtPkt
  <2>3. Done.final \in BOOLEAN
    BY <2>2, Zenon
  <2> QED
    BY <1>1, <1>5, <2>2, <2>3
<1> QED
  BY <1>2, <1>3, <1>4, <1>5

LEMMA DoneKeeps ==
  ASSUME SInv, Sound, NoneFreed, stopReq' = stopReq, srv' = Done,
         srv.mode = "work" /\ ~connected' => Clean,
         srv.mode # "work" =>
           \A v \in Infoes : v < srv.u => Idle(info'[v]) /\ alloc'[v] = "none"
  PROVE  SInv'
<1>1. Shape'
  BY DoneFacts DEF Shape
<1>2. /\ srv'.pkg \in 0 .. 2 /\ DOMAIN srv'.list \subseteq Tids /\ srv'.u \in Infoes
      /\ srv'.at \in Places \ {"send", "test"}
      /\ srv'.mode \in {"work", "disconnect", "shutdown"}
  <2>1. srv.mode \in {"work", "disconnect", "shutdown"}
    BY DEF SInv, TypeOK
  <2>2. /\ srv'.pkg = 0 /\ DOMAIN srv'.list = {} /\ srv'.u \in Infoes
        /\ srv'.at \in {"free", "pend", "pkt", "prepare"}
        /\ srv'.mode = srv.mode \/ srv'.mode = "shutdown"
    BY DoneFacts, Zenon
  <2> QED
    BY <2>1, <2>2 DEF Places
<1>3. srv'.final \in BOOLEAN
  BY DoneFacts
<1>4. Flushing'
  <2>1. srv.mode = "shutdown" => stopReq
    BY DEF SInv, Flushing
  <2>2. \A v \in Infoes : ~ (v < 0)
    BY DEF Infoes
  <2> QED
    BY <2>1, <2>2, DoneFacts DEF Flushing
<1>5. ~connected' /\ srv'.mode = "work" => Clean
  BY DoneFacts
<1>6. \A u \in Infoes : alloc'[u] = "freed" => srv'.at = "reset" /\ srv'.u = u
  BY DEF NoneFreed
<1> QED
  BY <1>1, <1>2, <1>3, <1>4, <1>5, <1>6, MovesOn

-----------------------------------------------------------------------------
\* The packets of the host.

\* One session changes, to an upInfo that is sound and, without memory, idle.
LEMMA SessionChanges ==
  ASSUME SInv, NEW u \in Infoes, NEW x \in Infos, EndOK(x), srv' = ToUpload,
         NEW held \in {"none", "held"}, held = "none" => Idle(x) /\ x.duration = 0,
         info' = [info EXCEPT ![u] = x], alloc' = [alloc EXCEPT ![u] = held],
         NoneFreed, uploadSem' \in {0, 1}, connected, connected', stopReq' \in BOOLEAN
  PROVE  SInv'
<1>1. /\ info' \in [Infoes -> Infos] /\ alloc' \in [Infoes -> {"none", "held", "freed"}]
  BY DEF SInv, TypeOK
<1>2. ASSUME NEW v \in Infoes
      PROVE  /\ EndOK(info'[v])
             /\ alloc'[v] = "none" => Idle(info'[v]) /\ info'[v].duration = 0
  <2>1. CASE v = u
    <3>1. info'[v] = x /\ alloc'[v] = held
      BY <2>1 DEF SInv, TypeOK
    <3> QED
      BY <3>1
  <2>2. CASE v # u
    <3>1. info'[v] = info[v] /\ alloc'[v] = alloc[v]
      BY <2>2 DEF SInv, TypeOK
    <3> QED
      BY <3>1 DEF SInv, Ends, Memory
  <2> QED
    BY <2>1, <2>2
<1>3. connected' \in BOOLEAN
  BY Zenon
<1>4. Sound
  BY <1>1, <1>2, <1>3 DEF Sound
<1> QED
  BY <1>4, ToUploadKeeps

\* Between packets no memory is half freed.
LEMMA NoneFreedAtPkt ==
  ASSUME SInv, srv.at \in {"pkt", "pend", "get", "test", "send", "prepare", "free"},
         NEW u \in Infoes
  PROVE  alloc[u] \in {"none", "held"}
BY DEF SInv, TypeOK, Memory

LEMMA QuietPktKeeps ==
  ASSUME SInv, OpenConnection \/ OtherPkt \/ ModelStop
  PROVE  SInv'
<1>1. /\ srv.at = "pkt" /\ srv' = ToUpload /\ UNCHANGED <<info, alloc, uploadSem>>
      /\ connected' \in BOOLEAN /\ stopReq' \in BOOLEAN
      /\ connected' = connected \/ ~connected
  BY Zenon DEF OpenConnection, OtherPkt, ModelStop, SInv, TypeOK
<1>2. Sound
  BY <1>1 DEF SInv, TypeOK, Ends, Memory, Sound
<1>3. NoneFreed
  BY <1>1, NoneFreedAtPkt DEF NoneFreed
<1>4. ~connected' => Clean
  <2>1. ~connected' => ~connected
    BY <1>1
  <2>2. srv.mode = "work"
    BY <1>1 DEF SInv, Flushing
  <2> QED
    BY <1>1, <2>1, <2>2 DEF SInv, CleanDisconnect, Clean
<1> QED
  BY <1>1, <1>2, <1>3, <1>4, ToUploadKeeps

LEMMA SelectSignalsKeeps ==
  ASSUME SInv, NEW u \in Infoes, SelectSignals(u)
  PROVE  SInv'
<1>1. PICK held \in {"held", "none"} : alloc' = [alloc EXCEPT ![u] = held]
  BY DEF SelectSignals
<1>4. PICK tids \in SUBSET Tids : info' = [info EXCEPT ![u] = [Unarmed EXCEPT !.signals = tids]]
  BY DEF SelectSignals
<1> DEFINE x == [Unarmed EXCEPT !.signals = tids]
<1>5. x \in Infos /\ EndOK(x) /\ Idle(x) /\ x.duration = 0
  BY SelectedFacts
<1> HIDE DEF x
<1>2. NoneFreed
  BY <1>1, NoneFreedAtPkt DEF SelectSignals, NoneFreed, SInv, TypeOK
<1>3. uploadSem' \in {0, 1} /\ stopReq' \in BOOLEAN
  BY DEF SelectSignals, SInv, TypeOK
<1> QED
  BY <1>1, <1>2, <1>3, <1>4, <1>5, SessionChanges DEF SelectSignals, x

LEMMA SelectTriggerKeeps ==
  ASSUME SInv, NEW u \in Infoes, NEW tr \in Triggers, SelectTrigger(u, tr)
  PROVE  SInv'
<1>1. info[u] \in Infos /\ Idle(info[u]) /\ EndOK(info[u]) /\ alloc[u] = "held"
  BY DEF SelectTrigger, SInv, TypeOK, Ends
<1>2. NoneFreed
  BY NoneFreedAtPkt DEF SelectTrigger, NoneFreed
<1>3. uploadSem' \in {0, 1} /\ stopReq' \in BOOLEAN
  BY DEF SelectTrigger, SInv, TypeOK
<1>4. alloc' = [alloc EXCEPT ![u] = "held"]
  BY <1>1 DEF SelectTrigger, SInv, TypeOK
<1>5. InitTrigger(info[u], tr) \in Infos /\ EndOK(InitTrigger(info[u], tr))
  BY <1>1, InitTriggerFacts
<1>6. info' = [info EXCEPT ![u] = InitTrigger(info[u], tr)]
  BY DEF SelectTrigger
<1>7. connected /\ connected' /\ srv' = ToUpload
  BY DEF SelectTrigger
<1> DEFINE x == InitTrigger(info[u], tr)
<1> HIDE DEF x
<1> QED
  BY <1>2, <1>3, <1>4, <1>5, <1>6, <1>7, SessionChanges DEF x

LEMMA ArmTriggerKeeps ==
  ASSUME SInv, NEW u \in Infoes, ArmTrigger(u)
  PROVE  SInv'
<1>1. info[u] \in Infos /\ Idle(info[u]) /\ EndOK(info[u]) /\ info[u].duration > 0
  BY DEF ArmTrigger, SInv, TypeOK, Ends
<1>2. NoneFreed
  BY NoneFreedAtPkt DEF ArmTrigger, NoneFreed
<1>3. uploadSem' \in {0, 1} /\ stopReq' \in BOOLEAN
  BY DEF ArmTrigger, SInv, TypeOK
<1>4. alloc' = [alloc EXCEPT ![u] = "held"]
  <2>1. alloc[u] = "held"
    BY <1>1, NoneFreedAtPkt DEF ArmTrigger, SInv, Memory
  <2> QED
    BY <2>1 DEF ArmTrigger, SInv, TypeOK
<1>5. Arm(info[u]) \in Infos /\ EndOK(Arm(info[u]))
  BY <1>1, ArmFacts
<1>6. info' = [info EXCEPT ![u] = Arm(info[u])]
  BY DEF ArmTrigger
<1>7. connected /\ connected' /\ srv' = ToUpload
  BY DEF ArmTrigger
<1> QED
  BY <1>2, <1>3, <1>4, <1>5, <1>6, <1>7, SessionChanges

LEMMA CancelLoggingKeeps ==
  ASSUME SInv, NEW u \in Infoes, CancelLogging(u)
  PROVE  SInv'
<1>1. info[u] \in Infos /\ EndOK(info[u]) /\ alloc[u] \in {"none", "held"}
      /\ (alloc[u] = "none" => Idle(info[u]) /\ info[u].duration = 0)
  BY NoneFreedAtPkt DEF CancelLogging, SInv, TypeOK, Ends, Memory
<1>2. NoneFreed
  BY NoneFreedAtPkt DEF CancelLogging, NoneFreed
<1>3. uploadSem' \in {0, 1} /\ stopReq' \in BOOLEAN
  BY DEF CancelLogging, SInv, TypeOK
<1>4. alloc' = [alloc EXCEPT ![u] = alloc[u]]
  BY DEF CancelLogging, SInv, TypeOK
<1>5. Cancel(info[u]) \in Infos /\ EndOK(Cancel(info[u]))
      /\ (Idle(info[u]) => Cancel(info[u]) = info[u])
  BY <1>1, CancelFacts
<1>6. info' = [info EXCEPT ![u] = Cancel(info[u])]
  BY DEF CancelLogging
<1>7. connected /\ connected' /\ srv' = ToUpload
  BY DEF CancelLogging
<1>8. alloc[u] = "none" => Idle(Cancel(info[u])) /\ Cancel(info[u]).duration = 0
  BY <1>1, <1>5
<1> QED
  BY <1>1, <1>2, <1>3, <1>4, <1>5, <1>6, <1>7, <1>8, SessionChanges

LEMMA DisconnectRequestKeeps ==
  ASSUME SInv, DisconnectRequest
  PROVE  SInv'
<1>1. srv' = [at |-> "prepare", mode |-> "disconnect", u |-> 0, list |-> << >>,
              pkg |-> 0, final |-> FALSE]
  <2>1. srv' = [AtPkt EXCEPT !.at = "prepare", !.mode = "disconnect"]
    BY DEF DisconnectRequest
  <2> QED
    BY <2>1 DEF AtPkt
<1>2. /\ srv'.at = "prepare" /\ srv'.mode = "disconnect" /\ srv'.u = 0 /\ srv'.pkg = 0
      /\ DOMAIN srv'.list = {}
  BY <1>1
<1>3. srv'.final \in BOOLEAN
  BY <1>1, Zenon
<1>4. Shape'
  BY <1>1 DEF Shape
<1>5. Sound
  BY DEF DisconnectRequest, SInv, TypeOK, Ends, Memory, Sound
<1>6. \A u \in Infoes : alloc'[u] # "freed"
  BY NoneFreedAtPkt DEF DisconnectRequest
<1>7. Flushing'
  BY <1>2 DEF Flushing, Infoes
<1>8. srv'.at \in Places \ {"send", "test"} /\ srv'.u \in Infoes /\ srv'.pkg \in 0 .. 2
      /\ DOMAIN srv'.list \subseteq Tids
      /\ srv'.mode \in {"work", "disconnect", "shutdown"}
  BY <1>2, InfosAssumption DEF Places, Infoes
<1>9. srv'.mode # "work"
  BY <1>2
<1> QED
  BY <1>3, <1>4, <1>5, <1>6, <1>7, <1>8, <1>9, MovesOn

LEMMA ForceDisconnectFacts ==
  ASSUME SInv, ForceDisconnect, uploadSem' = uploadSem, stopReq' = stopReq
  PROVE  Sound /\ NoneFreed /\ Clean
<1>1. \A u \in Infoes : info'[u] = Unarmed /\ alloc'[u] = "none"
  BY DEF ForceDisconnect
<1>2. /\ info' \in [Infoes -> Infos] /\ alloc' \in [Infoes -> {"none", "held", "freed"}]
      /\ uploadSem' \in {0, 1} /\ stopReq' \in BOOLEAN
  BY UnarmedFacts DEF ForceDisconnect, SInv, TypeOK
<1>3. connected' \in BOOLEAN
  BY Zenon DEF ForceDisconnect
<1> QED
  BY <1>1, <1>2, <1>3, UnarmedFacts DEF Sound, NoneFreed, Clean

LEMMA DisconnectedKeeps ==
  ASSUME SInv, Disconnected
  PROVE  SInv'
BY ForceDisconnectFacts, ToUploadKeeps DEF Disconnected

LEMMA PacketKeeps ==
  ASSUME SInv, Packet
  PROVE  SInv'
BY QuietPktKeeps, SelectSignalsKeeps, SelectTriggerKeeps, ArmTriggerKeeps,
   CancelLoggingKeeps, DisconnectRequestKeeps, DisconnectedKeeps DEF Packet

-----------------------------------------------------------------------------
\* The upload server.

\* The task moves on to another place of the same work, with a list of its own.
SrvGoes(at, list, pkg) ==
  srv' = [at |-> at, mode |-> srv.mode, u |-> srv.u, list |-> list, pkg |-> pkg,
          final |-> srv.final]

LEMMA SrvGoesFacts ==
  ASSUME SInv, NEW at, NEW list, NEW pkg, SrvGoes(at, list, pkg)
  PROVE  /\ srv'.at = at /\ srv'.mode = srv.mode /\ srv'.u = srv.u /\ srv'.list = list
         /\ srv'.pkg = pkg /\ srv'.final = srv.final /\ Shape'
         /\ srv'.u \in Infoes /\ srv'.final \in BOOLEAN
         /\ srv'.mode \in {"work", "disconnect", "shutdown"}
<1>1. /\ srv'.at = at /\ srv'.mode = srv.mode /\ srv'.u = srv.u /\ srv'.list = list
      /\ srv'.pkg = pkg
  BY DEF SrvGoes
<1>2. srv'.final = srv.final
  BY DEF SrvGoes
<1>3. Shape'
  BY DEF SrvGoes, Shape
<1>4. srv.u \in Infoes /\ srv.final \in BOOLEAN
      /\ srv.mode \in {"work", "disconnect", "shutdown"}
  BY DEF SInv, TypeOK
<1> QED
  BY <1>1, <1>2, <1>3, <1>4, Zenon

\* A step of the server that leaves upInfos and connection alone.
LEMMA LookKeeps ==
  ASSUME SInv, UNCHANGED <<info, alloc, connected, stopReq>>, uploadSem' \in {0, 1},
         srv.at \in {"pend", "get"},
         NEW at \in {"get", "test", "send"}, NEW list, NEW pkg \in 0 .. 2,
         SrvGoes(at, list, pkg), DOMAIN list \subseteq Tids, Served', Listed'
  PROVE  SInv'
<1>1. srv'.at = at /\ srv'.mode = srv.mode /\ srv'.u = srv.u /\ srv'.list = list
      /\ srv'.pkg = pkg
  BY SrvGoesFacts
<1>2. srv'.at \in Places
  BY <1>1 DEF Places
<1>3. TypeOK'
  <2>1. connected' \in BOOLEAN /\ stopReq' \in BOOLEAN
    BY DEF SInv, TypeOK
  <2>2. srv'.u \in Infoes /\ srv'.final \in BOOLEAN
        /\ srv'.mode \in {"work", "disconnect", "shutdown"}
    BY SrvGoesFacts
  <2>3. info' \in [Infoes -> Infos] /\ alloc' \in [Infoes -> {"none", "held", "freed"}]
    BY DEF SInv, TypeOK
  <2>4. srv'.pkg \in 0 .. 2 /\ DOMAIN srv'.list \subseteq Tids
    BY <1>1
  <2> QED
    BY <1>2, <2>1, <2>2, <2>3, <2>4, Zenon DEF TypeOK
<1>4. Ends' /\ Memory'
  BY DEF SInv, Ends, Memory
<1>5. Flushing' /\ CleanDisconnect'
  BY <1>1 DEF SInv, Flushing, CleanDisconnect
<1>6. Shape'
  BY SrvGoesFacts
<1> QED
  BY <1>3, <1>4, <1>5, <1>6 DEF SInv

LEMMA UnchangedSound ==
  ASSUME SInv, UNCHANGED <<info, alloc, connected, stopReq>>, uploadSem' \in {0, 1},
         srv.at \in {"pkt", "pend", "get", "test", "send", "prepare", "free"}
  PROVE  Sound /\ NoneFreed
         /\ (srv.mode = "work" /\ ~connected' => Clean)
         /\ (srv.mode # "work" =>
               \A v \in Infoes : v < srv.u => Idle(info'[v]) /\ alloc'[v] = "none")
<1>1. connected' \in BOOLEAN /\ stopReq' \in BOOLEAN
  BY DEF SInv, TypeOK
<1>2. Sound
  BY <1>1 DEF SInv, TypeOK, Ends, Memory, Sound
<1>3. NoneFreed
  BY NoneFreedAtPkt DEF NoneFreed
<1>4. srv.mode = "work" /\ ~connected' => Clean
  BY DEF SInv, CleanDisconnect, Clean
<1>5. srv.mode # "work" =>
        \A v \in Infoes : v < srv.u => Idle(info'[v]) /\ alloc'[v] = "none"
  BY DEF SInv, Flushing
<1> QED
  BY <1>2, <1>3, <1>4, <1>5

LEMMA PendKeeps ==
  ASSUME SInv, Pend
  PROVE  SInv'
<1>1. CASE uploadSem = 1 /\ connected
  <2>1. srv' = [srv EXCEPT !.at = "get"]
    BY <1>1 DEF Pend
  <2>2. SrvGoes("get", srv.list, srv.pkg)
    BY <2>1 DEF SInv, Shape, SrvGoes
  <2>3. srv'.at = "get"
    BY <2>2, SrvGoesFacts
  <2>4. Served' /\ Listed'
    BY <2>3 DEF Served, Listed
  <2>5. UNCHANGED <<info, alloc, connected, stopReq>> /\ uploadSem' = 0 /\ srv.at = "pend"
    BY DEF Pend
  <2>6. srv.pkg \in 0 .. 2 /\ DOMAIN srv.list \subseteq Tids
    BY DEF SInv, TypeOK
  <2> QED
    BY <2>2, <2>4, <2>5, <2>6, LookKeeps
<1>2. CASE ~(uploadSem = 1 /\ connected)
  <2>1. srv' = Done
    BY <1>2 DEF Pend
  <2>2. UNCHANGED <<info, alloc, connected, stopReq>> /\ uploadSem' = 0 /\ srv.at = "pend"
    BY DEF Pend
  <2> QED
    BY <2>1, <2>2, UnchangedSound, DoneKeeps
<1> QED
  BY <1>1, <1>2

LEMMA ToSendFacts ==
  ASSUME NEW x \in Infos
  PROVE  /\ DOMAIN ToSend(x) \subseteq Tids
         /\ \A t \in DOMAIN ToSend(x) :
              ToSend(x)[t] = x.buf[t] /\ ToSend(x)[t] \in Nat
         /\ \A t \in Tids : t \notin DOMAIN ToSend(x) => x.buf[t] = 0
BY TriggerAssumption DEF ToSend, Infos

LEMMA GetDataKeeps ==
  ASSUME SInv, GetData
  PROVE  SInv'
<1> DEFINE x == info[srv.u]
<1>1. x \in Infos /\ srv.u \in Infoes /\ srv.pkg \in 0 .. 2 /\ DOMAIN srv.list \subseteq Tids
  BY DEF SInv, TypeOK
<1>2. UNCHANGED <<info, alloc, connected, stopReq>> /\ uploadSem' \in {0, 1}
      /\ srv.at = "get"
  BY DEF GetData, SInv, TypeOK
<1>3. CASE x.state \notin {"FIRED", "TERMINATING"}
  <2>1. srv' = Done
    BY <1>3 DEF GetData
  <2> QED
    BY <1>2, <2>1, UnchangedSound, DoneKeeps
<1>4. CASE x.state \in {"FIRED", "TERMINATING"} /\ DOMAIN ToSend(x) # {}
  <2>1. srv' = [srv EXCEPT !.at = "send", !.list = ToSend(x)]
    BY <1>4 DEF GetData
  <2>2. SrvGoes("send", ToSend(x), srv.pkg)
    BY <2>1 DEF SInv, Shape, SrvGoes
  <2>3. srv'.at = "send" /\ srv'.u = srv.u /\ srv'.list = ToSend(x)
    BY <2>2, SrvGoesFacts
  <2>4. Served'
    BY <1>2, <1>4, <2>3 DEF Served
  <2>5. Listed'
    <3>1. ASSUME NEW t \in DOMAIN ToSend(x)
          PROVE  ToSend(x)[t] \in Nat /\ ToSend(x)[t] <= x.buf[t]
      BY <1>1, ToSendFacts
    <3> QED
      BY <1>2, <1>4, <2>3, <3>1 DEF Listed
  <2> QED
    BY <1>1, <1>2, <2>2, <2>4, <2>5, ToSendFacts, LookKeeps
<1>5. CASE x.state \in {"FIRED", "TERMINATING"} /\ DOMAIN ToSend(x) = {}
  <2>1. srv' = [srv EXCEPT !.at = "test"]
    BY <1>5 DEF GetData
  <2>2. SrvGoes("test", srv.list, srv.pkg)
    BY <2>1 DEF SInv, Shape, SrvGoes
  <2>3. srv'.at = "test" /\ srv'.u = srv.u
    BY <2>2, SrvGoesFacts
  <2>4. Served' /\ Listed'
    BY <1>2, <1>5, <2>3 DEF Served, Listed
  <2> QED
    BY <1>1, <1>2, <2>2, <2>4, LookKeeps
<1> QED
  BY <1>3, <1>4, <1>5

\* The server changes the upInfo it works for, whose event is running or terminating.
LEMMA ServedChanges ==
  ASSUME SInv, srv.at \in {"test", "send"}, NEW x \in Infos, EndOK(x),
         NEW held \in {"none", "held"}, held = "none" => Idle(x) /\ x.duration = 0,
         info' = [info EXCEPT ![srv.u] = x], alloc' = [alloc EXCEPT ![srv.u] = held],
         UNCHANGED <<uploadSem, connected, stopReq>>
  PROVE  /\ Sound /\ NoneFreed
         /\ srv.mode = "work" => connected
         /\ srv.mode # "work" =>
              \A v \in Infoes : v < srv.u => Idle(info'[v]) /\ alloc'[v] = "none"
<1>1. /\ info' \in [Infoes -> Infos] /\ alloc' \in [Infoes -> {"none", "held", "freed"}]
      /\ uploadSem' \in {0, 1} /\ srv.u \in Infoes
  BY DEF SInv, TypeOK
<1>2. connected' \in BOOLEAN /\ stopReq' \in BOOLEAN
  BY DEF SInv, TypeOK
<1>3. ASSUME NEW v \in Infoes
      PROVE  \/ v = srv.u /\ info'[v] = x /\ alloc'[v] = held
             \/ v # srv.u /\ info'[v] = info[v] /\ alloc'[v] = alloc[v]
  BY <1>1 DEF SInv, TypeOK
<1>4. Sound
  <2>1. ASSUME NEW v \in Infoes
        PROVE  /\ EndOK(info'[v])
               /\ alloc'[v] = "none" => Idle(info'[v]) /\ info'[v].duration = 0
    BY <1>3 DEF SInv, Ends, Memory
  <2> QED
    BY <1>1, <1>2, <2>1 DEF Sound
<1>5. NoneFreed
  BY <1>3, NoneFreedAtPkt DEF NoneFreed
<1>6. srv.mode = "work" => connected
  BY <1>1 DEF SInv, CleanDisconnect, Served, Idle
<1>7. srv.mode # "work" =>
        \A v \in Infoes : v < srv.u => Idle(info'[v]) /\ alloc'[v] = "none"
  <2>1. ~ (srv.u < srv.u)
    BY <1>1 DEF Infoes
  <2> QED
    BY <1>3, <2>1 DEF SInv, Flushing
<1> QED
  BY <1>4, <1>5, <1>6, <1>7

\* It has its memory.
LEMMA ServedIsHeld ==
  ASSUME SInv, srv.at \in {"test", "send"}
  PROVE  alloc[srv.u] = "held" /\ info[srv.u] \in Infos /\ EndOK(info[srv.u])
         /\ srv.u \in Infoes
BY DEF SInv, TypeOK, Served, Memory, Ends, Idle

LEMMA EndTestKeeps ==
  ASSUME SInv, EndTest
  PROVE  SInv'
<1> DEFINE x == info[srv.u]
<1> DEFINE over == x.state = "TERMINATING" /\ x.holdOff = OneShot
<1>1. alloc[srv.u] = "held" /\ x \in Infos /\ EndOK(x) /\ srv.u \in Infoes
      /\ srv.at = "test"
  BY ServedIsHeld DEF EndTest
<1>2. srv' = Done /\ UNCHANGED <<uploadSem, connected, stopReq>>
  BY DEF EndTest
<1>3. CASE over
  <2>1. info' = [info EXCEPT ![srv.u] = Unarmed] /\ alloc' = [alloc EXCEPT ![srv.u] = "none"]
    BY <1>3 DEF EndTest
  <2> QED
    BY <1>1, <1>2, <2>1, UnarmedFacts, ServedChanges, DoneKeeps
<1>4. CASE x.state = "TERMINATING" /\ x.holdOff # OneShot
  <2>1. info' = [info EXCEPT ![srv.u] = HoldOff(x)]
        /\ alloc' = [alloc EXCEPT ![srv.u] = "held"]
    BY <1>1, <1>4 DEF EndTest
  <2>2. HoldOff(x) \in Infos /\ EndOK(HoldOff(x))
    BY <1>1, <1>4, HoldOffFacts
  <2> QED
    BY <1>1, <1>2, <2>1, <2>2, ServedChanges, DoneKeeps
<1>5. CASE x.state # "TERMINATING"
  <2>1. info' = [info EXCEPT ![srv.u] = x] /\ alloc' = [alloc EXCEPT ![srv.u] = "held"]
    BY <1>1, <1>5 DEF EndTest
  <2> QED
    BY <1>1, <1>2, <2>1, ServedChanges, DoneKeeps
<1> QED
  BY <1>3, <1>4, <1>5

\* The buffer that SendBuf sends is one of the list.
LEMMA MinFacts ==
  ASSUME NEW S, S \subseteq Tids, S # {}
  PROVE  Min(S) \in S /\ \A t \in S : Min(S) <= t
<1>1. S \subseteq Nat
  BY DEF Tids
<1>2. \E t \in S : \A s \in S : t <= s
  BY <1>1, Smallest
<1> QED
  BY <1>2 DEF Min

LEMMA SendBufKeeps ==
  ASSUME SInv, SendBuf
  PROVE  SInv'
<1> DEFINE x == info[srv.u]
<1> DEFINE t == Min(DOMAIN srv.list)
<1> DEFINE rest == [s \in DOMAIN srv.list \ {t} |-> srv.list[s]]
<1> DEFINE y == DataSent(x, t, srv.list[t])
<1>1. alloc[srv.u] = "held" /\ x \in Infos /\ EndOK(x) /\ srv.u \in Infoes
      /\ srv.at = "send" /\ x.state \in {"FIRED", "TERMINATING"}
  BY ServedIsHeld DEF SendBuf, SInv, Served
<1>2. DOMAIN srv.list \subseteq Tids /\ DOMAIN srv.list # {}
  BY <1>1 DEF SInv, TypeOK, Listed
<1>3. t \in DOMAIN srv.list /\ t \in Tids
  BY <1>2, MinFacts
<1>4. srv.list[t] \in Nat /\ srv.list[t] <= x.buf[t]
  BY <1>1, <1>3 DEF SInv, Listed
<1>5. y \in Infos /\ EndOK(y) /\ y.state = x.state
      /\ \A s \in Tids \ {t} : y.buf[s] = x.buf[s]
  BY <1>1, <1>3, <1>4, DataSentFacts
<1>6. info' = [info EXCEPT ![srv.u] = y] /\ UNCHANGED <<alloc, uploadSem, connected, stopReq>>
  BY DEF SendBuf
<1>7. srv' = IF srv.pkg = 2 THEN Done
             ELSE [srv EXCEPT !.pkg = @ + 1, !.list = rest,
                              !.at = IF DOMAIN rest = {} THEN "get" ELSE "send"]
  BY DEF SendBuf
<1>8. alloc' = [alloc EXCEPT ![srv.u] = "held"]
  BY <1>1, <1>6 DEF SInv, TypeOK
<1>9. DOMAIN rest = DOMAIN srv.list \ {t} /\ \A s \in DOMAIN rest : rest[s] = srv.list[s]
  OBVIOUS
<1>10. /\ Sound /\ NoneFreed /\ (srv.mode = "work" => connected)
       /\ srv.mode # "work" =>
            \A v \in Infoes : v < srv.u => Idle(info'[v]) /\ alloc'[v] = "none"
  BY <1>1, <1>5, <1>6, <1>8, ServedChanges
<1>11. connected' = connected /\ stopReq' = stopReq
  BY <1>6
<1>12. info'[srv.u] = y
  BY <1>1, <1>6 DEF SInv, TypeOK
<1>13. alloc' = alloc
  BY <1>6
<1> HIDE DEF t, rest, x, y
<1>14. CASE srv.pkg = 2
  <2>1. srv' = Done
    BY <1>7, <1>14
  <2> QED
    BY <1>10, <1>11, <2>1, DoneKeeps
<1>15. CASE srv.pkg # 2
  <2> DEFINE at == IF DOMAIN rest = {} THEN "get" ELSE "send"
  <2>1. SrvGoes(at, rest, srv.pkg + 1)
    BY <1>7, <1>15 DEF SInv, Shape, SrvGoes
  <2>2. /\ srv'.at = at /\ srv'.mode = srv.mode /\ srv'.u = srv.u /\ srv'.list = rest
        /\ srv'.pkg = srv.pkg + 1
    BY <2>1, SrvGoesFacts
  <2>3. srv'.u \in Infoes /\ srv'.final \in BOOLEAN /\ Shape'
        /\ srv'.mode \in {"work", "disconnect", "shutdown"}
    BY <2>1, SrvGoesFacts
  <2>4. srv'.pkg \in 0 .. 2 /\ DOMAIN srv'.list \subseteq Tids /\ srv'.at \in Places
    BY <1>2, <1>9, <1>15, <2>2 DEF SInv, TypeOK, Places
  <2>5. TypeOK'
    <3>1. /\ info' \in [Infoes -> Infos] /\ alloc' \in [Infoes -> {"none", "held", "freed"}]
          /\ uploadSem' \in {0, 1} /\ connected' \in BOOLEAN /\ stopReq' \in BOOLEAN
      BY <1>10, Zenon DEF Sound
    <3> QED
      BY <2>3, <2>4, <3>1, Zenon DEF TypeOK
  <2>6. Served'
    BY <1>1, <1>5, <1>12, <2>2 DEF Served
  <2>7. Listed'
    <3>1. ASSUME NEW s \in DOMAIN rest
          PROVE  rest[s] \in Nat /\ rest[s] <= y.buf[s]
      <4>1. s \in DOMAIN srv.list /\ s # t /\ rest[s] = srv.list[s]
        BY <1>9
      <4>2. srv.list[s] \in Nat /\ srv.list[s] <= x.buf[s]
        BY <1>1, <4>1 DEF SInv, Listed, x
      <4>3. y.buf[s] = x.buf[s]
        BY <1>2, <1>5, <4>1
      <4> QED
        BY <4>1, <4>2, <4>3
    <3> QED
      BY <1>12, <2>2, <3>1 DEF Listed
  <2>8. Ends' /\ Memory'
    BY <1>10 DEF Sound, NoneFreed, Ends, Memory
  <2>9. CleanDisconnect'
    BY <1>10, <1>11, <2>2 DEF CleanDisconnect
  <2>10. Flushing'
    BY <1>10, <1>11, <2>2 DEF Flushing, SInv
  <2> QED
    BY <2>3, <2>5, <2>6, <2>7, <2>8, <2>9, <2>10 DEF SInv
<1> QED
  BY <1>14, <1>15

LEMMA SendFailsKeeps ==
  ASSUME SInv, SendFails
  PROVE  SInv'
BY ForceDisconnectFacts, DoneKeeps DEF SendFails, Clean

-----------------------------------------------------------------------------
\* The final flush.

LEMMA PrepareFinalFlushKeeps ==
  ASSUME SInv, PrepareFinalFlush
  PROVE  SInv'
<1> DEFINE x == info[srv.u]
<1> DEFINE y == PrepareForFinalFlush(x)
<1> DEFINE final == connected /\ Flushes(info[srv.u])
<1>1. x \in Infos /\ EndOK(x) /\ srv.u \in Infoes /\ srv.at = "prepare" /\ srv.mode # "work"
  BY DEF PrepareFinalFlush, SInv, TypeOK, Ends, Flushing
<1>2. y \in Infos /\ EndOK(y) /\ (Idle(x) => y = x)
  BY <1>1, FlushFacts
<1>3. info' = [info EXCEPT ![srv.u] = y] /\ uploadSem' = 1
      /\ UNCHANGED <<alloc, connected, stopReq>>
  BY DEF PrepareFinalFlush
<1>4. srv' = [srv EXCEPT !.at = "pend", !.final = final]
  BY DEF PrepareFinalFlush
<1> HIDE DEF x, y, final
<1>5. srv' = [at |-> "pend", mode |-> srv.mode, u |-> srv.u, list |-> srv.list,
              pkg |-> srv.pkg, final |-> final]
  BY <1>4 DEF SInv, Shape
<1>6. /\ srv'.at = "pend" /\ srv'.mode = srv.mode /\ srv'.u = srv.u
      /\ srv'.list = srv.list /\ srv'.pkg = srv.pkg
  BY <1>5
<1>7. srv'.final \in BOOLEAN
  BY <1>5, Zenon DEF final
<1>8. Shape'
  BY <1>5 DEF Shape
<1>9. ASSUME NEW v \in Infoes
      PROVE  \/ v = srv.u /\ info'[v] = y
             \/ v # srv.u /\ info'[v] = info[v]
  BY <1>1, <1>3 DEF SInv, TypeOK
<1>10. Sound
  <2>1. info' \in [Infoes -> Infos]
    BY <1>1, <1>2, <1>3 DEF SInv, TypeOK
  <2>2. ASSUME NEW v \in Infoes
        PROVE  /\ EndOK(info'[v])
               /\ alloc'[v] = "none" => Idle(info'[v]) /\ info'[v].duration = 0
    BY <1>2, <1>3, <1>9 DEF SInv, Ends, Memory, x
  <2>3. connected' \in BOOLEAN /\ stopReq' \in BOOLEAN
    BY <1>3 DEF SInv, TypeOK
  <2>4. uploadSem' \in {0, 1} /\ alloc' \in [Infoes -> {"none", "held", "freed"}]
    BY <1>3 DEF SInv, TypeOK
  <2> QED
    BY <2>1, <2>2, <2>3, <2>4 DEF Sound
<1>11. Flushing'
  <2>1. ~ (srv.u < srv.u)
    BY <1>1 DEF Infoes
  <2> QED
    BY <1>3, <1>6, <1>9, <2>1 DEF SInv, Flushing
<1>12. \A u \in Infoes : alloc'[u] # "freed"
  BY <1>1, <1>3, NoneFreedAtPkt
<1>13. /\ srv'.at \in Places \ {"send", "test"} /\ srv'.u \in Infoes /\ srv'.pkg \in 0 .. 2
       /\ srv'.mode \in {"work", "disconnect", "shutdown"}
       /\ DOMAIN srv'.list \subseteq Tids
  BY <1>6 DEF SInv, TypeOK, Places
<1>14. srv'.mode # "work"
  BY <1>1, <1>6
<1> QED
  BY <1>7, <1>8, <1>10, <1>11, <1>12, <1>13, <1>14, MovesOn

LEMMA FreeInfoKeeps ==
  ASSUME SInv, FreeInfo
  PROVE  SInv'
<1>1. srv.u \in Infoes /\ srv.at = "free" /\ srv.mode # "work" /\ srv.pkg \in 0 .. 2
      /\ DOMAIN srv.list \subseteq Tids
  BY DEF FreeInfo, SInv, TypeOK, Flushing
<1>2. srv' = [srv EXCEPT !.at = "reset"] /\ UNCHANGED <<info, uploadSem, connected, stopReq>>
      /\ alloc' = [alloc EXCEPT ![srv.u] = IF @ = "held" THEN "freed" ELSE @]
  BY DEF FreeInfo
<1>3. SrvGoes("reset", srv.list, srv.pkg)
  BY <1>2 DEF SInv, Shape, SrvGoes
<1>4. /\ srv'.at = "reset" /\ srv'.mode = srv.mode /\ srv'.u = srv.u
      /\ srv'.list = srv.list /\ srv'.pkg = srv.pkg
  BY <1>3, SrvGoesFacts
<1>5. ASSUME NEW v \in Infoes
      PROVE  \/ v = srv.u /\ alloc'[v] = IF alloc[v] = "held" THEN "freed" ELSE alloc[v]
             \/ v # srv.u /\ alloc'[v] = alloc[v]
  BY <1>1, <1>2 DEF SInv, TypeOK
<1>6. \A v \in Infoes : alloc[v] \in {"none", "held"}
  BY <1>1, NoneFreedAtPkt
<1>7. Sound
  <2>1. alloc' \in [Infoes -> {"none", "held", "freed"}]
    BY <1>1, <1>2 DEF SInv, TypeOK
  <2>2. ASSUME NEW v \in Infoes
        PROVE  /\ EndOK(info'[v])
               /\ alloc'[v] = "none" => Idle(info'[v]) /\ info'[v].duration = 0
    BY <1>2, <1>5, <1>6 DEF SInv, Ends, Memory
  <2>3. connected' \in BOOLEAN /\ stopReq' \in BOOLEAN
    BY <1>2 DEF SInv, TypeOK
  <2>4. uploadSem' \in {0, 1} /\ info' \in [Infoes -> Infos]
    BY <1>2 DEF SInv, TypeOK
  <2> QED
    BY <2>1, <2>2, <2>3, <2>4 DEF Sound
<1>8. Flushing'
  <2>1. ~ (srv.u < srv.u)
    BY <1>1 DEF Infoes
  <2>2. alloc'[srv.u] # "held"
    BY <1>1, <1>5, <1>6
  <2> QED
    BY <1>1, <1>2, <1>4, <1>5, <2>1, <2>2 DEF SInv, Flushing
<1>9. \A v \in Infoes : alloc'[v] = "freed" => srv'.at = "reset" /\ srv'.u = v
  BY <1>4, <1>5, <1>6
<1>10. /\ srv'.at \in Places \ {"send", "test"} /\ srv'.u \in Infoes /\ srv'.pkg \in 0 .. 2
       /\ srv'.mode \in {"work", "disconnect", "shutdown"}
       /\ DOMAIN srv'.list \subseteq Tids
  BY <1>1, <1>4 DEF SInv, TypeOK, Places
<1>11. srv'.final \in BOOLEAN /\ Shape'
  BY <1>3, SrvGoesFacts
<1>12. srv'.mode # "work"
  BY <1>1, <1>4
<1> QED
  BY <1>7, <1>8, <1>9, <1>10, <1>11, <1>12, MovesOn

LEMMA ResetInfoKeeps ==
  ASSUME SInv, ResetInfo
  PROVE  SInv'
<1> DEFINE x == IF alloc[srv.u] = "freed" THEN Unarmed ELSE info[srv.u]
<1>1. /\ srv.u \in Infoes /\ srv.at = "reset" /\ srv.mode \in {"disconnect", "shutdown"}
      /\ alloc[srv.u] \in {"none", "freed"}
  BY DEF ResetInfo, SInv, TypeOK, Flushing
<1>2. x \in Infos /\ EndOK(x) /\ Idle(x) /\ x.duration = 0
  BY <1>1, UnarmedFacts DEF SInv, TypeOK, Ends, Memory
<1>3. info' = [info EXCEPT ![srv.u] = x] /\ alloc' = [alloc EXCEPT ![srv.u] = "none"]
      /\ UNCHANGED <<uploadSem, stopReq>>
  BY DEF ResetInfo
<1> HIDE DEF x
<1>4. ASSUME NEW v \in Infoes
      PROVE  \/ v = srv.u /\ info'[v] = x /\ alloc'[v] = "none"
             \/ v # srv.u /\ info'[v] = info[v] /\ alloc'[v] = alloc[v]
                /\ alloc[v] # "freed"
  BY <1>1, <1>3 DEF SInv, TypeOK, Memory
<1>5. connected' \in BOOLEAN
  BY Zenon DEF ResetInfo, SInv, TypeOK
<1>6. Sound
  <2>1. info' \in [Infoes -> Infos] /\ alloc' \in [Infoes -> {"none", "held", "freed"}]
    BY <1>1, <1>2, <1>3 DEF SInv, TypeOK
  <2>2. ASSUME NEW v \in Infoes
        PROVE  /\ EndOK(info'[v])
               /\ alloc'[v] = "none" => Idle(info'[v]) /\ info'[v].duration = 0
    BY <1>2, <1>4 DEF SInv, Ends, Memory
  <2>3. uploadSem' \in {0, 1}
    BY <1>3 DEF SInv, TypeOK
  <2>4. stopReq' \in BOOLEAN
    BY <1>3 DEF SInv, TypeOK
  <2> QED
    BY <1>5, <2>1, <2>2, <2>3, <2>4 DEF Sound
<1>7. NoneFreed
  BY <1>4 DEF NoneFreed
<1>8. \A v \in Infoes : v <= srv.u => Idle(info'[v]) /\ alloc'[v] = "none"
  <2> SUFFICES ASSUME NEW v \in Infoes, v <= srv.u
               PROVE  Idle(info'[v]) /\ alloc'[v] = "none"
    OBVIOUS
  <2>1. v # srv.u => v < srv.u
    BY <1>1 DEF Infoes
  <2>2. srv.mode # "work"
    BY <1>1
  <2> QED
    BY <1>2, <1>4, <2>1, <2>2 DEF SInv, Flushing
<1>9. srv.mode = "shutdown" => stopReq'
  BY <1>3 DEF SInv, Flushing
<1>10. CASE srv.u + 1 < NumInfos
  <2>1. srv' = [AtPkt EXCEPT !.at = "prepare", !.mode = srv.mode, !.u = srv.u + 1]
    BY <1>10 DEF ResetInfo
  <2>2. srv' = [at |-> "prepare", mode |-> srv.mode, u |-> srv.u + 1, list |-> << >>,
                pkg |-> 0, final |-> FALSE]
    BY <2>1 DEF AtPkt
  <2>3. /\ srv'.at = "prepare" /\ srv'.mode = srv.mode /\ srv'.u = srv.u + 1
        /\ srv'.pkg = 0 /\ DOMAIN srv'.list = {}
    BY <2>2
  <2>4. srv'.final \in BOOLEAN
    BY <2>2, Zenon
  <2>5. Shape'
    BY <2>2 DEF Shape
  <2>6. srv'.u \in Infoes /\ \A v \in Infoes : v < srv'.u => v <= srv.u
    BY <1>1, <1>10, <2>3, InfosAssumption DEF Infoes
  <2>7. Flushing'
    BY <1>1, <1>8, <1>9, <2>3, <2>6 DEF Flushing
  <2>8. /\ srv'.at \in Places \ {"send", "test"} /\ srv'.pkg \in 0 .. 2
        /\ DOMAIN srv'.list \subseteq Tids
        /\ srv'.mode \in {"work", "disconnect", "shutdown"} /\ srv'.mode # "work"
    BY <1>1, <2>3 DEF Places
  <2>9. \A v \in Infoes : alloc'[v] # "freed"
    BY <1>7 DEF NoneFreed
  <2> QED
    BY <1>6, <2>4, <2>5, <2>6, <2>7, <2>8, <2>9, MovesOn
<1>11. CASE ~ (srv.u + 1 < NumInfos)
  <2>1. Clean
    <3>1. \A v \in Infoes : v <= srv.u
      BY <1>1, <1>11, InfosAssumption DEF Infoes
    <3> QED
      BY <1>8, <3>1 DEF Clean
  <2>2. CASE srv.mode = "disconnect"
    <3>1. srv' = ToUpload
      BY <1>11, <2>2 DEF ResetInfo
    <3> QED
      BY <1>6, <1>7, <2>1, <3>1, ToUploadKeeps
  <2>3. CASE srv.mode = "shutdown"
    <3>1. srv' = [AtPkt EXCEPT !.at = "stopped"]
      BY <1>11, <2>3 DEF ResetInfo
    <3>2. srv' = [at |-> "stopped", mode |-> "work", u |-> 0, list |-> << >>,
                  pkg |-> 0, final |-> FALSE]
      BY <3>1 DEF AtPkt
    <3>3. /\ srv'.at = "stopped" /\ srv'.mode = "work" /\ srv'.u = 0
          /\ srv'.pkg = 0 /\ DOMAIN srv'.list = {}
      BY <3>2
    <3>4. srv'.final \in BOOLEAN
      BY <3>2, Zenon
    <3>5. Shape'
      BY <3>2 DEF Shape
    <3>6. Flushing'
      BY <3>3 DEF Flushing
    <3>7. /\ srv'.at \in Places \ {"send", "test"} /\ srv'.pkg \in 0 .. 2
          /\ DOMAIN srv'.list \subseteq Tids /\ srv'.u \in Infoes
          /\ srv'.mode \in {"work", "disconnect", "shutdown"}
      BY <3>3, AtPktFacts DEF Places
    <3>8. \A v \in Infoes : alloc'[v] # "freed"
      BY <1>7 DEF NoneFreed
    <3> QED
      BY <1>6, <2>1, <3>4, <3>5, <3>6, <3>7, <3>8, MovesOn
  <2> QED
    BY <1>1, <2>2, <2>3
<1> QED
  BY <1>10, <1>11

-----------------------------------------------------------------------------
LEMMA SInvStep ==
  ASSUME SInv, [Next]_vars
  PROVE  SInv'
<1>1. CASE OneStep
  BY <1>1, OneStepKeeps
<1>2. CASE Packet
  BY <1>2, PacketKeeps
<1>3. CASE ServerWork
  BY <1>3, PendKeeps, GetDataKeeps, EndTestKeeps, SendBufKeeps, SendFailsKeeps,
     PrepareFinalFlushKeeps, FreeInfoKeeps, ResetInfoKeeps DEF ServerWork
<1>4. CASE UNCHANGED vars
  BY <1>4 DEF vars, SInv, TypeOK, Shape, Served, Listed, Ends, Memory, Flushing,
              CleanDisconnect
<1> QED
  BY <1>1, <1>2, <1>3, <1>4 DEF Next, Stopped

LEMMA SessionInvariant == Spec => []SInv
BY SInvInit, SInvStep, PTL DEF Spec

\* No counter of points leaves its buffer, whatever the Swi and the host do.
THEOREM TypesAreKept == Spec => []TypeOK
<1>1. SInv => TypeOK
  BY DEF SInv
<1> QED
  BY <1>1, SessionInvariant, PTL

\* UploadCancelLogging: a trigger the host has cancelled is never armed again.
THEOREM CancelIsFinal == Spec => []CancelSticks
<1>1. SInv => CancelSticks
  BY DEF SInv, Ends, EndOK, CancelSticks
<1> QED
  BY <1>1, SessionInvariant, PTL

\* UploadServerWork sends no data of an event the host was told is over.
THEOREM EndedEventsAreQuiet == Spec => []NoDataAfterEnd
<1>1. ASSUME SInv PROVE NoDataAfterEnd
  <2>1. srv.u \in Infoes
    BY <1>1 DEF SInv, TypeOK
  <2> QED
    BY <1>1, <2>1 DEF SInv, Served, Ends, EndOK, NoDataAfterEnd
<1> QED
  BY <1>1, SessionInvariant, PTL

\* UploadBufDataSent: what was listed is in the buffers until the server removes it.
THEOREM ListedPointsAreHeld == Spec => []ListedIsHeld
<1>1. SInv => ListedIsHeld
  BY DEF SInv, Listed, ListedIsHeld
<1> QED
  BY <1>1, SessionInvariant, PTL

\* However a connection ended, no session and no memory is left over from it.
THEOREM DisconnectIsClean == Spec => []CleanDisconnect
<1>1. SInv => CleanDisconnect
  BY DEF SInv
<1> QED
  BY <1>1, SessionInvariant, PTL

-----------------------------------------------------------------------------
\* With at most two sample times the one call of the server that a final flush makes
\* is enough: it sends each buffer once, finds nothing more and ends the event.

\* How far the flush of the upInfo is.
Drained ==
  /\ srv.at = "prepare" => srv.pkg = 0
  /\ srv.final =>
       /\ srv.mode # "work" /\ srv.at \in {"pend", "get", "send", "test", "free", "reset"}
       /\ srv.at \in {"pend", "get", "send", "test"} =>
            connected /\ info[srv.u].state = "TERMINATING" /\ info[srv.u].holdOff = OneShot
       /\ srv.at = "pend" => uploadSem = 1 /\ srv.pkg = 0
       /\ srv.at = "get" /\ srv.pkg # 0 => \A t \in Tids : info[srv.u].buf[t] = 0
       /\ srv.at = "send" =>
            /\ srv.pkg \in {0, 1} /\ (srv.pkg = 1 => DOMAIN srv.list = {1})
            /\ \A t \in Tids :
                 info[srv.u].buf[t] = IF t \in DOMAIN srv.list THEN srv.list[t] ELSE 0
       /\ srv.at \in {"free", "reset"} => Idle(info[srv.u])

\* Without a flush there is nothing to show.
LEMMA NoFlush ==
  ASSUME srv'.final = FALSE, srv'.at = "prepare" => srv'.pkg = 0
  PROVE  Drained'
BY Zenon DEF Drained

LEMMA DoneWithoutFlush ==
  ASSUME SInv, ~srv.final, srv' = Done
  PROVE  Drained'
<1>1. srv.final = FALSE
  BY Zenon DEF SInv, TypeOK
<1>2. srv'.final = FALSE
  BY <1>1, DoneFacts, Zenon
<1>3. srv'.pkg = 0
  BY DoneFacts
<1> QED
  BY <1>2, <1>3, NoFlush

LEMMA DoneDrained ==
  ASSUME SInv, srv' = Done, srv.final => srv.mode # "work" /\ Idle(info'[srv.u])
  PROVE  Drained'
<1>1. CASE ~srv.final
  BY <1>1, DoneWithoutFlush
<1>2. CASE srv.final
  <2>1. srv'.at = "free" /\ srv'.u = srv.u /\ srv'.mode # "work"
    BY <1>2, DoneFacts
  <2> QED
    BY <1>2, <2>1 DEF Drained
<1> QED
  BY <1>1, <1>2

LEMMA PacketDrained ==
  ASSUME SInv, Drained, Packet
  PROVE  Drained'
<1>1. CASE srv' = ToUpload
  BY <1>1, ToUploadFacts, NoFlush
<1>2. CASE DisconnectRequest
  <2>1. srv' = [AtPkt EXCEPT !.at = "prepare", !.mode = "disconnect"]
    BY <1>2 DEF DisconnectRequest
  <2>2. srv' = [at |-> "prepare", mode |-> "disconnect", u |-> 0, list |-> << >>,
                pkg |-> 0, final |-> FALSE]
    BY <2>1 DEF AtPkt
  <2>3. srv'.final = FALSE
    BY <2>2, Zenon
  <2>4. srv'.pkg = 0
    BY <2>2
  <2> QED
    BY <2>3, <2>4, NoFlush
<1> QED
  BY <1>1, <1>2 DEF Packet, OpenConnection, OtherPkt, ModelStop, Disconnected,
     SelectSignals, SelectTrigger, ArmTrigger, CancelLogging

LEMMA OneStepDrained ==
  ASSUME SInv, Drained, OneStep
  PROVE  Drained'
<1>1. srv.u \in Infoes /\ info[srv.u] \in Infos /\ EndOK(info[srv.u])
  BY DEF SInv, TypeOK, Ends
<1>2. PICK hits \in SUBSET Tids, in \in [Infoes -> Inputs] :
        info' = [u \in Infoes |-> Tick(info[u], hits, in[u])]
  BY DEF OneStep
<1>3. info[srv.u].state \in {"UNARMED", "TERMINATING"} => info'[srv.u] = info[srv.u]
  <2>1. info'[srv.u] = Tick(info[srv.u], hits, in[srv.u])
    BY <1>1, <1>2
  <2> QED
    BY <1>1, <2>1, TickFacts DEF Kept
<1>4. UNCHANGED <<srv, connected>> /\ uploadSem' \in {1, uploadSem}
  BY DEF OneStep
<1> QED
  BY <1>3, <1>4 DEF Drained, Idle

LEMMA PendDrained ==
  ASSUME SInv, Drained, Pend
  PROVE  Drained'
<1>1. CASE uploadSem = 1 /\ connected
  <2>1. srv' = [srv EXCEPT !.at = "get"]
    BY <1>1 DEF Pend
  <2>2. SrvGoes("get", srv.list, srv.pkg)
    BY <2>1 DEF SInv, Shape, SrvGoes
  <2>3. /\ srv'.at = "get" /\ srv'.mode = srv.mode /\ srv'.u = srv.u
        /\ srv'.pkg = srv.pkg
    BY <2>2, SrvGoesFacts
  <2>4. srv'.final = srv.final
    BY <2>2, SrvGoesFacts
  <2>5. srv.at = "pend" /\ info' = info /\ connected' = connected
    BY DEF Pend
  <2> QED
    BY <2>3, <2>4, <2>5 DEF Drained
<1>2. CASE ~(uploadSem = 1 /\ connected)
  <2>1. srv' = Done /\ srv.at = "pend"
    BY <1>2 DEF Pend
  <2>2. ~srv.final
    BY <1>2, <2>1 DEF Drained
  <2> QED
    BY <2>1, <2>2, DoneWithoutFlush
<1> QED
  BY <1>1, <1>2

LEMMA GetDataDrained ==
  ASSUME SInv, Drained, GetData
  PROVE  Drained'
<1> DEFINE x == info[srv.u]
<1>1. x \in Infos /\ srv.u \in Infoes /\ srv.pkg \in 0 .. 2
  BY DEF SInv, TypeOK
<1>2. info' = info /\ connected' = connected /\ srv.at = "get"
  BY DEF GetData
<1>3. CASE x.state \notin {"FIRED", "TERMINATING"}
  <2>1. srv' = Done
    BY <1>3 DEF GetData
  <2>2. ~srv.final
    BY <1>2, <1>3 DEF Drained
  <2> QED
    BY <2>1, <2>2, DoneWithoutFlush
<1>4. CASE x.state \in {"FIRED", "TERMINATING"} /\ DOMAIN ToSend(x) # {}
  <2>1. srv' = [srv EXCEPT !.at = "send", !.list = ToSend(x)]
    BY <1>4 DEF GetData
  <2>2. SrvGoes("send", ToSend(x), srv.pkg)
    BY <2>1 DEF SInv, Shape, SrvGoes
  <2>3. /\ srv'.at = "send" /\ srv'.mode = srv.mode /\ srv'.u = srv.u
        /\ srv'.pkg = srv.pkg /\ srv'.list = ToSend(x)
    BY <2>2, SrvGoesFacts
  <2>4. srv'.final = srv.final
    BY <2>2, SrvGoesFacts
  <2>5. srv.final => srv.pkg = 0
    <3>1. PICK t \in DOMAIN ToSend(x) : TRUE
      BY <1>4
    <3>2. t \in Tids /\ x.buf[t] # 0
      BY <3>1 DEF ToSend
    <3> QED
      BY <1>2, <3>2 DEF Drained
  <2>6. \A t \in Tids : x.buf[t] = IF t \in DOMAIN ToSend(x) THEN ToSend(x)[t] ELSE 0
    BY <1>1, ToSendFacts
  <2> HIDE DEF x
  <2>7. info'[srv'.u] = x
    BY <1>2, <2>3 DEF x
  <2> QED
    BY <1>2, <2>3, <2>4, <2>5, <2>6, <2>7 DEF Drained, x
<1>5. CASE x.state \in {"FIRED", "TERMINATING"} /\ DOMAIN ToSend(x) = {}
  <2>1. srv' = [srv EXCEPT !.at = "test"]
    BY <1>5 DEF GetData
  <2>2. SrvGoes("test", srv.list, srv.pkg)
    BY <2>1 DEF SInv, Shape, SrvGoes
  <2>3. srv'.at = "test" /\ srv'.mode = srv.mode /\ srv'.u = srv.u
    BY <2>2, SrvGoesFacts
  <2>4. srv'.final = srv.final
    BY <2>2, SrvGoesFacts
  <2> QED
    BY <1>2, <2>3, <2>4 DEF Drained
<1> QED
  BY <1>3, <1>4, <1>5

LEMMA SendBufDrained ==
  ASSUME SInv, Drained, SendBuf, NumTids <= 2
  PROVE  Drained'
<1> DEFINE x == info[srv.u]
<1> DEFINE t == Min(DOMAIN srv.list)
<1> DEFINE rest == [s \in DOMAIN srv.list \ {t} |-> srv.list[s]]
<1> DEFINE y == DataSent(x, t, srv.list[t])
<1> DEFINE at == IF DOMAIN rest = {} THEN "get" ELSE "send"
<1>1. x \in Infos /\ EndOK(x) /\ srv.u \in Infoes /\ srv.at = "send"
  BY ServedIsHeld DEF SendBuf
<1>2. CASE ~srv.final /\ srv.pkg = 2
  BY <1>2, DoneWithoutFlush DEF SendBuf
<1>3. srv.final => srv.pkg \in {0, 1}
  BY <1>1 DEF Drained
<1>4. CASE srv.pkg # 2
  <2>1. srv' = [srv EXCEPT !.pkg = @ + 1, !.list = rest, !.at = at]
    BY <1>4 DEF SendBuf
  <2>2. SrvGoes(at, rest, srv.pkg + 1)
    BY <2>1 DEF SInv, Shape, SrvGoes
  <2>3. /\ srv'.at = at /\ srv'.mode = srv.mode /\ srv'.u = srv.u
        /\ srv'.pkg = srv.pkg + 1 /\ srv'.list = rest
    BY <2>2, SrvGoesFacts
  <2>4. srv'.final = srv.final
    BY <2>2, SrvGoesFacts
  <2>5. CASE ~srv.final
    <3>1. srv'.final = FALSE
      BY <2>4, <2>5, Zenon DEF SInv, TypeOK
    <3> QED
      BY <2>3, <3>1, NoFlush
  <2>6. CASE srv.final
    <3>1. DOMAIN srv.list \subseteq Tids /\ DOMAIN srv.list # {}
      BY <1>1 DEF SInv, TypeOK, Listed
    <3>2. t \in DOMAIN srv.list /\ t \in Tids /\ \A s \in DOMAIN srv.list : t <= s
      BY <3>1, MinFacts
    <3>3. /\ srv.list[t] \in Nat /\ srv.list[t] <= x.buf[t]
          /\ \A s \in Tids : x.buf[s] = IF s \in DOMAIN srv.list THEN srv.list[s] ELSE 0
      BY <1>1, <2>6, <3>2 DEF SInv, Listed, Drained
    <3>4. /\ y.state = x.state /\ y.holdOff = x.holdOff
          /\ y.buf[t] = x.buf[t] - srv.list[t]
          /\ \A s \in Tids \ {t} : y.buf[s] = x.buf[s]
      BY <1>1, <3>2, <3>3, DataSentFacts
    <3>5. info' = [info EXCEPT ![srv.u] = y] /\ connected' = connected
      BY DEF SendBuf
    <3>6. info'[srv'.u] = y
      BY <1>1, <2>3, <3>5 DEF SInv, TypeOK
    <3>7. DOMAIN rest = DOMAIN srv.list \ {t} /\ \A s \in DOMAIN rest : rest[s] = srv.list[s]
      OBVIOUS
    <3>8. x.state = "TERMINATING" /\ x.holdOff = OneShot /\ connected /\ srv.mode # "work"
          /\ srv.pkg \in {0, 1} /\ (srv.pkg = 1 => DOMAIN srv.list = {1})
      BY <1>1, <2>6 DEF Drained
    <3>9. Tids \subseteq {0, 1}
      BY TriggerAssumption DEF Tids
    <3> HIDE DEF t, rest, x, y
    <3>10. \A s \in Tids : y.buf[s] = IF s \in DOMAIN rest THEN rest[s] ELSE 0
      <4> SUFFICES ASSUME NEW s \in Tids
                   PROVE  y.buf[s] = IF s \in DOMAIN rest THEN rest[s] ELSE 0
        OBVIOUS
      <4>1. CASE s = t
        BY <3>2, <3>3, <3>4, <3>7, <4>1
      <4>2. CASE s # t
        BY <3>3, <3>4, <3>7, <4>2
      <4> QED
        BY <4>1, <4>2
    <3>11. DOMAIN rest = {} => \A s \in Tids : y.buf[s] = 0
      BY <3>10
    <3>12. DOMAIN rest # {} => srv.pkg = 0 /\ DOMAIN rest = {1}
      <4>1. srv.pkg = 1 => DOMAIN rest = {}
        BY <3>2, <3>7, <3>8
      <4>2. DOMAIN rest # {} => DOMAIN rest = {1}
        BY <3>1, <3>2, <3>7, <3>9
      <4> QED
        BY <3>8, <4>1, <4>2
    <3>13. srv'.at \in {"get", "send"} /\ (srv'.at = "get" <=> DOMAIN rest = {})
      BY <2>3
    <3>14. srv'.at = "get" => \A s \in Tids : info'[srv'.u].buf[s] = 0
      BY <3>6, <3>11, <3>13
    <3>15. srv'.at = "send" =>
             /\ srv'.pkg \in {0, 1} /\ (srv'.pkg = 1 => DOMAIN srv'.list = {1})
             /\ \A s \in Tids :
                  info'[srv'.u].buf[s] = IF s \in DOMAIN srv'.list THEN srv'.list[s] ELSE 0
      <4> SUFFICES ASSUME srv'.at = "send"
                   PROVE  /\ srv'.pkg \in {0, 1} /\ DOMAIN srv'.list = {1}
                          /\ \A s \in Tids : info'[srv'.u].buf[s] =
                               IF s \in DOMAIN srv'.list THEN srv'.list[s] ELSE 0
        OBVIOUS
      <4>1. srv.pkg = 0 /\ DOMAIN rest = {1}
        BY <3>12, <3>13
      <4>2. srv'.pkg = 1 /\ srv'.list = rest
        BY <2>3, <4>1
      <4>3. \A s \in Tids : info'[srv'.u].buf[s] =
                               IF s \in DOMAIN srv'.list THEN srv'.list[s] ELSE 0
        BY <3>6, <3>10, <4>2
      <4> QED
        BY <4>1, <4>2, <4>3
    <3>16. connected' /\ info'[srv'.u].state = "TERMINATING"
           /\ info'[srv'.u].holdOff = OneShot /\ srv'.mode # "work"
      BY <2>3, <3>4, <3>5, <3>6, <3>8
    <3> QED
      BY <3>13, <3>14, <3>15, <3>16 DEF Drained
  <2> QED
    BY <2>5, <2>6
<1> QED
  BY <1>2, <1>3, <1>4

LEMMA PrepareDrained ==
  ASSUME SInv, Drained, PrepareFinalFlush
  PROVE  Drained'
<1> DEFINE x == info[srv.u]
<1> DEFINE y == PrepareForFinalFlush(x)
<1> DEFINE final == connected /\ Flushes(info[srv.u])
<1>1. x \in Infos /\ EndOK(x) /\ srv.u \in Infoes /\ srv.at = "prepare" /\ srv.mode # "work"
      /\ srv.pkg = 0
  BY DEF PrepareFinalFlush, SInv, TypeOK, Ends, Flushing, Drained
<1>2. Flushes(x) => y.state = "TERMINATING" /\ y.holdOff = OneShot
  BY <1>1, FlushFacts
<1>3. info' = [info EXCEPT ![srv.u] = y] /\ uploadSem' = 1 /\ connected' = connected
  BY DEF PrepareFinalFlush
<1>4. srv' = [srv EXCEPT !.at = "pend", !.final = final]
  BY DEF PrepareFinalFlush
<1>5. info'[srv.u] = y
  BY <1>1, <1>3 DEF SInv, TypeOK
<1>6. final => connected /\ Flushes(x)
  OBVIOUS
<1> HIDE DEF x, y, final
<1>7. srv' = [at |-> "pend", mode |-> srv.mode, u |-> srv.u, list |-> srv.list,
              pkg |-> srv.pkg, final |-> final]
  BY <1>4 DEF SInv, Shape
<1>8. /\ srv'.at = "pend" /\ srv'.mode = srv.mode /\ srv'.u = srv.u
      /\ srv'.pkg = srv.pkg
  BY <1>7
<1>9. srv'.final = final
  BY <1>7, Zenon
<1> QED
  BY <1>1, <1>2, <1>3, <1>5, <1>6, <1>8, <1>9 DEF Drained

LEMMA ResetDrained ==
  ASSUME SInv, ResetInfo
  PROVE  Drained'
<1>1. PICK at, mode, u :
        /\ srv' = [at |-> at, mode |-> mode, u |-> u, list |-> << >>, pkg |-> 0,
                   final |-> FALSE]
  <2>1. \/ srv' = [AtPkt EXCEPT !.at = "prepare", !.mode = srv.mode, !.u = srv.u + 1]
        \/ srv' = ToUpload
        \/ srv' = [AtPkt EXCEPT !.at = "stopped"]
    BY DEF ResetInfo
  <2>2. CASE srv' = [AtPkt EXCEPT !.at = "prepare", !.mode = srv.mode, !.u = srv.u + 1]
    <3>1. srv' = [at |-> "prepare", mode |-> srv.mode, u |-> srv.u + 1, list |-> << >>,
                  pkg |-> 0, final |-> FALSE]
      BY <2>2 DEF AtPkt
    <3> QED
      BY <3>1, Zenon
  <2>3. CASE srv' = [AtPkt EXCEPT !.at = "pend"]
    <3>1. srv' = [at |-> "pend", mode |-> "work", u |-> 0, list |-> << >>,
                  pkg |-> 0, final |-> FALSE]
      BY <2>3 DEF AtPkt
    <3> QED
      BY <3>1, Zenon
  <2>4. CASE srv' = [AtPkt EXCEPT !.at = "stopped"]
    <3>1. srv' = [at |-> "stopped", mode |-> "work", u |-> 0, list |-> << >>,
                  pkg |-> 0, final |-> FALSE]
      BY <2>4 DEF AtPkt
    <3> QED
      BY <3>1, Zenon
  <2> QED
    BY <2>1, <2>2, <2>3, <2>4, Zenon DEF ToUpload
<1>2. srv'.final = FALSE
  BY <1>1, Zenon
<1>3. srv'.pkg = 0
  BY <1>1
<1> QED
  BY <1>2, <1>3, NoFlush

LEMMA DrainedStep ==
  ASSUME SInv, Drained, [Next]_vars, NumTids <= 2
  PROVE  Drained'
<1>1. CASE EndTest
  <2>1. srv' = Done
    BY <1>1 DEF EndTest
  <2>2. ASSUME srv.final PROVE srv.mode # "work" /\ Idle(info'[srv.u])
    <3>1. srv.mode # "work" /\ info[srv.u].state = "TERMINATING"
          /\ info[srv.u].holdOff = OneShot
      BY <1>1, <2>2 DEF EndTest, Drained
    <3>2. info' = [info EXCEPT ![srv.u] = Unarmed]
      BY <1>1, <3>1 DEF EndTest
    <3>3. info'[srv.u] = Unarmed
      BY <3>2 DEF SInv, TypeOK
    <3> QED
      BY <3>1, <3>3, UnarmedFacts
  <2> QED
    BY <2>1, <2>2, DoneDrained
<1>2. CASE SendFails
  <2>1. srv' = Done /\ info'[srv.u] = Unarmed
    BY <1>2 DEF SendFails, ForceDisconnect, SInv, TypeOK
  <2>2. srv.final => srv.mode # "work"
    BY DEF Drained
  <2> QED
    BY <2>1, <2>2, UnarmedFacts, DoneDrained
<1>3. CASE FreeInfo
  <2>1. srv' = [srv EXCEPT !.at = "reset"] /\ srv.mode # "work"
    BY <1>3 DEF FreeInfo, SInv, Flushing
  <2>2. SrvGoes("reset", srv.list, srv.pkg)
    BY <2>1 DEF SInv, Shape, SrvGoes
  <2>3. srv'.at = "reset" /\ srv'.mode = srv.mode /\ srv'.u = srv.u
    BY <2>2, SrvGoesFacts
  <2>4. srv'.final = srv.final
    BY <2>2, SrvGoesFacts
  <2>5. srv.at = "free" /\ info' = info
    BY <1>3 DEF FreeInfo
  <2> QED
    BY <2>1, <2>3, <2>4, <2>5 DEF Drained
<1>4. CASE UNCHANGED vars
  BY <1>4 DEF vars, Drained
<1> QED
  BY <1>1, <1>2, <1>3, <1>4, PacketDrained, OneStepDrained, PendDrained, GetDataDrained,
     SendBufDrained, PrepareDrained, ResetDrained DEF Next, Stopped, ServerWork

LEMMA DrainedInvariant == NumTids <= 2 => (Spec => []Drained)
<1> SUFFICES ASSUME NumTids <= 2 PROVE Spec => []Drained
  OBVIOUS
<1>1. Init => Drained
  <2> SUFFICES ASSUME Init PROVE Drained
    OBVIOUS
  <2>1. srv.final = FALSE
    BY AtPktFacts, Zenon DEF Init
  <2>2. srv.at # "prepare"
    BY AtPktFacts DEF Init
  <2> QED
    BY <2>1, <2>2, Zenon DEF Drained
<1>2. SInv /\ Drained /\ [Next]_vars => Drained'
  BY DrainedStep
<1> QED
  BY <1>1, <1>2, SessionInvariant, PTL DEF Spec

\* UploadPrepareForFinalFlush ("Let upload server run to ensure that term pkt is sent
\* to host"): with at most two sample times every running event is ended, its data
\* sent, before its buffers are freed. With three it is not.
THEOREM FinalFlushOfTwo == NumTids <= 2 => (Spec => []FinalFlush)
<1> SUFFICES ASSUME NumTids <= 2 PROVE Spec => []FinalFlush
  OBVIOUS
<1>1. Spec => []Drained
  BY DrainedInvariant
<1>2. Drained => FinalFlush
  BY DEF Drained, FinalFlush
<1> QED
  BY <1>1, <1>2, PTL

\* UploadLogInfoTerm frees before it resets the trigger: with at most two sample times
\* the Swi uses freed memory only when a disconnect request meets a trigger that is
\* armed, delayed or holding off, which the final flush does not end.
THEOREM FlushFreesQuietly == NumTids <= 2 => (Spec => FlushedIsQuiet)
<1> SUFFICES ASSUME NumTids <= 2 PROVE Spec => FlushedIsQuiet
  OBVIOUS
<1>1. ASSUME SInv, Drained, [Next]_vars, ~wild, wild'
      PROVE  srv.mode = "disconnect" /\ ~srv.final
  <2>1. CASE Packet
    BY <1>1, <2>1 DEF Packet, OpenConnection, OtherPkt, ModelStop, DisconnectRequest,
       Disconnected, SelectSignals, SelectTrigger, ArmTrigger, CancelLogging
  <2>2. CASE ServerWork
    BY <1>1, <2>2 DEF ServerWork, Pend, GetData, EndTest, SendBuf, SendFails,
       PrepareFinalFlush, FreeInfo, ResetInfo
  <2>3. CASE OneStep
    <3>1. PICK hits \in SUBSET Tids, u \in Infoes :
            alloc[u] = "freed" /\ UsesBufs(u, info'[u], hits)
      BY <1>1, <2>3 DEF OneStep
    <3>2. ~stopReq
      BY <2>3 DEF OneStep
    <3>3. srv.at = "reset" /\ srv.u = u /\ srv.mode \in {"disconnect", "shutdown"}
      BY <1>1, <3>1 DEF SInv, TypeOK, Memory, Flushing
    <3>4. srv.mode = "disconnect"
      BY <1>1, <3>2, <3>3 DEF SInv, Flushing
    <3>5. ~Idle(info[u])
      BY <3>1 DEF UsesBufs, Idle
    <3> QED
      BY <1>1, <3>3, <3>4, <3>5 DEF Drained
  <2> QED
    BY <1>1, <2>1, <2>2, <2>3 DEF Next, Stopped, vars
<1>2. Spec => []Drained
  BY DrainedInvariant
<1> QED
  BY <1>1, <1>2, SessionInvariant, PTL DEF Spec, FlushedIsQuiet

-----------------------------------------------------------------------------
\* What every function of the session keeps of an upInfo holds of all of them.
LEMMA KeptByAll ==
  ASSUME SInv, [Next]_vars, NEW Good, \A u \in Infoes : info[u] \in Good,
         Unarmed \in Good, \A tids \in SUBSET Tids : [Unarmed EXCEPT !.signals = tids] \in Good,
         \A x \in Infos \cap Good :
           /\ EndOK(x) /\ Idle(x) =>
                Arm(x) \in Good /\ \A tr \in Triggers : InitTrigger(x, tr) \in Good
           /\ EndOK(x) => Cancel(x) \in Good /\ PrepareForFinalFlush(x) \in Good
           /\ EndOK(x) /\ x.state = "TERMINATING" /\ x.holdOff # OneShot =>
                HoldOff(x) \in Good
           /\ EndOK(x) /\ x.state \in {"FIRED", "TERMINATING"} =>
                \A t \in Tids, n \in Nat : n <= x.buf[t] => DataSent(x, t, n) \in Good
           /\ EndOK(x) =>
                \A hits \in SUBSET Tids, in \in Inputs :
                  0 \in hits => Tick(x, hits, in) \in Good
  PROVE  \A u \in Infoes : info'[u] \in Good
<1>1. info \in [Infoes -> Infos \cap Good] /\ \A u \in Infoes : EndOK(info[u])
  BY DEF SInv, TypeOK, Ends
<1>2. srv.u \in Infoes
  BY DEF SInv, TypeOK
<1>3. CASE OneStep
  <2>1. PICK hits \in SUBSET Tids, in \in [Infoes -> Inputs] :
          0 \in hits /\ info' = [u \in Infoes |-> Tick(info[u], hits, in[u])]
    BY <1>3 DEF OneStep
  <2>2. ASSUME NEW u \in Infoes PROVE info'[u] \in Good
    <3>1. info'[u] = Tick(info[u], hits, in[u]) /\ in[u] \in Inputs
      BY <2>1
    <3> QED
      BY <1>1, <2>1, <3>1
  <2> QED
    BY <2>2
<1>4. CASE \E u \in Infoes : SelectSignals(u) \/ ArmTrigger(u) \/ CancelLogging(u)
                             \/ \E tr \in Triggers : SelectTrigger(u, tr)
  <2>1. PICK u \in Infoes : SelectSignals(u) \/ ArmTrigger(u) \/ CancelLogging(u)
                            \/ \E tr \in Triggers : SelectTrigger(u, tr)
    BY <1>4
  <2>2. PICK x \in Good : info' = [info EXCEPT ![u] = x]
    <3>1. CASE SelectSignals(u)
      <4>1. PICK tids \in SUBSET Tids :
              info' = [info EXCEPT ![u] = [Unarmed EXCEPT !.signals = tids]]
        BY <3>1 DEF SelectSignals
      <4>2. [Unarmed EXCEPT !.signals = tids] \in Good
        OBVIOUS
      <4> QED
        BY <4>1, <4>2
    <3>2. CASE ArmTrigger(u)
      BY <1>1, <3>2 DEF ArmTrigger
    <3>3. CASE CancelLogging(u)
      BY <1>1, <3>3 DEF CancelLogging
    <3>4. CASE \E tr \in Triggers : SelectTrigger(u, tr)
      <4>1. PICK tr \in Triggers : SelectTrigger(u, tr)
        BY <3>4
      <4>2. InitTrigger(info[u], tr) \in Good
        BY <1>1, <4>1 DEF SelectTrigger
      <4> QED
        BY <4>1, <4>2 DEF SelectTrigger
    <3> QED
      BY <2>1, <3>1, <3>2, <3>3, <3>4
  <2> QED
    BY <1>1, <2>2
<1>5. CASE OpenConnection \/ OtherPkt \/ ModelStop \/ DisconnectRequest
  BY <1>1, <1>5 DEF OpenConnection, OtherPkt, ModelStop, DisconnectRequest
<1>6. CASE Disconnected \/ SendFails
  BY <1>6 DEF Disconnected, SendFails, ForceDisconnect
<1>7. CASE Pend \/ GetData \/ FreeInfo
  BY <1>1, <1>7 DEF Pend, GetData, FreeInfo
<1>8. CASE EndTest \/ SendBuf \/ PrepareFinalFlush \/ ResetInfo
  <2>1. PICK x \in Good : info' = [info EXCEPT ![srv.u] = x]
    <3>1. CASE EndTest
      BY <1>1, <1>2, <3>1 DEF EndTest
    <3>2. CASE PrepareFinalFlush
      BY <1>1, <1>2, <3>2 DEF PrepareFinalFlush
    <3>3. CASE ResetInfo
      BY <1>1, <1>2, <3>3 DEF ResetInfo
    <3>4. CASE SendBuf
      <4> DEFINE t == Min(DOMAIN srv.list)
      <4>1. srv.at = "send" /\ info[srv.u].state \in {"FIRED", "TERMINATING"}
            /\ DOMAIN srv.list \subseteq Tids /\ DOMAIN srv.list # {}
        BY <3>4 DEF SendBuf, SInv, TypeOK, Served, Listed
      <4>2. t \in DOMAIN srv.list
        BY <4>1, MinFacts
      <4>3. t \in Tids /\ srv.list[t] \in Nat /\ srv.list[t] <= info[srv.u].buf[t]
        BY <4>1, <4>2 DEF SInv, Listed
      <4>4. DataSent(info[srv.u], t, srv.list[t]) \in Good
        BY <1>1, <1>2, <4>1, <4>3
      <4>5. info' = [info EXCEPT ![srv.u] = DataSent(info[srv.u], t, srv.list[t])]
        BY <3>4 DEF SendBuf
      <4> QED
        BY <4>4, <4>5
    <3> QED
      BY <1>8, <3>1, <3>2, <3>3, <3>4
  <2> QED
    BY <1>1, <1>2, <2>1
<1>9. CASE UNCHANGED vars
  BY <1>9 DEF vars
<1> QED
  BY <1>3, <1>4, <1>5, <1>6, <1>7, <1>8, <1>9 DEF Next, Packet, ServerWork, Stopped

-----------------------------------------------------------------------------
\* With one sample time preTrig.count is at most what the one buffer holds (less when
\* a window of one point is taken for a full buffer).
Window(x) == ~x.underFlow /\ (x.state = "ARMED" => x.preCount <= x.buf[0])

Windowed == {x \in Infos : Window(x)}

\* The functions that do not touch the window ...
LEMMA WindowKept ==
  ASSUME NEW x \in Windowed, NEW y \in Infos, y.underFlow = x.underFlow,
         y.state = "ARMED" => x.state = "ARMED" /\ y.preCount = x.preCount /\ y.buf = x.buf
  PROVE  y \in Windowed
BY DEF Windowed, Window

LEMMA WindowArmed ==
  ASSUME NEW x \in Windowed
  PROVE  Arm(x) \in Windowed
<1>1. x \in Infos /\ ~x.underFlow
  BY DEF Windowed, Window
<1>2. 0 \in Tids
  BY TriggerAssumption DEF Tids
<1>3. Arm(x).preCount <= Arm(x).buf[0]
  BY <1>1, <1>2 DEF Arm, Infos
<1>4. Arm(x).underFlow = x.underFlow
  BY <1>1 DEF Arm, Infos
<1> QED
  BY <1>1, <1>3, <1>4, ArmType DEF Windowed, Window

LEMMA WindowChecked ==
  ASSUME NEW x \in Windowed
  PROVE  CheckTrigger(x) \in Windowed
<1>1. x \in Infos /\ CheckTrigger(x) \in Infos
  BY CheckTriggerKeeps DEF Windowed
<1>2. CASE x.state = "HOLDING_OFF" /\ x.count = x.holdOff
  BY <1>2, WindowArmed DEF CheckTrigger
<1>3. CASE ~ (x.state = "HOLDING_OFF" /\ x.count = x.holdOff)
  <2>1. \/ CheckTrigger(x) = x
        \/ x.state # "ARMED" /\ CheckTrigger(x) = [x EXCEPT !.count = @ + 1]
        \/ CheckTrigger(x) = [x EXCEPT !.state = "FIRED", !.count = x.preCount]
    BY <1>3 DEF CheckTrigger
  <2>2. CheckTrigger(x).underFlow = x.underFlow
    BY <1>1, <2>1 DEF Infos
  <2>3. CheckTrigger(x) = x \/ CheckTrigger(x).state # "ARMED"
    BY <1>1, <2>1 DEF Infos
  <2> QED
    BY <1>1, <2>2, <2>3, WindowKept
<1> QED
  BY <1>2, <1>3

LEMMA WindowEnded ==
  ASSUME NEW x \in Windowed
  PROVE  CheckEndTrigger(x) \in Windowed
<1>1. x \in Infos /\ CheckEndTrigger(x) \in Infos
  BY CheckEndTriggerKeeps DEF Windowed
<1>2. CASE x.state # "FIRED"
  BY <1>2 DEF CheckEndTrigger
<1>3. CASE x.state = "FIRED"
  <2>1. CheckEndTrigger(x) =
          [x EXCEPT !.count = @ + 1,
                    !.state = IF x.count + 1 = x.duration THEN "TERMINATING" ELSE @]
    BY <1>3 DEF CheckEndTrigger
  <2>2. CheckEndTrigger(x).underFlow = x.underFlow
    BY <1>1, <2>1 DEF Infos
  <2>3. CheckEndTrigger(x).state # "ARMED"
    BY <1>1, <1>3, <2>1 DEF Infos
  <2> QED
    BY <1>1, <2>2, <2>3, WindowKept
<1> QED
  BY <1>2, <1>3

\* ... and the one that slides it: a full window of at least one point is in the buffer.
LEMMA WindowSlides ==
  ASSUME NEW x \in Windowed, x.state = "ARMED", x.preDur > 0
  PROVE  Slide(x, 0) \in Windowed
<1>1. /\ x \in Infos /\ x.preCount <= x.buf[0] /\ 0 \in Tids
      /\ x.buf \in [Tids -> 0 .. BufPoints] /\ x.preCount \in Nat /\ x.preDur \in Nat
      /\ BufPoints \in Nat
  BY TriggerAssumption DEF Windowed, Window, Infos, Tids
<1>2. x.underFlow = FALSE
  <2>1. x.underFlow \in BOOLEAN /\ ~x.underFlow
    BY <1>1 DEF Windowed, Window, Infos
  <2> QED
    BY <2>1, Zenon
<1>3. Slide(x, 0) \in Infos
  BY <1>1, SlideFacts
<1>4. CASE x.preCount # x.preDur
  BY <1>4 DEF Slide
<1>5. CASE x.preCount = x.preDur
  <2> DEFINE left == CASE x.buf[0] = 0 -> 0 [] x.buf[0] = 1 -> BufPoints
                       [] x.buf[0] > 1 -> x.buf[0] - 1
  <2> DEFINE new == [x.buf EXCEPT ![0] = left]
  <2>1. x.buf[0] > 0 /\ x.buf[0] <= BufPoints /\ x.buf[0] \in Int
    BY <1>1, <1>5
  <2>2. left \in Nat /\ x.preCount - 1 <= left
    BY <1>1, <1>5, <2>1
  <2>3. Slide(x, 0) =
          [x EXCEPT !.preCount = x.preCount - 1, !.buf = new, !.points = x.points - 1,
                    !.underFlow = x.underFlow \/ x.buf[0] = 0]
    BY <1>1, <1>5 DEF Slide, Infos
  <2>4. (x.underFlow \/ x.buf[0] = 0) = FALSE
    <3>1. x.buf[0] # 0
      BY <2>1
    <3> QED
      BY <1>2, <3>1, Zenon
  <2> HIDE DEF left
  <2>5. new[0] = left
    BY <1>1
  <2> HIDE DEF new
  <2>6. Slide(x, 0).preCount = x.preCount - 1 /\ Slide(x, 0).buf = new
    BY <1>1, <2>3 DEF Infos
  <2>7. Slide(x, 0).underFlow = (x.underFlow \/ x.buf[0] = 0)
    BY <1>1, <2>3 DEF Infos
  <2>8. ~Slide(x, 0).underFlow
    BY <2>4, <2>7, Zenon
  <2>9. Slide(x, 0).preCount <= Slide(x, 0).buf[0]
    BY <2>2, <2>5, <2>6
  <2> QED
    BY <1>3, <2>8, <2>9 DEF Windowed, Window
<1> QED
  BY <1>4, <1>5

LEMMA WindowFired ==
  ASSUME NEW x \in Windowed, NEW t \in Tids, NEW crosses
  PROVE  LET f == Fire(x, t, crosses) IN f \in Windowed /\ (f.state = "ARMED" => f = x)
<1> DEFINE f == Fire(x, t, crosses)
<1>1. x \in Infos /\ f \in Infos
  BY FireKeeps DEF Windowed
<1>2. \/ f = x
      \/ f = [x EXCEPT !.state = "FIRED"]
      \/ f = [x EXCEPT !.state = "FIRED", !.count = x.preCount]
      \/ f = [x EXCEPT !.state = "DELAYED", !.count = 1]
  BY DEF Fire
<1> HIDE DEF f
<1>3. f.underFlow = x.underFlow
  BY <1>1, <1>2 DEF Infos
<1>4. f = x \/ f.state # "ARMED"
  BY <1>1, <1>2 DEF Infos
<1>5. f \in Windowed
  BY <1>1, <1>3, <1>4, WindowKept
<1> QED
  BY <1>4, <1>5 DEF f

LEMMA WindowAdd ==
  ASSUME NEW x \in Windowed, x.state \in {"ARMED", "FIRED"}, NEW in
  PROVE  Add(x, 0, in) \in Windowed
<1> DEFINE y == Add(x, 0, in)
<1>1. x \in Infos /\ 0 \in Tids
  BY TriggerAssumption DEF Windowed, Tids
<1>2. y \in Infos
  BY <1>1, AddKeeps
<1>3. CASE ~Fits(x, 0, in)
  <2>1. y = x \/ y = [x EXCEPT !.overFlow = TRUE, !.state = "TERMINATING"]
    BY <1>3 DEF Add, GiveUp
  <2> HIDE DEF y
  <2>2. y = x \/ y.state # "ARMED"
    BY <1>1, <2>1 DEF Infos
  <2>3. y.underFlow = x.underFlow
    BY <1>1, <2>1 DEF Infos
  <2> QED
    BY <1>2, <2>2, <2>3, WindowKept DEF y
<1>4. CASE Fits(x, 0, in) /\ 0 \notin in.active
  <2>1. y = Skip(x, 0)
    BY <1>4 DEF Add
  <2>2. y.buf = x.buf /\ y.preCount = x.preCount /\ y.state = x.state
    BY <1>1, <2>1, SkipFacts DEF SameEvent
  <2>3. y.underFlow = x.underFlow
    BY <1>1, <2>1, SkipFacts
  <2> QED
    BY <1>2, <2>2, <2>3, WindowKept
<1>5. CASE Fits(x, 0, in) /\ 0 \in in.active
  <2>1. y = Store(x, 0) /\ x.buf[0] < BufPoints
    BY <1>5 DEF Add, Fits
  <2>2. /\ y.buf = [x.buf EXCEPT ![0] = @ + 1]
        /\ y.preCount = IF x.state = "ARMED" THEN x.preCount + 1 ELSE x.preCount
        /\ y.state = x.state
    BY <1>1, <2>1, StoreFacts DEF SameEvent
  <2>3. y.underFlow = x.underFlow
    BY <1>1, <2>1 DEF Store, Infos
  <2>4. /\ x.buf \in [Tids -> 0 .. BufPoints] /\ x.preCount \in Nat
        /\ x.buf[0] \in Int
    BY <1>1, TriggerAssumption DEF Infos
  <2>5. x.state = "ARMED" => x.preCount <= x.buf[0]
    BY DEF Windowed, Window
  <2> HIDE DEF y
  <2>6. y.state = "ARMED" => y.preCount <= y.buf[0]
    BY <1>1, <2>2, <2>4, <2>5
  <2>7. ~y.underFlow
    BY <2>3 DEF Windowed, Window
  <2> QED
    BY <1>2, <2>6, <2>7 DEF Windowed, Window, y
<1> QED
  BY <1>3, <1>4, <1>5

LEMMA WindowAdded ==
  ASSUME NEW x \in Windowed, NEW in, NumTids = 1
  PROVE  AddTimePoint(x, 0, in) \in Windowed
<1> DEFINE f == Fire(x, 0, in.crosses)
<1> DEFINE y == AddTimePoint(x, 0, in)
<1>0. 0 \in Tids /\ x \in Infos
  BY DEF Tids, Windowed
<1>1. f \in Windowed /\ f \in Infos
  BY <1>0, WindowFired DEF Windowed
<1>2. \/ y = f
      \/ y = Skip(f, 0)
      \/ f.state = "ARMED" /\ f.preDur > 0 /\ y = Add(Slide(f, 0), 0, in)
      \/ f.state = "FIRED" /\ y = Add(f, 0, in)
  BY <1>0, AddTimePointCases, Zenon
<1>3. y \in Infos
  BY <1>0, AddTimePointKeeps
<1> HIDE DEF f, y
<1>4. ASSUME y = Skip(f, 0) PROVE y \in Windowed
  <2>1. y.buf = f.buf /\ y.preCount = f.preCount /\ y.state = f.state
    BY <1>0, <1>1, <1>4, SkipFacts DEF SameEvent
  <2>2. y.underFlow = f.underFlow
    BY <1>0, <1>1, <1>4, SkipFacts
  <2> QED
    BY <1>1, <1>3, <2>1, <2>2, WindowKept
<1>5. ASSUME f.state = "ARMED", f.preDur > 0, y = Add(Slide(f, 0), 0, in)
      PROVE  y \in Windowed
  <2>1. Slide(f, 0) \in Windowed
    BY <1>1, <1>5, WindowSlides
  <2>2. Slide(f, 0).state = "ARMED"
    BY <1>0, <1>1, <1>5, SlideFacts DEF SameEvent
  <2> QED
    BY <1>5, <2>1, <2>2, WindowAdd
<1>6. ASSUME f.state = "FIRED", y = Add(f, 0, in) PROVE y \in Windowed
  BY <1>1, <1>6, WindowAdd
<1>7. y \in Windowed
  BY <1>1, <1>2, <1>4, <1>5, <1>6
<1> QED
  BY <1>7 DEF y

LEMMA WindowTick ==
  ASSUME NEW x \in Windowed, NEW hits, NEW in, NumTids = 1
  PROVE  Tick(x, hits, in) \in Windowed
<1>1. CheckTrigger(x) \in Windowed
  BY WindowChecked
<1>2. ASSUME NEW y \in Windowed, NEW t \in Tids PROVE AddTimePoint(y, t, in) \in Windowed
  <2>1. t = 0
    BY DEF Tids
  <2> QED
    BY <2>1, WindowAdded
<1>3. Uploaded(CheckTrigger(x), hits, in)[NumTids] \in Windowed
  BY <1>1, <1>2, UploadedAll
<1> QED
  BY <1>3, WindowEnded DEF Tick

LEMMA WindowStep ==
  ASSUME SInv, [Next]_vars, NumTids = 1, \A u \in Infoes : info[u] \in Windowed
  PROVE  \A u \in Infoes : info'[u] \in Windowed
<1>1. Unarmed \in Windowed
  <2>1. ~Unarmed.underFlow /\ Unarmed.state # "ARMED"
    BY DEF Unarmed
  <2> QED
    BY <2>1, UnarmedFacts DEF Windowed, Window
<1>4. ASSUME NEW tids \in SUBSET Tids PROVE [Unarmed EXCEPT !.signals = tids] \in Windowed
  <2> DEFINE y == [Unarmed EXCEPT !.signals = tids]
  <2>1. y \in Infos /\ Idle(y)
    BY SelectedFacts
  <2>2. y.underFlow = Unarmed.underFlow
    BY UnarmedFacts DEF Infos
  <2> HIDE DEF y
  <2>3. y.state # "ARMED"
    BY <2>1 DEF Idle
  <2> QED
    BY <1>1, <2>1, <2>2, <2>3, WindowKept DEF y
<1>2. ASSUME NEW x \in Infos \cap Windowed
      PROVE  /\ EndOK(x) /\ Idle(x) =>
                  Arm(x) \in Windowed /\ \A tr \in Triggers : InitTrigger(x, tr) \in Windowed
             /\ EndOK(x) => Cancel(x) \in Windowed /\ PrepareForFinalFlush(x) \in Windowed
             /\ EndOK(x) /\ x.state = "TERMINATING" /\ x.holdOff # OneShot =>
                  HoldOff(x) \in Windowed
             /\ EndOK(x) /\ x.state \in {"FIRED", "TERMINATING"} =>
                  \A t \in Tids, n \in Nat : n <= x.buf[t] => DataSent(x, t, n) \in Windowed
             /\ EndOK(x) =>
                  \A hits \in SUBSET Tids, in \in Inputs :
                    0 \in hits => Tick(x, hits, in) \in Windowed
  <2>1. Arm(x) \in Windowed
    BY WindowArmed
  <2>2. ASSUME EndOK(x), Idle(x), NEW tr \in Triggers PROVE InitTrigger(x, tr) \in Windowed
    <3>1. InitTrigger(x, tr) \in Infos /\ Idle(InitTrigger(x, tr))
      BY <2>2, InitTriggerFacts
    <3>2. InitTrigger(x, tr).underFlow = x.underFlow
      BY DEF InitTrigger, Infos
    <3> QED
      BY <3>1, <3>2, WindowKept DEF Idle
  <2>3. Cancel(x) \in Windowed
    <3>1. CASE x.state = "UNARMED"
      BY <3>1 DEF Cancel
    <3>2. CASE x.state # "UNARMED"
      <4>1. Cancel(x) = [x EXCEPT !.state = "TERMINATING", !.holdOff = OneShot,
                                  !.cancelled = TRUE]
        BY <3>2 DEF Cancel
      <4>2. Cancel(x) \in Infos
        <5>1. "TERMINATING" \in States /\ OneShot \in Int
          BY DEF States, OneShot
        <5> QED
          BY <4>1, <5>1 DEF Infos
      <4>3. Cancel(x).state # "ARMED"
        BY <4>1 DEF Infos
      <4>4. Cancel(x).underFlow = x.underFlow
        BY <4>1 DEF Infos
      <4> QED
        BY <4>2, <4>3, <4>4, WindowKept
    <3> QED
      BY <3>1, <3>2
  <2>4. PrepareForFinalFlush(x) \in Windowed
    <3>1. CASE ~Flushes(x)
      BY <3>1 DEF PrepareForFinalFlush
    <3>2. CASE Flushes(x)
      <4> DEFINE y == PrepareForFinalFlush(x)
      <4>1. y = [x EXCEPT !.state = "TERMINATING", !.holdOff = OneShot]
        BY <3>2 DEF PrepareForFinalFlush
      <4>2. y \in Infos
        <5>1. "TERMINATING" \in States /\ OneShot \in Int
          BY DEF States, OneShot
        <5> QED
          BY <4>1, <5>1 DEF Infos
      <4>3. y.state # "ARMED"
        BY <4>1 DEF Infos
      <4>4. y.underFlow = x.underFlow
        BY <4>1 DEF Infos
      <4> QED
        BY <4>2, <4>3, <4>4, WindowKept
    <3> QED
      BY <3>1, <3>2
  <2>5. HoldOff(x) \in Windowed
    <3>1. HoldOff(x) \in Infos
      <4>1. "HOLDING_OFF" \in States
        BY DEF States
      <4> QED
        BY <4>1 DEF HoldOff, Infos
    <3>2. HoldOff(x).state # "ARMED"
      BY DEF HoldOff, Infos
    <3>3. HoldOff(x).underFlow = x.underFlow
      BY DEF HoldOff, Infos
    <3> QED
      BY <3>1, <3>2, <3>3, WindowKept
  <2>6. ASSUME x.state \in {"FIRED", "TERMINATING"}, NEW t \in Tids, NEW n \in Nat,
               n <= x.buf[t]
        PROVE  DataSent(x, t, n) \in Windowed
    <3>1. [x.buf EXCEPT ![t] = @ - n] \in [Tids -> 0 .. BufPoints]
      BY <2>6, TriggerAssumption DEF Infos
    <3>2. DataSent(x, t, n) \in Infos
      BY <3>1 DEF DataSent, Infos
    <3>3. DataSent(x, t, n).state # "ARMED"
      BY <2>6 DEF DataSent, Infos
    <3>4. DataSent(x, t, n).underFlow = x.underFlow
      BY DEF DataSent, Infos
    <3> QED
      BY <3>2, <3>3, <3>4, WindowKept
  <2>7. \A hits, in : Tick(x, hits, in) \in Windowed
    BY WindowTick
  <2> QED
    BY <2>1, <2>2, <2>3, <2>4, <2>5, <2>6, <2>7
<1> DEFINE Good == Windowed
<1>3. \A u \in Infoes : info[u] \in Good
  OBVIOUS
<1> QED
  BY <1>1, <1>2, <1>3, <1>4, KeptByAll

\* UploadBufAddTimePoint, "Advance the tail (we don't need the oldest point anymore)":
\* with one sample time the pre-trigger only drops a point that is there. With two it
\* does not.
THEOREM WindowOfOneRate == NumTids = 1 => (Spec => []PreTrigDropsOldest)
<1> SUFFICES ASSUME NumTids = 1 PROVE Spec => []PreTrigDropsOldest
  OBVIOUS
<1> DEFINE All == \A u \in Infoes : info[u] \in Windowed
<1>1. Init => All
  <2> SUFFICES ASSUME Init, NEW u \in Infoes PROVE info[u] \in Windowed
    OBVIOUS
  <2>1. info[u] = Unarmed
    BY DEF Init
  <2>2. ~Unarmed.underFlow /\ Unarmed.state # "ARMED"
    BY DEF Unarmed
  <2> QED
    BY <2>1, <2>2, UnarmedFacts DEF Windowed, Window
<1>2. SInv /\ All /\ [Next]_vars => All'
  BY WindowStep
<1>3. All => PreTrigDropsOldest
  BY DEF Windowed, Window, PreTrigDropsOldest
<1> QED
  BY <1>1, <1>2, <1>3, SessionInvariant, PTL DEF Spec

-----------------------------------------------------------------------------
\* How long an event is, when the host selects no pre-trigger or there is one rate.
NoPreTrig == \A tr \in Triggers : tr.delay >= 0

\* In a tick, where k is 0 before the base rate's turn and 1 after it: the points of
\* the window are counted by preTrig.count, those of a running event by count, which
\* lacks this tick; a manual trigger does not get past the base rate.
Running(x, k) ==
  /\ x.preDur = 0 \/ NumTids = 1
  /\ x.state \in {"ARMED", "DELAYED"} =>
       x.points = x.preCount /\ x.skipped = 0 /\ ~x.overFlow
  /\ x.state = "ARMED" => x.count = 0 /\ (x.manual => k = 0 /\ x.preCount = 0)
  /\ x.state = "DELAYED" => x.delay > 0
  /\ x.state = "FIRED" => ~x.overFlow /\ x.points + x.skipped = x.count + k - Missed(x)

Timed(x) == Running(x, 0)

\* What a step of the tick of x leaves alone; an event that it ends overflows.
Settings(x, y) ==
  /\ y.manual = x.manual /\ y.tid = x.tid /\ y.delay = x.delay
  /\ y.duration = x.duration /\ y.preDur = x.preDur

Within(x, y) ==
  /\ Settings(x, y)
  /\ y.state = "TERMINATING" => y.overFlow \/ x.state = "TERMINATING"

LEMMA WithinComposes ==
  ASSUME NEW x, NEW y, NEW z, Within(x, y), Within(y, z),
         y.state = "TERMINATING" => z = y
  PROVE  Within(x, z)
BY DEF Within, Settings

LEMMA SameMissed ==
  ASSUME NEW x, NEW y, Settings(x, y)
  PROVE  Missed(y) = Missed(x)
BY DEF Missed, Settings

LEMMA TimedArmed ==
  ASSUME NEW x \in Infos, x.preDur = 0 \/ NumTids = 1
  PROVE  Timed(Arm(x)) /\ Settings(x, Arm(x)) /\ Arm(x).state = "ARMED"
<1>1. /\ Arm(x).state = "ARMED" /\ Arm(x).points = 0 /\ Arm(x).count = 0
      /\ Arm(x).preCount = 0 /\ Arm(x).preDur = x.preDur /\ Arm(x).skipped = 0
  BY DEF Arm, Infos
<1>2. ~Arm(x).overFlow
  BY DEF Arm, Infos
<1>3. /\ Arm(x).manual = x.manual /\ Arm(x).tid = x.tid /\ Arm(x).duration = x.duration
      /\ Arm(x).delay = x.delay
  BY DEF Arm, Infos
<1> QED
  BY <1>1, <1>2, <1>3 DEF Timed, Running, Settings

LEMMA TimedChecked ==
  ASSUME NEW x \in Infos, Timed(x)
  PROVE  Timed(CheckTrigger(x)) /\ Within(x, CheckTrigger(x))
<1> DEFINE w == CheckTrigger(x)
<1>1. x.preDur = 0 \/ NumTids = 1
  BY DEF Timed, Running
<1>2. CASE x.state = "HOLDING_OFF" /\ x.count = x.holdOff
  <2>1. w = Arm(x)
    BY <1>2 DEF CheckTrigger
  <2> QED
    BY <1>1, <2>1, TimedArmed DEF Within
<1>3. CASE x.state \in {"HOLDING_OFF", "DELAYED"} /\ w = [x EXCEPT !.count = @ + 1]
  <2>1. /\ w.state = x.state /\ w.points = x.points /\ w.preDur = x.preDur
        /\ w.preCount = x.preCount /\ w.tid = x.tid /\ w.duration = x.duration
        /\ w.skipped = x.skipped /\ w.delay = x.delay
    BY <1>3 DEF Infos
  <2>2. w.overFlow = x.overFlow
    BY <1>3 DEF Infos
  <2>3. w.manual = x.manual
    BY <1>3 DEF Infos
  <2> HIDE DEF w
  <2>4. Timed(w)
    BY <1>3, <2>1, <2>2 DEF Timed, Running
  <2>5. Within(x, w)
    BY <1>3, <2>1, <2>3 DEF Within, Settings
  <2> QED
    BY <2>4, <2>5 DEF w
<1>4. CASE x.state = "DELAYED" /\ w = [x EXCEPT !.state = "FIRED", !.count = x.preCount]
  <2>1. /\ w.state = "FIRED" /\ w.points = x.points /\ w.count = x.preCount
        /\ w.preDur = x.preDur /\ w.tid = x.tid /\ w.duration = x.duration
        /\ w.skipped = x.skipped /\ w.delay = x.delay
    BY <1>4 DEF Infos
  <2>2. w.overFlow = x.overFlow
    BY <1>4 DEF Infos
  <2>3. w.manual = x.manual
    BY <1>4 DEF Infos
  <2> HIDE DEF w
  <2>4. x.points = x.preCount /\ x.skipped = 0 /\ ~x.overFlow /\ x.delay > 0
        /\ x.preCount \in Nat /\ x.delay \in Nat
    BY <1>4 DEF Timed, Running, Infos
  <2>5. Missed(w) = 0
    BY <2>1, <2>4 DEF Missed
  <2>6. Timed(w)
    BY <1>1, <2>1, <2>2, <2>4, <2>5 DEF Timed, Running
  <2>7. Within(x, w)
    BY <2>1, <2>3 DEF Within, Settings
  <2> QED
    BY <2>6, <2>7 DEF w
<1>5. CASE w = x
  BY <1>5 DEF Within, Settings
<1> QED
  BY <1>2, <1>3, <1>4, <1>5 DEF CheckTrigger

\* Firing keeps the count; behind the base rate a trigger only fires that misses a point.
LEMMA FireRuns ==
  ASSUME NEW x \in Infos, NEW t \in Tids, NEW crosses, NEW k \in {0, 1}, Running(x, k),
         k = 0 <=> t = 0
  PROVE  LET f == Fire(x, t, crosses) IN
         /\ Running(f, k) /\ Within(x, f) /\ (f.state = "ARMED" => ~f.manual)
         /\ f.state = "TERMINATING" => f = x
<1> DEFINE f == Fire(x, t, crosses)
<1>1. \/ f = x /\ (x.state = "ARMED" => ~x.manual)
      \/ x.state = "ARMED" /\ x.manual /\ f = [x EXCEPT !.state = "FIRED"]
      \/ x.state = "ARMED" /\ ~x.manual /\ t = x.tid /\ x.delay = 0
         /\ f = [x EXCEPT !.state = "FIRED", !.count = x.preCount]
      \/ x.state = "ARMED" /\ ~x.manual /\ t = x.tid /\ x.delay # 0
         /\ f = [x EXCEPT !.state = "DELAYED", !.count = 1]
  BY DEF Fire
<1> HIDE DEF f
<1>2. CASE f = x /\ (x.state = "ARMED" => ~x.manual)
  <2>1. Within(x, x)
    BY DEF Within, Settings
  <2> QED
    BY <1>2, <2>1 DEF f
<1>3. CASE ~ (f = x /\ (x.state = "ARMED" => ~x.manual))
  <2>1. x.state = "ARMED"
    BY <1>1, <1>3
  <2>2. /\ f.preDur = x.preDur /\ f.preCount = x.preCount /\ f.points = x.points
        /\ f.skipped = x.skipped /\ f.tid = x.tid /\ f.duration = x.duration
        /\ f.delay = x.delay
    BY <1>1, <1>3 DEF Infos
  <2>3. f.overFlow = x.overFlow
    BY <1>1, <1>3 DEF Infos
  <2>4. f.manual = x.manual
    BY <1>1, <1>3 DEF Infos
  <2>5. /\ x.points = x.preCount /\ x.skipped = 0 /\ ~x.overFlow /\ x.count = 0
        /\ (x.manual => k = 0 /\ x.preCount = 0) /\ (x.preDur = 0 \/ NumTids = 1)
        /\ x.preCount \in Nat /\ x.delay \in Nat
    BY <2>1 DEF Running, Infos
  <2>6. \/ f.state = "FIRED" /\ f.count = 0 /\ x.manual
        \/ f.state = "FIRED" /\ f.count = x.preCount /\ ~x.manual /\ t = x.tid /\ x.delay = 0
        \/ f.state = "DELAYED" /\ x.delay # 0
    BY <1>1, <1>3, <2>5 DEF Infos
  <2>7. Within(x, f)
    BY <2>2, <2>4, <2>6 DEF Within, Settings
  <2>8. Missed(f) = Missed(x)
    BY <2>7, SameMissed DEF Within
  <2>9. f.state = "FIRED" => f.points + f.skipped = f.count + k - Missed(f)
    <3>1. CASE x.manual /\ f.state = "FIRED" /\ f.count = 0
      <4>1. Missed(x) = 0
        BY <3>1 DEF Missed
      <4> QED
        BY <2>2, <2>5, <2>8, <3>1, <4>1
    <3>2. CASE ~x.manual /\ f.state = "FIRED" /\ f.count = x.preCount /\ t = x.tid
                /\ x.delay = 0
      <4>1. Missed(x) = k
        BY <3>2 DEF Missed
      <4> QED
        BY <2>2, <2>5, <2>8, <3>2, <4>1
    <3> QED
      BY <2>6, <3>1, <3>2
  <2>10. Running(f, k)
    BY <2>2, <2>3, <2>5, <2>6, <2>9 DEF Running
  <2> QED
    BY <2>6, <2>7, <2>10 DEF f
<1> QED
  BY <1>2, <1>3

\* Sliding takes a point from the window and from its count.
LEMMA SlideRuns ==
  ASSUME NEW x \in Infos, Running(x, 0), x.state = "ARMED", ~x.manual, x.preDur > 0
  PROVE  LET y == Slide(x, 0) IN
         y \in Infos /\ Running(y, 0) /\ y.state = "ARMED" /\ ~y.manual /\ Within(x, y)
<1> DEFINE y == Slide(x, 0)
<1>1. 0 \in Tids
  BY TriggerAssumption DEF Tids
<1>2. y \in Infos /\ y.state = "ARMED"
  BY <1>1, SlideFacts DEF SameEvent
<1>3. CASE x.preCount # x.preDur
  BY <1>3 DEF Slide, Within, Settings
<1>4. CASE x.preCount = x.preDur
  <2> DEFINE new == [x.buf EXCEPT ![0] = CASE @ = 0 -> 0 [] @ = 1 -> BufPoints [] @ > 1 -> @ - 1]
  <2> DEFINE under == x.underFlow \/ x.buf[0] = 0
  <2>1. y = [x EXCEPT !.preCount = x.preCount - 1, !.buf = new, !.points = x.points - 1,
                      !.underFlow = under]
    BY <1>4 DEF Slide, Infos
  <2> HIDE DEF new, under, y
  <2>2. /\ y.preDur = x.preDur /\ y.preCount = x.preCount - 1 /\ y.points = x.points - 1
        /\ y.skipped = x.skipped /\ y.tid = x.tid /\ y.duration = x.duration
        /\ y.delay = x.delay /\ y.count = x.count
    BY <2>1 DEF Infos
  <2>3. y.overFlow = x.overFlow
    BY <2>1 DEF Infos
  <2>4. y.manual = x.manual
    BY <2>1 DEF Infos
  <2>5. Running(y, 0)
    BY <1>2, <2>2, <2>3, <2>4 DEF Running
  <2>6. Within(x, y)
    BY <1>2, <2>2, <2>4 DEF Within, Settings
  <2> QED
    BY <1>2, <2>4, <2>5, <2>6 DEF y
<1> QED
  BY <1>3, <1>4

\* A tick without a point to store.
LEMMA SkipRuns ==
  ASSUME NEW x \in Infos, NEW t \in Tids, NEW k \in {0, 1}, Running(x, k), k = 0 <=> t = 0,
         x.state = "ARMED" => ~x.manual, x.state \in {"ARMED", "FIRED"}
  PROVE  Running(Skip(x, t), 1) /\ Within(x, Skip(x, t))
<1> DEFINE y == Skip(x, t)
<1> DEFINE n == IF t = 0 /\ x.state = "FIRED" THEN x.skipped + 1 ELSE x.skipped
<1>1. y = [x EXCEPT !.skipped = n]
  BY DEF Skip, Infos
<1> HIDE DEF n, y
<1>2. /\ y.preDur = x.preDur /\ y.preCount = x.preCount /\ y.points = x.points
      /\ y.skipped = n /\ y.tid = x.tid /\ y.duration = x.duration /\ y.state = x.state
      /\ y.delay = x.delay /\ y.count = x.count
  BY <1>1 DEF Infos
<1>3. y.overFlow = x.overFlow
  BY <1>1 DEF Infos
<1>4. y.manual = x.manual
  BY <1>1 DEF Infos
<1>5. Within(x, y)
  BY <1>2, <1>4 DEF Within, Settings
<1>6. Missed(y) = Missed(x) /\ Missed(x) \in {0, 1}
  BY <1>5, SameMissed DEF Within, Missed
<1>7. y.state = "FIRED" => y.points + y.skipped = y.count + 1 - Missed(y)
  <2>1. x.points \in Int /\ x.skipped \in Int /\ x.count \in Int
    BY DEF Infos
  <2> QED
    BY <1>2, <1>6, <2>1 DEF Running, n
<1>8. Running(y, 1)
  BY <1>2, <1>3, <1>4, <1>7 DEF Running, n
<1> QED
  BY <1>5, <1>8 DEF y

\* A stored point.
LEMMA StoreRuns ==
  ASSUME NEW x \in Infos, NEW t \in Tids, NEW k \in {0, 1}, Running(x, k), k = 0 <=> t = 0,
         x.state = "ARMED" => ~x.manual /\ t = 0, x.state \in {"ARMED", "FIRED"},
         x.buf[t] < BufPoints
  PROVE  Running(Store(x, t), 1) /\ Within(x, Store(x, t))
<1> DEFINE y == Store(x, t)
<1>1. /\ y.points = IF t = 0 THEN x.points + 1 ELSE x.points
      /\ y.preCount = IF x.state = "ARMED" THEN x.preCount + 1 ELSE x.preCount
  BY StoreFacts
<1>2. /\ y.preDur = x.preDur /\ y.skipped = x.skipped /\ y.tid = x.tid
      /\ y.duration = x.duration /\ y.state = x.state
      /\ y.delay = x.delay /\ y.count = x.count
  BY DEF Store, Infos
<1>3. y.overFlow = x.overFlow
  BY DEF Store, Infos
<1>4. y.manual = x.manual
  BY DEF Store, Infos
<1> HIDE DEF y
<1>5. Within(x, y)
  BY <1>2, <1>4 DEF Within, Settings
<1>6. Missed(y) = Missed(x) /\ Missed(x) \in {0, 1}
  BY <1>5, SameMissed DEF Within, Missed
<1>7. x.points \in Int /\ x.skipped \in Int /\ x.count \in Int /\ x.preCount \in Int
  BY DEF Infos
<1>8. y.state = "FIRED" => y.points + y.skipped = y.count + 1 - Missed(y)
  BY <1>1, <1>2, <1>6, <1>7 DEF Running
<1>9. Running(y, 1)
  BY <1>1, <1>2, <1>3, <1>4, <1>7, <1>8 DEF Running
<1> QED
  BY <1>5, <1>9 DEF y

\* The point of sample time t is added, skipped or given up.
LEMMA AddRuns ==
  ASSUME NEW x \in Infos, NEW t \in Tids, NEW k \in {0, 1}, Running(x, k), k = 0 <=> t = 0,
         x.state = "ARMED" => ~x.manual /\ t = 0, x.state \in {"ARMED", "FIRED"}, NEW in
  PROVE  Running(Add(x, t, in), 1) /\ Within(x, Add(x, t, in))
<1>1. CASE ~Fits(x, t, in) /\ x.state = "ARMED"
  <2>1. Add(x, t, in) = x
    BY <1>1 DEF Add, GiveUp
  <2> QED
    BY <1>1, <2>1 DEF Running, Within, Settings
<1>2. CASE ~Fits(x, t, in) /\ x.state = "FIRED"
  <2> DEFINE y == [x EXCEPT !.overFlow = TRUE, !.state = "TERMINATING"]
  <2>1. Add(x, t, in) = y
    BY <1>2 DEF Add, GiveUp
  <2>2. /\ y.preDur = x.preDur /\ y.tid = x.tid /\ y.duration = x.duration
        /\ y.delay = x.delay /\ y.state = "TERMINATING"
    BY DEF Infos
  <2>3. y.manual = x.manual
    BY DEF Infos
  <2>4. y.overFlow
    BY DEF Infos
  <2> HIDE DEF y
  <2> QED
    BY <2>1, <2>2, <2>3, <2>4 DEF Running, Within, Settings
<1>3. CASE Fits(x, t, in) /\ t \notin in.active
  BY <1>3, SkipRuns DEF Add
<1>4. CASE Fits(x, t, in) /\ t \in in.active
  <2>1. x.buf[t] < BufPoints /\ Add(x, t, in) = Store(x, t)
    BY <1>4 DEF Add, Fits
  <2> QED
    BY <2>1, StoreRuns
<1> QED
  BY <1>1, <1>2, <1>3, <1>4

LEMMA PointRuns ==
  ASSUME NEW x \in Infos, NEW t \in Tids, NEW k \in {0, 1}, Running(x, k), k = 0 <=> t = 0,
         NEW in
  PROVE  LET y == AddTimePoint(x, t, in) IN
         /\ Running(y, 1) /\ Within(x, y)
         /\ x.state = "TERMINATING" => y = x
<1> DEFINE f == Fire(x, t, in.crosses)
<1> DEFINE y == AddTimePoint(x, t, in)
<1>1. f \in Infos
  BY FireKeeps
<1>2. /\ Running(f, k) /\ Within(x, f) /\ (f.state = "ARMED" => ~f.manual)
      /\ f.state = "TERMINATING" => f = x
  BY FireRuns
<1>3. \/ f.state # "FIRED" /\ y = f
      \/ (f.state = "ARMED" \/ f.state = "FIRED") /\ y = Skip(f, t)
      \/ f.state = "ARMED" /\ f.preDur > 0 /\ y = Add(Slide(f, t), t, in)
      \/ f.state = "FIRED" /\ y = Add(f, t, in)
  BY AddTimePointCases, Zenon
<1>4. x.state = "TERMINATING" => y = x
  BY AddTimePointKeeps DEF Kept
<1> HIDE DEF f, y
<1>5. ASSUME f.state # "FIRED", y = f PROVE Running(y, 1) /\ Within(x, y)
  BY <1>2, <1>5 DEF Running
<1>6. ASSUME f.state \in {"ARMED", "FIRED"}, Running(y, 1), Within(f, y)
      PROVE  Running(y, 1) /\ Within(x, y)
  BY <1>2, <1>6, WithinComposes
<1>7. ASSUME f.state \in {"ARMED", "FIRED"}, y = Skip(f, t)
      PROVE  Running(y, 1) /\ Within(x, y)
  <2>1. Running(y, 1) /\ Within(f, y)
    BY <1>1, <1>2, <1>7, SkipRuns
  <2> QED
    BY <1>6, <1>7, <2>1
<1>8. ASSUME f.state = "ARMED", f.preDur > 0, y = Add(Slide(f, t), t, in)
      PROVE  Running(y, 1) /\ Within(x, y)
  <2>1. t = 0 /\ k = 0
    <3>1. f.preDur \in Nat
      BY <1>1 DEF Infos
    <3>2. NumTids = 1
      BY <1>2, <1>8, <3>1 DEF Running
    <3> QED
      BY <3>2 DEF Tids
  <2> DEFINE s == Slide(f, t)
  <2>2. /\ s \in Infos /\ Running(s, 0) /\ s.state = "ARMED" /\ ~s.manual /\ Within(f, s)
    BY <1>1, <1>2, <1>8, <2>1, SlideRuns
  <2>3. y = Add(s, t, in)
    BY <1>8
  <2> HIDE DEF s
  <2>4. Running(y, 1) /\ Within(s, y)
    BY <2>1, <2>2, <2>3, AddRuns
  <2>5. Within(f, y)
    BY <2>2, <2>4, WithinComposes
  <2> QED
    BY <1>6, <1>8, <2>4, <2>5
<1>9. ASSUME f.state = "FIRED", y = Add(f, t, in)
      PROVE  Running(y, 1) /\ Within(x, y)
  <2>1. Running(y, 1) /\ Within(f, y)
    BY <1>1, <1>2, <1>9, AddRuns
  <2> QED
    BY <1>6, <1>9, <2>1
<1>10. Running(y, 1) /\ Within(x, y)
  BY <1>3, <1>5, <1>7, <1>8, <1>9
<1> QED
  BY <1>4, <1>10 DEF y

\* A whole tick keeps the count, and ends an event with its duration.
LEMMA TimedTick ==
  ASSUME NEW x \in Infos, Timed(x), NEW hits, 0 \in hits, NEW in
  PROVE  LET y == Tick(x, hits, in) IN
         /\ y \in Infos /\ Timed(y)
         /\ x.state # "TERMINATING" /\ y.state = "TERMINATING" /\ ~y.overFlow =>
              y.points + y.skipped = x.duration - Missed(x)
<1> DEFINE w == CheckTrigger(x)
<1> DEFINE P == {y \in Infos : Running(y, 1) /\ Within(x, y)}
<1> DEFINE z == Uploaded(w, hits, in)[NumTids]
<1> DEFINE y == CheckEndTrigger(z)
<1>1. w \in Infos /\ Running(w, 0) /\ Within(x, w) /\ (w.state = "TERMINATING" => w = x)
  <2>1. w \in Infos /\ Running(w, 0) /\ Within(x, w)
    BY CheckTriggerKeeps, TimedChecked DEF Timed
  <2>2. w.state = "TERMINATING" => w = x
    BY DEF CheckTrigger, Arm, Infos
  <2> QED
    BY <2>1, <2>2
<1>2. 1 \in 0 .. NumTids /\ 0 \in Tids
  BY TriggerAssumption DEF Tids
<1>3. Uploaded(w, hits, in)[1] = AddTimePoint(w, 0, in)
  <2> HIDE DEF w
  <2>1. Uploaded(w, hits, in)[0] = w
    BY UploadedUnfolds, TriggerAssumption
  <2>2. Uploaded(w, hits, in)[1] = UploadOf(Uploaded(w, hits, in)[0], 1, hits, in)
    <3> DEFINE f == Uploaded(w, hits, in)
    <3>1. ASSUME NEW n \in 1 .. NumTids PROVE f[n] = UploadOf(f[n - 1], n, hits, in)
      BY UploadedUnfolds, TriggerAssumption
    <3> HIDE DEF f
    <3>2. 1 \in 1 .. NumTids /\ 1 - 1 = 0
      BY TriggerAssumption
    <3>3. f[1] = UploadOf(f[1 - 1], 1, hits, in)
      BY <3>1, <3>2
    <3> QED
      BY <3>2, <3>3 DEF f
  <2> QED
    BY <2>1, <2>2 DEF UploadOf
<1>4. Uploaded(w, hits, in)[1] \in P
  <2> DEFINE v == AddTimePoint(w, 0, in)
  <2> HIDE DEF w
  <2>1. v \in Infos
    BY <1>1, <1>2, AddTimePointKeeps
  <2>2. Running(v, 1) /\ Within(w, v) /\ (w.state = "TERMINATING" => v = w)
    BY <1>1, <1>2, PointRuns
  <2> HIDE DEF v
  <2>3. Within(x, v)
    BY <1>1, <2>2, WithinComposes
  <2> QED
    BY <1>3, <2>1, <2>2, <2>3 DEF v
<1>5. \A v \in P : \A t \in Tids \cap hits : t >= 1 => AddTimePoint(v, t, in) \in P
  <2> SUFFICES ASSUME NEW v \in P, NEW t \in Tids \cap hits, t >= 1
               PROVE  AddTimePoint(v, t, in) \in P
    OBVIOUS
  <2>1. v \in Infos /\ Running(v, 1) /\ Within(x, v) /\ t # 0
    BY DEF Tids
  <2> DEFINE u == AddTimePoint(v, t, in)
  <2>2. u \in Infos
    BY <2>1, AddTimePointKeeps
  <2>3. Running(u, 1) /\ Within(v, u) /\ (v.state = "TERMINATING" => u = v)
    BY <2>1, PointRuns
  <2> HIDE DEF u
  <2>4. Within(x, u)
    BY <2>1, <2>3, WithinComposes
  <2> QED
    BY <2>2, <2>3, <2>4 DEF u
<1>6. z \in P
  <2> HIDE DEF P, w
  <2> QED
    BY <1>2, <1>4, <1>5, UploadedFrom
<1>7. z \in Infos /\ Running(z, 1) /\ Within(x, z)
  BY <1>6
<1>8. Tick(x, hits, in) = y /\ y \in Infos
  BY <1>7, CheckEndTriggerKeeps DEF Tick
<1> HIDE DEF w, z, P
<1>9. Missed(z) = Missed(x) /\ z.duration = x.duration
  BY <1>7, SameMissed DEF Within, Settings
<1>10. CASE z.state # "FIRED"
  <2>1. y = z
    BY <1>10 DEF CheckEndTrigger
  <2>2. Timed(z)
    BY <1>7, <1>10 DEF Timed, Running
  <2>3. z.state = "TERMINATING" /\ x.state # "TERMINATING" => z.overFlow
    BY <1>7 DEF Within
  <2> HIDE DEF y
  <2> QED
    BY <1>8, <2>1, <2>2, <2>3
<1>11. CASE z.state = "FIRED"
  <2>1. y = [z EXCEPT !.count = @ + 1,
                      !.state = IF z.count + 1 = z.duration THEN "TERMINATING" ELSE @]
    BY <1>11 DEF CheckEndTrigger
  <2> HIDE DEF y
  <2>2. /\ y.count = z.count + 1 /\ y.points = z.points /\ y.preDur = z.preDur
        /\ y.preCount = z.preCount /\ y.tid = z.tid /\ y.skipped = z.skipped
        /\ y.delay = z.delay /\ y.duration = z.duration
        /\ y.state = IF z.count + 1 = z.duration THEN "TERMINATING" ELSE "FIRED"
    BY <1>7, <1>11, <2>1 DEF Infos
  <2>3. y.overFlow = z.overFlow
    BY <1>7, <2>1 DEF Infos
  <2>4. y.manual = z.manual
    BY <1>7, <2>1 DEF Infos
  <2>5. z.points + z.skipped = z.count + 1 - Missed(z)
    BY <1>7, <1>11 DEF Running
  <2>10. ~z.overFlow /\ (z.preDur = 0 \/ NumTids = 1)
    BY <1>7, <1>11 DEF Running
  <2>6. Missed(y) = Missed(z) /\ Missed(z) \in {0, 1}
    BY <2>2, <2>4 DEF Missed
  <2>9. z.count \in Int
    BY <1>7 DEF Infos
  <2>7. Timed(y)
    <3>2. y.points + y.skipped = y.count + 0 - Missed(y)
      BY <2>2, <2>5, <2>6, <2>9
    <3> QED
      BY <2>2, <2>3, <2>10, <3>2 DEF Timed, Running
  <2>8. y.state = "TERMINATING" => y.points + y.skipped = x.duration - Missed(x)
    <3> SUFFICES ASSUME y.state = "TERMINATING"
                 PROVE  y.points + y.skipped = x.duration - Missed(x)
      OBVIOUS
    <3>1. z.count + 1 = z.duration
      BY <2>2
    <3>2. z.points + z.skipped = z.duration - Missed(z)
      BY <2>5, <2>6, <2>9, <3>1
    <3> QED
      BY <1>9, <2>2, <3>2
  <2> QED
    BY <1>8, <2>7, <2>8
<1> QED
  BY <1>10, <1>11

LEMMA TimedStep ==
  ASSUME SInv, [Next]_vars, NoPreTrig \/ NumTids = 1, \A u \in Infoes : Timed(info[u])
  PROVE  \A u \in Infoes : Timed(info'[u])
<1> DEFINE Good == {x \in Infos : Timed(x)}
\* Whatever ends an event or does not begin one.
<1>2. ASSUME NEW y \in Infos, y.preDur = 0 \/ NumTids = 1,
             y.state \in {"UNARMED", "TERMINATING", "HOLDING_OFF"}
      PROVE  y \in Good
  BY <1>2 DEF Timed, Running
<1>1. Unarmed \in Good
  <2>1. Unarmed.preDur = 0 /\ Unarmed.state = "UNARMED"
    BY DEF Unarmed
  <2> QED
    BY <1>2, <2>1, UnarmedFacts
<1>7. ASSUME NEW tids \in SUBSET Tids PROVE [Unarmed EXCEPT !.signals = tids] \in Good
  <2> DEFINE y == [Unarmed EXCEPT !.signals = tids]
  <2>1. y \in Infos /\ Idle(y)
    BY SelectedFacts
  <2>2. y.preDur = Unarmed.preDur /\ Unarmed.preDur = 0
    BY DEF Unarmed
  <2> HIDE DEF y
  <2>3. y \in Good
    BY <1>2, <2>1, <2>2 DEF Idle
  <2> QED
    BY <2>3 DEF y
<1>3. ASSUME NEW x \in Infos, Timed(x)
      PROVE  /\ EndOK(x) /\ Idle(x) =>
                  Arm(x) \in Good /\ \A tr \in Triggers : InitTrigger(x, tr) \in Good
             /\ EndOK(x) => Cancel(x) \in Good /\ PrepareForFinalFlush(x) \in Good
             /\ EndOK(x) /\ x.state = "TERMINATING" /\ x.holdOff # OneShot =>
                  HoldOff(x) \in Good
  <2>0. x.preDur = 0 \/ NumTids = 1
    BY <1>3 DEF Timed, Running
  <2>1. Arm(x) \in Good
    BY <2>0, ArmType, TimedArmed
  <2>2. ASSUME EndOK(x), Idle(x), NEW tr \in Triggers PROVE InitTrigger(x, tr) \in Good
    <3>1. InitTrigger(x, tr) \in Infos /\ InitTrigger(x, tr).state = "UNARMED"
      BY <2>2, InitTriggerFacts DEF Idle
    <3>2. NumTids = 1 \/ ~ (tr.delay < 0)
      <4>1. tr.delay \in Int /\ (NumTids = 1 \/ tr.delay >= 0)
        BY TriggerAssumption DEF NoPreTrig
      <4> QED
        BY <4>1
    <3>3. InitTrigger(x, tr).preDur = 0 \/ NumTids = 1
      BY <3>2 DEF InitTrigger, Infos
    <3> QED
      BY <1>2, <3>1, <3>3
  <2>3. ASSUME EndOK(x) PROVE Cancel(x) \in Good
    <3>1. CASE x.state = "UNARMED"
      BY <1>3, <3>1 DEF Cancel
    <3>2. CASE x.state # "UNARMED"
      <4>1. Cancel(x) \in Infos /\ Cancel(x).state = "TERMINATING"
        BY <2>3, <3>2, CancelFacts DEF Idle
      <4>2. Cancel(x).preDur = x.preDur
        BY <3>2 DEF Cancel, Infos
      <4> QED
        BY <1>2, <2>0, <4>1, <4>2
    <3> QED
      BY <3>1, <3>2
  <2>4. ASSUME EndOK(x) PROVE PrepareForFinalFlush(x) \in Good
    <3>1. CASE ~Flushes(x)
      BY <1>3, <3>1 DEF PrepareForFinalFlush
    <3>2. CASE Flushes(x)
      <4> DEFINE y == PrepareForFinalFlush(x)
      <4>1. y \in Infos /\ y.state = "TERMINATING"
        BY <2>4, <3>2, FlushFacts
      <4>2. y.preDur = x.preDur
        BY <3>2 DEF PrepareForFinalFlush, Infos
      <4> QED
        BY <1>2, <2>0, <4>1, <4>2
    <3> QED
      BY <3>1, <3>2
  <2>5. ASSUME EndOK(x), x.holdOff # OneShot PROVE HoldOff(x) \in Good
    <3>1. HoldOff(x) \in Infos
      BY <2>5, HoldOffFacts
    <3>2. HoldOff(x).preDur = x.preDur /\ HoldOff(x).state = "HOLDING_OFF"
      BY DEF HoldOff, Infos
    <3> QED
      BY <1>2, <2>0, <3>1, <3>2
  <2> QED
    BY <2>1, <2>2, <2>3, <2>4, <2>5
<1>4. ASSUME NEW x \in Infos, Timed(x), EndOK(x), NEW t \in Tids, NEW n \in Nat,
             n <= x.buf[t]
      PROVE  DataSent(x, t, n) \in Good
  <2> DEFINE y == DataSent(x, t, n)
  <2>1. y \in Infos
    BY <1>4, DataSentFacts
  <2>2. /\ y.state = x.state /\ y.count = x.count /\ y.points = x.points
        /\ y.preDur = x.preDur /\ y.preCount = x.preCount /\ y.tid = x.tid
        /\ y.skipped = x.skipped /\ y.delay = x.delay
    BY DEF DataSent, Infos
  <2>3. y.overFlow = x.overFlow
    BY DEF DataSent, Infos
  <2>4. y.manual = x.manual
    BY DEF DataSent, Infos
  <2> HIDE DEF y
  <2>5. Missed(y) = Missed(x)
    BY <2>2, <2>4 DEF Missed
  <2>6. Timed(y)
    BY <1>4, <2>2, <2>3, <2>4, <2>5 DEF Timed, Running
  <2> QED
    BY <2>1, <2>6 DEF y
<1>5. \A u \in Infoes : info[u] \in Good
  BY DEF SInv, TypeOK
<1>6. ASSUME NEW x \in Infos \cap Good
      PROVE  /\ EndOK(x) /\ Idle(x) =>
                  Arm(x) \in Good /\ \A tr \in Triggers : InitTrigger(x, tr) \in Good
             /\ EndOK(x) => Cancel(x) \in Good /\ PrepareForFinalFlush(x) \in Good
             /\ EndOK(x) /\ x.state = "TERMINATING" /\ x.holdOff # OneShot =>
                  HoldOff(x) \in Good
             /\ EndOK(x) /\ x.state \in {"FIRED", "TERMINATING"} =>
                  \A t \in Tids, n \in Nat : n <= x.buf[t] => DataSent(x, t, n) \in Good
             /\ EndOK(x) =>
                  \A hits \in SUBSET Tids, in \in Inputs :
                    0 \in hits => Tick(x, hits, in) \in Good
  <2>1. x \in Infos /\ Timed(x)
    OBVIOUS
  <2>2. ASSUME NEW hits \in SUBSET Tids, NEW in \in Inputs, 0 \in hits
        PROVE  Tick(x, hits, in) \in Good
    BY <2>1, <2>2, TimedTick
  <2> QED
    BY <1>3, <1>4, <2>1, <2>2
<1> HIDE DEF Good
<1>8. \A u \in Infoes : info'[u] \in Good
  BY <1>1, <1>5, <1>6, <1>7, KeptByAll
<1> QED
  BY <1>8 DEF Good

\* An event that terminates while the task stands still was ended by a tick.
LEMMA EndedByTick ==
  ASSUME SInv, [Next]_vars, srv' = srv, NEW u \in Infoes,
         info[u].state # "TERMINATING", info'[u].state = "TERMINATING"
  PROVE  OneStep
<1>1. srv.u \in Infoes /\ info \in [Infoes -> Infos]
  BY DEF SInv, TypeOK
<1>2. ASSUME Packet PROVE FALSE
  <2>1. srv.at = "pkt"
    BY <1>2 DEF Packet, OpenConnection, OtherPkt, ModelStop, DisconnectRequest,
       Disconnected, SelectSignals, SelectTrigger, ArmTrigger, CancelLogging
  <2>2. CASE srv' = ToUpload
    BY <2>1, <2>2, ToUploadFacts
  <2>3. CASE DisconnectRequest
    <3>1. info' = info
      BY <2>3 DEF DisconnectRequest
    <3> QED
      BY <3>1
  <2> QED
    BY <1>2, <2>2, <2>3 DEF Packet, OpenConnection, OtherPkt, ModelStop, Disconnected,
       SelectSignals, SelectTrigger, ArmTrigger, CancelLogging
<1>3. ASSUME ServerWork PROVE FALSE
  <2>1. CASE Pend \/ GetData \/ FreeInfo
    BY <2>1 DEF Pend, GetData, FreeInfo
  <2>2. CASE SendFails
    BY <2>2 DEF SendFails, ForceDisconnect, Unarmed
  <2>3. CASE EndTest
    <3>1. CASE info[srv.u].state # "TERMINATING"
      <4>1. info' = [info EXCEPT ![srv.u] = info[srv.u]]
        BY <2>3, <3>1 DEF EndTest
      <4> QED
        BY <1>1, <4>1
    <3>2. CASE info[srv.u].state = "TERMINATING"
      <4>1. u # srv.u
        BY <3>2
      <4>2. info'[u] = info[u]
        BY <1>1, <2>3, <4>1 DEF EndTest
      <4> QED
        BY <4>2
    <3> QED
      BY <3>1, <3>2
  <2>4. CASE SendBuf
    <3>1. info' = [info EXCEPT ![srv.u] =
                     DataSent(@, Min(DOMAIN srv.list), srv.list[Min(DOMAIN srv.list)])]
      BY <2>4 DEF SendBuf
    <3>2. CASE u # srv.u
      BY <1>1, <3>1, <3>2
    <3>3. CASE u = srv.u
      <4>1. info'[u] = DataSent(info[u], Min(DOMAIN srv.list),
                                srv.list[Min(DOMAIN srv.list)])
        BY <1>1, <3>1, <3>3
      <4>2. info'[u].state = info[u].state
        BY <1>1, <4>1 DEF DataSent, Infos
      <4> QED
        BY <4>2
    <3> QED
      BY <3>2, <3>3
  <2>5. CASE PrepareFinalFlush
    <3>1. srv.at = "prepare" /\ srv' = [srv EXCEPT !.at = "pend",
                                         !.final = connected /\ Flushes(info[srv.u])]
      BY <2>5 DEF PrepareFinalFlush
    <3>2. srv'.at = "pend"
      BY <3>1 DEF SInv, Shape
    <3> QED
      BY <3>1, <3>2
  <2>6. CASE ResetInfo
    <3>1. info'[u] = info[u] \/ info'[u] = Unarmed
      BY <1>1, <2>6 DEF ResetInfo
    <3> QED
      BY <3>1 DEF Unarmed
  <2> QED
    BY <1>3, <2>1, <2>2, <2>3, <2>4, <2>5, <2>6 DEF ServerWork
<1>4. ~ UNCHANGED vars
  BY DEF vars
<1> QED
  BY <1>2, <1>3, <1>4 DEF Next, Stopped

\* UploadCheckEndTrigger: an event that its duration ends has exactly as many base
\* rate points as the host asked for, the ticks without an active system and the one
\* point that a slower rate's trigger misses aside: for every duration, delay and hold
\* off, with a pre-trigger of any size when there is one sample time, without one for
\* any number of them, and whatever the host does meanwhile.
THEOREM EventsHaveTheirLength == NoPreTrig \/ NumTids = 1 => (Spec => EventLength)
<1> SUFFICES ASSUME NoPreTrig \/ NumTids = 1 PROVE Spec => EventLength
  OBVIOUS
<1> DEFINE All == \A u \in Infoes : Timed(info[u])
<1> DEFINE Ended ==
      \A u \in Infoes :
        info[u].state # "TERMINATING" /\ info'[u].state = "TERMINATING"
          /\ ~info'[u].overFlow /\ srv' = srv =>
            info'[u].points + info'[u].skipped = info[u].duration - Missed(info[u])
<1>1. Init => All
  <2> SUFFICES ASSUME Init, NEW u \in Infoes PROVE Timed(info[u])
    OBVIOUS
  <2>1. info[u] = Unarmed
    BY DEF Init
  <2> QED
    BY <2>1 DEF Unarmed, Timed, Running
<1>2. SInv /\ All /\ [Next]_vars => All'
  BY TimedStep
<1>3. SInv /\ All /\ [Next]_vars => [Ended]_vars
  <2> SUFFICES ASSUME SInv, All, [Next]_vars, NEW u \in Infoes,
                      info[u].state # "TERMINATING", info'[u].state = "TERMINATING",
                      ~info'[u].overFlow, srv' = srv
               PROVE  info'[u].points + info'[u].skipped
                        = info[u].duration - Missed(info[u])
    OBVIOUS
  <2>1. OneStep
    BY EndedByTick
  <2>2. PICK hits \in SUBSET Tids, in \in [Infoes -> Inputs] :
          0 \in hits /\ info' = [v \in Infoes |-> Tick(info[v], hits, in[v])]
    BY <2>1 DEF OneStep
  <2>3. info'[u] = Tick(info[u], hits, in[u]) /\ info[u] \in Infos /\ Timed(info[u])
    BY <2>2 DEF SInv, TypeOK
  <2> QED
    BY <2>2, <2>3, TimedTick
<1> QED
  BY <1>1, <1>2, <1>3, SessionInvariant, PTL DEF Spec, EventLength
=============================================================================
