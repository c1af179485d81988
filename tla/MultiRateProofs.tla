-------------------------- MODULE MultiRateProofs ---------------------------
(***************************************************************************)
(* MultiRate for every number of rates and all periods: no step that was   *)
(* in time is an overrun, and no subrate loses a hit.                      *)
(***************************************************************************)
EXTENDS MultiRate, TLAPS

USE RatesAssumption DEF Subrates, Tids

\* Why no overrun is reported in time. The base flag is raised from the start of a
\* call to the end of its base rate step, and stays only when the simulation has
\* ended; an event is taken back before the call returns, so no subrate ever meets
\* the event of its last hit.
Settled ==
  /\ at \in {"idle", "check", "base", "end"} => i = 1
  /\ \A t \in Subrates : OverrunFlags[t] = 0
  /\ at \in {"events", "base"} => OverrunFlags[0] = 1
  /\ at \in {"subrates", "end"} => OverrunFlags[0] = 0
  /\ at \in {"idle", "check"} /\ OverrunFlags[0] > 0 => errStatus # "none"
  /\ errStatus # "none" => ended
  /\ \A t \in Subrates :
       /\ at \in {"idle", "check", "end"} => eventFlags[t] = 0
       /\ at = "events" /\ t >= i => eventFlags[t] = 0
       /\ at = "subrates" /\ t < i => eventFlags[t] = 0
       /\ eventFlags[t] <= 1

\* The ticks that the task counter of a subrate has seen, its hits, and the ticks that
\* are left to its next hit.
Seen(t) == steps[0] + (IF at = "base" \/ (at = "events" /\ t < i) THEN 1 ELSE 0)
Due(t) == steps[t] + eventFlags[t]
Left(t) == IF taskCounter[t] = 0 THEN 0 ELSE CounterLimit[t] - taskCounter[t]
Counted == \A t \in Subrates : Seen(t) + Left(t) = Due(t) * CounterLimit[t]

IInv == TypeOK /\ Settled /\ Counted

LEMMA Constants ==
  /\ NumTids \in Nat /\ NumTids >= 1
  /\ \A t \in Subrates : CounterLimit[t] \in Nat /\ CounterLimit[t] >= 1
OBVIOUS

LEMMA InitIsFine == Init => IInv
<1> SUFFICES ASSUME Init PROVE IInv
  OBVIOUS
<1> USE Constants DEF Init, Zero
<1>1. TypeOK
  <2>1. i \in 1 .. NumTids
    OBVIOUS
  <2>2. \A t \in Subrates : taskCounter[t] = 0
    OBVIOUS
  <2>3. \A t \in Subrates : taskCounter[t] < CounterLimit[t]
    BY <2>2
  <2>4. /\ taskCounter \in [Subrates -> Nat] /\ OverrunFlags \in [Tids -> Nat]
        /\ eventFlags \in [Tids -> Nat] /\ steps \in [Tids -> Nat]
    OBVIOUS
  <2> QED
    BY <2>1, <2>3, <2>4 DEF TypeOK
<1>2. Settled
  BY DEF Settled
<1>3. ASSUME NEW t \in Subrates
      PROVE  Seen(t) = 0 /\ Left(t) = 0 /\ Due(t) = 0
  BY DEF Seen, Due, Left
<1>4. Counted
  BY <1>3 DEF Counted
<1> QED
  BY <1>1, <1>2, <1>4 DEF IInv

\* A step that leaves the flags and what the model has done.
LEMMA FlagsKept ==
  ASSUME TypeOK, UNCHANGED <<flags, errStatus, ended, steps>>,
         pending' \in Nat, i' \in 1 .. NumTids, late' \in {"no", "next", "now"},
         at' \in {"idle", "check", "events", "base", "subrates", "end"}
  PROVE  TypeOK'
BY Zenon DEF TypeOK, flags

LEMMA TickKeeps == IInv /\ Tick => IInv'
<1> SUFFICES ASSUME IInv, Tick PROVE IInv'
  OBVIOUS
<1> USE Constants DEF IInv, flags, history
<1>1. TypeOK'
  <2>1. /\ UNCHANGED <<flags, errStatus, ended, steps>> /\ pending' \in Nat
        /\ i' \in 1 .. NumTids /\ late' \in {"no", "next", "now"}
        /\ at' \in {"idle", "check", "events", "base", "subrates", "end"}
    BY DEF TypeOK, Tick
  <2> QED
    BY <2>1, FlagsKept
<1>2. Settled'
  BY DEF TypeOK, Settled, Tick
<1>3. Counted'
  BY DEF TypeOK, Settled, Counted, Seen, Due, Left, Tick
<1> QED
  BY <1>1, <1>2, <1>3

LEMMA CallKeeps == IInv /\ Call => IInv'
<1> SUFFICES ASSUME IInv, Call PROVE IInv'
  OBVIOUS
<1> USE Constants DEF IInv, flags, history
<1>1. TypeOK'
  <2>1. /\ UNCHANGED <<flags, errStatus, ended, steps>> /\ pending' \in Nat
        /\ i' \in 1 .. NumTids /\ late' \in {"no", "next", "now"}
        /\ at' \in {"idle", "check", "events", "base", "subrates", "end"}
    BY DEF TypeOK, Call
  <2> QED
    BY <2>1, FlagsKept
<1>2. Settled'
  BY DEF TypeOK, Settled, Call
<1>3. Counted'
  BY DEF TypeOK, Settled, Counted, Seen, Due, Left, Call
<1> QED
  BY <1>1, <1>2, <1>3

LEMMA BaseOverrunKeeps == IInv /\ BaseOverrun => IInv'
<1> SUFFICES ASSUME IInv, BaseOverrun PROVE IInv'
  OBVIOUS
<1> USE Constants DEF IInv, flags, history
<1>1. TypeOK'
  BY DEF TypeOK, Settled, BaseOverrun, Increment
<1>2. Settled'
  BY DEF TypeOK, Settled, BaseOverrun, Increment
<1>3. Counted'
  BY DEF TypeOK, Settled, Counted, Seen, Due, Left, BaseOverrun, Increment
<1> QED
  BY <1>1, <1>2, <1>3

LEMMA EventsOverKeeps == IInv /\ EventsOver => IInv'
<1> SUFFICES ASSUME IInv, EventsOver PROVE IInv'
  OBVIOUS
<1> USE Constants DEF IInv, flags, history
<1>1. TypeOK'
  <2>1. /\ UNCHANGED <<flags, errStatus, ended, steps>> /\ pending' \in Nat
        /\ i' \in 1 .. NumTids /\ late' \in {"no", "next", "now"}
        /\ at' \in {"idle", "check", "events", "base", "subrates", "end"}
    BY DEF TypeOK, EventsOver
  <2> QED
    BY <2>1, FlagsKept
<1>2. Settled'
  BY DEF TypeOK, Settled, EventsOver
<1>3. Counted'
  BY DEF TypeOK, Settled, Counted, Seen, Due, Left, EventsOver
<1> QED
  BY <1>1, <1>2, <1>3

LEMMA ReturnKeeps == IInv /\ Return => IInv'
<1> SUFFICES ASSUME IInv, Return PROVE IInv'
  OBVIOUS
<1> USE Constants DEF IInv, flags, history
<1>1. TypeOK'
  <2>1. /\ UNCHANGED <<flags, errStatus, ended, steps>> /\ pending' \in Nat
        /\ i' \in 1 .. NumTids /\ late' \in {"no", "next", "now"}
        /\ at' \in {"idle", "check", "events", "base", "subrates", "end"}
    BY DEF TypeOK, Return
  <2> QED
    BY <2>1, FlagsKept
<1>2. Settled'
  BY DEF TypeOK, Settled, Return
<1>3. Counted'
  BY DEF TypeOK, Settled, Counted, Seen, Due, Left, Return
<1> QED
  BY <1>1, <1>2, <1>3

LEMMA SubratesOverKeeps == IInv /\ SubratesOver => IInv'
<1> SUFFICES ASSUME IInv, SubratesOver PROVE IInv'
  OBVIOUS
<1> USE Constants DEF IInv, flags, history
<1>1. TypeOK'
  <2>1. /\ UNCHANGED <<flags, errStatus, ended, steps>> /\ pending' \in Nat
        /\ i' \in 1 .. NumTids /\ late' \in {"no", "next", "now"}
        /\ at' \in {"idle", "check", "events", "base", "subrates", "end"}
    BY DEF TypeOK, SubratesOver
  <2> QED
    BY <2>1, FlagsKept
<1>2. Settled'
  BY DEF TypeOK, Settled, SubratesOver
<1>3. Counted'
  BY DEF TypeOK, Settled, Counted, Seen, Due, Left, SubratesOver
<1> QED
  BY <1>1, <1>2, <1>3

LEMMA SkipSubrateKeeps == IInv /\ SkipSubrate => IInv'
<1> SUFFICES ASSUME IInv, SkipSubrate PROVE IInv'
  OBVIOUS
<1> USE Constants DEF IInv, flags, history
<1>1. i' = i + 1 /\ i \in 1 .. NumTids - 1 /\ at = "subrates" /\ eventFlags[i] = 0
  BY DEF SkipSubrate
<1>2. i' \in 1 .. NumTids
  BY <1>1
<1>3. TypeOK'
  BY <1>2, FlagsKept DEF TypeOK, SkipSubrate
<1>4. \A t \in Subrates : t < i' => eventFlags[t] = 0
  <2>1. \A t \in Subrates : t < i' => t < i \/ t = i
    BY <1>1
  <2> QED
    BY <1>1, <2>1 DEF Settled
<1>5. Settled'
  BY <1>1, <1>4 DEF Settled, SkipSubrate
<1>6. Counted'
  BY DEF TypeOK, Counted, Seen, Due, Left, SkipSubrate
<1> QED
  BY <1>3, <1>5, <1>6

LEMMA StepBaseKeeps == IInv /\ StepBase => IInv'
<1> SUFFICES ASSUME IInv, StepBase PROVE IInv'
  OBVIOUS
<1> USE Constants DEF IInv, flags, history
<1>1. TypeOK'
  <2>1. OverrunFlags' \in [Tids -> Nat] /\ steps' \in [Tids -> Nat]
    <3>1. OverrunFlags[0] = 1 /\ 0 \in Tids
      BY DEF Settled, StepBase
    <3>2. /\ OverrunFlags' = [OverrunFlags EXCEPT ![0] = 0]
          /\ steps' = [steps EXCEPT ![0] = @ + 1]
      BY <3>1 DEF StepBase, ModelStep, Increment, Decrement
    <3>3. OverrunFlags \in [Tids -> Nat] /\ steps \in [Tids -> Nat]
      BY Zenon DEF TypeOK
    <3> HIDE Constants DEF IInv
    <3> QED
      BY <3>1, <3>2, <3>3
  <2>2. errStatus' \in {"none", "finished", "overrun"} /\ ended' \in BOOLEAN
    BY DEF TypeOK, StepBase, ModelStep
  <2> QED
    BY <2>1, <2>2 DEF TypeOK, StepBase, ModelStep
<1>2. Settled'
  BY DEF TypeOK, Settled, StepBase, ModelStep, Increment, Decrement
<1>3. Counted'
  BY DEF TypeOK, Settled, Counted, Seen, Due, Left, StepBase, ModelStep, Increment, Decrement
<1> QED
  BY <1>1, <1>2, <1>3

LEMMA StepSubrateKeeps == IInv /\ StepSubrate => IInv'
<1> SUFFICES ASSUME IInv, StepSubrate PROVE IInv'
  OBVIOUS
<1> USE Constants DEF IInv, flags, history
<1>1. /\ i' = i + 1 /\ i \in 1 .. NumTids - 1 /\ i \in Subrates /\ i \in Tids
      /\ at = "subrates" /\ UNCHANGED <<pending, at, OverrunFlags, taskCounter, late>>
  BY DEF StepSubrate, ModelStep
<1>2. eventFlags[i] = 1
  BY <1>1 DEF StepSubrate, Settled, TypeOK
<1>3. /\ eventFlags' = [eventFlags EXCEPT ![i] = 0]
      /\ steps' = [steps EXCEPT ![i] = @ + 1]
  BY <1>2 DEF StepSubrate, ModelStep, Increment, Decrement, TypeOK
<1>4. /\ errStatus' \in {"none", "finished", "overrun"} /\ ended' \in BOOLEAN
      /\ errStatus' # "none" => ended'
  <2>1. CASE UNCHANGED <<errStatus, ended>>
    BY <2>1, Zenon DEF TypeOK, Settled
  <2>2. CASE errStatus' = "finished" /\ ended' = TRUE
    BY <2>2
  <2> QED
    BY <2>1, <2>2 DEF StepSubrate, ModelStep
<1>5. TypeOK'
  <2>1. i' \in 1 .. NumTids
    BY <1>1
  <2>2. eventFlags' \in [Tids -> Nat]
    BY <1>1, <1>3 DEF TypeOK
  <2>3. steps \in [Tids -> Nat]
    BY Zenon DEF TypeOK
  <2>4. steps' \in [Tids -> Nat]
    <3> HIDE Constants DEF IInv
    <3> QED
      BY <1>1, <1>3, <2>3
  <2> QED
    BY <1>1, <1>4, <2>1, <2>2, <2>4 DEF TypeOK
<1>6. Settled'
  <2>1. \A t \in Subrates : t < i' => eventFlags'[t] = 0
    <3>1. \A t \in Subrates : t < i' => t < i \/ t = i
      BY <1>1
    <3> QED
      BY <1>1, <1>3, <3>1 DEF Settled, TypeOK
  <2>2. \A t \in Subrates : eventFlags'[t] <= 1
    BY <1>3 DEF Settled, TypeOK
  <2> QED
    BY <1>1, <1>4, <2>1, <2>2 DEF Settled
<1>7. ASSUME NEW t \in Subrates
      PROVE  Seen(t)' = Seen(t) /\ Left(t)' = Left(t) /\ Due(t)' = Due(t)
  <2>1. steps'[0] = steps[0]
    BY <1>1, <1>3 DEF TypeOK
  <2>2. Seen(t)' = Seen(t) /\ Left(t)' = Left(t)
    BY <1>1, <2>1 DEF Seen, Left
  <2>3. Due(t)' = Due(t)
    <3>1. /\ eventFlags \in [Tids -> Nat] /\ steps \in [Tids -> Nat] /\ t \in Tids
      <4>1. eventFlags \in [Tids -> Nat] /\ steps \in [Tids -> Nat]
        BY Zenon DEF TypeOK
      <4>2. t \in Tids
        <5> HIDE DEF IInv
        <5> QED
          OBVIOUS
      <4> QED
        BY <4>1, <4>2
    <3> HIDE Constants DEF IInv
    <3>2. CASE t = i
      BY <1>2, <1>3, <3>1, <3>2 DEF Due
    <3>3. CASE t # i
      BY <1>3, <3>1, <3>3 DEF Due
    <3> QED
      BY <3>2, <3>3
  <2> QED
    BY <2>2, <2>3
<1>8. Counted'
  BY <1>7 DEF Counted
<1> QED
  BY <1>5, <1>6, <1>8

LEMMA UpdateEventKeeps == IInv /\ UpdateEvent => IInv'
<1> SUFFICES ASSUME IInv, UpdateEvent PROVE IInv'
  OBVIOUS
<1> USE Constants DEF IInv, flags, history
<1> DEFINE hit == taskCounter[i] = 0
<1>1. /\ at = "events" /\ i \in 1 .. NumTids - 1 /\ i \in Subrates /\ i \in Tids
      /\ eventFlags[i] = 0
  BY DEF UpdateEvent, Settled
<1>2. /\ eventFlags' = IF hit THEN [eventFlags EXCEPT ![i] = 1] ELSE eventFlags
      /\ taskCounter' = [taskCounter EXCEPT ![i] = NextCount(i)]
      /\ i' = i + 1
      /\ UNCHANGED <<pending, at, OverrunFlags, errStatus, ended, steps, late>>
  BY <1>1 DEF UpdateEvent, StepTask, Increment, TypeOK
<1>3. /\ NextCount(i) \in Nat /\ NextCount(i) < CounterLimit[i]
      /\ NextCount(i) = IF taskCounter[i] + 1 = CounterLimit[i] THEN 0 ELSE taskCounter[i] + 1
  <2>1. /\ taskCounter[i] \in Nat /\ taskCounter[i] < CounterLimit[i]
        /\ CounterLimit[i] \in Nat /\ CounterLimit[i] >= 1
    BY <1>1 DEF TypeOK
  <2> QED
    BY <2>1 DEF NextCount
<1>4. TypeOK'
  <2>1. i' \in 1 .. NumTids
    BY <1>1, <1>2
  <2>2. eventFlags' \in [Tids -> Nat]
    BY <1>1, <1>2 DEF TypeOK
  <2>3. /\ taskCounter' \in [Subrates -> Nat]
        /\ \A t \in Subrates : taskCounter'[t] < CounterLimit[t]
    BY <1>1, <1>2, <1>3 DEF TypeOK
  <2> QED
    BY <1>1, <1>2, <2>1, <2>2, <2>3 DEF TypeOK
<1>5. Settled'
  <2>1. ASSUME NEW t \in Subrates, t >= i' PROVE eventFlags'[t] = 0
    <3>1. t # i /\ t >= i
      BY <1>1, <1>2, <2>1
    <3>2. eventFlags[t] = 0 /\ eventFlags \in [Tids -> Nat]
      BY <1>1, <3>1 DEF Settled, TypeOK
    <3> HIDE Constants DEF IInv
    <3> QED
      BY <1>2, <3>1, <3>2
  <2>2. \A t \in Subrates : eventFlags'[t] <= 1
    BY <1>1, <1>2 DEF Settled, TypeOK
  <2> QED
    BY <1>1, <1>2, <2>1, <2>2 DEF Settled
<1>6. Counted'
  <2>1. SUFFICES ASSUME NEW t \in Subrates
                 PROVE  Seen(t)' + Left(t)' = Due(t)' * CounterLimit[t]
    BY DEF Counted
  <2>2. Seen(t) + Left(t) = Due(t) * CounterLimit[t]
    BY DEF Counted
  <2>3. CASE t # i
    <3>1. (t < i + 1) = (t < i)
      BY <2>3, <1>1
    <3>2. taskCounter'[t] = taskCounter[t] /\ eventFlags'[t] = eventFlags[t]
      BY <1>1, <1>2, <2>3 DEF TypeOK
    <3>3. Seen(t)' = Seen(t) /\ Left(t)' = Left(t) /\ Due(t)' = Due(t)
      BY <1>1, <1>2, <3>1, <3>2 DEF Seen, Left, Due
    <3> QED
      BY <2>2, <3>3
  <2>4. CASE t = i
    <3>1. Seen(t) = steps[0] /\ Seen(t)' = steps[0] + 1
      BY <1>1, <1>2, <2>4 DEF Seen, TypeOK
    <3>2. taskCounter'[t] = NextCount(i) /\ taskCounter[t] \in Nat
      BY <1>1, <1>2, <2>4 DEF TypeOK
    <3>3. CASE hit
      <4>1. Due(t) \in Nat /\ Due(t)' = Due(t) + 1
        <5>1. /\ eventFlags \in [Tids -> Nat] /\ steps \in [Tids -> Nat] /\ t \in Tids
          <6>1. eventFlags \in [Tids -> Nat] /\ steps \in [Tids -> Nat]
            BY Zenon DEF TypeOK
          <6>2. t \in Tids
            <7> HIDE DEF IInv
            <7> QED
              OBVIOUS
          <6> QED
            BY <6>1, <6>2
        <5> HIDE Constants DEF IInv
        <5> QED
          BY <1>1, <1>2, <2>4, <3>3, <5>1 DEF Due
      <4>2. Left(t) = 0 /\ Left(t)' = CounterLimit[t] - 1
        BY <1>3, <2>4, <3>2, <3>3 DEF Left
      <4>3. (Due(t) + 1) * CounterLimit[t] = Due(t) * CounterLimit[t] + CounterLimit[t]
        BY <4>1
      <4> QED
        BY <2>2, <3>1, <4>1, <4>2, <4>3 DEF TypeOK
    <3>4. CASE ~hit
      <4>1. Due(t)' = Due(t)
        BY <1>1, <1>2, <2>4, <3>4 DEF Due, TypeOK
      <4>2. Left(t)' = Left(t) - 1 /\ Left(t) \in Nat
        <5>1. /\ taskCounter[t] < CounterLimit[t] /\ taskCounter[t] # 0
              /\ CounterLimit[t] \in Nat
          BY <2>4, <3>4 DEF TypeOK
        <5>2. taskCounter'[t] = IF taskCounter[t] + 1 = CounterLimit[t] THEN 0
                                ELSE taskCounter[t] + 1
          BY <1>3, <2>4, <3>2
        <5> QED
          BY <3>2, <5>1, <5>2 DEF Left
      <4> QED
        BY <2>2, <3>1, <4>1, <4>2 DEF TypeOK
    <3> QED
      BY <3>3, <3>4
  <2> QED
    BY <2>3, <2>4
<1> QED
  BY <1>4, <1>5, <1>6

LEMMA Invariant == Spec => []IInv
<1>1. IInv /\ [Next]_vars => IInv'
  <2>1. IInv /\ UNCHANGED vars => IInv'
    BY DEF vars, flags, history, IInv, TypeOK, Settled, Counted, Seen, Due, Left
  <2>2. IInv /\ Next => IInv'
    BY <2>1, TickKeeps, CallKeeps, BaseOverrunKeeps, EventsOverKeeps, ReturnKeeps,
       SubratesOverKeeps, SkipSubrateKeeps, StepBaseKeeps, StepSubrateKeeps,
       UpdateEventKeeps
       DEF Next, OneStep, Stopped
  <2> QED
    BY <2>1, <2>2
<1> QED
  BY InitIsFine, <1>1, PTL DEF Spec

\* A task counter stays below its period, and the loops of rt_OneStep in the rates.
THEOREM TypeCorrect == Spec => []TypeOK
<1>1. IInv => TypeOK
  BY DEF IInv
<1> QED
  BY Invariant, <1>1, PTL

\* rt_OneStep reports no overrun of a step that came in time, whatever the periods.
THEOREM NoFalseOverrun == Spec => []NoOverrunInTime
<1>1. IInv => NoOverrunInTime
  BY DEF IInv, TypeOK, Settled, NoOverrunInTime
<1> QED
  BY Invariant, <1>1, PTL

LEMMA Quotient ==
  ASSUME NEW q \in Nat, NEW d \in Nat \ {0}, NEW n \in Nat, NEW r \in 0 .. d - 1,
         n + r = q * d
  PROVE  (n + d - 1) \div d = q
OBVIOUS

-----------------------------------------------------------------------------
\* In the tick of a hit, and only then, all of the period is left to the next one.
Fresh ==
  \A t \in Subrates :
    at = "base" \/ (at = "events" /\ t < i) =>
      (eventFlags[t] = 1 <=> Left(t) = CounterLimit[t] - 1)

LEMMA UpdateEventIsFresh ==
  ASSUME IInv, Fresh, UpdateEvent
  PROVE  Fresh'
<1> USE Constants
<1> SUFFICES ASSUME NEW t \in Subrates, at' = "events", t < i'
             PROVE  (eventFlags[t] = 1 <=> Left(t) = CounterLimit[t] - 1)'
  BY DEF Fresh, UpdateEvent, history, IInv, Settled
<1>1. /\ at = "events" /\ i \in 1 .. NumTids - 1 /\ i \in Subrates /\ i \in Tids
      /\ eventFlags[i] = 0
  BY DEF UpdateEvent, IInv, Settled
<1>2. /\ eventFlags' = IF taskCounter[i] = 0 THEN [eventFlags EXCEPT ![i] = 1] ELSE eventFlags
      /\ taskCounter' = [taskCounter EXCEPT ![i] = NextCount(i)] /\ i' = i + 1
  BY <1>1 DEF UpdateEvent, StepTask, Increment, IInv, TypeOK
<1>3. /\ taskCounter \in [Subrates -> Nat] /\ eventFlags \in [Tids -> Nat]
      /\ taskCounter[i] < CounterLimit[i] /\ t \in Tids
  <2>1. TypeOK
    BY DEF IInv
  <2>2. taskCounter \in [Subrates -> Nat] /\ eventFlags \in [Tids -> Nat]
    BY <2>1, Zenon DEF TypeOK
  <2>3. taskCounter[i] < CounterLimit[i]
    BY <1>1, <2>1, Zenon DEF TypeOK
  <2> QED
    BY <2>2, <2>3
<1>4. CASE t = i
  <2>1. taskCounter'[t] = NextCount(t)
    BY <1>1, <1>2, <1>3, <1>4
  <2>2. CASE taskCounter[t] = 0
    <3>1. eventFlags'[t] = 1
      BY <1>1, <1>2, <1>3, <1>4, <2>2
    <3>2. Left(t)' = CounterLimit[t] - 1
      BY <2>1, <2>2 DEF Left, NextCount
    <3> QED
      BY <3>1, <3>2
  <2>3. CASE taskCounter[t] # 0
    <3>1. eventFlags'[t] = 0
      <4>1. eventFlags' = eventFlags
        BY <1>2, <1>4, <2>3, Zenon
      <4> QED
        BY <1>1, <1>4, <4>1, Zenon
    <3>2. Left(t)' # CounterLimit[t] - 1
      BY <1>3, <1>4, <2>1, <2>3 DEF Left, NextCount
    <3> QED
      BY <3>1, <3>2
  <2> QED
    BY <2>2, <2>3
<1>5. CASE t # i
  <2>1. t < i
    BY <1>1, <1>2, <1>5
  <2>2. taskCounter'[t] = taskCounter[t] /\ eventFlags'[t] = eventFlags[t]
    BY <1>1, <1>2, <1>3, <1>5
  <2> QED
    BY <1>1, <2>1, <2>2 DEF Fresh, Left
<1> QED
  BY <1>4, <1>5

LEMMA FreshStep ==
  ASSUME IInv, Fresh, [Next]_vars
  PROVE  Fresh'
<1> USE Constants DEF history, flags
<1>1. CASE UNCHANGED vars \/ Tick
  BY <1>1 DEF Fresh, Left, vars, Tick
<1>2. CASE BaseOverrun
  BY <1>2 DEF BaseOverrun, Fresh, IInv, Settled
<1>3. CASE EventsOver
  <2>1. \A t \in Subrates : t < i
    BY <1>3 DEF EventsOver, IInv, TypeOK
  <2> QED
    BY <1>3, <2>1 DEF EventsOver, Fresh, Left
<1>4. CASE Call \/ Return \/ StepBase \/ SkipSubrate \/ StepSubrate \/ SubratesOver
  <2>1. at' \notin {"events", "base"}
    BY <1>4 DEF Call, Return, StepBase, SkipSubrate, StepSubrate, SubratesOver
  <2> QED
    BY <2>1 DEF Fresh
<1> QED
  BY <1>1, <1>2, <1>3, <1>4, UpdateEventIsFresh DEF Next, OneStep, Stopped

\* A hit that is counted before its base rate step.
LEMMA EarlyQuotient ==
  ASSUME NEW q \in Nat, NEW e \in {0, 1}, NEW d \in Nat \ {0}, NEW n \in Nat,
         NEW r \in 0 .. d - 1, n + 1 + r = (q + e) * d, e = 1 <=> r = d - 1
  PROVE  (n + d - 1) \div d = q
<1>1. CASE e = 1
  <2>1. n + d = (q + 1) * d
    BY <1>1
  <2>2. (q + 1) * d = q * d + d
    OBVIOUS
  <2>3. q * d \in Nat
    OBVIOUS
  <2>4. n + 0 = q * d
    BY <2>1, <2>2, <2>3
  <2> QED
    BY <2>4, Quotient
<1>2. CASE e = 0
  <2>1. r + 1 \in 0 .. d - 1
    BY <1>2
  <2>2. n + (r + 1) = q * d
    BY <1>2
  <2> QED
    BY <2>1, <2>2, Quotient
<1> QED
  BY <1>1, <1>2

\* Every subrate is stepped for each of its hits, once, before the next tick is served;
\* while rt_OneStep runs, after the base rate of its tick and in the order of the rates,
\* for any number of them and any periods.
THEOREM RatesInOrder == Spec => []RateOrder
<1>1. Init => Fresh
  BY DEF Init, Fresh
<1>2. ASSUME IInv, Fresh PROVE RateOrder
  <2> SUFFICES ASSUME NEW t \in Subrates
               PROVE  /\ Hits(t) - steps[t] \in {0, 1}
                      /\ steps[t] < Hits(t) => at = "subrates" /\ t >= i
    BY DEF RateOrder
  <2> DEFINE L == CounterLimit[t]
  <2>1. /\ L \in Nat \ {0} /\ t \in Tids /\ 0 \in Tids
        /\ taskCounter[t] \in Nat /\ taskCounter[t] < L
        /\ steps[t] \in Nat /\ steps[0] \in Nat /\ eventFlags[t] \in Nat
    BY Constants, <1>2 DEF IInv, TypeOK
  <2>2. Left(t) \in 0 .. L - 1
    BY <2>1 DEF Left
  <2>3. eventFlags[t] \in {0, 1}
    BY <1>2, <2>1 DEF IInv, Settled
  <2>4. Seen(t) + Left(t) = Due(t) * L
    BY <1>2 DEF IInv, Counted
  <2>5. CASE at = "base" \/ (at = "events" /\ t < i)
    <3>1. steps[0] + 1 + Left(t) = (steps[t] + eventFlags[t]) * L
      BY <2>4, <2>5 DEF Seen, Due
    <3>2. eventFlags[t] = 1 <=> Left(t) = L - 1
      BY <1>2, <2>5 DEF Fresh
    <3>3. Hits(t) = steps[t]
      <4>1. (steps[0] + L - 1) \div L = steps[t]
        <5> HIDE DEF L
        <5> QED
          BY <2>1, <2>2, <2>3, <3>1, <3>2, EarlyQuotient
      <4> QED
        BY <4>1 DEF Hits
    <3> QED
      BY <2>1, <3>3
  <2>6. CASE ~(at = "base" \/ (at = "events" /\ t < i))
    <3>1. steps[0] + Left(t) = (steps[t] + eventFlags[t]) * L
      <4>1. Seen(t) = steps[0]
        BY <2>1, <2>6 DEF Seen
      <4> QED
        BY <2>4, <4>1 DEF Due
    <3>2. Hits(t) = steps[t] + eventFlags[t]
      <4>1. steps[t] + eventFlags[t] \in Nat
        BY <2>1
      <4> QED
        BY <2>1, <2>2, <3>1, <4>1, Quotient DEF Hits
    <3>3. eventFlags[t] # 0 => at = "subrates" /\ t >= i
      <4>1. at \in {"idle", "check", "events", "base", "subrates", "end"} /\ i \in Nat /\ t \in Nat
        BY <1>2 DEF IInv, TypeOK
      <4> QED
        BY <1>2, <2>6, <4>1 DEF IInv, Settled
    <3> QED
      BY <2>1, <2>3, <3>2, <3>3
  <2> QED
    BY <2>5, <2>6
<1> QED
  BY Invariant, FreshStep, <1>1, <1>2, PTL DEF Spec
=============================================================================
