------------------------------ MODULE MultiRate ------------------------------
(***************************************************************************)
(* One tick of the multitasking build: rt_OneStep of ext_main.c, which     *)
(* steps the model for the base sample time and for the subrates that have *)
(* a hit, and looks for overruns. It is the function of a Clock: a Swi     *)
(* that runs to completion, while the timer goes on counting ticks for     *)
(* which it is called afterwards (external: the kernel).                   *)
(***************************************************************************)
EXTENDS Naturals

CONSTANTS
  NumTids,       \* NUMST, with FIRST_TID = 0
  CounterLimit,  \* per subrate: its period in ticks
  MaxPending,    \* bound: ticks that wait
  MaxSteps,      \* bound: base rate steps
  MaxFlags       \* bound: the overrun flag of a model that has ended

Subrates == 1 .. NumTids - 1
Tids == 0 .. NumTids - 1

ASSUME RatesAssumption ==
  /\ NumTids \in Nat \ {0} /\ MaxPending \in Nat /\ MaxSteps \in Nat
  /\ MaxFlags \in Nat
  /\ CounterLimit \in [Subrates -> Nat \ {0}]

VARIABLES
  pending,       \* ticks for which rt_OneStep is still to be called
  at, i,         \* where rt_OneStep is, and its loop variable
  OverrunFlags, eventFlags, taskCounter,
  errStatus,     \* rtmGetErrorStatus
  ended,         \* history: the generated code has ended the simulation
  steps,         \* history: calls of MODEL_STEP for each tid
  late           \* history: a tick came before the base rate step of the call
                 \* before ("now"), of this call ("next") was complete

flags == <<OverrunFlags, eventFlags, taskCounter>>
history == <<ended, steps, late>>
vars == <<pending, at, i, flags, errStatus, history>>

TypeOK ==
  /\ pending \in Nat /\ at \in {"idle", "check", "events", "base", "subrates", "end"}
  /\ i \in 1 .. NumTids
  /\ OverrunFlags \in [Tids -> Nat] /\ eventFlags \in [Tids -> Nat]
  /\ taskCounter \in [Subrates -> Nat]
  /\ \A t \in Subrates : taskCounter[t] < CounterLimit[t]
  /\ errStatus \in {"none", "finished", "overrun"} /\ ended \in BOOLEAN
  /\ steps \in [Tids -> Nat] /\ late \in {"no", "next", "now"}

Zero == [t \in Tids |-> 0]

\* rt_InitModel.
Init ==
  /\ pending = 0 /\ at = "idle" /\ i = 1
  /\ OverrunFlags = Zero /\ eventFlags = Zero
  /\ taskCounter = [t \in Subrates |-> 0]
  /\ errStatus = "none" /\ ended = FALSE /\ steps = Zero /\ late = "no"

-----------------------------------------------------------------------------
Increment(f, t) == [f EXCEPT ![t] = @ + 1]
Decrement(f, t) == [f EXCEPT ![t] = @ - 1]

\* The timer, at any time; and the Clock calls its function.
Tick ==
  /\ pending < MaxPending /\ pending' = pending + 1
  /\ late' = IF at \in {"check", "events", "base"} THEN "next" ELSE late
  /\ UNCHANGED <<at, i, flags, errStatus, ended, steps>>

Call ==
  /\ at = "idle" /\ pending > 0
  /\ steps[0] < MaxSteps /\ OverrunFlags[0] < MaxFlags
  /\ pending' = pending - 1 /\ at' = "check"
  /\ late' = IF late = "next" THEN "now" ELSE "no"
  /\ UNCHANGED <<i, flags, errStatus, ended, steps>>

\* The base step time is too fast when the last call has not come to its decrement.
BaseOverrun ==
  /\ at = "check" /\ OverrunFlags' = Increment(OverrunFlags, 0)
  /\ errStatus' = IF OverrunFlags[0] > 0 THEN "overrun" ELSE errStatus
  /\ at' = IF errStatus' # "none" THEN "idle" ELSE "events"
  /\ UNCHANGED <<pending, i, eventFlags, taskCounter, history>>

\* One subrate after the other: its event flag, and its task counter.
StepTask(t) == taskCounter[t] = 0
NextCountLate(t) == IF taskCounter[t] = CounterLimit[t] THEN 0 ELSE taskCounter[t] + 1 \* mutant
NextCount(t) == IF taskCounter[t] + 1 = CounterLimit[t] THEN 0 ELSE taskCounter[t] + 1

EventsOver ==
  /\ at = "events" /\ i \notin Subrates /\ at' = "base" /\ i' = 1
  /\ UNCHANGED <<pending, flags, errStatus, history>>

UpdateEvent ==
  /\ at = "events" /\ i \in Subrates
  /\ LET over == StepTask(i) /\ eventFlags[i] > 0 IN
     /\ eventFlags' = IF StepTask(i) THEN Increment(eventFlags, i) ELSE eventFlags
     /\ IF over
        THEN /\ OverrunFlags' = Increment(Decrement(OverrunFlags, 0), i)
             /\ errStatus' = "overrun" /\ at' = "idle" /\ i' = 1
             /\ UNCHANGED taskCounter
        ELSE /\ taskCounter' = [taskCounter EXCEPT ![i] = NextCount(i)]
             /\ i' = i + 1 /\ UNCHANGED <<OverrunFlags, errStatus, at>>
  /\ UNCHANGED <<pending, history>>

\* MODEL_STEP: the generated code may end the simulation.
ModelStep(t) ==
  /\ steps' = Increment(steps, t) /\ UNCHANGED late
  /\ \/ UNCHANGED <<errStatus, ended>>
     \/ errStatus' = "finished" /\ ended' = TRUE

StepBaseKeepsFlag ==                                                   \* mutant
  /\ at = "base" /\ ModelStep(0) /\ at' = "subrates"
  /\ UNCHANGED <<pending, i, flags>>
StepBase ==
  /\ at = "base" /\ ModelStep(0)
  /\ OverrunFlags' = Decrement(OverrunFlags, 0) /\ at' = "subrates"
  /\ UNCHANGED <<pending, i, eventFlags, taskCounter>>

\* If task i is running, no lower priority task is run, nor the end of the function.
SubratesOver ==
  /\ at = "subrates"
  /\ ~(i \in Subrates /\ OverrunFlags[i] = 0)
  /\ at' = IF i \in Subrates THEN "idle" ELSE "end"
  /\ i' = 1
  /\ UNCHANGED <<pending, flags, errStatus, history>>

SkipSubrate ==
  /\ at = "subrates" /\ i \in Subrates /\ OverrunFlags[i] = 0 /\ eventFlags[i] = 0
  /\ i' = i + 1
  /\ UNCHANGED <<pending, at, flags, errStatus, history>>

\* OverrunFlags[i] is raised for the time of the step.
StepSubrateKeepsFlag ==                                                \* mutant
  /\ at = "subrates" /\ i \in Subrates /\ OverrunFlags[i] = 0 /\ eventFlags[i] > 0
  /\ ModelStep(i) /\ i' = i + 1
  /\ UNCHANGED <<pending, at, flags>>
StepSubrate ==
  /\ at = "subrates" /\ i \in Subrates /\ OverrunFlags[i] = 0 /\ eventFlags[i] > 0
  /\ ModelStep(i)
  /\ eventFlags' = Decrement(eventFlags, i) /\ i' = i + 1
  /\ UNCHANGED <<pending, at, OverrunFlags, taskCounter>>

\* rtExtModeCheckEndTrigger is in UploadSession.
Return ==
  /\ at = "end" /\ at' = "idle"
  /\ UNCHANGED <<pending, i, flags, errStatus, history>>

OneStep ==
  \/ Call \/ BaseOverrun \/ UpdateEvent \/ EventsOver \/ StepBase
  \/ SkipSubrate \/ StepSubrate \/ SubratesOver \/ Return

Stopped ==
  /\ at = "idle" /\ pending = MaxPending /\ UNCHANGED vars
  /\ steps[0] >= MaxSteps \/ OverrunFlags[0] >= MaxFlags

Next == Tick \/ OneStep \/ Stopped

\* The Swi runs, whatever the timer does.
Spec == Init /\ [][Next]_vars /\ WF_vars(OneStep)

-----------------------------------------------------------------------------
\* Each subrate is stepped exactly for its hits, the first at the first tick, however
\* many ticks had to wait: none lost, none doubled. While rt_OneStep runs, it is stepped
\* after the base rate of its tick, and the slower after the faster: what a task reads
\* was computed in the same tick. So between two ticks no subrate is behind.
Hits(t) == (steps[0] + CounterLimit[t] - 1) \div CounterLimit[t]
RateOrder ==
  \A t \in Subrates :
    /\ Hits(t) - steps[t] \in {0, 1}
    /\ steps[t] < Hits(t) => at = "subrates" /\ t >= i

\* "Sampling too fast": the overrun tests accuse no step that came in time. An
\* overrun is only reported once the simulation has ended, by the flag that the
\* early return leaves behind.
NoOverrunInTime == errStatus = "overrun" => ended

\* rt_OneStep: "Check and see if base step time is too fast". A tick that comes
\* before the base rate step of the last one is complete is an overrun: the call for
\* it reports it, or at least does not go on as if nothing had happened.
OverrunIsSeen == at = "events" => late # "now"
=============================================================================
