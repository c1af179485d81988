--------------------------- MODULE ModelRunProofs ---------------------------
(***************************************************************************)
(* The safety properties of ModelRun, for either build or both.            *)
(***************************************************************************)
EXTENDS ModelRun, TLAPS

\* Why they hold. The Swi calls rt_TermModel only on its way to leaving the
\* overrun flag set, which keeps it from stepping again; and by the time the task
\* tests term, Clock_delete has stopped the Swi.
Life ==
  /\ (term => terminated = 1) /\ (~term => terminated = 0)
  /\ term /\ clock => overrun
  /\ mpc # "bios" => tpc = "loop" /\ ~term
  /\ mpc = "init" => errStatus = "none"
  /\ tpc \in {"test", "terminate", "done"} => ~clock
  /\ tpc = "terminate" => ~term
  /\ errStatus = "overrun" => overrun
  /\ build = "single" /\ overrun => term
  /\ ~lateStep

\* What rt_TermModel will print, or has printed, in the single tasking build.
Printed(err) == IF err \in {"error", "overrun"} THEN err ELSE "none"

Told ==
  build = "single" =>
    /\ ~term => Printed(errStatus) = fault /\ report = "none"
    /\ term => report = fault

\* For the prover that knows no arithmetic.
LEMMA Counting == 0 + 1 = 1
OBVIOUS

\* What the shared parts of the next-state relation leave alone.
Kept == UNCHANGED <<build, errStatus, overrun, clock, term, terminated, lateStep>>

\* The packet server, whoever calls it, stays out of all this.
LEMMA ServerKeeps == Life /\ PktServerWork => Life'
<1> SUFFICES ASSUME Life, PktServerWork PROVE Life'
  OBVIOUS
<1>1. Kept /\ Serving /\ \E type : Returns(type)
  BY Zenon DEF PktServerWork, NoPacket, ConnectPkt, Packet, Kept, config, model
<1>2. \/ mpc = "wait" /\ mpc' \in {"wait", "run"} /\ tpc' = tpc
      \/ mpc = "bios" /\ mpc' = mpc /\ tpc' \in {"flush", "loop"}
  BY <1>1 DEF Serving, Returns
<1>3. CASE mpc = "wait" /\ mpc' \in {"wait", "run"} /\ tpc' = tpc
  <2>1. tpc' = "loop" /\ ~term
    BY <1>3, Zenon DEF Life
  <2>2. mpc' # "init"
    BY <1>3
  <2> QED
    BY <1>1, <2>1, <2>2, Zenon DEF Life, Kept
<1>4. CASE mpc = "bios" /\ mpc' = mpc /\ tpc' \in {"flush", "loop"}
  BY <1>1, <1>4, Zenon DEF Life, Kept
<1> QED
  BY <1>2, <1>3, <1>4

LEMMA MainKeeps == Life /\ Main => Life'
<1> SUFFICES ASSUME Life, Main PROVE Life'
  OBVIOUS
<1>1. /\ UNCHANGED <<build, tpc, overrun, term, terminated, lateStep>>
      /\ mpc # "bios" /\ mpc' # "init" /\ (errStatus' = "overrun" => errStatus = "overrun")
  BY DEF Main, Startup, Started, Faults, config, model
<1>2. tpc = "loop" /\ ~term
  BY <1>1, Zenon DEF Life
<1> QED
  BY <1>1, <1>2, Zenon DEF Life

\* A step that is not taken leaves the overrun flag set.
LEMMA StepIsOverKeeps == Life /\ StepIsOver => Life'
<1> SUFFICES ASSUME Life, StepIsOver PROVE Life'
  OBVIOUS
<1>1. /\ UNCHANGED <<build, mpc, tpc, clock, lateStep>>
      /\ mpc = "bios" /\ clock /\ overrun'
  BY Zenon DEF StepIsOver, config
<1>2. tpc \notin {"test", "terminate", "done"}
  BY <1>1, Zenon DEF Life
<1>3. CASE build = "single" /\ ~term
  <2>1. terminated = 0
    BY <1>3, Zenon DEF Life
  <2>2. term' /\ terminated' = terminated + 1
    BY <1>3, Zenon DEF StepIsOver, TermUnset, Terminate
  <2> QED
    BY <1>1, <1>2, <1>3, <2>1, <2>2, Counting, Zenon DEF Life
<1>4. CASE ~(build = "single" /\ ~term)
  <2>1. UNCHANGED <<term, terminated>>
    BY <1>4, Zenon DEF StepIsOver, TermUnset, model
  <2> QED
    BY <1>1, <1>2, <1>4, <2>1, Zenon DEF Life
<1> QED
  BY <1>3, <1>4

\* A step is only taken while the flag is clear, so before MODEL_TERMINATE.
LEMMA ModelStepKeeps == Life /\ ModelStep => Life'
<1> SUFFICES ASSUME Life, ModelStep PROVE Life'
  OBVIOUS
<1>1. /\ UNCHANGED <<build, mpc, tpc, overrun, clock, term, terminated>>
      /\ mpc = "bios" /\ clock /\ errStatus' \in {"none", "finished", "error"}
  BY DEF ModelStep, Faults, config, model
<1>2. ~overrun
  BY Zenon DEF ModelStep, StopsStep, OverrunSeen
<1>3. terminated = 0
  BY <1>1, <1>2, Zenon DEF Life
<1>4. ~(terminated > 0)
  BY <1>3
<1>5. ~lateStep'
  BY <1>4, Zenon DEF ModelStep, Life
<1>6. errStatus' # "overrun"
  BY <1>1
<1> QED
  BY <1>1, <1>2, <1>3, <1>5, <1>6, Zenon DEF Life

LEMMA FinishKeeps == Life /\ Finish => Life'
<1> SUFFICES ASSUME Life, Finish PROVE Life'
  OBVIOUS
<1>1. CASE Shutdown
  <2>1. /\ UNCHANGED <<build, mpc, errStatus, overrun, clock, term, terminated, lateStep>>
        /\ mpc = "bios" /\ tpc' = "delete"
    BY <1>1 DEF Shutdown, config, model
  <2> QED
    BY <2>1, Zenon DEF Life
<1>2. CASE ClockDelete
  <2>1. /\ UNCHANGED <<build, mpc, errStatus, overrun, term, terminated, lateStep>>
        /\ tpc = "delete" /\ tpc' = "test" /\ ~clock'
    BY <1>2, Zenon DEF ClockDelete, config, model
  <2> QED
    BY <2>1, Zenon DEF Life
<1>3. CASE TermTest
  <2>1. /\ Kept /\ mpc' = mpc /\ tpc = "test"
        /\ \/ term /\ tpc' = "done"
           \/ ~term /\ tpc' = "terminate"
    BY <1>3, Zenon DEF TermTest, TermUnset, Kept, config, model
  <2>2. mpc = "bios" /\ ~clock
    BY <2>1, Zenon DEF Life
  <2> QED
    BY <2>1, <2>2, Zenon DEF Life, Kept
<1>4. CASE TermSet
  <2>1. /\ UNCHANGED <<build, mpc, errStatus, overrun, clock, lateStep>>
        /\ tpc = "terminate" /\ tpc' = "done" /\ term' /\ terminated' = terminated + 1
    BY <1>4, Zenon DEF TermSet, Terminate, config
  <2>2. mpc = "bios" /\ ~clock /\ ~term
    BY <2>1, SMT DEF Life
  <2> QED
    BY <2>1, <2>2, Counting, Zenon DEF Life
<1> QED
  BY <1>1, <1>2, <1>3, <1>4 DEF Finish

\* Until rt_TermModel is called the status is the one the generated code set last: the
\* flag is clear, so that no step has been given up.
LEMMA ToldStep == Life /\ Told /\ [Next]_vars => Told'
<1> SUFFICES ASSUME Life, Told, [Next]_vars PROVE Told'
  OBVIOUS
<1>8. build' = build
  <2>1. ASSUME Main \/ OneStep PROVE build' = build
    BY <2>1 DEF Main, Startup, Started, OneStep, StepIsOver, ModelStep, config
  <2>2. ASSUME PktServerWork PROVE build' = build
    BY <2>2, Zenon DEF PktServerWork, NoPacket, ConnectPkt, Packet, config
  <2>3. ASSUME Finish \/ Done \/ UNCHANGED vars PROVE build' = build
    BY <2>3 DEF Finish, Shutdown, ClockDelete, TermTest, TermSet, Done, vars, config
  <2> QED
    BY <2>1, <2>2, <2>3 DEF Next
<1> SUFFICES ASSUME build = "single" PROVE Told'
  BY <1>8 DEF Told
<1>1. ASSUME UNCHANGED <<build, errStatus, fault, term, report>> PROVE Told'
  BY <1>1, Zenon DEF Told, Printed
<1>2. CASE Startup
  <2>1. /\ UNCHANGED <<build, term, report>> /\ ~term
        /\ errStatus = "none" /\ errStatus' \in {"none", "error"}
        /\ fault' = IF errStatus' = "error" THEN "error" ELSE fault
    BY <1>2 DEF Startup, Faults, config, model, Life
  <2> QED
    BY <2>1 DEF Told, Printed
<1>3. CASE Started \/ PktServerWork \/ Shutdown \/ ClockDelete \/ TermTest
  BY <1>1, <1>3, Zenon DEF Started, PktServerWork, NoPacket, ConnectPkt, Packet, Shutdown,
     ClockDelete, TermTest, config, model
<1>4. CASE ModelStep
  <2>1. ~overrun /\ errStatus = "none"
    BY <1>4, Zenon DEF ModelStep, StopsStep, OverrunSeen
  <2>2. /\ UNCHANGED <<build, term, report>> /\ clock
        /\ errStatus' \in {"none", "finished", "error"}
        /\ fault' = IF errStatus' = "error" THEN "error" ELSE fault
    BY <1>4 DEF ModelStep, Faults, config, model
  <2>3. ~term
    BY <2>1, <2>2, Zenon DEF Life
  <2>4. fault = "none" /\ report = "none"
    BY <2>1, <2>3 DEF Told, Printed
  <2> QED
    BY <2>2, <2>3, <2>4 DEF Told, Printed
<1>5. CASE StepIsOver
  <2>1. UNCHANGED <<build, fault>>
    BY <1>5 DEF StepIsOver, config
  <2>2. CASE term
    <3>1. UNCHANGED <<term, report>>
      BY <1>5, <2>2 DEF StepIsOver, TermUnset, model
    <3> QED
      BY <2>1, <2>2, <3>1 DEF Told
  <2>3. CASE ~term
    <3>1. ~overrun
      BY <2>3, Zenon DEF Life
    <3>2. term' /\ report' = IF errStatus \in {"error", "overrun"} THEN errStatus ELSE report
      BY <1>5, <2>3, <3>1, Zenon DEF StepIsOver, OverrunSeen, TermUnset, Terminate
    <3> QED
      BY <2>1, <2>3, <3>2 DEF Told, Printed
  <2> QED
    BY <2>2, <2>3
<1>6. CASE TermSet
  <2>1. /\ UNCHANGED <<build, fault, errStatus>> /\ term' /\ tpc = "terminate"
        /\ report' = IF errStatus \in {"error", "overrun"} THEN errStatus ELSE report
    BY <1>6, Zenon DEF TermSet, Terminate, config
  <2>2. ~term
    BY <2>1, Zenon DEF Life
  <2> QED
    BY <2>1, <2>2 DEF Told, Printed
<1>7. CASE UNCHANGED vars
  BY <1>1, <1>7 DEF vars, config, model
<1> QED
  BY <1>2, <1>3, <1>4, <1>5, <1>6, <1>7
     DEF Next, Main, OneStep, Finish, Done

LEMMA LifeInvariant == Spec => []Life
<1>1. Init => Life
  BY Zenon DEF Init, Life
<1>2. Life /\ [Next]_vars => Life'
  <2>1. Life /\ UNCHANGED vars => Life'
    <3>1. UNCHANGED vars => Kept /\ UNCHANGED <<mpc, tpc>>
      BY DEF vars, config, model, Kept
    <3> QED
      BY <3>1, Zenon DEF Life, Kept
  <2>2. Life /\ Next => Life'
    BY <2>1, MainKeeps, ServerKeeps, StepIsOverKeeps, ModelStepKeeps, FinishKeeps
       DEF Next, OneStep, Done
  <2> QED
    BY <2>1, <2>2
<1> QED
  BY <1>1, <1>2, PTL DEF Spec

\* MODEL_TERMINATE is called at most once, though the clock Swi and the background
\* task both call rt_TermModel and its test and set of term are not atomic.
THEOREM TerminationIsSingle == Spec => []TerminatedOnce
<1>1. Life => terminated = 0 \/ terminated = 1
  BY Zenon DEF Life
<1>2. Life => TerminatedOnce
  BY <1>1 DEF TerminatedOnce
<1> QED
  BY LifeInvariant, <1>2, PTL

\* The model is not stepped after MODEL_TERMINATE, in either build.
THEOREM TerminationIsFinal == Spec => []NoStepAfterTerminate
<1>1. Life => NoStepAfterTerminate
  BY Zenon DEF Life, NoStepAfterTerminate
<1> QED
  BY LifeInvariant, <1>1, PTL

\* rt_OneStep, early return: in the single tasking build rt_TermModel prints the error
\* that the generated code set, and no other, though the flag the return leaves set
\* makes every later tick write "Overrun" over it.
THEOREM ErrorsAreReported == Spec => []ErrorIsReported
<1>1. Init => Told
  BY DEF Init, Told, Printed
<1>2. Told => ErrorIsReported
  BY Zenon DEF Told, ErrorIsReported
<1> QED
  BY LifeInvariant, ToldStep, <1>1, <1>2, PTL DEF Spec
=============================================================================
