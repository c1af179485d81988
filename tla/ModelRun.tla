------------------------------ MODULE ModelRun ------------------------------
(***************************************************************************)
(* The life of a model on the target: main starts it, the clock Swi steps  *)
(* it (rt_OneStep, in the single and the multitasking build), and packets  *)
(* of the host and the end of the simulation stop it (ext_main.c,          *)
(* ext_work_c6000.c, the packet server of ext_svr_c6000.c).                *)
(*                                                                         *)
(* Until BIOS_start only main runs. After it the Swi runs to completion    *)
(* between any two steps of the background task rtExtModeOneStep.          *)
(***************************************************************************)
EXTENDS Naturals

CONSTANT Builds     \* the builds to start from

ASSUME BuildsAssumption == Builds \subseteq {"single", "multi"}

VARIABLES
  build, waitForStartPkt,
  mpc,          \* main: "init", "wait", "run", and "bios" for good
  tpc,          \* the background task, from BIOS_start on
  extmodeSimStatus, modelStatus, startModel,
  connected, commInitialized,
  stopReq,      \* rtmGetStopRequested
  errStatus,    \* rtmGetErrorStatus
  overrun,      \* OverrunFlags[0] # 0
  clock,        \* the Clock instance exists
  term,         \* the static of rt_TermModel
  terminated,   \* history: calls of MODEL_TERMINATE
  lateStep,     \* history: MODEL_STEP ran after MODEL_TERMINATE
  fault,        \* history: the error status that the generated code set, "none" for
                \* the end of the simulation
  report,       \* history: the error status that rt_TermModel printed
  isrOverrun    \* history: ... and whether "ISR overrun" below it

config == <<build, waitForStartPkt>>
status == <<extmodeSimStatus, modelStatus, startModel>>
link == <<connected, commInitialized>>
model == <<term, terminated, report, isrOverrun>>
vars == <<config, mpc, tpc, status, link, stopReq, errStatus, overrun, clock, model, fault, lateStep>>

TypeOK ==
  /\ build \in Builds /\ waitForStartPkt \in BOOLEAN
  /\ mpc \in {"init", "wait", "run", "bios"}
  /\ tpc \in {"loop", "flush", "delete", "test", "terminate", "done"}
  /\ extmodeSimStatus \in {"STARTUP", "WAITING", "RUNNING", "STOPPED"}
  /\ modelStatus \in {"WAITING", "RUNNING", "PAUSED"} /\ startModel \in BOOLEAN
  /\ connected \in BOOLEAN /\ commInitialized \in BOOLEAN
  /\ stopReq \in BOOLEAN /\ errStatus \in {"none", "finished", "error", "overrun"}
  /\ overrun \in BOOLEAN /\ clock \in BOOLEAN /\ term \in BOOLEAN
  /\ terminated \in 0 .. 2 /\ lateStep \in BOOLEAN
  /\ fault \in {"none", "error"} /\ report \in {"none", "error", "overrun"}
  /\ isrOverrun \in BOOLEAN

Init ==
  /\ build \in Builds /\ waitForStartPkt \in BOOLEAN
  /\ mpc = "init" /\ tpc = "loop"
  /\ extmodeSimStatus = "STARTUP" /\ modelStatus = "WAITING" /\ startModel = FALSE
  /\ connected = FALSE /\ commInitialized = FALSE
  /\ stopReq = FALSE /\ errStatus = "none" /\ overrun = FALSE
  /\ clock = FALSE /\ term = FALSE
  /\ terminated = 0 /\ lateStep = FALSE
  /\ fault = "none" /\ report = "none" /\ isrOverrun = FALSE

-----------------------------------------------------------------------------
\* The generated code sets an error status, which may be the end of the simulation.
Faults(errs) ==
  /\ errStatus' \in errs
  /\ fault' = IF errStatus' = "error" THEN "error" ELSE fault

\* main: rt_InitModel, the clock, and rtExtModeC6000Startup.
Startup ==
  /\ mpc = "init" /\ clock' = TRUE
  /\ Faults({"none", "error"})
  /\ extmodeSimStatus' = "WAITING" /\ modelStatus' = "WAITING"
  /\ mpc' = IF waitForStartPkt THEN "wait" ELSE "run"
  /\ UNCHANGED <<config, tpc, startModel, link, stopReq, overrun, model, lateStep>>

\* Its end, and BIOS_start.
Started ==
  /\ mpc = "run" /\ mpc' = "bios"
  /\ modelStatus' = "RUNNING" /\ extmodeSimStatus' = "RUNNING"
  /\ UNCHANGED <<config, tpc, startModel, link, stopReq, errStatus, overrun, clock, model,
                 fault, lateStep>>

-----------------------------------------------------------------------------
\* The clock Swi.

\* rt_TermModel: the test of term, and what it guards. Of an error it prints the
\* status, and an ISR overrun for an overrun flag that is set.
TermAlways == TRUE                                                     \* mutant
TermUnset == ~term
Terminate(err, flag) ==
  /\ term' = TRUE /\ terminated' = terminated + 1
  /\ IF err \in {"error", "overrun"} THEN report' = err /\ isrOverrun' = flag
     ELSE UNCHANGED <<report, isrOverrun>>

\* rt_OneStep that finds an error status or, in the single tasking build only, a
\* stop request: it returns with OverrunFlags[0] still incremented.
OverrunSeen == IF overrun THEN "overrun" ELSE errStatus
StopsStep ==
  OverrunSeen # "none" \/ (build = "single" /\ stopReq)

StepIsOver ==
  /\ mpc = "bios" /\ clock /\ StopsStep
  /\ overrun' = TRUE /\ errStatus' = OverrunSeen
  /\ IF build = "single" /\ TermUnset
     THEN Terminate(OverrunSeen, TRUE)
     ELSE UNCHANGED model
  /\ UNCHANGED <<config, mpc, tpc, status, link, stopReq, clock, fault, lateStep>>

\* rt_OneStep that steps the model, which may reach its final time, fail or stop itself.
\* Each event flag is served in the call that sets it: there is no subrate overrun.
ModelStep ==
  /\ mpc = "bios" /\ clock /\ ~StopsStep
  /\ lateStep' = (lateStep \/ terminated > 0)
  /\ Faults({"none", "finished", "error"})
  /\ stopReq' \in {stopReq, TRUE}
  /\ UNCHANGED <<config, mpc, tpc, status, link, overrun, clock, model>>

-----------------------------------------------------------------------------
\* rt_PktServerWork, called by main while it waits and by the background task.
Serving == mpc = "wait" \/ (mpc = "bios" /\ tpc = "loop")

\* What the caller does with the packet type it returns. The task looks at
\* extmodeSimStatus, after one round of the upload server.
ReturnsForever(type) ==                                                \* mutant
  IF mpc = "wait"
  THEN mpc' = (IF type = "START" THEN "run" ELSE "wait") /\ UNCHANGED tpc
  ELSE tpc' = "loop" /\ UNCHANGED mpc
Returns(type) ==
  IF mpc = "wait"
  THEN mpc' = (IF type = "START" THEN "run" ELSE "wait") /\ UNCHANGED tpc
  ELSE tpc' = (IF extmodeSimStatus' = "STOPPED" THEN "flush" ELSE "loop") /\ UNCHANGED mpc

\* Without a packet the type returned is an uninitialized variable.
Garbage == {"START", "OTHER"}

\* No connection, no header, or an error on the line that drops the connection. The
\* packet read by the call that opens a connection is that of the next call here.
NoPacket ==
  /\ Serving
  /\ \/ ~connected /\ connected' \in BOOLEAN /\ UNCHANGED commInitialized
     \/ connected /\ UNCHANGED link
     \/ connected /\ connected' = FALSE /\ commInitialized' = FALSE
  /\ UNCHANGED status
  /\ \E type \in Garbage : Returns(type)
  /\ UNCHANGED <<config, stopReq, errStatus, overrun, clock, model, fault, lateStep>>

\* The first header of a connection is taken for EXT_CONNECT. The answer may fail.
ConnectPkt ==
  /\ Serving /\ connected /\ ~commInitialized
  /\ commInitialized' \in BOOLEAN
  /\ UNCHANGED <<connected, status>> /\ Returns("CONNECT")
  /\ UNCHANGED <<config, stopReq, errStatus, overrun, clock, model, fault, lateStep>>

Start == startModel' = TRUE /\ UNCHANGED <<extmodeSimStatus, modelStatus, link, stopReq>>

\* rtExtModeC6000Cleanup makes the task end its loop.
Stop ==
  /\ stopReq' = TRUE /\ extmodeSimStatus' = "STOPPED"
  /\ UNCHANGED <<modelStatus, startModel, link>>

Pause ==
  /\ modelStatus' = "PAUSED" /\ startModel' = FALSE
  /\ UNCHANGED <<extmodeSimStatus, link, stopReq>>

StepPaused ==
  /\ startModel' = (startModel \/ modelStatus = "PAUSED")
  /\ UNCHANGED <<extmodeSimStatus, modelStatus, link, stopReq>>

Continue ==
  /\ IF modelStatus = "PAUSED" THEN modelStatus' = "RUNNING" /\ startModel' = FALSE
     ELSE UNCHANGED <<modelStatus, startModel>>
  /\ UNCHANGED <<extmodeSimStatus, link, stopReq>>

\* With or without a final upload.
Disconnect ==
  /\ connected' = FALSE /\ commInitialized' = FALSE /\ UNCHANGED <<status, stopReq>>

Packet ==
  /\ Serving /\ connected /\ commInitialized
  /\ \/ Start /\ Returns("START")
     \/ Stop /\ Returns("STOP")
     \/ Pause /\ Returns("PAUSE")
     \/ StepPaused /\ Returns("STEP")
     \/ Continue /\ Returns("CONTINUE")
     \/ Disconnect /\ Returns("DISCONNECT")
  /\ UNCHANGED <<config, errStatus, overrun, clock, model, fault, lateStep>>

-----------------------------------------------------------------------------
\* The background task after its loop.

\* rt_ExtModeShutdown.
Shutdown ==
  /\ mpc = "bios" /\ tpc = "flush" /\ tpc' = "delete"
  /\ commInitialized' = FALSE /\ connected' = FALSE
  /\ modelStatus' = IF connected THEN "WAITING" ELSE modelStatus
  /\ UNCHANGED <<config, mpc, extmodeSimStatus, startModel, stopReq, errStatus, overrun,
                 clock, model, fault, lateStep>>

ClockKept ==                                                           \* mutant
  /\ tpc = "delete" /\ tpc' = "test"
  /\ UNCHANGED <<config, mpc, status, link, stopReq, errStatus, overrun, clock, model,
                 fault, lateStep>>
ClockDelete ==
  /\ tpc = "delete" /\ tpc' = "test" /\ clock' = FALSE
  /\ UNCHANGED <<config, mpc, status, link, stopReq, errStatus, overrun, model,
                 fault, lateStep>>

\* rt_TermModel of the task: the Swi could run between its test and its set.
TermTest ==
  /\ tpc = "test" /\ tpc' = IF TermUnset THEN "terminate" ELSE "done"
  /\ UNCHANGED <<config, mpc, status, link, stopReq, errStatus, overrun, clock, model,
                 fault, lateStep>>

TermSet ==
  /\ tpc = "terminate" /\ tpc' = "done" /\ Terminate(errStatus, overrun)
  /\ UNCHANGED <<config, mpc, status, link, stopReq, errStatus, overrun, clock,
                 fault, lateStep>>

-----------------------------------------------------------------------------
Main == Startup \/ Started
PktServerWork == NoPacket \/ ConnectPkt \/ Packet
OneStep == StepIsOver \/ ModelStep
Finish == Shutdown \/ ClockDelete \/ TermTest \/ TermSet
Done == tpc = "done" /\ UNCHANGED vars

Next == Main \/ PktServerWork \/ OneStep \/ Finish \/ Done

\* Each thread of control goes on.
Spec ==
  /\ Init /\ [][Next]_vars
  /\ WF_vars(Main) /\ WF_vars(PktServerWork) /\ WF_vars(OneStep) /\ WF_vars(Finish)

-----------------------------------------------------------------------------
\* rt_TermModel: "prevent to call MODEL_TERMINATE more then once", though the Swi
\* and the background task both call it and its test and set are not atomic.
TerminatedOnce == terminated <= 1

\* A terminated model is never stepped again.
NoStepAfterTerminate == ~lateStep

\* In the single tasking build rt_TermModel prints the error the generated code set,
\* if any: rt_OneStep leaves its overrun flag set when it returns early, but the
\* "Overrun" that the next tick writes over the status comes too late. (In the
\* multitasking build, where only the task calls rt_TermModel, it does not.)
ErrorIsReported == build = "single" /\ term => report = fault

\* "ISR overrun - sampling rate too fast for sample time index %d". What the code
\* does not keep to: the flag that the early return leaves set is printed as well.
IsrOverrunIsReal == ~isrOverrun

\* EXT_MODEL_STOP of a running model: the task tells the host, terminates the
\* model, and is done.
StopShutsDown ==
  (mpc = "bios" /\ extmodeSimStatus = "STOPPED") ~> (tpc = "done" /\ terminated = 1)

\* ExtModeShutdown: "this is important for the case of the target reaching tfinal
\* while data uploading is in progress". When the model has ended, the external
\* mode task shuts the connection down.
EndShutsDown == errStatus = "finished" ~> tpc = "done"
=============================================================================
