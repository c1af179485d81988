---------------------------- MODULE UploadSession ----------------------------
(***************************************************************************)
(* Data logging sessions of external mode: the clock Swi of the single     *)
(* tasking build adds time points and drives the triggers of all upInfos,  *)
(* and one background task (rtExtModeOneStep) in turn handles one packet   *)
(* of the host and lets the upload server work on each upInfo.             *)
(*                                                                         *)
(* A whole base rate tick is one step: the Swi runs to completion.  The    *)
(* background task is interrupted between any two of its steps.            *)
(***************************************************************************)
EXTENDS UploadTrigger, FiniteSetsExt

CONSTANT NumInfos     \* NUM_UPINFOS

ASSUME InfosAssumption == NumInfos \in Nat \ {0}

Infoes == 0 .. NumInfos - 1

VARIABLES
  info,        \* uploadInfoArray
  alloc,       \* per upInfo: its tables and buffers are "none", "held", "freed"
  uploadSem,   \* the binary semaphore: 0 or 1
  connected,
  stopReq,     \* EXT_MODEL_STOP was received
  srv,         \* where the background task is
  wild         \* history: the Swi used buffers that were freed

vars == <<info, alloc, uploadSem, connected, stopReq, srv, wild>>

\* The background task: at which point, why, for which upInfo, with which points
\* listed, pkg_count, and whether this is the final flush of a running event.
Places == {"pkt", "prepare", "pend", "get", "test", "send", "free", "reset", "stopped"}
AtPkt == [at |-> "pkt", mode |-> "work", u |-> 0, list |-> << >>, pkg |-> 0, final |-> FALSE]

Idle(x) == x.state = "UNARMED"

TypeOK ==
  /\ info \in [Infoes -> Infos]
  /\ alloc \in [Infoes -> {"none", "held", "freed"}]
  /\ uploadSem \in {0, 1} /\ connected \in BOOLEAN /\ stopReq \in BOOLEAN
  /\ srv.at \in Places /\ srv.mode \in {"work", "disconnect", "shutdown"}
  /\ srv.u \in Infoes /\ srv.pkg \in 0 .. 2 /\ srv.final \in BOOLEAN
  /\ DOMAIN srv.list \subseteq Tids

Init ==
  /\ info = [u \in Infoes |-> Unarmed] /\ alloc = [u \in Infoes |-> "none"]
  /\ uploadSem = 1 /\ connected = FALSE /\ stopReq = FALSE
  /\ srv = AtPkt /\ wild = FALSE

-----------------------------------------------------------------------------
\* The clock Swi: rt_OneStep, until rtmGetStopRequested.

\* The tick arms, tests the trigger's signals, stores or slides: it uses what the
\* upInfo has allocated.
UsesBufs(u, new, hits) ==
  \/ info[u].state \in {"HOLDING_OFF", "DELAYED"} /\ new.state # info[u].state
  \/ info[u].state = "ARMED"
       /\ (info[u].manual \/ info[u].tid \in hits \/ info[u].preDur > 0)
  \/ info[u].state = "FIRED"

OneStep ==
  /\ ~stopReq /\ srv.at # "stopped"
  /\ \E hits \in SUBSET Tids, in \in [Infoes -> Inputs] :
       /\ 0 \in hits
       /\ info' = [u \in Infoes |-> Tick(info[u], hits, in[u])]
       /\ wild' = (wild \/ \E u \in Infoes :
                             alloc[u] = "freed" /\ UsesBufs(u, info'[u], hits))
  /\ uploadSem' = IF \E u \in Infoes : Posts(info'[u]) THEN 1 ELSE uploadSem
  /\ UNCHANGED <<alloc, connected, stopReq, srv>>

-----------------------------------------------------------------------------
\* rt_PktServerWork: at most one packet, then the upload server.

ToUpload == [AtPkt EXCEPT !.at = "pend"]

\* ExtOpenConnection waits for a host, or fails. The packet that the code may read in
\* the same call is that of the next call here.
OpenConnection ==
  /\ srv.at = "pkt" /\ ~connected
  /\ connected' \in BOOLEAN /\ srv' = ToUpload
  /\ UNCHANGED <<info, alloc, uploadSem, stopReq, wild>>

\* No packet, or one that has nothing to do with data logging.
OtherPkt ==
  /\ srv.at = "pkt" /\ connected /\ srv' = ToUpload
  /\ UNCHANGED <<info, alloc, uploadSem, connected, stopReq, wild>>

\* UploadLogInfoInit, after which the upInfo may be without its memory. A host
\* selects signals for a session that is over, then the trigger, then arms it.
SelectSignals(u) ==
  /\ srv.at = "pkt" /\ connected /\ Idle(info[u])
  /\ \E tids \in SUBSET Tids \ {{}} : info' = [info EXCEPT ![u] = [Unarmed EXCEPT !.signals = tids]]
  /\ \E held \in {"held", "none"} : alloc' = [alloc EXCEPT ![u] = held]
  /\ srv' = ToUpload
  /\ UNCHANGED <<uploadSem, connected, stopReq, wild>>

SelectTrigger(u, tr) ==
  /\ srv.at = "pkt" /\ connected /\ Idle(info[u]) /\ alloc[u] = "held"
  /\ info[u].duration = 0
  /\ info' = [info EXCEPT ![u] = InitTrigger(@, tr)]
  /\ srv' = ToUpload
  /\ UNCHANGED <<alloc, uploadSem, connected, stopReq, wild>>

ArmTrigger(u) ==
  /\ srv.at = "pkt" /\ connected /\ Idle(info[u]) /\ info[u].duration > 0
  /\ info' = [info EXCEPT ![u] = Arm(@)]
  /\ srv' = ToUpload
  /\ UNCHANGED <<alloc, uploadSem, connected, stopReq, wild>>

CancelLogging(u) ==
  /\ srv.at = "pkt" /\ connected
  /\ info' = [info EXCEPT ![u] = Cancel(@)]
  /\ uploadSem' =
       IF info[u].state \in {"UNARMED", "TERMINATING"} THEN uploadSem ELSE 1
  /\ srv' = ToUpload
  /\ UNCHANGED <<alloc, connected, stopReq, wild>>

\* EXT_MODEL_STOP: the Swi stops stepping, this task ends its loop.
ModelStop ==
  /\ srv.at = "pkt" /\ connected
  /\ stopReq' = TRUE /\ srv' = ToUpload
  /\ UNCHANGED <<info, alloc, uploadSem, connected, wild>>

\* EXT_DISCONNECT_REQUEST: DisconnectFromHost flushes every upInfo.
DisconnectRequest ==
  /\ srv.at = "pkt" /\ connected
  /\ srv' = [AtPkt EXCEPT !.at = "prepare", !.mode = "disconnect"]
  /\ UNCHANGED <<info, alloc, uploadSem, connected, stopReq, wild>>

\* ForceDisconnectFromHost: every session ends, UNARMED first, then its memory.
ForceDisconnectFirst ==                                                \* mutant
  /\ connected' = FALSE
  /\ info' = [info EXCEPT ![0] = Unarmed] /\ alloc' = [alloc EXCEPT ![0] = "none"]
ForceDisconnect ==
  /\ connected' = FALSE
  /\ info' = [u \in Infoes |-> Unarmed]
  /\ alloc' = [u \in Infoes |-> "none"]

\* EXT_DISCONNECT_REQUEST_NO_FINAL_UPLOAD, or no header could be received.
Disconnected ==
  /\ srv.at = "pkt" /\ connected /\ ForceDisconnect /\ srv' = ToUpload
  /\ UNCHANGED <<uploadSem, stopReq, wild>>

-----------------------------------------------------------------------------
\* UploadServerWork for srv.u, from the loop of the task (mode "work") or for a
\* final flush of DisconnectFromHost or rt_ExtModeShutdown.

\* Its end: the next upInfo, the next packet, or what follows the flush.
Done ==
  CASE srv.mode # "work" -> [srv EXCEPT !.at = "free", !.list = << >>, !.pkg = 0]
    [] srv.mode = "work" /\ srv.u + 1 < NumInfos ->
         [AtPkt EXCEPT !.at = "pend", !.u = srv.u + 1]
    [] srv.mode = "work" /\ srv.u + 1 = NumInfos /\ stopReq ->
         [AtPkt EXCEPT !.at = "prepare", !.mode = "shutdown"]
    [] OTHER -> AtPkt

\* Semaphore_pend(uploadSem, 0).
Pend ==
  /\ srv.at = "pend" /\ uploadSem' = 0
  /\ srv' = IF uploadSem = 1 /\ connected THEN [srv EXCEPT !.at = "get"] ELSE Done
  /\ UNCHANGED <<info, alloc, connected, stopReq, wild>>

\* UploadBufGetData: the list is filled only for a running event...
GetDataAlways ==                                                       \* mutant
  /\ srv.at = "get"
  /\ LET list == ToSend(info[srv.u]) IN
     srv' = IF DOMAIN list # {} THEN [srv EXCEPT !.at = "send", !.list = list]
            ELSE IF Flushes(info[srv.u]) THEN [srv EXCEPT !.at = "test"] ELSE Done
  /\ UNCHANGED <<info, alloc, uploadSem, connected, stopReq, wild>>
GetDataFiredOnly ==                                                    \* mutant
  /\ srv.at = "get"
  /\ LET list == ToSend(info[srv.u]) IN
     srv' = IF info[srv.u].state # "FIRED" THEN Done
            ELSE IF DOMAIN list # {} THEN [srv EXCEPT !.at = "send", !.list = list]
            ELSE [srv EXCEPT !.at = "test"]
  /\ UNCHANGED <<info, alloc, uploadSem, connected, stopReq, wild>>
GetData ==
  /\ srv.at = "get"
  /\ LET list == ToSend(info[srv.u]) IN
     srv' = IF info[srv.u].state \notin {"FIRED", "TERMINATING"} THEN Done
            ELSE IF DOMAIN list # {} THEN [srv EXCEPT !.at = "send", !.list = list]
            ELSE [srv EXCEPT !.at = "test"]
  /\ UNCHANGED <<info, alloc, uploadSem, connected, stopReq, wild>>

\* ... and an empty one of a terminating event is its end. UploadEndLoggingSession
\* (one shot) frees the upInfo.
EndTest ==
  /\ srv.at = "test" /\ srv' = Done
  /\ LET x == info[srv.u]
         over == x.state = "TERMINATING" /\ x.holdOff = OneShot
     IN
     /\ info' = [info EXCEPT ![srv.u] =
                   IF over THEN Unarmed
                   ELSE IF x.state = "TERMINATING" THEN HoldOff(x) ELSE x]
     /\ alloc' = [alloc EXCEPT ![srv.u] = IF over THEN "none" ELSE @]
  /\ UNCHANGED <<uploadSem, connected, stopReq, wild>>

\* One listed buffer is sent. The work is over after the third.
SendBuf ==
  /\ srv.at = "send"
  /\ LET t == Min(DOMAIN srv.list)
         rest == [s \in DOMAIN srv.list \ {t} |-> srv.list[s]]
     IN
     /\ info' = [info EXCEPT ![srv.u] = DataSent(@, t, srv.list[t])]
     /\ srv' = IF srv.pkg = 2 THEN Done
               ELSE [srv EXCEPT !.pkg = @ + 1, !.list = rest,
                                !.at = IF DOMAIN rest = {} THEN "get" ELSE "send"]
  /\ UNCHANGED <<alloc, uploadSem, connected, stopReq, wild>>

SendFails ==
  /\ srv.at = "send" /\ ForceDisconnect /\ srv' = Done
  /\ UNCHANGED <<uploadSem, stopReq, wild>>

-----------------------------------------------------------------------------
\* A final flush: DisconnectFromHost, or rt_ExtModeShutdown after the loop.

PrepareFinalFlush ==
  /\ srv.at = "prepare"
  /\ info' = [info EXCEPT ![srv.u] = PrepareForFinalFlush(@)]
  /\ uploadSem' = 1
  /\ srv' = [srv EXCEPT !.at = "pend", !.final = connected /\ Flushes(info[srv.u])]
  /\ UNCHANGED <<alloc, connected, stopReq, wild>>

\* UploadLogInfoTerm frees what the upInfo holds ...
FreeInfo ==
  /\ srv.at = "free"
  /\ srv' = [srv EXCEPT !.at = "reset"]
  /\ alloc' = [alloc EXCEPT ![srv.u] = IF @ = "held" THEN "freed" ELSE @]
  /\ UNCHANGED <<info, uploadSem, connected, stopReq, wild>>

\* ... and then resets it, trigger state included.
ResetInfo ==
  /\ srv.at = "reset"
  /\ info' = [info EXCEPT ![srv.u] = IF alloc[srv.u] = "freed" THEN Unarmed ELSE @]
  /\ alloc' = [alloc EXCEPT ![srv.u] = "none"]
  /\ IF srv.u + 1 < NumInfos
     THEN /\ srv' = [AtPkt EXCEPT !.at = "prepare", !.mode = srv.mode, !.u = srv.u + 1]
          /\ UNCHANGED connected
     ELSE /\ srv' = IF srv.mode = "disconnect" THEN ToUpload
                    ELSE [AtPkt EXCEPT !.at = "stopped"]
          /\ connected' = FALSE
  /\ UNCHANGED <<uploadSem, stopReq, wild>>

-----------------------------------------------------------------------------
Packet ==
  \/ OpenConnection \/ OtherPkt \/ ModelStop \/ DisconnectRequest \/ Disconnected
  \/ \E u \in Infoes :
       SelectSignals(u) \/ ArmTrigger(u) \/ CancelLogging(u)
       \/ \E tr \in Triggers : SelectTrigger(u, tr)

ServerWork ==
  \/ Pend \/ GetData \/ EndTest \/ SendBuf \/ SendFails
  \/ PrepareFinalFlush \/ FreeInfo \/ ResetInfo

\* rtExtModeOneStep has deleted the clock and returned.
Stopped == srv.at = "stopped" /\ UNCHANGED vars

Next == OneStep \/ Packet \/ ServerWork \/ Stopped

\* The timer keeps ticking, and the background task gets the rest of each period.
Spec == Init /\ [][Next]_vars /\ WF_vars(OneStep) /\ WF_vars(Packet \/ ServerWork)

-----------------------------------------------------------------------------
\* UploadCheckEndTrigger: an event that its duration ends (in the Swi: srv does
\* not move) has as many base rate points as the host asked for, those of the
\* window before the trigger included, less the ticks at which no system with
\* signals was active. A trigger in a slower rate that fires without delay does so
\* after the base rate's turn, and misses the point of its tick.
Missed(x) == IF ~x.manual /\ x.tid # 0 /\ x.delay = 0 THEN 1 ELSE 0
EventLength ==
  [][\A u \in Infoes :
       info[u].state # "TERMINATING" /\ info'[u].state = "TERMINATING"
         /\ ~info'[u].overFlow /\ srv' = srv =>
           info'[u].points + info'[u].skipped = info[u].duration - Missed(info[u])]_vars

\* A cancelled session is over with its event: the trigger is not armed again,
\* not even when the event was already terminating.
CancelSticks == \A u \in Infoes : info[u].cancelled => info[u].state = "TERMINATING"

\* UploadPrepareForFinalFlush: "Let upload server run to ensure that term pkt is
\* sent to host." A running event is ended, all of its data sent, before its
\* buffers are freed.
FinalFlush == srv.at = "free" /\ srv.final => Idle(info[srv.u])

\* The host gets no data of an event it was told is over, unless it cancels the
\* hold off after it: what UploadBufGetData left in the buffers then follows.
NoDataAfterEnd == srv.at = "send" => ~info[srv.u].ended \/ info[srv.u].cancelled

\* What the server has listed is still in the buffers when it sends it: nobody
\* else removes points meanwhile (GetData and DataSent come in pairs).
ListedIsHeld ==
  srv.at = "send" => \A t \in DOMAIN srv.list : srv.list[t] <= info[srv.u].buf[t]

\* A target without a connection can be connected to again: no session is left
\* over, no memory is lost.
CleanDisconnect ==
  ~connected /\ srv.mode = "work" =>
    \A u \in Infoes : Idle(info[u]) /\ alloc[u] = "none"

\* A terminating event ends, provided the server gets the semaphore for its
\* upInfo again and again.
ServedEnds ==
  \A u \in Infoes :
    []<>(srv.at = "get" /\ srv.u = u) =>
      (info[u].state = "TERMINATING" ~> info[u].state \in {"UNARMED", "HOLDING_OFF"})

\* UploadCheckEndTrigger: "Let upload server run to ensure that term pkt is sent
\* to host." Every terminating event ends.
EventsEnd ==
  \A u \in Infoes : info[u].state = "TERMINATING" ~> info[u].state # "TERMINATING"

\* "Advance the tail (we don't need the oldest point anymore)": a pre-trigger
\* only drops a point that is there.
PreTrigDropsOldest == \A u \in Infoes : ~info[u].underFlow

\* UploadLogInfoTerm frees the buffers before it resets the trigger, and the Swi may
\* run in between. It uses none of them when the final flush found a running event,
\* nor in a shutdown: only a disconnect request that meets an armed, delayed or
\* holding off trigger, which the flush does not end, leads there.
FlushedIsQuiet == [][~wild /\ wild' => srv.mode = "disconnect" /\ ~srv.final]_vars
=============================================================================
