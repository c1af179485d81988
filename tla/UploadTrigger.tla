---------------------------- MODULE UploadTrigger ----------------------------
(***************************************************************************)
(* The trigger state machine of updown_c6000.c, as operators on the record *)
(* of one upInfo (BdUploadInfo): what each function of the clock Swi and   *)
(* of the background task makes of it.                                     *)
(*                                                                         *)
(* The buffers of the upInfo are counters of stored time points here: what *)
(* they promise is BoundedStream, which CircularBuf implements.            *)
(***************************************************************************)
EXTENDS Integers

CONSTANTS
  NumTids,     \* numSampTimes; tid 0 is the base rate
  BufPoints,   \* time points each tid's buffer has room for
  Activities,  \* which tids may have an active system at a tick: all always, unless
               \* the model has conditional subsystems
  Triggers     \* what EXT_SELECT_TRIGGER packets may ask for

Tids == 0 .. NumTids - 1

OneShot == -1     \* TRIGMODE_ONESHOT

ASSUME TriggerAssumption ==
  /\ NumTids \in Nat \ {0} /\ BufPoints \in Nat \ {0}
  /\ Activities \subseteq SUBSET Tids
  /\ Triggers \subseteq [manual : BOOLEAN, tid : Tids, duration : Nat \ {0},
                         holdOff : Nat \cup {OneShot}, delay : Int]

States == {"UNARMED", "HOLDING_OFF", "ARMED", "DELAYED", "FIRED", "TERMINATING"}

\* What a tick finds: whether the trigger's signals crossed, the tids that have an
\* active system to log, and whether a full buffer lacks room for a header as well.
Inputs == [crosses : BOOLEAN, active : Activities, tight : BOOLEAN]

\* trigInfo and circBufs; signals are the tids whose buffer has a size. The last
\* five fields are history: base rate points of this event, its base rate ticks
\* that had nothing to store, whether the host cancelled, whether the host was told
\* that the event is over, and whether a pre-trigger took the oldest point from a
\* buffer that held none.
Infos ==
  [state : States, manual : BOOLEAN, tid : Tids, duration : Nat, holdOff : Int,
   delay : Nat, count : Nat, preDur : Nat, preCount : Nat, overFlow : BOOLEAN,
   signals : SUBSET Tids, buf : [Tids -> 0 .. BufPoints],
   points : Int, skipped : Nat, cancelled : BOOLEAN, ended : BOOLEAN, underFlow : BOOLEAN]

\* UploadDestroyTrigger and UploadLogInfoReset.
Unarmed ==
  [state |-> "UNARMED", manual |-> TRUE, tid |-> 0, duration |-> 0, holdOff |-> 0,
   delay |-> 0, count |-> 0, preDur |-> 0, preCount |-> 0, overFlow |-> FALSE,
   signals |-> {}, buf |-> [t \in Tids |-> 0],
   points |-> 0, skipped |-> 0, cancelled |-> FALSE, ended |-> FALSE, underFlow |-> FALSE]

\* UploadInitTrigger: a negative delay is a pre-trigger.
InitTrigger(x, tr) ==
  [x EXCEPT !.manual = tr.manual, !.tid = tr.tid, !.duration = tr.duration,
            !.holdOff = tr.holdOff,
            !.delay = IF tr.delay < 0 THEN 0 ELSE tr.delay,
            !.preDur = IF tr.delay < 0 THEN -tr.delay ELSE 0]

\* UploadArmTrigger.
ArmKeepsPreCount(x) ==                                                 \* mutant
  [x EXCEPT !.state = "ARMED", !.overFlow = FALSE, !.buf = [t \in Tids |-> 0],
            !.count = 0, !.points = 0, !.skipped = 0, !.ended = FALSE]
Arm(x) ==
  [x EXCEPT !.state = "ARMED", !.overFlow = FALSE, !.buf = [t \in Tids |-> 0],
            !.count = 0, !.preCount = 0,
            !.points = 0, !.skipped = 0, !.ended = FALSE]

-----------------------------------------------------------------------------
\* The clock Swi.

\* UploadCheckTrigger: the hold off and the delay are counted at the base rate.
CheckTrigger(x) ==
  CASE x.state = "HOLDING_OFF" ->
         IF x.count = x.holdOff THEN Arm(x)
         ELSE [x EXCEPT !.count = @ + 1]
    [] x.state = "DELAYED" ->
         IF x.count >= x.delay THEN [x EXCEPT !.state = "FIRED", !.count = x.preCount]
         ELSE [x EXCEPT !.count = @ + 1]
    [] OTHER -> x

\* UploadBufAddTimePoint, first part: an armed trigger may fire.
Fire(x, t, crosses) ==
  IF x.state # "ARMED" THEN x
  ELSE IF x.manual THEN [x EXCEPT !.state = "FIRED"]
  ELSE IF ~(t = x.tid /\ crosses) THEN x
  ELSE IF x.delay = 0 THEN [x EXCEPT !.state = "FIRED", !.count = x.preCount]
  ELSE [x EXCEPT !.state = "DELAYED", !.count = 1]

\* A full pre-trigger window makes room. preTrig.count is the trigger's, not the
\* buffer's. A window of one point becomes empty with empty still FALSE: from then
\* on the buffer is taken for full.
Slide(x, t) ==
  IF x.preCount # x.preDur THEN x
  ELSE [x EXCEPT !.preCount = @ - 1,
                 !.buf[t] = CASE @ = 0 -> 0 [] @ = 1 -> BufPoints [] @ > 1 -> @ - 1,
                 !.points = IF t = 0 THEN @ - 1 ELSE @,
                 !.underFlow = @ \/ x.buf[t] = 0]

Store(x, t) ==
  [x EXCEPT !.buf[t] = @ + 1, !.points = IF t = 0 THEN @ + 1 ELSE @,
            !.preCount = IF x.state = "ARMED" THEN @ + 1 ELSE @]

\* No signals in this tid, or no active system with one.
Skip(x, t) ==
  [x EXCEPT !.skipped = IF t = 0 /\ x.state = "FIRED" THEN @ + 1 ELSE @]

\* UploadBufAssignMem has room for one more point, or for the header that is all a
\* tid without active systems asks for.
FitsOneMore(x, t, in) == x.buf[t] <= BufPoints                         \* mutant
Fits(x, t, in) == x.buf[t] < BufPoints \/ (t \notin in.active /\ ~in.tight)

\* No room: the point is given up, and with it the event if the trigger has fired.
GiveUp(x) ==
  IF x.state = "ARMED" THEN x
  ELSE [x EXCEPT !.overFlow = TRUE, !.state = "TERMINATING"]

\* UploadBufAddTimePoint.
Add(x, t, in) ==
  CASE ~Fits(x, t, in) -> GiveUp(x)
    [] Fits(x, t, in) /\ t \notin in.active -> Skip(x, t)
    [] Fits(x, t, in) /\ t \in in.active -> Store(x, t)

AddTimePoint(x, t, in) ==
  LET f == Fire(x, t, in.crosses)
      preTrig == f.state = "ARMED" /\ f.preDur > 0
  IN
  CASE ~preTrig /\ f.state # "FIRED" -> f
    [] (preTrig \/ f.state = "FIRED") /\ t \notin f.signals -> Skip(f, t)
    [] preTrig /\ t \in f.signals -> Add(Slide(f, t), t, in)
    [] f.state = "FIRED" /\ t \in f.signals -> Add(f, t, in)

\* UploadCheckEndTrigger: one more base rate tick of the event.
EndLate(x) ==                                                          \* mutant
  IF x.state # "FIRED" THEN x
  ELSE [x EXCEPT !.count = @ + 1, !.state = IF x.count = x.duration THEN "TERMINATING" ELSE @]
CheckEndTrigger(x) ==
  IF x.state # "FIRED" THEN x
  ELSE [x EXCEPT !.count = @ + 1,
                 !.state = IF x.count + 1 = x.duration THEN "TERMINATING" ELSE @]

\* rtExtModeUpload for every sample time with a hit, in the order of the tids: the
\* upInfo behind the first n sample times.
Uploaded(x, hits, in) ==
  LET after[n \in 0 .. NumTids] ==
        IF n = 0 THEN x
        ELSE IF n - 1 \in hits THEN AddTimePoint(after[n - 1], n - 1, in)
        ELSE after[n - 1]
  IN after

\* One base rate tick: MODEL_STEP calls rtExtModeUploadCheckTrigger and then
\* rtExtModeUpload.
Tick(x, hits, in) ==
  CheckEndTrigger(Uploaded(CheckTrigger(x), hits, in)[NumTids])

\* The tick gives uploadSem: a point was added after the trigger fired, or the
\* event is terminating.
Posts(x) == x.state \in {"FIRED", "TERMINATING"}

-----------------------------------------------------------------------------
\* The background task.

\* UploadCancelLogging.
CancelKeepsHoldOff(x) ==                                               \* mutant
  IF x.state = "UNARMED" THEN x
  ELSE [x EXCEPT !.state = "TERMINATING", !.cancelled = TRUE]
Cancel(x) ==
  IF x.state = "UNARMED" THEN x
  ELSE [x EXCEPT !.state = "TERMINATING", !.holdOff = OneShot, !.cancelled = TRUE]

\* UploadPrepareForFinalFlush.
Flushes(x) == x.state \in {"FIRED", "TERMINATING"}
FlushKeepsFired(x) ==                                                  \* mutant
  IF Flushes(x) THEN [x EXCEPT !.holdOff = OneShot] ELSE x
PrepareForFinalFlush(x) ==
  IF Flushes(x) THEN [x EXCEPT !.state = "TERMINATING", !.holdOff = OneShot] ELSE x

\* SetExtBufListFields: the points listed of every buffer that is not empty.
ToSend(x) == [t \in {s \in Tids : x.buf[s] > 0} |-> x.buf[t]]

\* UploadBufDataSent of n listed points of t.
DataSent(x, t, n) == [x EXCEPT !.buf[t] = @ - n]

\* The end of an event whose trigger is re-armed (1896).
HoldOff(x) == [x EXCEPT !.count = 0, !.state = "HOLDING_OFF", !.ended = TRUE]
=============================================================================
