----------------------------- MODULE CircularBuf -----------------------------
(***************************************************************************)
(* The circular upload buffer of one sample time (tid) of updown_c6000.c.  *)
(*                                                                         *)
(* Two threads of control share it.  The model's clock Swi runs            *)
(* UploadBufAddTimePoint: it assigns room section by section               *)
(* (UploadBufAssignMem) and moves head when the whole time point is in.    *)
(* The background task runs UploadBufGetData, sends what it listed and     *)
(* calls UploadBufDataSent, which moves tail.  The Swi preempts the        *)
(* background task between any two of its memory accesses and runs to      *)
(* completion, so a background action needs ppc = "idle".                  *)
(*                                                                         *)
(* Pointers are offsets from circBuf->buf.  What is stored is abstracted   *)
(* to WHERE it belongs: a cell holds its position in the stream of all     *)
(* bytes that time points put into the buffer since start up.              *)
(***************************************************************************)
EXTENDS Integers, FiniteSetsExt

CONSTANTS
  BufSize,       \* circBuf->bufSize, in cells (a cell is one int32_T)
  HdrLen,        \* cells of a time point in which no system is active
  PointLens,     \* the sizes a time point can have (enabled systems vary)
  SectionLens,   \* the sizes UploadBufAssignMem is called with
  PreDurations,  \* the preTrig.duration values a host selects (0: none)
  StreamBound    \* bound on the stream positions ever written

ASSUME BufAssumption ==
  /\ BufSize \in Nat \ {0}
  /\ HdrLen \in Nat \ {0}
  /\ PointLens \subseteq Nat \ {0}
  /\ SectionLens \subseteq Nat \ {0}
  /\ PreDurations \subseteq Nat
  /\ StreamBound \in Nat

Cells == 0 .. BufSize - 1

NULL == -1      \* (char_T *)NULL

\* trigInfo->state, without DELAYED, in which the buffers are left alone.
States == {"UNARMED", "HOLDING_OFF", "ARMED", "FIRED", "TERMINATING"}

VARIABLES
  head, tail, newTail, empty,  \* CircularBuf
  state,                       \* trigInfo->state
  oneShot,                     \* trigInfo->holdOff = TRIGMODE_ONESHOT
  overFlow,                    \* trigInfo->overFlow
  preDur, preCount,            \* trigInfo->preTrig
  mem,        \* the malloc'ed cells: the stream position held, 0 if none
  ppc,        \* clock Swi: "idle", or "assign" inside AddTimePoint
  pre,        \* its local preTrig
  tmpHead,    \* its local tmpHead
  left,       \* cells of this time point still to be assigned
  npos,       \* stream position of the last cell it assigned
  cpc,        \* background task: next statement of its upload work
  drained,    \* the comparison UploadBufDataSent is about to store in empty
  wpos,       \* history: stream position of the last cell behind head
  rpos,       \* history: stream position of the last cell before tail
  starts,     \* history: first positions of the time points in the buffer
  host,       \* history: stream position of the last cell the host got
  inOrder,    \* history: every cell sent was the one the host waits for
  misread,    \* history: UploadBufDataSent took a full buffer for an empty one
  astray      \* tail was moved by a word that is no size

circ == <<head, tail, newTail, empty>>
trig == <<state, oneShot, overFlow, preDur, preCount>>
prod == <<ppc, pre, tmpHead, left, npos>>
hist == <<wpos, rpos, starts, host, inOrder, misread>>
buffer == <<circ, trig, mem, prod, cpc, drained, hist>>
vars == <<buffer, astray>>

-----------------------------------------------------------------------------
\* Pointer arithmetic, as the code does it.

\* The cells of a list entry for [t, h): section 1, then section 2 (512).
Bytes1(t, h) == IF h > t THEN h - t ELSE BufSize - t
Bytes2(t, h) == IF h > t THEN 0 ELSE h

\* UploadBufAssignMem: what it takes for room, and where tmpHead goes.
NotWrappedFullIsEmpty == tmpHead >= tail \/ empty          \* mutant
NotWrapped == tmpHead > tail \/ empty
RoomToEnd == IF NotWrapped THEN BufSize - tmpHead ELSE tail - tmpHead     \* mutant
RoomPastTail == BufSize - tmpHead                                       \* mutant
Room == IF NotWrapped THEN (BufSize - tmpHead) + tail ELSE tail - tmpHead

WrapsLate(n) == NotWrapped /\ tmpHead + n > BufSize                    \* mutant
Wraps(n) == NotWrapped /\ tmpHead + n >= BufSize
AdvanceHead(n) == IF Wraps(n) THEN n - (BufSize - tmpHead) ELSE tmpHead + n

\* CIRCBUF_COPY_DATA of n cells to the sections just assigned.
CopyData(n) ==
  [i \in Cells |->
     IF i >= tmpHead /\ i < tmpHead + n THEN npos + 1 + (i - tmpHead)
     ELSE IF Wraps(n) /\ i < AdvanceHead(n)
          THEN npos + 1 + (BufSize - tmpHead) + i
          ELSE mem[i]]

\* The word after tail, where MOVE_TAIL_ONESTEP expects nBytes: the packet
\* size if that cell is the second of a stored time point; no size if it is behind
\* the allocation.
NextStart(s) == Min({t \in starts : t > s} \cup {wpos + 1})
StepLens ==
  IF tail + 1 < BufSize /\ mem[tail + 1] - 1 \in starts
  THEN {NextStart(mem[tail + 1] - 1) - (mem[tail + 1] - 1)}
  ELSE {}

-----------------------------------------------------------------------------
Init ==
  /\ head = 0 /\ tail = 0 /\ newTail = NULL /\ empty = TRUE
  /\ state = "UNARMED" /\ oneShot = FALSE /\ overFlow = FALSE
  /\ preDur = 0 /\ preCount = 0
  /\ mem = [i \in Cells |-> 0]
  /\ ppc = "idle" /\ pre = FALSE /\ tmpHead = 0 /\ left = 0 /\ npos = 0
  /\ cpc = "idle" /\ drained = FALSE
  /\ wpos = 0 /\ rpos = 0 /\ starts = {} /\ host = 0 /\ inOrder = TRUE
  /\ misread = FALSE /\ astray = FALSE

-----------------------------------------------------------------------------
\* The clock Swi.

\* preTrig.count==preTrig.duration (1569).
WindowOverfull == preCount > preDur                                     \* mutant
WindowFull == preCount = preDur

\* The state that an armed trigger is left in, and whether its window slides.
Fired(fires) == IF state = "ARMED" /\ fires THEN "FIRED" ELSE state
Slides(fires) == Fired(fires) = "ARMED" /\ preDur > 0 /\ WindowFull

\* UploadBufAddTimePoint up to its first UploadBufAssignMem: an armed trigger
\* may fire, and a full pre-trigger window gives up its oldest time point.
BeginTimePoint(len, fires) ==
  LET st == Fired(fires)
      preTrig == st = "ARMED" /\ preDur > 0
      slides == Slides(fires)
  IN
  /\ ppc = "idle"
  /\ wpos + len <= StreamBound
  /\ st = "FIRED" \/ preTrig
  /\ state' = st
  /\ pre' = preTrig
  /\ \E n \in IF slides THEN StepLens ELSE {0} :
       /\ tail' = IF tail + n >= BufSize /\ slides THEN tail + n - BufSize ELSE tail + n
       /\ rpos' = rpos + n
       /\ host' = host + n
       /\ starts' = {s \in starts : s > rpos + n}
  /\ preCount' = IF slides THEN preCount - 1 ELSE preCount
  /\ ppc' = "assign" /\ tmpHead' = head /\ left' = len /\ npos' = wpos
  /\ UNCHANGED <<head, newTail, empty, oneShot, overFlow, preDur, mem, cpc,
                 drained, wpos, inOrder, misread>>

\* MOVE_TAIL_ONESTEP of a time point that starts in the last cell: the word behind the
\* allocation moves tail anywhere, and nothing is said of what follows.
MoveTailAstray(fires) ==
  /\ ppc = "idle" /\ ~astray /\ Slides(fires) /\ StepLens = {}
  /\ astray' = TRUE /\ UNCHANGED buffer
Astray == astray /\ UNCHANGED vars

\* One UploadBufAssignMem with room for its section, and the copy into it.
AssignMem(n) ==
  /\ ppc = "assign" /\ n <= left /\ Room >= n
  /\ mem' = CopyData(n)
  /\ tmpHead' = AdvanceHead(n)
  /\ left' = left - n
  /\ npos' = npos + n
  /\ UNCHANGED <<circ, trig, ppc, pre, cpc, drained, hist>>

\* One without: the point is given up and, once fired, logging is over.
OverFlow(n) ==
  /\ ppc = "assign" /\ n <= left /\ Room < n
  /\ ppc' = "idle"
  /\ state' = IF pre THEN state ELSE "TERMINATING"
  /\ overFlow' = IF pre THEN overFlow ELSE TRUE
  /\ UNCHANGED <<circ, oneShot, preDur, preCount, mem, pre, tmpHead, left, npos,
                 cpc, drained, hist>>

\* The end of UploadBufAddTimePoint. No active system: nothing is kept.
EndTimePoint ==
  /\ ppc = "assign" /\ left = 0
  /\ ppc' = "idle"
  /\ IF npos - wpos <= HdrLen THEN UNCHANGED <<head, empty, preCount, wpos, starts>>
     ELSE /\ head' = tmpHead
          /\ empty' = FALSE
          /\ preCount' = IF pre THEN preCount + 1 ELSE preCount
          /\ wpos' = npos
          /\ starts' = starts \cup {wpos + 1}
  /\ UNCHANGED <<tail, newTail, state, oneShot, overFlow, preDur, mem, pre, tmpHead,
                 left, npos, cpc, drained, rpos, host, inOrder, misread>>

\* UploadCheckEndTrigger when the duration has been met.
CheckEndTrigger ==
  /\ ppc = "idle" /\ state = "FIRED"
  /\ state' = "TERMINATING"
  /\ UNCHANGED <<circ, oneShot, overFlow, preDur, preCount, mem, prod, cpc, drained, hist>>

\* UploadArmTrigger: from UploadCheckTrigger when the hold off is over (Swi), or
\* for a new session, whose packets also select the trigger (background task).
ArmTrigger ==
  /\ ppc = "idle"
  /\ \/ state = "HOLDING_OFF" /\ UNCHANGED <<preDur, oneShot>>
     \/ /\ state = "UNARMED" /\ cpc = "idle"
        /\ preDur' \in PreDurations /\ oneShot' \in BOOLEAN
  /\ head' = 0 /\ tail' = 0 /\ newTail' = NULL /\ empty' = TRUE
  /\ state' = "ARMED" /\ overFlow' = FALSE /\ preCount' = 0
  /\ rpos' = wpos /\ host' = wpos /\ starts' = {}
  /\ inOrder' = TRUE /\ misread' = FALSE
  /\ UNCHANGED <<mem, prod, cpc, drained, wpos>>

-----------------------------------------------------------------------------
\* The background task. ppc = "idle": the Swi is not running.

\* UploadBufGetData: look for data (SetExtBufListFields).
ScanFiredOnly ==                                                        \* mutant
  /\ ppc = "idle" /\ cpc = "idle" /\ state = "FIRED"
  /\ IF empty THEN cpc' = "endTest" /\ UNCHANGED newTail
     ELSE cpc' = "send1" /\ newTail' = head
  /\ UNCHANGED <<head, tail, empty, trig, mem, prod, drained, hist>>
ScanBufs ==
  /\ ppc = "idle" /\ cpc = "idle" /\ state \in {"FIRED", "TERMINATING"}
  /\ IF empty THEN cpc' = "endTest" /\ UNCHANGED newTail
     ELSE cpc' = "send1" /\ newTail' = head
  /\ UNCHANGED <<head, tail, empty, trig, mem, prod, drained, hist>>

\* UploadBufGetData with an empty list: are we done? UploadEndLoggingSession
\* (one shot) also destroys the trigger.
EndTest ==
  /\ ppc = "idle" /\ cpc = "endTest" /\ cpc' = "idle"
  /\ \/ state # "TERMINATING" /\ UNCHANGED <<state, overFlow, preDur, preCount>>
     \/ state = "TERMINATING" /\ ~oneShot /\ state' = "HOLDING_OFF"
        /\ UNCHANGED <<overFlow, preDur, preCount>>
     \/ state = "TERMINATING" /\ oneShot /\ state' = "UNARMED"
        /\ overFlow' = FALSE /\ preDur' = 0 /\ preCount' = 0
  /\ UNCHANGED <<circ, oneShot, mem, prod, drained, hist>>

\* SendPktDataToHost of n cells from offset b.
Send(b, n) ==
  /\ host' = host + n
  /\ inOrder' = (inOrder /\ \A i \in 0 .. n - 1 : mem[b + i] = host + 1 + i)

SendSection1 ==
  /\ ppc = "idle" /\ cpc = "send1"
  /\ Send(tail, Bytes1(tail, newTail))
  /\ cpc' = IF Bytes2(tail, newTail) > 0 THEN "send2" ELSE "sent"
  /\ UNCHANGED <<circ, trig, mem, prod, drained, wpos, rpos, starts, misread>>

SendSection2 ==
  /\ ppc = "idle" /\ cpc = "send2"
  /\ Send(0, Bytes2(tail, newTail))
  /\ cpc' = "sent"
  /\ UNCHANGED <<circ, trig, mem, prod, drained, wpos, rpos, starts, misread>>

\* A send fails: ForceDisconnectFromHost ends the session.
SendFails ==
  /\ ppc = "idle" /\ cpc \in {"send1", "send2"}
  /\ cpc' = "idle" /\ state' = "UNARMED"
  /\ overFlow' = FALSE /\ preDur' = 0 /\ preCount' = 0
  /\ UNCHANGED <<circ, oneShot, mem, prod, drained, hist>>

\* UploadBufDataSent, one memory access at a time.
StoreTail ==
  /\ ppc = "idle" /\ cpc = "sent" /\ cpc' = "stored"
  /\ tail' = newTail
  /\ rpos' = rpos + Bytes1(tail, newTail) + Bytes2(tail, newTail)
  /\ starts' = {s \in starts : s > rpos'}
  /\ UNCHANGED <<head, newTail, empty, trig, mem, prod, drained, wpos, host, inOrder, misread>>

CompareHead ==
  /\ ppc = "idle" /\ cpc = "stored" /\ cpc' = "compared"
  /\ drained' = (tail = head)
  /\ misread' = (misread \/ (tail = head /\ wpos > rpos))
  /\ UNCHANGED <<circ, trig, mem, prod, wpos, rpos, starts, host, inOrder>>

StoreEmptyAlways ==                                                     \* mutant
  /\ ppc = "idle" /\ cpc = "compared" /\ cpc' = "idle" /\ empty' = TRUE
  /\ UNCHANGED <<head, tail, newTail, trig, mem, prod, drained, hist>>
StoreEmpty ==
  /\ ppc = "idle" /\ cpc = "compared" /\ cpc' = "idle"
  /\ empty' = drained
  /\ UNCHANGED <<head, tail, newTail, trig, mem, prod, drained, hist>>

\* UploadCancelLogging, and UploadPrepareForFinalFlush of a disconnect, which
\* acts in FIRED and TERMINATING only.
CancelLogging ==
  /\ ppc = "idle" /\ cpc = "idle" /\ state # "UNARMED"
  /\ state' = "TERMINATING" /\ oneShot' = TRUE
  /\ UNCHANGED <<circ, overFlow, preDur, preCount, mem, prod, cpc, drained, hist>>

-----------------------------------------------------------------------------
AddTimePoint ==
  \/ \E len \in PointLens, fires \in BOOLEAN : BeginTimePoint(len, fires)
  \/ \E n \in SectionLens : AssignMem(n)
  \/ \E n \in SectionLens : OverFlow(n)
  \/ EndTimePoint

BufDataSent == StoreTail \/ CompareHead \/ StoreEmpty

ServerWork == ScanBufs \/ EndTest \/ SendSection1 \/ SendSection2 \/ BufDataSent

Step ==
  \/ AddTimePoint \/ CheckEndTrigger \/ ArmTrigger
  \/ ServerWork \/ SendFails \/ CancelLogging

Next ==
  \/ ~astray /\ Step /\ UNCHANGED astray
  \/ \E fires \in BOOLEAN : MoveTailAstray(fires)
  \/ Astray

\* The Swi always completes. The background task gets the CPU again and again:
\* a step that did not end before the next tick is an overrun (ext_main.c 186).
Fairness == WF_buffer(AddTimePoint /\ ppc = "assign") /\ SF_buffer(ServerWork)

Spec == Init /\ [][Next]_vars /\ Fairness

-----------------------------------------------------------------------------
\* What the properties say of the buffer they say until tail has gone astray, after
\* which the model leaves it as it is (see SizesAreRead).

\* What is behind tail and not yet sent, and the cell k places behind tail.
Used == wpos - rpos
At(k) == IF tail + k < BufSize THEN tail + k ELSE tail + k - BufSize

FlagsOK ==
  /\ empty \in BOOLEAN /\ oneShot \in BOOLEAN /\ overFlow \in BOOLEAN
  /\ pre \in BOOLEAN /\ drained \in BOOLEAN
  /\ inOrder \in BOOLEAN /\ misread \in BOOLEAN /\ astray \in BOOLEAN

DataOK ==
  /\ state \in States /\ preDur \in PreDurations \cup {0} /\ preCount \in Nat
  /\ mem \in [Cells -> Nat]
  /\ ppc \in {"idle", "assign"}
  /\ left \in Nat /\ npos \in Nat /\ wpos \in Nat /\ rpos \in Nat
  /\ newTail \in Int
  /\ cpc \in {"idle", "endTest", "send1", "send2", "sent", "stored", "compared"}
  /\ starts \subseteq 1 .. wpos /\ host \in Nat

\* The types of the variables.
TypeOK == FlagsOK /\ DataOK

\* The pointers never leave the allocated range, which the asserts of
\* SetExtBufListFields (1811) demand; tmpHead is what data is copied to.
IndicesInRange ==
  /\ head \in Cells /\ tail \in Cells
  /\ ppc = "assign" => tmpHead \in Cells
  /\ cpc \in {"send1", "send2", "sent"} => newTail \in Cells

\* Every accepted cell that is not yet sent is still in its place: neither the
\* next time points nor a point given up half way overwrite it.
Intact ==
  misread \/
  /\ Used \in 0 .. BufSize
  /\ \A k \in 0 .. Used - 1 : mem[At(k)] = rpos + 1 + k

\* empty and head tell the Swi and the server what is in the buffer, except
\* while UploadBufDataSent is between its two stores. It fails for a pre-trigger
\* of one point, whose window empties the buffer without setting empty (see
\* PreTrigKeepsNewest).
EmptyIsExact ==
  ~misread /\ cpc \notin {"stored", "compared"} =>
    /\ empty <=> Used = 0
    /\ head = At(Used)

\* While the trigger is armed the buffer holds at most the last preTrig.duration
\* time points, and preTrig.count counts them ("we don't need the oldest point
\* anymore", 1571).
PreTrigWindow ==
  state = "ARMED" /\ ppc = "idle" =>
    preCount = Cardinality(starts) /\ preCount <= preDur

\* The host gets every cell once and in the order they were logged.
InOrder == misread \/ inOrder

\* UploadBufAssignMem: "If there is no room in the circular buffer return an
\* overflow error." Logging is given up only when the rest of the point is
\* larger than the room there really is, unless the Swi hit UploadBufDataSent
\* between its two stores with everything sent.
OverFlowIsExplained ==
  [][overFlow' /\ ~overFlow =>
       \/ left > BufSize - (npos - rpos)
       \/ cpc \in {"stored", "compared"} /\ Used = 0
       \/ misread]_vars

\* A full pre-trigger window drops its oldest time point to take the newest, so
\* an armed trigger skips a point only when the point really does not fit.
PreTrigKeepsNewest ==
  [][pre /\ ppc = "assign" /\ ppc' = "idle" /\ left > 0 =>
       left > BufSize - (npos - rpos)]_vars

\* UploadBufDataSent: "we know that head == tail represents an empty buffer and
\* not a full buffer."
HeadAtTailIsEmpty == ~misread

\* MOVE_TAIL_ONESTEP: "Move the tail of a circular buffer forward by one time step -
\* accounting for wrapping." The word that it takes for the size of the step is one.
SizesAreRead == ~astray

\* UploadBufGetData: "If all bufs are empty and we are terminating then we're
\* now done!" A logging event ends with nothing left unsent.
EndsDrained ==
  [][state = "TERMINATING" /\ state' = "HOLDING_OFF" => Used = 0]_vars

\* A terminating event ends: whatever is in the buffer, the server empties it and
\* tells the host.
Terminates == state = "TERMINATING" ~> state # "TERMINATING"

-----------------------------------------------------------------------------
\* The invariant behind Intact, EmptyIsExact and InOrder. It is indexed by what the
\* Swi has copied, committed or not, and by how far the server has got with the cells
\* it listed.
Stored == IF ppc = "assign" THEN npos - rpos ELSE Used
Listed == Bytes1(tail, newTail) + Bytes2(tail, newTail)
Sending == {"send1", "send2", "sent"}
Settling == {"stored", "compared"}

Pointers ==
  /\ Used \in 0 .. BufSize /\ head = At(Used)
  /\ cpc \notin Settling => (empty <=> Used = 0)
  /\ cpc \in Settling => ~empty
  /\ cpc = "compared" => (drained <=> Used = 0)
  /\ cpc \in Sending => Listed <= Used

Assigning ==
  ppc = "assign" =>
    /\ npos >= wpos /\ npos - rpos <= BufSize
    /\ npos - wpos + left <= BufSize
    /\ tmpHead = At(npos - rpos)
    /\ ~empty /\ Used = 0 => npos = wpos

Contents == \A k \in 0 .. Stored - 1 : mem[At(k)] = rpos + 1 + k

SentSoFar ==
  IF cpc = "send2" THEN Bytes1(tail, newTail) ELSE IF cpc = "sent" THEN Listed ELSE 0

Hosted == inOrder /\ (state # "UNARMED" => host = rpos + SentSoFar)

Fifo == misread \/ (Pointers /\ Assigning /\ Contents /\ Hosted)

-----------------------------------------------------------------------------
\* The refinement mapping. A time point is accepted when head moves.
Phase ==
  CASE misread -> "spoilt"
    [] ~misread /\ state \in {"UNARMED", "HOLDING_OFF"} -> "closed"
    [] ~misread /\ state \in {"ARMED", "FIRED"} -> "open"
    [] ~misread /\ state = "TERMINATING" -> "closing"

Stream == INSTANCE BoundedStream
            WITH Capacity <- BufSize, phase <- Phase, accepted <- wpos, released <- rpos

\* The buffer implements the bounded stream.
ImplementsStream == Stream!Spec
=============================================================================
