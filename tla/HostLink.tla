------------------------------ MODULE HostLink ------------------------------
(***************************************************************************)
(* The connection to the host: the external byte stream, the framing of    *)
(* packets (GetPktHdr, GetPkt, ClearPkt, GrowRecvBufIfNeeded), the connect *)
(* handshake, parameter download, and the answer to each request           *)
(* (rt_PktServerWork and its handlers, in ext_svr_c6000.c).                *)
(*                                                                         *)
(* Each receive, send and allocation of the background task is a step. The *)
(* host sends its packets as a stream that arrives unit by unit, closes    *)
(* the connection or loses it at any time.                                 *)
(***************************************************************************)
EXTENDS FiniteSetsExt, SequencesExt

CONSTANTS
  Sections,     \* the transitions of the parameter table
  Values,       \* of the parameters of a section
  Requests,     \* packets that the host sends once it is connected
  LowMemory,    \* allocations that may fail: "buffer", "connect", "select"
  MaxPkts,      \* bound: packets of one connection
  MaxConns      \* bound: connections

ASSUME LinkAssumption ==
  /\ IsFiniteSet(Sections) /\ MaxPkts \in Nat /\ MaxConns \in Nat
  /\ LowMemory \subseteq {"buffer", "connect", "select"}
  /\ \A p \in Requests : IsFiniteSet(DOMAIN p.set)

HdrLen == 2     \* units of a packet header: its type and its size

VARIABLES
  link,         \* "none", "up", "closed" by the host, or "broken"
  conns,        \* connections that were opened
  sent,         \* the packets of the host on this connection
  arrived,      \* how many units of their stream have arrived,
  taken,        \* and how many the target has received
  answers,      \* history: the answers that the host got on this connection
  connected, commInitialized,
  pktBuf,       \* the allocated size of the packet buffer: 0 is NULL
  pktBufSize,
  params,       \* the parameters of the model
  logging,      \* a logging session has something to send to the host
  stopReq,
  tgt           \* where the background task is, with its locals

stream == <<sent, arrived, taken, answers>>
wire == <<link, conns, stream>>
state == <<connected, commInitialized>>
buffer == <<pktBuf, pktBufSize>>
vars == <<wire, state, buffer, params, logging, stopReq, tgt>>

Connect == [type |-> "CONNECT", set |-> << >>]
WithPayload == {"SETPARAM", "SELECT", "ARM", "CANCEL", "UNKNOWN"}
Silent == {"STOP", "DISCONNECT_NOW", "UNKNOWN"}
Ending == {"STOP", "DISCONNECT_NOW", "DISCONNECT"}
Known == {"CONNECT", "GET_TIME", "GETPARAMS"} \cup WithPayload \cup Ending

\* SetParam packets list the sections they change, the others an upInfo.
PktSize(p) ==
  IF p.type = "SETPARAM" THEN Cardinality(DOMAIN p.set)
  ELSE IF p.type \in WithPayload THEN 1 ELSE 0

\* Where each of these packets ends in the stream of the host.
Ends(packets) ==
  LET end[k \in 0 .. Len(packets)] ==
        IF k = 0 THEN 0 ELSE end[k - 1] + HdrLen + PktSize(packets[k])
  IN end
End(k) == Ends(sent)[k]

Unanswered == [type |-> "none", ok |-> TRUE, val |-> << >>]
At(place) == [at |-> place, got |-> 0, pkt |-> Connect, size |-> 0, answer |-> Unanswered]
Places == {"open", "hdr", "dispatch", "payload", "clear", "install", "connect1",
           "connect2", "reply", "upload", "shutdown", "stopped"}

TypeOK ==
  /\ link \in {"none", "up", "closed", "broken"} /\ conns \in 0 .. MaxConns
  /\ arrived \in 0 .. End(Len(sent)) /\ taken \in 0 .. arrived
  /\ connected \in BOOLEAN /\ commInitialized \in BOOLEAN
  /\ pktBuf \in Nat /\ pktBufSize \in Nat
  /\ params \in [Sections -> Values] /\ logging \in BOOLEAN /\ stopReq \in BOOLEAN
  /\ tgt.at \in Places /\ tgt.got \in 0 .. HdrLen + tgt.size
  /\ tgt.pkt.type \in Known /\ tgt.answer.type \in Known \cup {"none"}

Init ==
  /\ link = "none" /\ conns = 0 /\ sent = << >> /\ arrived = 0 /\ taken = 0
  /\ answers = << >> /\ connected = FALSE /\ commInitialized = FALSE
  /\ pktBuf = 0 /\ pktBufSize = 0
  /\ params = [s \in Sections |-> CHOOSE v \in Values : TRUE]
  /\ logging = FALSE /\ stopReq = FALSE /\ tgt = At("open")

-----------------------------------------------------------------------------
\* The host and the network (external).

\* A host asks for something when both connect responses are there, and for nothing
\* after it ended the connection or the model.
HostSends(p) ==
  /\ link = "up" /\ Len(sent) < MaxPkts
  /\ IF sent = << >> THEN p = Connect
     ELSE answers # << >> /\ p \in Requests /\ sent[Len(sent)].type \notin Ending
  /\ sent' = Append(sent, p)
  /\ UNCHANGED <<link, conns, arrived, taken, answers, state, buffer, params, logging,
                 stopReq, tgt>>

Deliver ==
  /\ link \in {"up", "closed"} /\ arrived < End(Len(sent))
  /\ arrived' = arrived + 1
  /\ UNCHANGED <<link, conns, sent, taken, answers, state, buffer, params, logging,
                 stopReq, tgt>>

\* The host closes its socket: what it has sent still arrives.
HostCloses ==
  /\ link = "up" /\ link' = "closed"
  /\ UNCHANGED <<conns, stream, state, buffer, params, logging, stopReq, tgt>>

\* The stack reports the connection as failed, from now on.
Breaks ==
  /\ link \in {"up", "closed"} /\ link' = "broken"
  /\ UNCHANGED <<conns, stream, state, buffer, params, logging, stopReq, tgt>>

-----------------------------------------------------------------------------
\* rtIOStreamRecv, without waiting: what has arrived of n units, or an error.
Received(n) == Min({n, arrived - taken})
RecvFails == link = "broken"

\* rtIOStreamBlockingSend: whether it succeeds once the host is gone is open.
SendOutcomes ==
  CASE link = "up" -> {TRUE} [] link = "closed" -> BOOLEAN [] OTHER -> {FALSE}

\* Closed on the side of the target: connected and commInitialized are reset.
DropKeepsComm ==                                                       \* mutant
  /\ link' = "none" /\ connected' = FALSE /\ UNCHANGED commInitialized
  /\ sent' = << >> /\ arrived' = 0 /\ taken' = 0 /\ answers' = << >>
  /\ UNCHANGED conns
Drop ==
  /\ link' = "none" /\ connected' = FALSE /\ commInitialized' = FALSE
  /\ sent' = << >> /\ arrived' = 0 /\ taken' = 0 /\ answers' = << >>
  /\ UNCHANGED conns

ForceDisconnect == Drop /\ logging' = FALSE

-----------------------------------------------------------------------------
\* rt_PktServerWork. ExtOpenConnection blocks until a host connects.
OpenConnection ==
  /\ tgt.at = "open" /\ conns < MaxConns
  /\ conns' = conns + 1 /\ link' = "up" /\ connected' = TRUE /\ tgt' = At("hdr")
  /\ UNCHANGED <<stream, commInitialized, buffer, params, logging, stopReq>>

\* The packets whose header may be in the units that end at the position n: a
\* header read out of step is any one.
HeadersAt(n) ==
  LET here == {k \in 1 .. Len(sent) : End(k - 1) + HdrLen = n}
  IN IF here # {} THEN {sent[k] : k \in here} ELSE Requests

\* GetPktHdr: nothing there at all is no packet, a part of a header is waited for.
GetPktHdrOnce ==                                                       \* mutant
  /\ tgt.at = "hdr" /\ ~RecvFails
  /\ LET n == Received(HdrLen - tgt.got) IN
     /\ taken' = taken + n
     /\ IF tgt.got + n < HdrLen THEN tgt' = At("upload")
        ELSE \E p \in HeadersAt(taken') :
               tgt' = [At("dispatch") EXCEPT !.pkt = p, !.size = PktSize(p)]
  /\ UNCHANGED <<link, conns, sent, arrived, answers, state, buffer, params, logging,
                 stopReq>>
GetPktHdr ==
  /\ tgt.at = "hdr" /\ ~RecvFails
  /\ LET n == Received(HdrLen - tgt.got) IN
     /\ taken' = taken + n
     /\ IF tgt.got + n = 0 THEN tgt' = At("upload")
        ELSE IF tgt.got + n < HdrLen THEN tgt' = [tgt EXCEPT !.got = @ + n]
        ELSE \E p \in HeadersAt(taken') :
               tgt' = [At("dispatch") EXCEPT !.pkt = p, !.size = PktSize(p)]
  /\ UNCHANGED <<link, conns, sent, arrived, answers, state, buffer, params, logging,
                 stopReq>>

\* An error in it is the only one with disconnectOnError.
GetPktHdrIgnored ==                                                    \* mutant
  /\ tgt.at = "hdr" /\ RecvFails /\ tgt' = At("upload")
  /\ UNCHANGED <<wire, state, buffer, params, logging, stopReq>>
GetPktHdrFails ==
  /\ tgt.at = "hdr" /\ RecvFails /\ ForceDisconnect /\ tgt' = At("upload")
  /\ UNCHANGED <<buffer, params, stopReq>>

Replies(answer) == [tgt EXCEPT !.at = "reply", !.answer = answer]
AnswerTo(p, ok, val) == [type |-> p.type, ok |-> ok, val |-> val]

\* ProcessGetParamsPkt sends section after section: nobody else changes them.
GetParams(p) == AnswerTo(p, TRUE, params)

\* The switch. The first packet of a connection is EXT_CONNECT whatever it says.
DispatchHandshake ==
  /\ tgt.at = "dispatch" /\ ~commInitialized
  /\ tgt' = [At("connect1") EXCEPT !.pkt = Connect]
  /\ UNCHANGED <<wire, state, buffer, params, logging, stopReq>>

Dispatch ==
  /\ tgt.at = "dispatch" /\ commInitialized
  /\ LET p == tgt.pkt IN
     CASE p.type = "CONNECT" ->
            tgt' = [tgt EXCEPT !.at = "connect1"] /\ UNCHANGED <<logging, stopReq>>
       [] p.type \in {"GET_TIME", "DISCONNECT"} ->
            tgt' = Replies(AnswerTo(p, TRUE, << >>)) /\ UNCHANGED <<logging, stopReq>>
       [] p.type = "GETPARAMS" ->
            tgt' = Replies(GetParams(p)) /\ UNCHANGED <<logging, stopReq>>
       [] p.type = "STOP" ->
            stopReq' = TRUE /\ tgt' = At("upload") /\ UNCHANGED logging
       [] p.type = "UNKNOWN" -> tgt' = At("upload") /\ UNCHANGED <<logging, stopReq>>
       [] OTHER -> FALSE
  /\ UNCHANGED <<wire, state, buffer, params>>

DispatchDisconnect ==
  /\ tgt.at = "dispatch" /\ commInitialized /\ tgt.pkt.type = "DISCONNECT_NOW"
  /\ ForceDisconnect /\ tgt' = At("upload")
  /\ UNCHANGED <<buffer, params, stopReq>>

\* GrowRecvBufIfNeeded, at the beginning of GetPkt.
GrowKeepsSize ==                                                       \* mutant
  /\ tgt.at = "dispatch" /\ commInitialized /\ tgt.pkt.type \in WithPayload \ {"UNKNOWN"}
  /\ \E fails \in IF "buffer" \in LowMemory THEN BOOLEAN ELSE {FALSE} :
       IF tgt.size <= pktBufSize
       THEN tgt' = [tgt EXCEPT !.at = "payload"] /\ UNCHANGED buffer
       ELSE /\ pktBuf' = IF fails THEN 0 ELSE tgt.size
            /\ pktBufSize' = IF fails THEN pktBufSize ELSE tgt.size
            /\ tgt' = [tgt EXCEPT !.at = IF fails THEN "clear" ELSE "payload"]
  /\ UNCHANGED <<wire, state, params, logging, stopReq>>
Grow ==
  /\ tgt.at = "dispatch" /\ commInitialized /\ tgt.pkt.type \in WithPayload \ {"UNKNOWN"}
  /\ \E fails \in IF "buffer" \in LowMemory THEN BOOLEAN ELSE {FALSE} :
       IF tgt.size <= pktBufSize
       THEN tgt' = [tgt EXCEPT !.at = "payload"] /\ UNCHANGED buffer
       ELSE /\ pktBuf' = IF fails THEN 0 ELSE tgt.size
            /\ pktBufSize' = IF fails THEN 0 ELSE tgt.size
            /\ tgt' = [tgt EXCEPT !.at = IF fails THEN "clear" ELSE "payload"]
  /\ UNCHANGED <<wire, state, params, logging, stopReq>>

NoMemory == Replies(AnswerTo(tgt.pkt, FALSE, << >>))

\* The rest of GetPkt: the payload, however long it takes.
GetPktOnce ==                                                          \* mutant
  /\ tgt.at = "payload"
  /\ LET n == IF RecvFails THEN 0 ELSE Received(tgt.size - tgt.got) IN
     /\ taken' = taken + n
     /\ tgt' = IF RecvFails \/ tgt.got + n < tgt.size THEN NoMemory
               ELSE [tgt EXCEPT !.at = "install", !.got = 0]
  /\ UNCHANGED <<link, conns, sent, arrived, answers, state, buffer, params, logging,
                 stopReq>>
GetPkt ==
  /\ tgt.at = "payload"
  /\ LET n == IF RecvFails THEN 0 ELSE Received(tgt.size - tgt.got) IN
     /\ taken' = taken + n
     /\ tgt' = IF RecvFails THEN NoMemory
               ELSE IF tgt.got + n < tgt.size THEN [tgt EXCEPT !.got = @ + n]
               ELSE [tgt EXCEPT !.at = "install", !.got = 0]
  /\ UNCHANGED <<link, conns, sent, arrived, answers, state, buffer, params, logging,
                 stopReq>>

\* ClearPkt: the payload of a packet without memory is discarded unit by unit.
ClearPktOnce ==                                                        \* mutant
  /\ tgt.at = "clear"
  /\ LET n == IF RecvFails THEN 0 ELSE Received(1) IN
     taken' = taken + n /\ tgt' = NoMemory
  /\ UNCHANGED <<link, conns, sent, arrived, answers, state, buffer, params, logging,
                 stopReq>>
ClearPkt ==
  /\ tgt.at = "clear"
  /\ LET n == IF RecvFails THEN 0 ELSE Received(1) IN
     /\ taken' = taken + n
     /\ tgt' = IF RecvFails \/ tgt.got + n = tgt.size THEN NoMemory
               ELSE [tgt EXCEPT !.got = @ + n]
  /\ UNCHANGED <<link, conns, sent, arrived, answers, state, buffer, params, logging,
                 stopReq>>

\* SetParam copies the sections of the packet into the parameters.
SetParam(p) ==
  [s \in Sections |-> IF s \in DOMAIN p.set THEN p.set[s] ELSE params[s]]

\* What the handlers do with the payload: the logging requests work on an upInfo, the
\* selections may find no memory.
Install ==
  /\ tgt.at = "install"
  /\ \E ok \in IF tgt.pkt.type = "SELECT" /\ "select" \in LowMemory THEN BOOLEAN ELSE {TRUE} :
       tgt' = Replies(AnswerTo(tgt.pkt, ok, << >>))
  /\ params' = IF tgt.pkt.type = "SETPARAM" THEN SetParam(tgt.pkt) ELSE params
  /\ logging' = (logging \/ tgt.pkt.type = "ARM")
  /\ UNCHANGED <<wire, state, buffer, stopReq>>

\* ProcessConnectPkt: the first response, then an allocation for the second.
ConnectFirst ==
  /\ tgt.at = "connect1"
  /\ \E ok \in SendOutcomes :
       tgt' = IF ok THEN [tgt EXCEPT !.at = "connect2"] ELSE At("upload")
  /\ UNCHANGED <<wire, state, buffer, params, logging, stopReq>>

ConnectSecond ==
  /\ tgt.at = "connect2"
  /\ \E fails \in IF "connect" \in LowMemory THEN BOOLEAN ELSE {FALSE} :
       tgt' = IF fails THEN At("upload") ELSE Replies(AnswerTo(tgt.pkt, TRUE, << >>))
  /\ UNCHANGED <<wire, state, buffer, params, logging, stopReq>>

\* SendPktToHost with a response. An error in it is not acted upon; only after a
\* successful one does EXT_DISCONNECT_REQUEST disconnect, and the handshake end.
\* DisconnectFromHost flushes what is logged before it closes.
Reply ==
  /\ tgt.at = "reply"
  /\ \E ok \in SendOutcomes :
       IF ok /\ tgt.answer.type = "DISCONNECT"
       THEN ForceDisconnect
       ELSE /\ answers' = IF link = "up" THEN Append(answers, tgt.answer) ELSE answers
            /\ commInitialized' =
                 (commInitialized \/ (ok /\ tgt.answer.type = "CONNECT"))
            /\ UNCHANGED <<link, conns, sent, arrived, taken, connected, logging>>
  /\ tgt' = At("upload")
  /\ UNCHANGED <<buffer, params, stopReq>>

-----------------------------------------------------------------------------
\* The upload server, and the loop of the task.
AfterUpload == At(IF stopReq THEN "shutdown" ELSE IF connected THEN "hdr" ELSE "open")

\* The session has nothing to send, whatever the line, or sends, or ends.
Upload ==
  /\ tgt.at = "upload"
  /\ logging' \in {FALSE, logging} /\ tgt' = AfterUpload
  /\ UNCHANGED <<wire, state, buffer, params, stopReq>>

\* It had something to send, on a line that does not take it.
UploadFails ==
  /\ tgt.at = "upload" /\ logging /\ FALSE \in SendOutcomes
  /\ ForceDisconnect /\ tgt' = At(IF stopReq THEN "shutdown" ELSE "open")
  /\ UNCHANGED <<buffer, params, stopReq>>

\* rt_ExtModeShutdown, whose EXT_MODEL_SHUTDOWN answers nothing.
Shutdown ==
  /\ tgt.at = "shutdown" /\ ForceDisconnect /\ tgt' = At("stopped")
  /\ pktBuf' = 0 /\ UNCHANGED <<pktBufSize, params, stopReq>>

Done == (tgt.at = "stopped" \/ (tgt.at = "open" /\ conns = MaxConns)) /\ UNCHANGED vars

Host == (\E p \in Requests \cup {Connect} : HostSends(p)) \/ HostCloses \/ Breaks

Target ==
  \/ OpenConnection \/ GetPktHdr \/ GetPktHdrFails
  \/ DispatchHandshake \/ Dispatch \/ DispatchDisconnect \/ Grow \/ GetPkt \/ ClearPkt
  \/ Install \/ ConnectFirst \/ ConnectSecond \/ Reply
  \/ Upload \/ UploadFails \/ Shutdown

Next == Host \/ Deliver \/ Target \/ Done

\* The task goes on and what the host has sent arrives. Nothing is assumed of the
\* host, nor of the state of the line.
Spec == Init /\ [][Next]_vars /\ WF_vars(Target) /\ WF_vars(Deliver)

-----------------------------------------------------------------------------
\* rt_PktServerWork: "At this point we know that we have a packet". What it
\* dispatches is the header of a packet of the host, not the middle of one, whatever
\* came in parts, found no memory or was refused before.
HaveAPacket ==
  tgt.at = "dispatch" => \E k \in 1 .. Len(sent) : taken = End(k - 1) + HdrLen

\* GetPkt writes into its buffer: it is as large as the packet, also after an earlier
\* packet found no memory for its own.
BufferHolds == tgt.at \in {"payload", "install"} => tgt.size <= pktBuf

\* A connection starts with the handshake: no packet is taken for a request before
\* the host has the connect responses of this very connection.
HandshakeIsFresh == commInitialized /\ link = "up" => answers # << >>

\* What the packet server promises, while the connection holds. A request is
\* served once it is received and has taken effect, before its answer is sent.
Effective == {k \in 1 .. Len(sent) : End(k) <= taken}
NotYet ==
  \/ tgt.at \in {"install", "connect1", "connect2"}
  \/ tgt.at \in {"dispatch", "payload"} /\ tgt.size = 0
Requested ==
  INSTANCE RequestLink WITH
    Refusable <- WithPayload \cup {"CONNECT"},
    up <- link = "up",
    asked <- IF link = "up" THEN sent ELSE << >>,
    served <- IF link = "up" THEN Cardinality(Effective) - (IF NotYet THEN 1 ELSE 0) ELSE 0,
    owed <- IF tgt.at = "reply" /\ link = "up" THEN tgt.answer ELSE Unanswered,
    answers <- IF link = "up" THEN answers ELSE << >>
ImplementsRequests == Requested!Spec

\* "we want the target to disconnect from the host even if it can't communicate":
\* a connection that fails is dropped, wherever the target is when it fails.
BrokenIsDropped == link = "broken" ~> link = "none"

\* Each request is answered, unless the connection ends first: also one that came in
\* parts, behind a silent one, or for which there was no memory. (Not the handshake,
\* whose second response is not sent when there is no memory for it.)
Expected(packets) == SelectSeq(packets, LAMBDA p : p.type \notin Silent \cup {"CONNECT"})
Due == Len(Expected(sent)) > Len(Expected(answers))
AnsweredOrGone == link = "up" /\ Due ~> ~Due \/ link # "up"

\* ExtForceDisconnect: "a tcp/ip disconnection between the host and target ... we want
\* the target to disconnect from the host": a connection that the host has closed
\* ends on the target, which can be connected to again.
ClosedIsDropped == link = "closed" ~> link = "none"
=============================================================================
