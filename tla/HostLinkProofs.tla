--------------------------- MODULE HostLinkProofs ---------------------------
(***************************************************************************)
(* HostLink for every set of requests and parameters: the packet buffer    *)
(* holds the payload that GetPkt writes to it, a connection begins with    *)
(* its own handshake, what is dispatched is the header of a packet, and    *)
(* the packet server implements RequestLink.                               *)
(***************************************************************************)
EXTENDS HostLink, FiniteSetTheorems, WellFoundedInduction, TLAPS

USE DEF wire, stream, state, buffer

\* The locals of the task; a packet of the host has a size.
Shape(t) ==
  t = [at |-> t.at, got |-> t.got, pkt |-> t.pkt, size |-> t.size, answer |-> t.answer]
Locals ==
  /\ Shape(tgt)
  /\ tgt.size \in Nat
  /\ sent \in Seq(Requests \cup {Connect})
  /\ \E S : answers \in Seq(S)

\* Until the shutdown frees the buffer its size is known, and GetPkt goes on only
\* with a buffer that is large enough.
Buffered ==
  /\ tgt.at # "stopped" => pktBufSize = pktBuf /\ pktBuf \in Nat
  /\ BufferHolds

\* The flags of ext_svr follow the connection, and the task waits for a new one only
\* when they are reset.
Connection ==
  /\ connected <=> link # "none"
  /\ commInitialized => link # "none"
  /\ tgt.at = "open" => link = "none"
  /\ HandshakeIsFresh

IInv == Locals /\ Buffered /\ Connection

LEMMA SizeIsNat ==
  ASSUME NEW p \in Requests \cup {Connect}
  PROVE  PktSize(p) \in Nat
<1>1. IsFiniteSet(DOMAIN p.set)
  <2>1. CASE p \in Requests
    BY <2>1, LinkAssumption
  <2>2. CASE p = Connect
    <3>1. DOMAIN p.set = {}
      BY <2>2 DEF Connect
    <3> QED
      BY <3>1, FS_EmptySet
  <2> QED
    BY <2>1, <2>2
<1>2. Cardinality(DOMAIN p.set) \in Nat
  BY <1>1, FS_CardinalityType
<1> QED
  BY <1>2 DEF PktSize

LEMMA AppendFacts ==
  ASSUME NEW S, NEW s \in Seq(S), NEW e
  PROVE  Append(s, e) \in Seq(S \cup {e}) /\ Append(s, e) # << >>
<1>1. s \in Seq(S \cup {e})
  OBVIOUS
<1> QED
  BY <1>1

\* A step of the task that concerns neither the connection nor the buffer.
LEMMA LocalStep ==
  ASSUME IInv, Shape(tgt'), tgt'.size \in Nat,
         UNCHANGED <<link, sent, answers, connected, commInitialized, pktBuf, pktBufSize>>,
         tgt.at # "stopped", tgt'.at = "open" => ~connected,
         tgt'.at \in {"payload", "install"} =>
           tgt.at \in {"payload", "install"} /\ tgt'.size = tgt.size
  PROVE  IInv'
<1>1. Locals'
  BY DEF IInv, Locals
<1>2. Buffered'
  BY DEF IInv, Buffered, BufferHolds
<1>3. Connection'
  BY DEF IInv, Connection, HandshakeIsFresh
<1> QED
  BY <1>1, <1>2, <1>3 DEF IInv

\* The task goes to a place with fresh locals.
LEMMA AtFacts ==
  ASSUME NEW place
  PROVE  Shape(At(place)) /\ At(place).at = place /\ At(place).size = 0
BY DEF Shape, At

LEMMA GoesTo ==
  ASSUME IInv, NEW place, tgt' = At(place), place \notin {"payload", "install"},
         UNCHANGED <<link, sent, answers, connected, commInitialized, pktBuf, pktBufSize>>,
         tgt.at # "stopped", place = "open" => ~connected
  PROVE  IInv'
<1>1. Shape(tgt') /\ tgt'.at = place /\ tgt'.size \in Nat
  BY AtFacts
<1> QED
  BY <1>1, LocalStep

\* ExtForceDisconnect resets all that belongs to a connection.
LEMMA DropStep ==
  ASSUME IInv, Drop, NEW place, tgt' = At(place), place \notin {"payload", "install"},
         place # "stopped" => UNCHANGED <<pktBuf, pktBufSize>> /\ tgt.at # "stopped"
  PROVE  IInv'
<1>1. Shape(tgt') /\ tgt'.at = place /\ tgt'.size \in Nat
  BY AtFacts
<1>2. Locals'
  <2>1. << >> \in Seq(Requests \cup {Connect}) /\ << >> \in Seq({})
    OBVIOUS
  <2> QED
    BY <1>1, <2>1 DEF Drop, Locals
<1>3. Buffered'
  BY <1>1 DEF IInv, Buffered, BufferHolds
<1>4. Connection'
  BY <1>1 DEF Drop, Connection, HandshakeIsFresh
<1> QED
  BY <1>2, <1>3, <1>4 DEF IInv

\* Another place, with the same packet.
LEMMA ReplyFacts ==
  ASSUME IInv, NEW a
  PROVE  Shape(Replies(a)) /\ Replies(a).at = "reply" /\ Replies(a).size \in Nat
<1>1. ASSUME NEW r,
             r = [[at |-> tgt.at, got |-> tgt.got, pkt |-> tgt.pkt, size |-> tgt.size,
                   answer |-> tgt.answer] EXCEPT !.at = "reply", !.answer = a]
      PROVE  Shape(r) /\ r.at = "reply" /\ r.size = tgt.size
  BY <1>1 DEF Shape
<1> QED
  BY <1>1 DEF IInv, Locals, Shape, Replies

LEMMA RepliesKeeps ==
  ASSUME IInv, NEW answer, tgt' = Replies(answer), tgt.at # "stopped",
         UNCHANGED <<link, sent, answers, connected, commInitialized, pktBuf, pktBufSize>>
  PROVE  IInv'
BY ReplyFacts, LocalStep

LEMMA HostSendsKeeps == ASSUME NEW p, IInv, HostSends(p)
  PROVE  IInv'
<1>1. Locals'
  BY DEF IInv, Locals, Shape, At, HostSends
<1>2. Buffered'
  BY DEF IInv, Locals, Shape, Buffered, BufferHolds, At, HostSends
<1>3. Connection'
  BY DEF IInv, Locals, Shape, Connection, HandshakeIsFresh, At, HostSends
<1> QED
  BY <1>1, <1>2, <1>3 DEF IInv

LEMMA DeliverKeeps == ASSUME IInv, Deliver
  PROVE  IInv'
<1>1. Locals'
  BY DEF IInv, Locals, Shape, At, Deliver
<1>2. Buffered'
  BY DEF IInv, Locals, Shape, Buffered, BufferHolds, At, Deliver
<1>3. Connection'
  BY DEF IInv, Locals, Shape, Connection, HandshakeIsFresh, At, Deliver
<1> QED
  BY <1>1, <1>2, <1>3 DEF IInv

LEMMA HostClosesKeeps == ASSUME IInv, HostCloses
  PROVE  IInv'
<1>1. Locals'
  BY DEF IInv, Locals, Shape, At, HostCloses
<1>2. Buffered'
  BY DEF IInv, Locals, Shape, Buffered, BufferHolds, At, HostCloses
<1>3. Connection'
  BY DEF IInv, Locals, Shape, Connection, HandshakeIsFresh, At, HostCloses
<1> QED
  BY <1>1, <1>2, <1>3 DEF IInv

LEMMA BreaksKeeps == ASSUME IInv, Breaks
  PROVE  IInv'
<1>1. Locals'
  BY DEF IInv, Locals, Shape, At, Breaks
<1>2. Buffered'
  BY DEF IInv, Locals, Shape, Buffered, BufferHolds, At, Breaks
<1>3. Connection'
  BY DEF IInv, Locals, Shape, Connection, HandshakeIsFresh, At, Breaks
<1> QED
  BY <1>1, <1>2, <1>3 DEF IInv

LEMMA OpenConnectionKeeps == ASSUME IInv, OpenConnection
  PROVE  IInv'
<1>1. Locals'
  BY DEF IInv, Locals, Shape, At, OpenConnection
<1>2. Buffered'
  BY DEF IInv, Locals, Shape, Buffered, BufferHolds, At, OpenConnection
<1>3. Connection'
  BY DEF IInv, Locals, Shape, Connection, HandshakeIsFresh, At, OpenConnection
<1> QED
  BY <1>1, <1>2, <1>3 DEF IInv

\* A header is that of a packet of the host.
LEMMA HeadersArePackets ==
  ASSUME IInv, NEW n, NEW p \in HeadersAt(n)
  PROVE  p \in Requests \cup {Connect}
BY DEF IInv, Locals, HeadersAt

LEMMA GetPktHdrKeeps == ASSUME IInv, GetPktHdr
  PROVE  IInv'
<1> DEFINE n == Received(HdrLen - tgt.got)
<1>1. /\ tgt.at = "hdr"
      /\ UNCHANGED <<link, sent, answers, connected, commInitialized, pktBuf, pktBufSize>>
  BY DEF GetPktHdr
<1>2. CASE tgt' = At("upload")
  BY <1>1, <1>2, GoesTo
<1>3. CASE tgt' = [tgt EXCEPT !.got = @ + n]
  <2>1. Shape(tgt') /\ tgt'.at = "hdr" /\ tgt'.size \in Nat
    BY <1>1, <1>3 DEF IInv, Locals, Shape
  <2> QED
    BY <1>1, <2>1, LocalStep
<1>4. CASE \E p \in HeadersAt(taken') :
             tgt' = [At("dispatch") EXCEPT !.pkt = p, !.size = PktSize(p)]
  <2>1. PICK p \in HeadersAt(taken') :
             tgt' = [At("dispatch") EXCEPT !.pkt = p, !.size = PktSize(p)]
    BY <1>4
  <2>2. PktSize(p) \in Nat
    BY HeadersArePackets, SizeIsNat
  <2>3. Shape(tgt') /\ tgt'.at = "dispatch" /\ tgt'.size \in Nat
    BY <2>1, <2>2 DEF At, Shape
  <2> QED
    BY <1>1, <2>3, LocalStep
<1>5. \/ tgt' = At("upload")
      \/ tgt' = [tgt EXCEPT !.got = @ + n]
      \/ \E p \in HeadersAt(taken') :
             tgt' = [At("dispatch") EXCEPT !.pkt = p, !.size = PktSize(p)]
  BY DEF GetPktHdr
<1> QED
  BY <1>2, <1>3, <1>4, <1>5

LEMMA GetPktHdrFailsKeeps == ASSUME IInv, GetPktHdrFails
  PROVE  IInv'
BY DropStep DEF GetPktHdrFails, ForceDisconnect

LEMMA DispatchHandshakeKeeps == ASSUME IInv, DispatchHandshake
  PROVE  IInv'
<1>1. Locals'
  BY DEF IInv, Locals, Shape, At, DispatchHandshake
<1>2. Buffered'
  BY DEF IInv, Locals, Shape, Buffered, BufferHolds, At, DispatchHandshake
<1>3. Connection'
  BY DEF IInv, Locals, Shape, Connection, HandshakeIsFresh, At, DispatchHandshake
<1> QED
  BY <1>1, <1>2, <1>3 DEF IInv

LEMMA DispatchKeeps == ASSUME IInv, Dispatch
  PROVE  IInv'
<1>1. /\ tgt.at = "dispatch"
      /\ UNCHANGED <<link, sent, answers, connected, commInitialized, pktBuf, pktBufSize>>
  BY DEF Dispatch
<1>2. \/ tgt' = [tgt EXCEPT !.at = "connect1"]
      \/ \E a : tgt' = Replies(a)
      \/ tgt' = At("upload")
  BY DEF Dispatch
<1>3. CASE tgt' = [tgt EXCEPT !.at = "connect1"]
  <2>1. Shape(tgt') /\ tgt'.at = "connect1" /\ tgt'.size \in Nat
    BY <1>3 DEF IInv, Locals, Shape
  <2> QED
    BY <1>1, <2>1, LocalStep
<1>4. CASE \E a : tgt' = Replies(a)
  BY <1>1, <1>4, RepliesKeeps
<1>5. CASE tgt' = At("upload")
  BY <1>1, <1>5, GoesTo
<1> QED
  BY <1>2, <1>3, <1>4, <1>5

LEMMA DispatchDisconnectKeeps == ASSUME IInv, DispatchDisconnect
  PROVE  IInv'
BY DropStep DEF DispatchDisconnect, ForceDisconnect

LEMMA GrowKeeps == ASSUME IInv, Grow
  PROVE  IInv'
<1>1. Locals'
  BY DEF IInv, Locals, Shape, At, Grow
<1>2. Buffered'
  BY DEF IInv, Locals, Shape, Buffered, BufferHolds, At, Grow
<1>3. Connection'
  BY DEF IInv, Locals, Shape, Connection, HandshakeIsFresh, At, Grow
<1> QED
  BY <1>1, <1>2, <1>3 DEF IInv

LEMMA GetPktKeeps == ASSUME IInv, GetPkt
  PROVE  IInv'
<1>1. /\ tgt.at = "payload"
      /\ UNCHANGED <<link, sent, answers, connected, commInitialized, pktBuf, pktBufSize>>
  BY DEF GetPkt
<1>2. tgt' = NoMemory \/ tgt' # NoMemory
  OBVIOUS
<1>3. CASE tgt' = NoMemory
  BY <1>1, <1>3, RepliesKeeps DEF NoMemory
<1>4. CASE tgt' # NoMemory
  <2>1. \/ \E g : tgt' = [tgt EXCEPT !.got = g]
        \/ tgt' = [tgt EXCEPT !.at = "install", !.got = 0]
    BY <1>4, Zenon DEF GetPkt
  <2>2. /\ Shape(tgt') /\ tgt'.at \in {"payload", "install"} /\ tgt'.size = tgt.size
        /\ tgt.size \in Nat
    BY <1>1, <2>1 DEF IInv, Locals, Shape
  <2> QED
    BY <1>1, <2>2, LocalStep
<1> QED
  BY <1>3, <1>4

LEMMA ClearPktKeeps == ASSUME IInv, ClearPkt
  PROVE  IInv'
<1>1. /\ tgt.at = "clear"
      /\ UNCHANGED <<link, sent, answers, connected, commInitialized, pktBuf, pktBufSize>>
  BY DEF ClearPkt
<1>2. tgt' = NoMemory \/ tgt' # NoMemory
  OBVIOUS
<1>3. CASE tgt' = NoMemory
  BY <1>1, <1>3, RepliesKeeps DEF NoMemory
<1>4. CASE tgt' # NoMemory
  <2>1. \E g : tgt' = [tgt EXCEPT !.got = g]
    BY <1>4, Zenon DEF ClearPkt
  <2>2. /\ Shape(tgt') /\ tgt'.at = "clear" /\ tgt'.size = tgt.size
        /\ tgt.size \in Nat
    BY <1>1, <2>1 DEF IInv, Locals, Shape
  <2> QED
    BY <1>1, <2>2, LocalStep
<1> QED
  BY <1>3, <1>4

LEMMA InstallKeeps == ASSUME IInv, Install
  PROVE  IInv'
<1>1. /\ tgt.at = "install" /\ \E a : tgt' = Replies(a)
      /\ UNCHANGED <<link, sent, answers, connected, commInitialized, pktBuf, pktBufSize>>
  BY DEF Install
<1> QED
  BY <1>1, RepliesKeeps

LEMMA ConnectFirstKeeps == ASSUME IInv, ConnectFirst
  PROVE  IInv'
<1>1. Locals'
  BY DEF IInv, Locals, Shape, At, ConnectFirst
<1>2. Buffered'
  BY DEF IInv, Locals, Shape, Buffered, BufferHolds, At, ConnectFirst
<1>3. Connection'
  BY DEF IInv, Locals, Shape, Connection, HandshakeIsFresh, At, ConnectFirst
<1> QED
  BY <1>1, <1>2, <1>3 DEF IInv

LEMMA ConnectSecondKeeps == ASSUME IInv, ConnectSecond
  PROVE  IInv'
<1>1. /\ tgt.at = "connect2" /\ (tgt' = At("upload") \/ \E a : tgt' = Replies(a))
      /\ UNCHANGED <<link, sent, answers, connected, commInitialized, pktBuf, pktBufSize>>
  BY DEF ConnectSecond
<1> QED
  BY <1>1, RepliesKeeps, GoesTo

\* Only the answer to the connect request ends the handshake.
LEMMA ReplyKeeps == ASSUME IInv, Reply
  PROVE  IInv'
<1>1. tgt.at = "reply" /\ tgt' = At("upload") /\ UNCHANGED <<pktBuf, pktBufSize>>
  BY DEF Reply
<1>2. PICK ok \in SendOutcomes :
        IF ok /\ tgt.answer.type = "DISCONNECT"
        THEN ForceDisconnect
        ELSE /\ answers' = IF link = "up" THEN Append(answers, tgt.answer) ELSE answers
             /\ commInitialized' =
                  (commInitialized \/ (ok /\ tgt.answer.type = "CONNECT"))
             /\ UNCHANGED <<link, conns, sent, arrived, taken, connected, logging>>
  BY DEF Reply
<1>3. CASE ok /\ tgt.answer.type = "DISCONNECT"
  BY <1>1, <1>2, <1>3, DropStep DEF ForceDisconnect
<1>4. CASE ~(ok /\ tgt.answer.type = "DISCONNECT")
  <2>1. /\ answers' = IF link = "up" THEN Append(answers, tgt.answer) ELSE answers
        /\ commInitialized' = (commInitialized \/ (ok /\ tgt.answer.type = "CONNECT"))
        /\ UNCHANGED <<link, sent, connected>>
    BY <1>2, <1>4
  <2>2. (\E S : answers' \in Seq(S)) /\ (link = "up" => answers' # << >>)
    BY <2>1, AppendFacts DEF IInv, Locals
  <2>3. Shape(tgt') /\ tgt'.at = "upload" /\ tgt'.size \in Nat
    BY <1>1, AtFacts
  <2>4. Locals'
    BY <2>1, <2>2, <2>3 DEF IInv, Locals
  <2>5. Buffered'
    BY <1>1, <2>3 DEF IInv, Buffered, BufferHolds
  <2>6. ok => link # "none"
    BY DEF SendOutcomes
  <2>7. Connection'
    BY <2>1, <2>2, <2>3, <2>6 DEF IInv, Connection, HandshakeIsFresh
  <2> QED
    BY <2>4, <2>5, <2>7 DEF IInv
<1> QED
  BY <1>3, <1>4

LEMMA UploadKeeps == ASSUME IInv, Upload
  PROVE  IInv'
<1>1. /\ tgt.at = "upload"
      /\ UNCHANGED <<link, sent, answers, connected, commInitialized, pktBuf, pktBufSize>>
      /\ \E place \in {"shutdown", "hdr", "open"} :
           tgt' = At(place) /\ (place = "open" => ~connected)
  BY DEF Upload, AfterUpload
<1> QED
  BY <1>1, GoesTo

LEMMA UploadFailsKeeps == ASSUME IInv, UploadFails
  PROVE  IInv'
<1>1. /\ tgt.at = "upload" /\ Drop /\ UNCHANGED <<pktBuf, pktBufSize>>
      /\ \E place \in {"shutdown", "open"} : tgt' = At(place)
  BY DEF UploadFails, ForceDisconnect
<1> QED
  BY <1>1, DropStep

LEMMA ShutdownKeeps == ASSUME IInv, Shutdown
  PROVE  IInv'
BY DropStep DEF Shutdown, ForceDisconnect

LEMMA Invariant == Spec => []IInv
<1>1. Init => IInv
  <2>1. Init => Locals
    <3>1. << >> \in Seq(Requests \cup {Connect}) /\ << >> \in Seq({})
      OBVIOUS
    <3> QED
      BY <3>1, AtFacts DEF Init, Locals
  <2>2. Init => Buffered /\ Connection
    BY AtFacts DEF Init, Buffered, BufferHolds, Connection, HandshakeIsFresh
  <2> QED
    BY <2>1, <2>2 DEF IInv
<1>2. IInv /\ [Next]_vars => IInv'
  <2>1. IInv /\ UNCHANGED vars => IInv'
    BY DEF vars, IInv, Locals, Shape, Buffered, BufferHolds, Connection, HandshakeIsFresh
  <2>2. IInv /\ (Host \/ Deliver) => IInv'
    BY HostSendsKeeps, HostClosesKeeps, BreaksKeeps, DeliverKeeps DEF Host
  <2>3. IInv /\ Target => IInv'
    BY OpenConnectionKeeps, GetPktHdrKeeps, GetPktHdrFailsKeeps, DispatchHandshakeKeeps,
       DispatchKeeps, DispatchDisconnectKeeps, GrowKeeps, GetPktKeeps, ClearPktKeeps,
       InstallKeeps, ConnectFirstKeeps, ConnectSecondKeeps, ReplyKeeps, UploadKeeps,
       UploadFailsKeeps, ShutdownKeeps
       DEF Target
  <2> QED
    BY <2>1, <2>2, <2>3 DEF Next, Done
<1> QED
  BY <1>1, <1>2, PTL DEF Spec

\* GetPkt writes no payload into a buffer that is smaller, whatever the packets, also
\* after one for which there was no memory.
THEOREM PayloadFits == Spec => []BufferHolds
<1>1. IInv => BufferHolds
  BY DEF IInv, Buffered
<1> QED
  BY Invariant, <1>1, PTL

\* Nothing is served on a connection before its own handshake is complete.
THEOREM HandshakeComesFirst == Spec => []HandshakeIsFresh
<1>1. IInv => HandshakeIsFresh
  BY DEF IInv, Connection
<1> QED
  BY Invariant, <1>1, PTL

-----------------------------------------------------------------------------
\* The framing of the packets, and what the packet server promises. A packet of a
\* type that it does not know breaks the framing (counterexample MCHaveAPacket).
OnlyKnown == \A p \in Requests : p.type # "UNKNOWN"

\* What the task has of the packet that follows the last one it has taken whole.
Part ==
  IF tgt.at = "hdr" THEN tgt.got
  ELSE IF tgt.at = "dispatch" THEN HdrLen
  ELSE IF tgt.at \in {"payload", "clear"} THEN HdrLen + tgt.got ELSE 0

\* The task has taken m packets and that part, and its locals are of that packet.
Framed(m) ==
  /\ m \in 0 .. Len(sent) /\ taken = End(m) + Part
  /\ tgt.at = "hdr" => tgt.got \in 0 .. HdrLen - 1
  /\ tgt.at = "dispatch" => tgt.got = 0
  /\ tgt.at \in {"dispatch", "payload", "clear"} =>
       m < Len(sent) /\ tgt.pkt = sent[m + 1] /\ tgt.size = PktSize(tgt.pkt)
  /\ tgt.at \in {"payload", "clear"} => tgt.got \in 0 .. tgt.size
  /\ tgt.at = "clear" \/ (tgt.at = "payload" /\ tgt.size # 0) => tgt.got < tgt.size
  /\ tgt.at \in {"install", "connect1", "connect2"} => m # 0 /\ tgt.pkt = sent[m]

\* While nothing has failed; a header that was read stays one.
Stream ==
  /\ taken \in Nat /\ arrived \in Nat /\ taken <= arrived /\ arrived <= End(Len(sent))
  /\ link \in {"up", "closed"} \/ tgt.at = "dispatch" => \E m \in Nat : Framed(m)

\* The first packet of a connection is the handshake, and the host sends no other
\* before it is complete.
Shaking ==
  /\ sent # << >> => sent[1] = Connect
  /\ ~commInitialized =>
       /\ Len(sent) <= 1 /\ answers = << >>
       /\ tgt.at \notin {"payload", "clear", "install"}
       /\ tgt.at = "reply" => tgt.answer.type = "CONNECT"
  /\ link = "none" =>
       /\ sent = << >> /\ answers = << >> /\ arrived = 0 /\ taken = 0
       /\ tgt.at \in {"open", "upload", "shutdown", "stopped"}

\* The locals fit the place.
Serving ==
  /\ tgt.at \in {"connect1", "connect2"} => tgt.pkt.type = "CONNECT"
  /\ tgt.at \in {"payload", "clear", "install"} =>
       tgt.pkt.type \in WithPayload \ {"UNKNOWN"}
  /\ tgt.at = "reply" => tgt.answer # Unanswered
  /\ DOMAIN params = Sections

Links == link \in {"none", "up", "closed", "broken"}

FInv == Stream /\ Shaking /\ Serving /\ Links

LEMMA Smallest ==
  ASSUME NEW T, T \subseteq Nat, T # {}
  PROVE  \E x \in T : \A y \in T : x <= y
<1> DEFINE R == {ss \in Nat \X Nat : ss[1] < ss[2]}
<1>1. IsWellFoundedOn(R, Nat)
  BY NatLessThanWellFounded DEF OpToRel
<1>2. \E x \in T : \A y \in T : ~ (<<y, x>> \in R)
  <2> HIDE DEF R
  <2> QED
    BY <1>1, WFMin
<1>3. PICK x \in T : \A y \in T : ~ (<<y, x>> \in R)
  BY <1>2
<1>4. ASSUME NEW y \in T PROVE x <= y
  <2>1. x \in Nat /\ y \in Nat /\ ~ (<<y, x>> \in R)
    BY <1>3
  <2> QED
    BY <2>1
<1> QED
  BY <1>3, <1>4

\* The recursive function exists, hence Ends satisfies its equation.
LEMMA EndsUnfolds ==
  ASSUME NEW packets, Len(packets) \in Nat
  PROVE  Ends(packets) =
           [k \in 0 .. Len(packets) |->
              IF k = 0 THEN 0 ELSE Ends(packets)[k - 1] + HdrLen + PktSize(packets[k])]
<1> DEFINE Step(x, k) == x + HdrLen + PktSize(packets[k])
<1> DEFINE Upto(m, f) == f = [k \in 0 .. m |-> IF k = 0 THEN 0 ELSE Step(f[k - 1], k)]
<1> DEFINE Bad == {m \in 0 .. Len(packets) : ~ \E f : Upto(m, f)}
<1>0. Ends(packets) = CHOOSE f : Upto(Len(packets), f)
  BY DEF Ends
<1> HIDE DEF Step
<1>1. Bad = {}
  <2> SUFFICES ASSUME Bad # {} PROVE FALSE
    OBVIOUS
  <2>1. PICK m \in Bad : \A y \in Bad : m <= y
    <3>1. Bad \subseteq Nat
      OBVIOUS
    <3> QED
      BY <3>1, Smallest
  <2>2. CASE m = 0
    <3>1. Upto(0, [k \in 0 .. 0 |-> 0])
      OBVIOUS
    <3> QED
      BY <2>1, <2>2, <3>1
  <2>3. CASE m # 0
    <3>1. m \in Nat /\ m - 1 \in 0 .. Len(packets)
      BY <2>1, <2>3
    <3>2. m - 1 \notin Bad
      <4> HIDE DEF Bad
      <4> QED
        BY <2>1, <3>1
    <3>3. PICK f : Upto(m - 1, f)
      BY <3>1, <3>2
    <3> DEFINE g == [k \in 0 .. m |-> IF k = m THEN Step(f[m - 1], m) ELSE f[k]]
    <3>4. Upto(m, g)
      <4>1. ASSUME NEW k \in 0 .. m
            PROVE  g[k] = IF k = 0 THEN 0 ELSE Step(g[k - 1], k)
        <5>1. CASE k = m
          BY <2>3, <3>1, <5>1
        <5>2. CASE k # m
          <6>1. k \in 0 .. m - 1
            BY <3>1, <5>2
          <6>2. f[k] = IF k = 0 THEN 0 ELSE Step(f[k - 1], k)
            BY <3>3, <6>1
          <6>3. k # 0 => k - 1 \in 0 .. m /\ k - 1 # m
            BY <3>1, <6>1
          <6> QED
            BY <5>2, <6>2, <6>3
        <5> QED
          BY <5>1, <5>2
      <4> QED
        BY <4>1
    <3> HIDE DEF g
    <3> QED
      BY <2>1, <3>4
  <2> QED
    BY <2>2, <2>3
<1>2. \E f : Upto(Len(packets), f)
  <2>1. Len(packets) \in 0 .. Len(packets) /\ Len(packets) \notin Bad
    BY <1>1
  <2> HIDE DEF Upto
  <2> QED
    BY <2>1
<1>3. Upto(Len(packets), Ends(packets))
  <2> HIDE DEF Upto
  <2> QED
    BY <1>0, <1>2, Zenon
<1> QED
  BY <1>3 DEF Step

\* The next packet of a stream of the host ends behind its header and payload.
LEMMA EndsFacts ==
  ASSUME NEW packets \in Seq(Requests \cup {Connect})
  PROVE  /\ Ends(packets)[0] = 0
         /\ \A k \in 1 .. Len(packets) :
              /\ Ends(packets)[k] = Ends(packets)[k - 1] + HdrLen + PktSize(packets[k])
              /\ PktSize(packets[k]) \in Nat
<1>1. Len(packets) \in Nat
  OBVIOUS
<1>2. \A k \in 0 .. Len(packets) :
        Ends(packets)[k] =
          IF k = 0 THEN 0 ELSE Ends(packets)[k - 1] + HdrLen + PktSize(packets[k])
  BY <1>1, EndsUnfolds
<1>3. \A k \in 1 .. Len(packets) : packets[k] \in Requests \cup {Connect}
  OBVIOUS
<1> QED
  BY <1>1, <1>2, <1>3, SizeIsNat

LEMMA EndsAreNat ==
  ASSUME NEW packets \in Seq(Requests \cup {Connect})
  PROVE  \A k \in 0 .. Len(packets) : Ends(packets)[k] \in Nat
<1> DEFINE Bad == {k \in 0 .. Len(packets) : Ends(packets)[k] \notin Nat}
<1>1. Bad = {}
  <2> SUFFICES ASSUME Bad # {} PROVE FALSE
    OBVIOUS
  <2>1. PICK k \in Bad : \A y \in Bad : k <= y
    <3>1. Bad \subseteq Nat
      OBVIOUS
    <3> QED
      BY <3>1, Smallest
  <2>2. k # 0
    BY <2>1, EndsFacts
  <2>3. k \in 1 .. Len(packets) /\ k - 1 \in 0 .. Len(packets) /\ k - 1 \notin Bad
    BY <2>1, <2>2
  <2>4. Ends(packets)[k] \in Nat
    BY <2>3, EndsFacts DEF HdrLen
  <2> QED
    BY <2>1, <2>4
<1> QED
  BY <1>1

LEMMA EndsIncrease ==
  ASSUME NEW packets \in Seq(Requests \cup {Connect}),
         NEW i \in 0 .. Len(packets), NEW j \in i + 1 .. Len(packets)
  PROVE  Ends(packets)[i] + HdrLen <= Ends(packets)[j]
<1> DEFINE Bad == {k \in i + 1 .. Len(packets) :
                     ~ (Ends(packets)[i] + HdrLen <= Ends(packets)[k])}
<1>1. Bad = {}
  <2> SUFFICES ASSUME Bad # {} PROVE FALSE
    OBVIOUS
  <2>1. PICK k \in Bad : \A y \in Bad : k <= y
    <3>1. Bad \subseteq Nat
      OBVIOUS
    <3> QED
      BY <3>1, Smallest
  <2>2. /\ k \in 1 .. Len(packets) /\ k - 1 \in 0 .. Len(packets) /\ k - 1 \notin Bad
        /\ k \in i + 1 .. Len(packets)
    BY <2>1
  <2>3. /\ Ends(packets)[k] = Ends(packets)[k - 1] + HdrLen + PktSize(packets[k])
        /\ PktSize(packets[k]) \in Nat
    BY <2>2, EndsFacts
  <2>4. /\ Ends(packets)[i] \in Nat /\ Ends(packets)[k - 1] \in Nat
    BY <2>2, EndsAreNat
  <2>5. Ends(packets)[i] <= Ends(packets)[k - 1]
    <3>1. CASE k - 1 = i
      BY <2>4, <3>1
    <3>2. CASE k - 1 # i
      <4>1. Ends(packets)[i] + HdrLen <= Ends(packets)[k - 1]
        BY <2>2, <3>2
      <4> QED
        BY <2>4, <4>1 DEF HdrLen
    <3> QED
      BY <3>1, <3>2
  <2> QED
    BY <2>1, <2>3, <2>4, <2>5 DEF HdrLen
<1> QED
  BY <1>1

\* A packet more of the host leaves the ends of the others where they are.
LEMMA EndsOfMore ==
  ASSUME NEW packets \in Seq(Requests \cup {Connect}), NEW p \in Requests \cup {Connect}
  PROVE  \A k \in 0 .. Len(packets) : Ends(Append(packets, p))[k] = Ends(packets)[k]
<1> DEFINE more == Append(packets, p)
<1> DEFINE Bad == {k \in 0 .. Len(packets) : Ends(more)[k] # Ends(packets)[k]}
<1>0. /\ more \in Seq(Requests \cup {Connect}) /\ Len(more) = Len(packets) + 1
      /\ \A k \in 1 .. Len(packets) : more[k] = packets[k]
      /\ Len(packets) \in Nat
  OBVIOUS
<1> HIDE DEF more
<1>1. Bad = {}
  <2> SUFFICES ASSUME Bad # {} PROVE FALSE
    OBVIOUS
  <2>1. PICK k \in Bad : \A y \in Bad : k <= y
    <3>1. Bad \subseteq Nat
      OBVIOUS
    <3> QED
      BY <3>1, Smallest
  <2>2. k # 0
    BY <1>0, <2>1, EndsFacts
  <2>3. /\ k \in 1 .. Len(packets) /\ k - 1 \in 0 .. Len(packets) /\ k - 1 \notin Bad
        /\ k \in 1 .. Len(more)
    BY <1>0, <2>1, <2>2
  <2>4. Ends(more)[k] = Ends(more)[k - 1] + HdrLen + PktSize(more[k])
    BY <1>0, <2>3, EndsFacts
  <2>5. Ends(packets)[k] = Ends(packets)[k - 1] + HdrLen + PktSize(packets[k])
    BY <2>3, EndsFacts
  <2> QED
    BY <1>0, <2>1, <2>3, <2>4, <2>5
<1> QED
  BY <1>1 DEF more

LEMMA EndFacts ==
  ASSUME Locals
  PROVE  /\ sent \in Seq(Requests \cup {Connect}) /\ Len(sent) \in Nat /\ End(0) = 0
         /\ \A k \in 0 .. Len(sent) : End(k) \in Nat
         /\ \A k \in 0 .. Len(sent) : k < Len(sent) =>
              /\ End(k + 1) = End(k) + HdrLen + PktSize(sent[k + 1])
              /\ PktSize(sent[k + 1]) \in Nat
<1>1. sent \in Seq(Requests \cup {Connect})
  BY DEF Locals
<1>2. \A k \in 0 .. Len(sent) : k < Len(sent) => k + 1 \in 1 .. Len(sent) /\ (k + 1) - 1 = k
  BY <1>1
<1> QED
  BY <1>1, <1>2, EndsFacts, EndsAreNat DEF End

\* What rtIOStreamRecv returns.
LEMMA ReceivedFacts ==
  ASSUME Stream, NEW n \in Nat
  PROVE  Received(n) \in 0 .. n /\ taken + Received(n) <= arrived
<1> DEFINE both == {n, arrived - taken}
<1>1. \E x \in both : \A y \in both : x <= y
  <2>1. n \in Int /\ arrived - taken \in Int
    BY DEF Stream
  <2>2. CASE n <= arrived - taken
    BY <2>1, <2>2
  <2>3. CASE ~ (n <= arrived - taken)
    BY <2>1, <2>3
  <2> QED
    BY <2>2, <2>3
<1>2. Received(n) \in both /\ \A y \in both : Received(n) <= y
  BY <1>1 DEF Received, Min
<1> QED
  BY <1>2 DEF Stream

\* The task is behind a packet, and not in the middle of one.
Between(m) == m \in 0 .. Len(sent) /\ taken = End(m)

\* A step to a place where no packet is taken apart.
LEMMA StreamBetween ==
  ASSUME Stream, UNCHANGED <<sent, arrived, taken>>,
         tgt'.at \notin {"dispatch", "payload", "clear", "install", "connect1", "connect2"},
         tgt'.at = "hdr" => tgt'.got = 0,
         link' \in {"up", "closed"} => \E m : Between(m)
  PROVE  Stream'
<1>1. Part' = 0
  BY DEF Part
<1>2. (\E m : Between(m)) => \E m \in Nat : Framed(m)'
  <2> SUFFICES ASSUME NEW m, Between(m) PROVE m \in Nat /\ Framed(m)'
    OBVIOUS
  <2> QED
    BY <1>1 DEF Between, Framed, End, HdrLen, Stream
<1> QED
  BY <1>2 DEF Stream, End

\* The same locals and the same stream.
LEMMA StreamSame ==
  ASSUME Stream, UNCHANGED <<sent, arrived, taken, tgt>>,
         link' \in {"up", "closed"} => link \in {"up", "closed"}
  PROVE  Stream'
<1>1. \A m : Framed(m)' <=> Framed(m)
  BY DEF Framed, Part, End
<1> QED
  BY <1>1 DEF Stream, End

LEMMA StreamDropped ==
  ASSUME Drop, tgt'.at # "dispatch", Locals'
  PROVE  Stream'
<1>1. Ends(sent')[0] = 0 /\ Len(sent') = 0
  BY EndsFacts DEF Locals, Drop
<1> QED
  BY <1>1 DEF Drop, Stream, End

\* A place behind the last packet, whose request is being served or has been served.
LEMMA BehindPacket ==
  ASSUME Stream, Locals, tgt.at \notin {"hdr", "dispatch", "payload", "clear"},
         link \in {"up", "closed"}
  PROVE  \E m : Between(m) /\ Framed(m)
<1>1. PICK m \in Nat : Framed(m)
  BY DEF Stream
<1>2. m \in 0 .. Len(sent) /\ taken = End(m) + 0
  BY <1>1 DEF Framed, Part
<1> QED
  BY <1>1, <1>2, EndFacts DEF Between

\* A packet without payload ends where its header does.
LEMMA BehindHeader ==
  ASSUME Stream, Locals, tgt.at = "dispatch", PktSize(tgt.pkt) = 0
  PROVE  \E m : Between(m) /\ m # 0 /\ tgt.pkt = sent[m]
<1>1. PICK m \in Nat : Framed(m)
  BY DEF Stream
<1>2. /\ m \in 0 .. Len(sent) /\ m < Len(sent) /\ taken = End(m) + HdrLen
      /\ tgt.pkt = sent[m + 1]
  BY <1>1 DEF Framed, Part
<1>3. End(m + 1) = End(m) + HdrLen + 0 /\ End(m) \in Nat
  BY <1>2, EndFacts
<1>4. Between(m + 1)
  BY <1>2, <1>3, EndFacts DEF Between, HdrLen
<1> QED
  BY <1>2, <1>4

LEMMA HandshakeHasNoPayload == PktSize(Connect) = 0
BY DEF PktSize, Connect, WithPayload

LEMMA PlainHasNoPayload ==
  ASSUME NEW p, p.type \notin WithPayload
  PROVE  PktSize(p) = 0
BY DEF PktSize, WithPayload

LEMMA StreamFramed ==
  ASSUME Stream, UNCHANGED <<sent, arrived>>, taken' \in Nat, taken' <= arrived,
         NEW m \in Nat, Framed(m)'
  PROVE  Stream'
BY DEF Stream, End

LEMMA HostSendsFrames ==
  ASSUME NEW p \in Requests \cup {Connect}, IInv, FInv, HostSends(p)
  PROVE  Stream' /\ \A m \in Nat : Framed(m) => Framed(m)'
<1>1. /\ sent' = Append(sent, p) /\ UNCHANGED <<link, arrived, taken, tgt>>
      /\ link = "up"
  BY DEF HostSends
<1>2. sent \in Seq(Requests \cup {Connect}) /\ Locals /\ Stream
  BY DEF IInv, Locals, FInv
<1>3. /\ sent' \in Seq(Requests \cup {Connect}) /\ Len(sent') = Len(sent) + 1
      /\ Len(sent) \in Nat
      /\ \A k \in 1 .. Len(sent) : sent'[k] = sent[k]
  BY <1>1, <1>2
<1>4. \A k \in 0 .. Len(sent) : End(k)' = End(k) /\ End(k) \in Nat
  BY <1>1, <1>2, EndsOfMore, EndFacts DEF End
<1>5. arrived <= End(Len(sent))'
  <2>1. /\ Ends(sent')[Len(sent)] + HdrLen <= Ends(sent')[Len(sent')]
        /\ Ends(sent')[Len(sent')] \in Nat
    <3>1. Len(sent) \in 0 .. Len(sent') /\ Len(sent') \in Len(sent) + 1 .. Len(sent')
      BY <1>3
    <3> QED
      BY <1>3, <3>1, EndsIncrease, EndsAreNat
  <2>2. Ends(sent')[Len(sent)] = End(Len(sent))
    BY <1>3, <1>4 DEF End
  <2>3. End(Len(sent)) \in Nat /\ arrived \in Nat /\ arrived <= End(Len(sent))
    BY <1>2, <1>3, <1>4 DEF Stream
  <2> QED
    BY <2>1, <2>2, <2>3 DEF End, HdrLen
<1>6. ASSUME NEW m \in Nat, Framed(m) PROVE Framed(m)'
  <2>1. m \in 0 .. Len(sent) /\ Part' = Part
    BY <1>1, <1>6 DEF Framed, Part
  <2>2. /\ m < Len(sent) => sent'[m + 1] = sent[m + 1]
        /\ m # 0 => sent'[m] = sent[m]
    BY <1>3, <2>1
  <2> QED
    BY <1>1, <1>3, <1>4, <1>6, <2>1, <2>2 DEF Framed
<1> QED
  BY <1>1, <1>2, <1>5, <1>6 DEF Stream

LEMMA DeliverFrames == ASSUME IInv, FInv, Deliver
  PROVE  Stream'
<1>1. /\ arrived < End(Len(sent)) /\ arrived' = arrived + 1
      /\ UNCHANGED <<link, sent, taken, tgt>>
  BY DEF Deliver
<1>2. \A m : Framed(m)' <=> Framed(m)
  BY <1>1 DEF Framed, Part, End
<1>3. End(Len(sent))' = End(Len(sent)) /\ End(Len(sent)) \in Nat
  <2>1. Len(sent) \in 0 .. Len(sent)
    BY EndFacts DEF IInv
  <2> QED
    BY <1>1, <2>1, EndFacts DEF IInv, End
<1> QED
  BY <1>1, <1>2, <1>3 DEF FInv, Stream

LEMMA OpenConnectionFrames == ASSUME IInv, FInv, OpenConnection
  PROVE  Stream'
<1>1. tgt' = At("hdr") /\ UNCHANGED stream /\ tgt.at = "open"
  BY DEF OpenConnection
<1>2. link = "none" /\ sent = << >> /\ taken = 0
  BY <1>1 DEF IInv, Connection, FInv, Shaking
<1>3. Between(0)
  BY <1>2, EndFacts DEF IInv, Between
<1>4. tgt'.at = "hdr" /\ tgt'.got = 0
  BY <1>1 DEF At
<1> QED
  BY <1>1, <1>3, <1>4, StreamBetween DEF FInv

\* A whole header is that of the packet behind the last one that was taken.
LEMMA GetPktHdrMoves == ASSUME IInv, FInv, GetPktHdr
  PROVE  /\ UNCHANGED <<link, sent, arrived>> /\ taken' \in Nat /\ taken' <= arrived
         /\ \E m \in Nat : Framed(m) /\ Framed(m)'
<1> DEFINE n == Received(HdrLen - tgt.got)
<1>1. /\ tgt.at = "hdr" /\ link # "broken" /\ taken' = taken + n
      /\ UNCHANGED <<link, sent, arrived>>
  BY DEF GetPktHdr, RecvFails
<1>2. Locals /\ Shape(tgt) /\ Stream /\ taken \in Nat /\ arrived \in Nat
  BY DEF IInv, Locals, FInv, Stream
<1>3. link # "none" /\ link \in {"up", "closed"}
  <2>1. link # "none"
    BY <1>1 DEF FInv, Shaking
  <2> QED
    BY <1>1, <2>1 DEF FInv, Links
<1>4. PICK m \in Nat : Framed(m)
  BY <1>2, <1>3 DEF Stream
<1>5. /\ m \in 0 .. Len(sent) /\ taken = End(m) + tgt.got /\ tgt.got \in 0 .. 1
  BY <1>1, <1>4 DEF Framed, Part, HdrLen
<1>6. n \in 0 .. 2 - tgt.got /\ taken + n <= arrived
  <2>1. HdrLen - tgt.got \in Nat
    BY <1>5 DEF HdrLen
  <2> QED
    BY <1>2, <2>1, ReceivedFacts DEF HdrLen
<1>12. IF tgt.got + n = 0 THEN tgt' = At("upload")
       ELSE IF tgt.got + n < HdrLen THEN tgt' = [tgt EXCEPT !.got = @ + n]
       ELSE \E p \in HeadersAt(taken') :
              tgt' = [At("dispatch") EXCEPT !.pkt = p, !.size = PktSize(p)]
  BY DEF GetPktHdr
<1> HIDE DEF n
<1>7. End(m) \in Nat /\ Len(sent) \in Nat
  BY <1>2, <1>5, EndFacts
<1>13. taken' \in Nat /\ taken' <= arrived
  BY <1>1, <1>2, <1>5, <1>6
<1>8. CASE tgt.got + n = 0
  <2>1. tgt' = At("upload")
    BY <1>8, <1>12
  <2>2. tgt'.at = "upload" /\ taken' = End(m)
    BY <1>1, <1>2, <1>5, <1>6, <1>7, <1>8, <2>1, AtFacts
  <2>3. Framed(m)'
    BY <1>1, <1>5, <1>7, <2>2 DEF Framed, Part, End
  <2> QED
    BY <1>1, <1>4, <1>13, <2>3
<1>9. CASE tgt.got + n = 1
  <2>1. tgt' = [tgt EXCEPT !.got = @ + n]
    <3>1. ~ (tgt.got + n = 0) /\ tgt.got + n < HdrLen
      BY <1>5, <1>6, <1>9 DEF HdrLen
    <3> QED
      BY <1>12, <3>1, Zenon
  <2>2. tgt'.at = "hdr" /\ tgt'.got = 1
    BY <1>1, <1>2, <1>9, <2>1 DEF Shape
  <2>3. taken' = End(m) + 1
    BY <1>1, <1>5, <1>6, <1>7, <1>9
  <2>4. Framed(m)'
    BY <1>1, <1>5, <1>7, <2>2, <2>3 DEF Framed, Part, HdrLen, End
  <2> QED
    BY <1>1, <1>4, <1>13, <2>4
<1>10. CASE tgt.got + n = 2
  <2>1. taken' = End(m) + HdrLen
    BY <1>1, <1>5, <1>6, <1>7, <1>10 DEF HdrLen
  <2>2. m < Len(sent)
    <3>1. m = Len(sent) => taken' <= End(m)
      BY <1>1, <1>2, <1>6, <1>7 DEF Stream
    <3> QED
      BY <1>5, <1>7, <2>1, <3>1 DEF HdrLen
  <2> DEFINE here == {k \in 1 .. Len(sent) : End(k - 1) + HdrLen = taken'}
  <2>3. here # {}
    <3>1. m + 1 \in 1 .. Len(sent) /\ (m + 1) - 1 = m
      BY <1>5, <1>7, <2>2
    <3> QED
      BY <2>1, <3>1
  <2>4. HeadersAt(taken') = {sent[k] : k \in here}
    BY <2>3 DEF HeadersAt
  <2> HIDE DEF here
  <2>5. \E p \in HeadersAt(taken') :
          tgt' = [At("dispatch") EXCEPT !.pkt = p, !.size = PktSize(p)]
    <3>1. ~ (tgt.got + n = 0) /\ ~ (tgt.got + n < HdrLen)
      BY <1>5, <1>6, <1>10 DEF HdrLen
    <3> QED
      BY <1>12, <3>1, Zenon
  <2>6. PICK k \in here :
          tgt' = [At("dispatch") EXCEPT !.pkt = sent[k], !.size = PktSize(sent[k])]
    BY <2>4, <2>5
  <2>7. /\ tgt'.at = "dispatch" /\ tgt'.pkt = sent[k] /\ tgt'.size = PktSize(sent[k])
        /\ tgt'.got = 0
    BY <2>6 DEF At
  <2>8. k - 1 \in 0 .. Len(sent) /\ k - 1 < Len(sent) /\ (k - 1) + 1 = k
        /\ taken' = End(k - 1) + HdrLen
    BY <1>7 DEF here
  <2>9. k - 1 = m
    <3>1. End(k - 1) = End(m) /\ End(m) \in Nat
      <4>1. End(k - 1) \in Nat
        BY <1>2, <2>8, EndFacts
      <4> QED
        BY <1>7, <2>1, <2>8, <4>1 DEF HdrLen
    <3>2. sent \in Seq(Requests \cup {Connect}) /\ m \in 0 .. Len(sent)
      BY <1>2, <1>5 DEF Locals
    <3>3. ~ (k - 1 < m)
      <4> SUFFICES ASSUME k - 1 < m PROVE FALSE
        OBVIOUS
      <4>1. m \in (k - 1) + 1 .. Len(sent)
        BY <1>7, <2>8, <3>2
      <4>2. End(k - 1) + HdrLen <= End(m)
        BY <2>8, <3>2, <4>1, EndsIncrease DEF End
      <4> QED
        BY <3>1, <4>2 DEF HdrLen
    <3>4. ~ (m < k - 1)
      <4> SUFFICES ASSUME m < k - 1 PROVE FALSE
        OBVIOUS
      <4>1. k - 1 \in m + 1 .. Len(sent)
        BY <1>7, <2>8, <3>2
      <4>2. End(m) + HdrLen <= End(k - 1)
        BY <3>2, <4>1, EndsIncrease DEF End
      <4> QED
        BY <3>1, <4>2 DEF HdrLen
    <3> QED
      BY <1>7, <2>8, <3>2, <3>3, <3>4
  <2>10. Framed(m)'
    BY <1>1, <2>7, <2>8, <2>9 DEF Framed, Part, End
  <2> QED
    BY <1>1, <1>4, <1>13, <2>10
<1>11. tgt.got + n \in 0 .. 2
  BY <1>5, <1>6
<1> QED
  BY <1>8, <1>9, <1>10, <1>11

LEMMA GetPktHdrFrames == ASSUME IInv, FInv, GetPktHdr
  PROVE  Stream'
BY GetPktHdrMoves, StreamFramed DEF FInv

LEMMA DispatchHandshakeFrames == ASSUME IInv, FInv, DispatchHandshake
  PROVE  Stream'
<1>1. /\ tgt.at = "dispatch" /\ ~commInitialized
      /\ tgt' = [At("connect1") EXCEPT !.pkt = Connect]
      /\ UNCHANGED <<link, sent, arrived, taken>>
  BY DEF DispatchHandshake
<1>2. tgt'.at = "connect1" /\ tgt'.pkt = Connect
  BY <1>1 DEF At
<1>3. PICK m \in Nat : Framed(m)
  BY <1>1 DEF FInv, Stream
<1>4. Len(sent) \in Nat /\ m < Len(sent) /\ tgt.pkt = sent[m + 1]
  BY <1>1, <1>3, EndFacts DEF IInv, Framed
<1>5. m = 0 /\ Len(sent) = 1
  <2>1. Len(sent) <= 1
    BY <1>1, Zenon DEF FInv, Shaking
  <2>2. m < Len(sent) /\ m \in Nat /\ Len(sent) \in Nat
    BY <1>4
  <2>3. \A i, l \in Nat : i < l /\ l <= 1 => i = 0 /\ l = 1
    OBVIOUS
  <2> QED
    BY <2>1, <2>2, <2>3
<1>6. tgt.pkt = Connect
  BY <1>4, <1>5 DEF FInv, Shaking
<1>7. PICK k : Between(k) /\ k # 0 /\ tgt.pkt = sent[k]
  BY <1>1, <1>6, BehindHeader, HandshakeHasNoPayload DEF IInv, FInv
<1>8. Framed(k)'
  <2>1. End(k) \in Nat
    BY <1>7, EndFacts DEF IInv, Between
  <2> QED
    BY <1>1, <1>2, <1>6, <1>7, <2>1 DEF Framed, Between, Part, End
<1> QED
  BY <1>1, <1>7, <1>8, StreamFramed DEF Between, FInv, Stream

LEMMA PacketIsKnown ==
  ASSUME OnlyKnown, Locals, NEW k \in 1 .. Len(sent)
  PROVE  sent[k].type # "UNKNOWN"
<1>1. sent[k] \in Requests \cup {Connect}
  BY DEF Locals
<1> QED
  BY <1>1 DEF OnlyKnown, Connect

\* Another place with the same packet, of which nothing more is taken.
LEMMA PlaceFacts ==
  ASSUME Shape(tgt), NEW place, NEW got
  PROVE  /\ [tgt EXCEPT !.at = place].at = place
         /\ [tgt EXCEPT !.at = place].got = tgt.got
         /\ [tgt EXCEPT !.at = place].pkt = tgt.pkt
         /\ [tgt EXCEPT !.at = place].size = tgt.size
         /\ [tgt EXCEPT !.got = got].at = tgt.at
         /\ [tgt EXCEPT !.got = got].got = got
         /\ [tgt EXCEPT !.got = got].pkt = tgt.pkt
         /\ [tgt EXCEPT !.got = got].size = tgt.size
         /\ [tgt EXCEPT !.at = place, !.got = got].at = place
         /\ [tgt EXCEPT !.at = place, !.got = got].got = got
         /\ [tgt EXCEPT !.at = place, !.got = got].pkt = tgt.pkt
         /\ [tgt EXCEPT !.at = place, !.got = got].size = tgt.size
BY DEF Shape

LEMMA StreamReplies ==
  ASSUME IInv, FInv, NEW a, tgt' = Replies(a), UNCHANGED <<link, sent, arrived, taken>>,
         link \in {"up", "closed"} => \E m : Between(m)
  PROVE  Stream'
<1>1. tgt'.at = "reply"
  BY ReplyFacts
<1> QED
  BY <1>1, StreamBetween DEF FInv

LEMMA StreamUpload ==
  ASSUME IInv, FInv, tgt' = At("upload"), UNCHANGED <<link, sent, arrived, taken>>,
         link \in {"up", "closed"} => \E m : Between(m)
  PROVE  Stream'
<1>1. tgt'.at = "upload"
  BY AtFacts
<1> QED
  BY <1>1, StreamBetween DEF FInv

LEMMA DispatchCases == ASSUME Dispatch
  PROVE  /\ tgt.at = "dispatch" /\ commInitialized
         /\ UNCHANGED <<wire, state, buffer, params>>
         /\ \/ tgt.pkt.type = "CONNECT" /\ tgt' = [tgt EXCEPT !.at = "connect1"]
            \/ /\ tgt.pkt.type \in {"GET_TIME", "DISCONNECT"}
               /\ tgt' = Replies(AnswerTo(tgt.pkt, TRUE, << >>))
            \/ /\ tgt.pkt.type = "GETPARAMS"
               /\ tgt' = Replies(AnswerTo(tgt.pkt, TRUE, params))
            \/ tgt.pkt.type \in {"STOP", "UNKNOWN"} /\ tgt' = At("upload")
BY DEF Dispatch, GetParams

LEMMA DispatchedIsKnown ==
  ASSUME OnlyKnown, IInv, FInv, tgt.at = "dispatch"
  PROVE  tgt.pkt.type # "UNKNOWN"
<1>1. PICK m \in Nat : Framed(m)
  BY DEF FInv, Stream
<1>2. m \in 0 .. Len(sent) /\ m < Len(sent) /\ tgt.pkt = sent[m + 1]
  BY <1>1 DEF Framed
<1>3. m + 1 \in 1 .. Len(sent)
  BY <1>2, EndFacts DEF IInv
<1> QED
  BY <1>2, <1>3, PacketIsKnown DEF IInv

LEMMA DispatchFrames == ASSUME OnlyKnown, IInv, FInv, Dispatch
  PROVE  Stream'
<1>1. tgt.at = "dispatch" /\ UNCHANGED <<link, sent, arrived, taken>>
  BY DispatchCases
<1>2. tgt.pkt.type \notin WithPayload
  BY <1>1, DispatchCases, DispatchedIsKnown DEF WithPayload
<1>3. PICK k : Between(k) /\ k # 0 /\ tgt.pkt = sent[k]
  BY <1>1, <1>2, PlainHasNoPayload, BehindHeader DEF IInv, FInv
<1>4. CASE tgt' = [tgt EXCEPT !.at = "connect1"]
  <2>1. tgt'.at = "connect1" /\ tgt'.pkt = tgt.pkt
    BY <1>4, PlaceFacts DEF IInv, Locals
  <2>2. End(k) \in Nat /\ k \in Nat
    BY <1>3, EndFacts DEF IInv, Between
  <2>3. Framed(k)'
    BY <1>1, <1>3, <2>1, <2>2 DEF Framed, Between, Part, End
  <2> QED
    BY <1>1, <2>2, <2>3, StreamFramed DEF FInv, Stream
<1>5. CASE \E a : tgt' = Replies(a)
  BY <1>1, <1>3, <1>5, StreamReplies
<1>6. CASE tgt' = At("upload")
  BY <1>1, <1>3, <1>6, StreamUpload
<1> QED
  BY <1>4, <1>5, <1>6, DispatchCases

LEMMA DropFrames ==
  ASSUME IInv', ForceDisconnect, NEW place, tgt' = At(place), place # "dispatch"
  PROVE  Stream'
<1>1. tgt'.at # "dispatch"
  BY AtFacts
<1> QED
  BY <1>1, StreamDropped DEF IInv, ForceDisconnect

LEMMA GrowFrames == ASSUME IInv, FInv, Grow
  PROVE  Stream'
<1>1. tgt.at = "dispatch" /\ UNCHANGED <<link, sent, arrived, taken>>
  BY DEF Grow
<1>2. /\ tgt' = [tgt EXCEPT !.at = "payload"] \/ tgt' = [tgt EXCEPT !.at = "clear"]
      /\ tgt' = [tgt EXCEPT !.at = "clear"] => ~ (tgt.size <= pktBufSize)
  <2>1. [tgt EXCEPT !.at = "payload"].at # [tgt EXCEPT !.at = "clear"].at
    BY PlaceFacts DEF IInv, Locals
  <2> QED
    BY <2>1 DEF Grow
<1>3. PICK m \in Nat : Framed(m)
  BY <1>1 DEF FInv, Stream
<1>4. /\ m \in 0 .. Len(sent) /\ taken = End(m) + HdrLen /\ End(m) \in Nat
      /\ tgt.got = 0 /\ m < Len(sent) /\ tgt.pkt = sent[m + 1]
      /\ tgt.size = PktSize(tgt.pkt)
  BY <1>1, <1>3, EndFacts DEF Framed, Part, IInv
<1>5. tgt.size \in Nat /\ (tgt'.at = "clear" => 0 < tgt.size)
  <2>1. pktBufSize \in Nat /\ tgt.size \in Nat
    BY <1>1 DEF IInv, Buffered, Locals
  <2>2. tgt'.at = "clear" => ~ (tgt.size <= pktBufSize)
    BY <1>2, PlaceFacts DEF IInv, Locals
  <2> QED
    BY <2>1, <2>2
<1>6. /\ tgt'.at \in {"payload", "clear"} /\ tgt'.got = 0 /\ tgt'.pkt = tgt.pkt
      /\ tgt'.size = tgt.size
  <2>1. CASE tgt' = [tgt EXCEPT !.at = "payload"]
    BY <1>4, <2>1, PlaceFacts DEF IInv, Locals
  <2>2. CASE tgt' = [tgt EXCEPT !.at = "clear"]
    BY <1>4, <2>2, PlaceFacts DEF IInv, Locals
  <2> QED
    BY <1>2, <2>1, <2>2
<1>7. Framed(m)'
  BY <1>1, <1>4, <1>5, <1>6 DEF Framed, Part, End, HdrLen
<1> QED
  BY <1>1, <1>3, <1>7, StreamFramed DEF FInv, Stream

\* A header, what was taken of the payload behind it, and what comes now.
LEMMA Regroup ==
  ASSUME NEW e \in Nat, NEW g \in Nat, NEW i \in Nat
  PROVE  (e + (HdrLen + g)) + i = e + HdrLen + (g + i)
BY DEF HdrLen

LEMMA GetPktFrames == ASSUME IInv, FInv, GetPkt
  PROVE  /\ Stream'
         /\ link # "broken" =>
              \E m \in Nat : /\ Framed(m)
                            /\ \/ tgt'.at = "payload" /\ Framed(m)'
                               \/ tgt'.at = "install" /\ Framed(m + 1)'
<1> DEFINE n == IF RecvFails THEN 0 ELSE Received(tgt.size - tgt.got)
<1>1. /\ tgt.at = "payload" /\ taken' = taken + n
      /\ UNCHANGED <<link, sent, arrived>>
  BY DEF GetPkt
<1>2. Locals /\ Shape(tgt) /\ Stream /\ taken \in Nat /\ arrived \in Nat /\ taken <= arrived
  BY DEF IInv, Locals, FInv, Stream
<1>3. CASE link = "broken"
  <2>1. tgt' = NoMemory /\ n = 0
    BY <1>3 DEF GetPkt, RecvFails
  <2>2. taken' = taken /\ link \notin {"up", "closed"}
    BY <1>1, <1>2, <1>3, <2>1
  <2> QED
    BY <1>1, <1>3, <2>1, <2>2, StreamReplies DEF NoMemory
<1>4. CASE link # "broken"
  <2>1. link \in {"up", "closed"} /\ n = Received(tgt.size - tgt.got) /\ ~RecvFails
    <3>1. link # "none"
      BY <1>1 DEF FInv, Shaking
    <3> QED
      BY <1>4, <3>1 DEF FInv, Links, RecvFails
  <2>2. PICK m \in Nat : Framed(m)
    BY <1>2, <2>1 DEF Stream
  <2>3. /\ m \in 0 .. Len(sent) /\ taken = End(m) + (HdrLen + tgt.got)
        /\ m < Len(sent) /\ tgt.pkt = sent[m + 1] /\ tgt.size = PktSize(tgt.pkt)
        /\ tgt.got \in 0 .. tgt.size
    BY <1>1, <2>2 DEF Framed, Part
  <2>4. End(m) \in Nat /\ tgt.size \in Nat /\ Len(sent) \in Nat /\ tgt.got \in Nat
    BY <1>2, <2>3, EndFacts DEF Locals
  <2>5. n \in 0 .. tgt.size - tgt.got /\ taken + n <= arrived
    <3>1. tgt.size - tgt.got \in Nat
      BY <2>3, <2>4
    <3> QED
      BY <1>2, <2>1, <3>1, ReceivedFacts
  <2>6. IF tgt.got + n < tgt.size THEN tgt' = [tgt EXCEPT !.got = @ + n]
        ELSE tgt' = [tgt EXCEPT !.at = "install", !.got = 0]
    BY <2>1 DEF GetPkt
  <2> HIDE DEF n
  <2>7. CASE tgt.got + n < tgt.size
    <3>1. tgt' = [tgt EXCEPT !.got = tgt.got + n]
      BY <2>6, <2>7, Zenon
    <3>2. /\ tgt'.at = "payload" /\ tgt'.got = tgt.got + n /\ tgt'.pkt = tgt.pkt
          /\ tgt'.size = tgt.size
      BY <1>1, <1>2, <3>1, PlaceFacts
    <3>3. tgt'.got \in 0 .. tgt'.size /\ tgt'.got < tgt'.size
      BY <2>3, <2>4, <2>5, <2>7, <3>2
    <3>4. taken' = End(m) + (HdrLen + tgt'.got)
      BY <1>1, <2>3, <2>4, <2>5, <3>2 DEF HdrLen
    <3>5. Part' = HdrLen + tgt'.got
      BY <3>2 DEF Part
    <3>6. Framed(m)'
      BY <1>1, <2>3, <3>2, <3>3, <3>4, <3>5 DEF Framed, End
    <3> QED
      BY <1>1, <1>2, <2>5, <2>2, <3>2, <3>6, StreamFramed
  <2>8. CASE ~ (tgt.got + n < tgt.size)
    <3>1. tgt' = [tgt EXCEPT !.at = "install", !.got = 0]
      BY <2>6, <2>8, Zenon
    <3>2. tgt'.at = "install" /\ tgt'.got = 0 /\ tgt'.pkt = tgt.pkt
      BY <1>2, <3>1, PlaceFacts
    <3>3. End(m + 1) = End(m) + HdrLen + tgt.size
      BY <1>2, <2>3, EndFacts
    <3>4. taken' = End(m + 1) /\ m + 1 \in 0 .. Len(sent) /\ m + 1 # 0 /\ m + 1 \in Nat
      <4>1. tgt.got + n = tgt.size
        BY <2>3, <2>4, <2>5, <2>8
      <4>2. taken' = End(m) + HdrLen + (tgt.got + n)
        <5>1. n \in Nat
          BY <2>3, <2>4, <2>5
        <5>2. taken' = taken + n /\ taken = End(m) + (HdrLen + tgt.got)
          BY <1>1, <2>3
        <5>3. \A e, g, i \in Nat : (e + (HdrLen + g)) + i = e + HdrLen + (g + i)
          BY Regroup
        <5>4. tgt.got \in Nat
          BY <2>4
        <5>5. End(m) \in Nat
          BY <2>4
        <5>6. (End(m) + (HdrLen + tgt.got)) + n = End(m) + HdrLen + (tgt.got + n)
          BY <5>1, <5>3, <5>4, <5>5, Zenon
        <5> QED
          BY <5>2, <5>6, Zenon
      <4>3. m + 1 \in 0 .. Len(sent) /\ m + 1 # 0 /\ m + 1 \in Nat
        BY <2>3, <2>4
      <4> QED
        BY <3>3, <4>1, <4>2, <4>3
    <3>5. Part' = 0
      BY <3>2 DEF Part
    <3>6. End(m + 1) \in Nat
      BY <1>2, <3>4, EndFacts
    <3>7. Framed(m + 1)'
      BY <1>1, <2>3, <3>2, <3>4, <3>5, <3>6 DEF Framed, End
    <3> QED
      BY <1>1, <1>2, <2>2, <2>5, <3>2, <3>4, <3>7, StreamFramed
  <2> QED
    BY <2>7, <2>8
<1> QED
  BY <1>3, <1>4

LEMMA ClearPktFrames == ASSUME IInv, FInv, ClearPkt
  PROVE  /\ Stream'
         /\ link # "broken" =>
              \E m \in Nat : /\ Framed(m)
                            /\ \/ tgt'.at = "clear" /\ Framed(m)'
                               \/ tgt' = NoMemory /\ Framed(m + 1)'
<1> DEFINE n == IF RecvFails THEN 0 ELSE Received(1)
<1>1. /\ tgt.at = "clear" /\ taken' = taken + n
      /\ UNCHANGED <<link, sent, arrived>>
  BY DEF ClearPkt
<1>2. Locals /\ Shape(tgt) /\ Stream /\ taken \in Nat /\ arrived \in Nat /\ taken <= arrived
  BY DEF IInv, Locals, FInv, Stream
<1>3. CASE link = "broken"
  <2>1. tgt' = NoMemory /\ n = 0
    BY <1>3 DEF ClearPkt, RecvFails
  <2>2. taken' = taken /\ link \notin {"up", "closed"}
    BY <1>1, <1>2, <1>3, <2>1
  <2> QED
    BY <1>1, <1>3, <2>1, <2>2, StreamReplies DEF NoMemory
<1>4. CASE link # "broken"
  <2>1. link \in {"up", "closed"} /\ n = Received(1) /\ ~RecvFails
    <3>1. link # "none"
      BY <1>1 DEF FInv, Shaking
    <3> QED
      BY <1>4, <3>1 DEF FInv, Links, RecvFails
  <2>2. PICK m \in Nat : Framed(m)
    BY <1>2, <2>1 DEF Stream
  <2>3. /\ m \in 0 .. Len(sent) /\ taken = End(m) + (HdrLen + tgt.got)
        /\ m < Len(sent) /\ tgt.pkt = sent[m + 1] /\ tgt.size = PktSize(tgt.pkt)
        /\ tgt.got \in 0 .. tgt.size /\ tgt.got < tgt.size
    BY <1>1, <2>2 DEF Framed, Part
  <2>4. End(m) \in Nat /\ tgt.size \in Nat /\ Len(sent) \in Nat /\ tgt.got \in Nat
    BY <1>2, <2>3, EndFacts DEF Locals
  <2>5. n \in 0 .. 1 /\ taken + n <= arrived
    BY <1>2, <2>1, ReceivedFacts
  <2>6. IF tgt.got + n = tgt.size THEN tgt' = NoMemory
        ELSE tgt' = [tgt EXCEPT !.got = @ + n]
    BY <2>1 DEF ClearPkt
  <2> HIDE DEF n
  <2>7. CASE ~ (tgt.got + n = tgt.size)
    <3>1. tgt' = [tgt EXCEPT !.got = tgt.got + n]
      BY <2>6, <2>7, Zenon
    <3>2. /\ tgt'.at = "clear" /\ tgt'.got = tgt.got + n /\ tgt'.pkt = tgt.pkt
          /\ tgt'.size = tgt.size
      BY <1>1, <1>2, <3>1, PlaceFacts
    <3>3. tgt'.got \in 0 .. tgt'.size /\ tgt'.got < tgt'.size
      BY <2>3, <2>4, <2>5, <2>7, <3>2
    <3>4. taken' = End(m) + (HdrLen + tgt'.got)
      BY <1>1, <2>3, <2>4, <2>5, <3>2 DEF HdrLen
    <3>5. Part' = HdrLen + tgt'.got
      BY <3>2 DEF Part
    <3>6. Framed(m)'
      BY <1>1, <2>3, <3>2, <3>3, <3>4, <3>5 DEF Framed, End
    <3> QED
      BY <1>1, <1>2, <2>5, <2>2, <3>2, <3>6, StreamFramed
  <2>8. CASE tgt.got + n = tgt.size
    <3>1. tgt' = NoMemory
      BY <2>6, <2>8, Zenon
    <3>2. End(m + 1) = End(m) + HdrLen + tgt.size
      BY <1>2, <2>3, EndFacts
    <3>3. taken' = End(m + 1) /\ m + 1 \in 0 .. Len(sent) /\ m + 1 \in Nat
      <4>1. taken' = End(m) + HdrLen + (tgt.got + n)
        <5>1. n \in Nat
          BY <2>5
        <5>2. taken' = taken + n /\ taken = End(m) + (HdrLen + tgt.got)
          BY <1>1, <2>3
        <5>3. \A e, g, i \in Nat : (e + (HdrLen + g)) + i = e + HdrLen + (g + i)
          BY Regroup
        <5>4. tgt.got \in Nat
          BY <2>4
        <5>5. End(m) \in Nat
          BY <2>4
        <5>6. (End(m) + (HdrLen + tgt.got)) + n = End(m) + HdrLen + (tgt.got + n)
          BY <5>1, <5>3, <5>4, <5>5, Zenon
        <5> QED
          BY <5>2, <5>6, Zenon
      <4>2. m + 1 \in 0 .. Len(sent) /\ m + 1 \in Nat
        BY <2>3, <2>4
      <4> QED
        BY <2>8, <3>2, <4>1, <4>2
    <3>4. tgt'.at = "reply"
      BY <3>1, ReplyFacts DEF NoMemory
    <3>5. Part' = 0 /\ End(m + 1) \in Nat
      BY <1>2, <3>3, <3>4, EndFacts DEF Part
    <3>6. Framed(m + 1)' /\ m + 1 \in Nat
      BY <1>1, <3>3, <3>4, <3>5 DEF Framed, End
    <3> QED
      BY <1>1, <1>2, <2>2, <2>5, <3>1, <3>6, StreamFramed
  <2> QED
    BY <2>7, <2>8
<1> QED
  BY <1>3, <1>4

LEMMA InstallFrames == ASSUME IInv, FInv, Install
  PROVE  Stream'
<1>1. /\ tgt.at = "install" /\ UNCHANGED <<link, sent, arrived, taken>>
      /\ \E a : tgt' = Replies(a)
  BY DEF Install
<1> QED
  BY <1>1, BehindPacket, StreamReplies DEF IInv, FInv

LEMMA ConnectFirstFrames == ASSUME IInv, FInv, ConnectFirst
  PROVE  Stream'
<1>1. /\ tgt.at = "connect1" /\ UNCHANGED <<link, sent, arrived, taken>>
      /\ tgt' = [tgt EXCEPT !.at = "connect2"] \/ tgt' = At("upload")
  BY DEF ConnectFirst
<1>2. CASE tgt' = At("upload")
  BY <1>1, <1>2, BehindPacket, StreamUpload DEF IInv, FInv
<1>3. CASE tgt' = [tgt EXCEPT !.at = "connect2"]
  <2>1. tgt'.at = "connect2" /\ tgt'.pkt = tgt.pkt
    BY <1>3, PlaceFacts DEF IInv, Locals
  <2>2. \A m : Framed(m) => Framed(m)'
    BY <1>1, <2>1 DEF Framed, Part, End
  <2> QED
    BY <1>1, <2>1, <2>2 DEF FInv, Stream, End
<1> QED
  BY <1>1, <1>2, <1>3

LEMMA ConnectSecondFrames == ASSUME IInv, FInv, ConnectSecond
  PROVE  Stream'
<1>1. /\ tgt.at = "connect2" /\ UNCHANGED <<link, sent, arrived, taken>>
      /\ tgt' = At("upload") \/ \E a : tgt' = Replies(a)
  BY DEF ConnectSecond
<1> QED
  BY <1>1, BehindPacket, StreamReplies, StreamUpload DEF IInv, FInv

LEMMA ReplyCases == ASSUME Reply
  PROVE  /\ tgt.at = "reply" /\ tgt' = At("upload")
         /\ UNCHANGED <<buffer, params, stopReq>>
         /\ \E ok \in SendOutcomes :
              \/ ok /\ tgt.answer.type = "DISCONNECT" /\ ForceDisconnect
              \/ /\ ~ (ok /\ tgt.answer.type = "DISCONNECT")
                 /\ answers' = IF link = "up" THEN Append(answers, tgt.answer) ELSE answers
                 /\ commInitialized' =
                      (commInitialized \/ (ok /\ tgt.answer.type = "CONNECT"))
                 /\ UNCHANGED <<link, conns, sent, arrived, taken, connected, logging>>
<1>1. PICK ok \in SendOutcomes :
        IF ok /\ tgt.answer.type = "DISCONNECT"
        THEN ForceDisconnect
        ELSE /\ answers' = IF link = "up" THEN Append(answers, tgt.answer) ELSE answers
             /\ commInitialized' =
                  (commInitialized \/ (ok /\ tgt.answer.type = "CONNECT"))
             /\ UNCHANGED <<link, conns, sent, arrived, taken, connected, logging>>
  BY DEF Reply
<1>2. \/ ok /\ tgt.answer.type = "DISCONNECT" /\ ForceDisconnect
      \/ /\ ~ (ok /\ tgt.answer.type = "DISCONNECT")
         /\ answers' = IF link = "up" THEN Append(answers, tgt.answer) ELSE answers
         /\ commInitialized' = (commInitialized \/ (ok /\ tgt.answer.type = "CONNECT"))
         /\ UNCHANGED <<link, conns, sent, arrived, taken, connected, logging>>
  BY <1>1, Zenon
<1>3. tgt.at = "reply" /\ tgt' = At("upload") /\ UNCHANGED <<buffer, params, stopReq>>
  BY DEF Reply
<1> QED
  BY <1>2, <1>3

LEMMA ReplyFrames == ASSUME IInv, IInv', FInv, Reply
  PROVE  Stream'
<1>1. CASE ForceDisconnect
  BY <1>1, ReplyCases, DropFrames
<1>2. CASE UNCHANGED <<link, sent, arrived, taken>>
  BY <1>2, ReplyCases, BehindPacket, StreamUpload DEF IInv, FInv
<1> QED
  BY <1>1, <1>2, ReplyCases

LEMMA UploadCases == ASSUME Upload
  PROVE  /\ tgt.at = "upload"
         /\ UNCHANGED <<wire, state, buffer, params, stopReq>>
         /\ \/ tgt' = At("shutdown")
            \/ connected /\ tgt' = At("hdr")
            \/ ~connected /\ tgt' = At("open")
BY Zenon DEF Upload, AfterUpload

LEMMA UploadFrames == ASSUME IInv, FInv, Upload
  PROVE  Stream'
<1>1. /\ tgt.at = "upload" /\ UNCHANGED <<link, sent, arrived, taken>>
      /\ tgt' = At("shutdown") \/ tgt' = At("hdr") \/ tgt' = At("open")
  BY UploadCases
<1>2. tgt'.at \in {"shutdown", "hdr", "open"} /\ tgt'.got = 0
  BY <1>1 DEF At
<1>3. link' \in {"up", "closed"} => \E m : Between(m)
  BY <1>1, BehindPacket DEF IInv, FInv
<1> QED
  BY <1>1, <1>2, <1>3, StreamBetween DEF FInv

-----------------------------------------------------------------------------
\* The handshake and the locals.
Rest == Shaking /\ Serving /\ Links

LEMMA RestAt ==
  ASSUME FInv, NEW place \in {"upload", "hdr", "open", "shutdown"}, tgt' = At(place),
         UNCHANGED <<link, sent, answers, commInitialized, params>>,
         link # "none" \/ UNCHANGED <<arrived, taken>>, place = "hdr" => link # "none"
  PROVE  Rest'
<1>1. tgt'.at = place
  BY AtFacts
<1>2. Shaking'
  BY <1>1 DEF FInv, Shaking
<1>3. Serving'
  BY <1>1 DEF FInv, Serving
<1> QED
  BY <1>2, <1>3 DEF FInv, Rest, Links

LEMMA ReplyAnswer ==
  ASSUME IInv, NEW a
  PROVE  Replies(a).at = "reply" /\ Replies(a).answer = a
<1>1. ASSUME NEW r,
             r = [[at |-> tgt.at, got |-> tgt.got, pkt |-> tgt.pkt, size |-> tgt.size,
                   answer |-> tgt.answer] EXCEPT !.at = "reply", !.answer = a]
      PROVE  r.at = "reply" /\ r.answer = a
  BY <1>1
<1> QED
  BY <1>1 DEF IInv, Locals, Shape, Replies

LEMMA RestReplies ==
  ASSUME IInv, FInv, NEW a, tgt' = Replies(a), a # Unanswered, link # "none",
         ~commInitialized => a.type = "CONNECT", DOMAIN params' = Sections,
         UNCHANGED <<link, sent, answers, commInitialized>>
  PROVE  Rest'
<1>1. tgt'.at = "reply" /\ tgt'.answer = a
  BY ReplyAnswer
<1>2. Shaking'
  BY <1>1 DEF FInv, Shaking
<1>3. Serving'
  BY <1>1 DEF FInv, Serving
<1> QED
  BY <1>2, <1>3 DEF FInv, Rest, Links

LEMMA RestPlace ==
  ASSUME FInv, link # "none", tgt'.at # "reply",
         tgt'.at \in {"connect1", "connect2"} => tgt'.pkt.type = "CONNECT",
         tgt'.at \in {"payload", "clear", "install"} =>
           commInitialized /\ tgt'.pkt.type \in WithPayload \ {"UNKNOWN"},
         UNCHANGED <<link, sent, answers, commInitialized, params>>
  PROVE  Rest'
<1>1. Shaking'
  BY DEF FInv, Shaking
<1>2. Serving'
  BY DEF FInv, Serving
<1> QED
  BY <1>1, <1>2 DEF FInv, Rest, Links

LEMMA RestDropped ==
  ASSUME FInv, ForceDisconnect, UNCHANGED params,
         NEW place \in {"upload", "open", "shutdown", "stopped"}, tgt' = At(place)
  PROVE  Rest'
<1>1. tgt'.at = place
  BY AtFacts
<1>2. Shaking'
  BY <1>1 DEF ForceDisconnect, Drop, Shaking
<1>3. Serving'
  BY <1>1 DEF FInv, Serving
<1> QED
  BY <1>2, <1>3 DEF ForceDisconnect, Drop, Rest, Links

LEMMA TaskIsConnected ==
  ASSUME FInv, tgt.at \notin {"open", "upload", "shutdown", "stopped"}
  PROVE  link # "none"
BY DEF FInv, Shaking

\* A refusal or another answer is none of the default.
LEMMA AnswersAreAnswers ==
  ASSUME NEW p, NEW ok, NEW val, p.type # "none"
  PROVE  AnswerTo(p, ok, val) # Unanswered /\ AnswerTo(p, ok, val).type = p.type
BY DEF AnswerTo, Unanswered

LEMMA HostSendsRest ==
  ASSUME NEW p \in Requests \cup {Connect}, IInv, FInv, HostSends(p)
  PROVE  Rest'
<1>1. /\ link = "up" /\ sent' = Append(sent, p)
      /\ IF sent = << >> THEN p = Connect
         ELSE answers # << >> /\ p \in Requests /\ sent[Len(sent)].type \notin Ending
      /\ UNCHANGED <<link, answers, commInitialized, params, tgt>>
  BY DEF HostSends
<1>2. sent \in Seq(Requests \cup {Connect})
  BY DEF IInv, Locals
<1>3. sent' # << >> /\ sent'[1] = Connect
  <2>1. CASE sent = << >>
    BY <1>1, <1>2, <2>1
  <2>2. CASE sent # << >>
    <3>1. sent[1] = Connect
      BY <2>2 DEF FInv, Shaking
    <3>2. Append(sent, p) # << >> /\ Append(sent, p)[1] = sent[1]
      BY <1>2, <2>2
    <3> QED
      BY <1>1, <3>1, <3>2
  <2> QED
    BY <2>1, <2>2
<1>4. ~commInitialized => Len(sent') <= 1
  <2>1. ~commInitialized => answers = << >>
    BY DEF FInv, Shaking
  <2>2. ~commInitialized => sent = << >>
    BY <1>1, <2>1
  <2>3. sent = << >> => Len(Append(sent, p)) = 1
    BY <1>2
  <2> QED
    BY <1>1, <2>2, <2>3
<1>5. Shaking'
  BY <1>1, <1>3, <1>4 DEF FInv, Shaking
<1>6. Serving' /\ Links'
  BY <1>1 DEF FInv, Serving, Links
<1> QED
  BY <1>5, <1>6 DEF Rest

LEMMA GetPktHdrPlaces == ASSUME IInv, GetPktHdr
  PROVE  tgt'.at \in {"upload", "hdr", "dispatch"}
<1>1. tgt.at = "hdr"
  BY DEF GetPktHdr
<1>2. \/ tgt' = At("upload")
      \/ \E got : tgt' = [tgt EXCEPT !.got = got]
      \/ \E p : tgt' = [At("dispatch") EXCEPT !.pkt = p, !.size = PktSize(p)]
  BY DEF GetPktHdr
<1>3. tgt' = At("upload") => tgt'.at = "upload"
  BY AtFacts
<1>4. ASSUME NEW got, tgt' = [tgt EXCEPT !.got = got] PROVE tgt'.at = "hdr"
  BY <1>1, <1>4, PlaceFacts DEF IInv, Locals
<1>5. \A p : tgt' = [At("dispatch") EXCEPT !.pkt = p, !.size = PktSize(p)] =>
               tgt'.at = "dispatch"
  BY DEF At
<1> QED
  BY <1>2, <1>3, <1>4, <1>5

LEMMA GetPktHdrRest == ASSUME IInv, FInv, GetPktHdr
  PROVE  Rest'
<1>1. tgt.at = "hdr" /\ UNCHANGED <<link, sent, answers, commInitialized, params>>
  BY DEF GetPktHdr
<1> QED
  BY <1>1, GetPktHdrPlaces, TaskIsConnected, RestPlace

LEMMA DispatchHandshakeRest == ASSUME IInv, FInv, DispatchHandshake
  PROVE  Rest'
<1>1. /\ tgt.at = "dispatch" /\ tgt' = [At("connect1") EXCEPT !.pkt = Connect]
      /\ UNCHANGED <<link, sent, answers, commInitialized, params>>
  BY DEF DispatchHandshake
<1>2. tgt'.at = "connect1" /\ tgt'.pkt.type = "CONNECT"
  BY <1>1 DEF At, Connect
<1> QED
  BY <1>1, <1>2, TaskIsConnected, RestPlace

LEMMA DispatchRest == ASSUME IInv, FInv, Dispatch
  PROVE  Rest'
<1>1. /\ tgt.at = "dispatch" /\ commInitialized
      /\ UNCHANGED <<link, sent, answers, commInitialized, params, arrived, taken>>
  BY DispatchCases
<1>2. link # "none" /\ DOMAIN params' = Sections
  BY <1>1, TaskIsConnected DEF FInv, Serving
<1>3. CASE tgt.pkt.type = "CONNECT" /\ tgt' = [tgt EXCEPT !.at = "connect1"]
  <2>1. tgt'.at = "connect1" /\ tgt'.pkt.type = "CONNECT"
    BY <1>3, PlaceFacts DEF IInv, Locals
  <2> QED
    BY <1>1, <1>2, <2>1, RestPlace
<1>4. CASE tgt' = At("upload")
  BY <1>1, <1>2, <1>4, RestAt
<1>5. CASE \E val : tgt' = Replies(AnswerTo(tgt.pkt, TRUE, val)) /\ tgt.pkt.type # "none"
  BY <1>1, <1>2, <1>5, AnswersAreAnswers, RestReplies
<1> QED
  BY <1>3, <1>4, <1>5, DispatchCases

LEMMA GrowRest == ASSUME IInv, FInv, Grow
  PROVE  Rest'
<1>1. /\ tgt.at = "dispatch" /\ commInitialized
      /\ tgt.pkt.type \in WithPayload \ {"UNKNOWN"}
      /\ UNCHANGED <<link, sent, answers, commInitialized, params>>
      /\ tgt' = [tgt EXCEPT !.at = "payload"] \/ tgt' = [tgt EXCEPT !.at = "clear"]
  BY DEF Grow
<1>2. tgt'.at \in {"payload", "clear"} /\ tgt'.pkt = tgt.pkt
  <2>1. CASE tgt' = [tgt EXCEPT !.at = "payload"]
    BY <2>1, PlaceFacts DEF IInv, Locals
  <2>2. CASE tgt' = [tgt EXCEPT !.at = "clear"]
    BY <2>2, PlaceFacts DEF IInv, Locals
  <2> QED
    BY <1>1, <2>1, <2>2
<1> QED
  BY <1>1, <1>2, TaskIsConnected, RestPlace

\* A refusal for want of memory.
LEMMA NoMemoryRest ==
  ASSUME IInv, FInv, tgt.at \in {"payload", "clear"}, tgt' = NoMemory,
         UNCHANGED <<link, sent, answers, commInitialized, params>>
  PROVE  Rest'
<1>1. commInitialized /\ tgt.pkt.type \in WithPayload /\ DOMAIN params' = Sections
  <2>1. commInitialized
    BY Zenon DEF FInv, Shaking
  <2> QED
    BY <2>1 DEF FInv, Serving
<1>2. AnswerTo(tgt.pkt, FALSE, << >>) # Unanswered
  BY <1>1, AnswersAreAnswers DEF WithPayload
<1> QED
  BY <1>1, <1>2, TaskIsConnected, RestReplies DEF NoMemory

\* More of the payload, or the end of it.
LEMMA PayloadRest ==
  ASSUME IInv, FInv, tgt.at \in {"payload", "clear"},
         tgt'.at \in {"payload", "clear", "install"}, tgt'.pkt = tgt.pkt,
         UNCHANGED <<link, sent, answers, commInitialized, params>>
  PROVE  Rest'
<1>1. commInitialized
  BY Zenon DEF FInv, Shaking
<1>2. tgt.pkt.type \in WithPayload \ {"UNKNOWN"}
  BY DEF FInv, Serving
<1> QED
  BY <1>1, <1>2, TaskIsConnected, RestPlace

LEMMA GetPktRest == ASSUME IInv, FInv, GetPkt
  PROVE  Rest'
<1>1. /\ tgt.at = "payload"
      /\ UNCHANGED <<link, sent, answers, commInitialized, params>>
      /\ \/ tgt' = NoMemory
         \/ \E got : tgt' = [tgt EXCEPT !.got = got]
         \/ tgt' = [tgt EXCEPT !.at = "install", !.got = 0]
  <2>1. \/ tgt' = NoMemory
        \/ \E got : tgt' = [tgt EXCEPT !.got = got]
        \/ tgt' = [tgt EXCEPT !.at = "install", !.got = 0]
    BY Zenon DEF GetPkt
  <2> QED
    BY <2>1 DEF GetPkt
<1>2. CASE tgt' = NoMemory
  BY <1>1, <1>2, NoMemoryRest
<1>3. CASE \/ \E got : tgt' = [tgt EXCEPT !.got = got]
           \/ tgt' = [tgt EXCEPT !.at = "install", !.got = 0]
  <2>1. tgt'.at \in {"payload", "install"} /\ tgt'.pkt = tgt.pkt
    <3>1. ASSUME NEW got, tgt' = [tgt EXCEPT !.got = got]
          PROVE  tgt'.at = "payload" /\ tgt'.pkt = tgt.pkt
      BY <1>1, <3>1, PlaceFacts DEF IInv, Locals
    <3>2. CASE tgt' = [tgt EXCEPT !.at = "install", !.got = 0]
      BY <3>2, PlaceFacts DEF IInv, Locals
    <3> QED
      BY <1>3, <3>1, <3>2
  <2> QED
    BY <1>1, <2>1, PayloadRest
<1> QED
  BY <1>1, <1>2, <1>3

LEMMA ClearPktRest == ASSUME IInv, FInv, ClearPkt
  PROVE  Rest'
<1>1. /\ tgt.at = "clear"
      /\ UNCHANGED <<link, sent, answers, commInitialized, params>>
      /\ tgt' = NoMemory \/ \E got : tgt' = [tgt EXCEPT !.got = got]
  <2>1. tgt' = NoMemory \/ \E got : tgt' = [tgt EXCEPT !.got = got]
    BY Zenon DEF ClearPkt
  <2> QED
    BY <2>1 DEF ClearPkt
<1>2. CASE tgt' = NoMemory
  BY <1>1, <1>2, NoMemoryRest
<1>3. CASE \E got : tgt' = [tgt EXCEPT !.got = got]
  <2>1. tgt'.at = "clear" /\ tgt'.pkt = tgt.pkt
    BY <1>1, <1>3, PlaceFacts DEF IInv, Locals
  <2> QED
    BY <1>1, <2>1, PayloadRest
<1> QED
  BY <1>1, <1>2, <1>3

LEMMA InstallRest == ASSUME IInv, FInv, Install
  PROVE  Rest'
<1>1. /\ tgt.at = "install" /\ UNCHANGED <<link, sent, answers, commInitialized>>
      /\ \E ok : tgt' = Replies(AnswerTo(tgt.pkt, ok, << >>))
      /\ params' = IF tgt.pkt.type = "SETPARAM" THEN SetParam(tgt.pkt) ELSE params
  BY DEF Install
<1>2. commInitialized /\ tgt.pkt.type \in WithPayload
  <2>1. commInitialized
    BY <1>1, Zenon DEF FInv, Shaking
  <2> QED
    BY <1>1, <2>1 DEF FInv, Serving
<1>3. DOMAIN params' = Sections
  BY <1>1 DEF SetParam, FInv, Serving
<1>4. tgt.pkt.type # "none"
  BY <1>2 DEF WithPayload
<1> QED
  BY <1>1, <1>2, <1>3, <1>4, AnswersAreAnswers, TaskIsConnected, RestReplies

LEMMA ConnectFirstRest == ASSUME IInv, FInv, ConnectFirst
  PROVE  Rest'
<1>1. /\ tgt.at = "connect1"
      /\ UNCHANGED <<link, sent, answers, commInitialized, params, arrived, taken>>
      /\ tgt' = [tgt EXCEPT !.at = "connect2"] \/ tgt' = At("upload")
  BY DEF ConnectFirst
<1>2. link # "none" /\ tgt.pkt.type = "CONNECT"
  BY <1>1, TaskIsConnected DEF FInv, Serving
<1>3. CASE tgt' = At("upload")
  BY <1>1, <1>2, <1>3, RestAt
<1>4. CASE tgt' = [tgt EXCEPT !.at = "connect2"]
  <2>1. tgt'.at = "connect2" /\ tgt'.pkt.type = "CONNECT"
    BY <1>2, <1>4, PlaceFacts DEF IInv, Locals
  <2> QED
    BY <1>1, <1>2, <2>1, RestPlace
<1> QED
  BY <1>1, <1>3, <1>4

LEMMA ConnectSecondRest == ASSUME IInv, FInv, ConnectSecond
  PROVE  Rest'
<1>1. /\ tgt.at = "connect2"
      /\ UNCHANGED <<link, sent, answers, commInitialized, params, arrived, taken>>
      /\ tgt' = Replies(AnswerTo(tgt.pkt, TRUE, << >>)) \/ tgt' = At("upload")
  BY DEF ConnectSecond
<1>2. /\ link # "none" /\ tgt.pkt.type = "CONNECT" /\ tgt.pkt.type # "none"
      /\ DOMAIN params' = Sections
  BY <1>1, TaskIsConnected DEF FInv, Serving
<1>3. CASE tgt' = At("upload")
  BY <1>1, <1>2, <1>3, RestAt
<1>4. CASE tgt' = Replies(AnswerTo(tgt.pkt, TRUE, << >>))
  BY <1>1, <1>2, <1>4, AnswersAreAnswers, RestReplies
<1> QED
  BY <1>1, <1>3, <1>4

\* On a connection that is up the answer to the handshake completes it.
LEMMA ReplyRest == ASSUME IInv, FInv, Reply
  PROVE  Rest'
<1>1. tgt.at = "reply" /\ tgt' = At("upload") /\ UNCHANGED params /\ tgt'.at = "upload"
  BY ReplyCases, AtFacts
<1>2. link # "none"
  BY <1>1, TaskIsConnected
<1>3. PICK ok \in SendOutcomes :
        \/ ok /\ tgt.answer.type = "DISCONNECT" /\ ForceDisconnect
        \/ /\ ~ (ok /\ tgt.answer.type = "DISCONNECT")
           /\ answers' = IF link = "up" THEN Append(answers, tgt.answer) ELSE answers
           /\ commInitialized' =
                (commInitialized \/ (ok /\ tgt.answer.type = "CONNECT"))
           /\ UNCHANGED <<link, conns, sent, arrived, taken, connected, logging>>
  BY ReplyCases
<1>4. CASE ForceDisconnect
  BY <1>1, <1>4, RestDropped
<1>5. CASE /\ answers' = IF link = "up" THEN Append(answers, tgt.answer) ELSE answers
           /\ commInitialized' =
                (commInitialized \/ (ok /\ tgt.answer.type = "CONNECT"))
           /\ UNCHANGED <<link, sent>>
  <2>1. link = "up" => ok
    BY DEF SendOutcomes
  <2>2. ~commInitialized => tgt.answer.type = "CONNECT" /\ answers = << >> /\ Len(sent) <= 1
    BY <1>1, Zenon DEF FInv, Shaking
  <2>3. ~commInitialized' => answers' = << >> /\ Len(sent') <= 1
    <3>1. ~commInitialized' => ~commInitialized /\ ~ (ok /\ tgt.answer.type = "CONNECT")
      BY <1>5, Zenon
    <3>2. ~commInitialized' => ~ (link = "up")
      BY <2>1, <2>2, <3>1, Zenon
    <3>3. ~commInitialized' => answers' = answers
      BY <1>5, <3>2, Zenon
    <3> QED
      BY <1>5, <2>2, <3>1, <3>3, Zenon
  <2>4. sent' # << >> => sent'[1] = Connect
    BY <1>5 DEF FInv, Shaking
  <2>5. link' # "none"
    BY <1>2, <1>5
  <2>6. Shaking'
    BY <1>1, <2>3, <2>4, <2>5, Zenon DEF Shaking
  <2>7. Serving' /\ Links'
    BY <1>1, <1>5 DEF FInv, Serving, Links
  <2> QED
    BY <2>6, <2>7 DEF Rest
<1> QED
  BY <1>3, <1>4, <1>5

LEMMA UploadRest == ASSUME IInv, FInv, Upload
  PROVE  Rest'
<1>1. UNCHANGED <<link, sent, answers, commInitialized, params, arrived, taken>>
  BY UploadCases
<1>2. connected => link # "none"
  BY DEF IInv, Connection
<1>3. \E place \in {"shutdown", "hdr", "open"} :
        tgt' = At(place) /\ (place = "hdr" => link # "none")
  BY <1>2, UploadCases
<1> QED
  BY <1>1, <1>3, RestAt

\* The other steps only concern the connection.
LEMMA WireRest ==
  ASSUME IInv, FInv, Deliver \/ HostCloses \/ Breaks \/ OpenConnection
  PROVE  Rest'
<1>1. CASE OpenConnection
  <2>1. /\ link' = "up" /\ tgt' = At("hdr") /\ tgt'.at = "hdr"
        /\ UNCHANGED <<sent, answers, commInitialized, params>>
    BY <1>1, AtFacts DEF OpenConnection
  <2> QED
    BY <2>1 DEF FInv, Shaking, Serving, Links, Rest
<1>2. CASE Deliver \/ HostCloses \/ Breaks
  <2>1. /\ link # "none" /\ link' \in {"up", "closed", "broken"}
        /\ UNCHANGED <<sent, answers, commInitialized, params, tgt>>
    BY <1>2 DEF Deliver, HostCloses, Breaks
  <2> QED
    BY <2>1 DEF FInv, Shaking, Serving, Links, Rest
<1> QED
  BY <1>1, <1>2

LEMMA Framing == OnlyKnown => (Spec => []FInv)
<1> SUFFICES ASSUME OnlyKnown PROVE Spec => []FInv
  OBVIOUS
<1>1. Init => FInv
  <2> SUFFICES ASSUME Init PROVE FInv
    OBVIOUS
  <2>1. tgt.at = "open"
    BY AtFacts DEF Init
  <2>2. Stream
    <3>1. << >> \in Seq(Requests \cup {Connect}) /\ Len(<< >>) = 0
      OBVIOUS
    <3>2. Ends(<< >>)[0] = 0
      BY <3>1, EndsFacts
    <3> QED
      BY <2>1, <3>1, <3>2 DEF Init, Stream, End
  <2>3. Rest
    BY <2>1 DEF Init, Rest, Shaking, Serving, Links
  <2> QED
    BY <2>2, <2>3 DEF FInv, Rest
<1>2. IInv /\ IInv' /\ FInv /\ [Next]_vars => FInv'
  <2> SUFFICES ASSUME IInv, IInv', FInv, [Next]_vars PROVE Stream' /\ Rest'
    BY DEF FInv, Rest
  <2>1. CASE UNCHANGED vars
    <3>1. UNCHANGED <<link, sent, arrived, taken, answers, commInitialized, params, tgt>>
      BY <2>1 DEF vars
    <3>2. Stream'
      BY <3>1, StreamSame DEF FInv
    <3>3. Rest'
      BY <3>1 DEF FInv, Rest, Shaking, Serving, Links
    <3> QED
      BY <3>2, <3>3
  <2>2. CASE \E p \in Requests \cup {Connect} : HostSends(p)
    BY <2>2, HostSendsFrames, HostSendsRest
  <2>3. CASE HostCloses \/ Breaks
    <3>1. Stream'
      BY <2>3, StreamSame DEF HostCloses, Breaks, FInv
    <3> QED
      BY <2>3, <3>1, WireRest
  <2>4. CASE Deliver
    BY <2>4, DeliverFrames, WireRest
  <2>5. CASE OpenConnection
    BY <2>5, OpenConnectionFrames, WireRest
  <2>6. CASE GetPktHdr
    BY <2>6, GetPktHdrFrames, GetPktHdrRest
  <2>7. CASE GetPktHdrFails
    BY <2>7, DropFrames, RestDropped DEF GetPktHdrFails
  <2>8. CASE DispatchHandshake
    BY <2>8, DispatchHandshakeFrames, DispatchHandshakeRest
  <2>9. CASE Dispatch
    BY <2>9, DispatchFrames, DispatchRest
  <2>10. CASE DispatchDisconnect
    BY <2>10, DropFrames, RestDropped DEF DispatchDisconnect
  <2>11. CASE Grow
    BY <2>11, GrowFrames, GrowRest
  <2>12. CASE GetPkt
    BY <2>12, GetPktFrames, GetPktRest
  <2>13. CASE ClearPkt
    BY <2>13, ClearPktFrames, ClearPktRest
  <2>14. CASE Install
    BY <2>14, InstallFrames, InstallRest
  <2>15. CASE ConnectFirst
    BY <2>15, ConnectFirstFrames, ConnectFirstRest
  <2>16. CASE ConnectSecond
    BY <2>16, ConnectSecondFrames, ConnectSecondRest
  <2>17. CASE Reply
    BY <2>17, ReplyFrames, ReplyRest
  <2>18. CASE Upload
    BY <2>18, UploadFrames, UploadRest
  <2>19. CASE UploadFails
    <3>1. \E place \in {"shutdown", "open"} : tgt' = At(place)
      BY <2>19 DEF UploadFails
    <3> QED
      BY <2>19, <3>1, DropFrames, RestDropped DEF UploadFails
  <2>20. CASE Shutdown
    BY <2>20, DropFrames, RestDropped DEF Shutdown
  <2> QED
    BY <2>1, <2>2, <2>3, <2>4, <2>5, <2>6, <2>7, <2>8, <2>9, <2>10, <2>11, <2>12, <2>13,
       <2>14, <2>15, <2>16, <2>17, <2>18, <2>19, <2>20 DEF Next, Host, Target, Done
<1> QED
  BY Invariant, <1>1, <1>2, PTL DEF Spec

\* What rt_PktServerWork dispatches is the header of a packet of the host, whatever
\* the lengths of the packets, the parts in which they arrive, and the memory that
\* is missing for them, if the target knows the types of all of them.
THEOREM PacketsAreInStep == OnlyKnown => (Spec => []HaveAPacket)
<1> SUFFICES ASSUME OnlyKnown PROVE Spec => []HaveAPacket
  OBVIOUS
<1>1. IInv /\ FInv => HaveAPacket
  <2> SUFFICES ASSUME IInv, FInv, tgt.at = "dispatch"
               PROVE  \E k \in 1 .. Len(sent) : taken = End(k - 1) + HdrLen
    BY DEF HaveAPacket
  <2>1. PICK m \in Nat : Framed(m)
    BY DEF FInv, Stream
  <2>2. m \in 0 .. Len(sent) /\ m < Len(sent) /\ taken = End(m) + HdrLen
    BY <2>1 DEF Framed, Part
  <2>3. m + 1 \in 1 .. Len(sent) /\ (m + 1) - 1 = m
    BY <2>2, EndFacts DEF IInv
  <2> QED
    BY <2>2, <2>3
<1> QED
  BY Invariant, Framing, <1>1, PTL

-----------------------------------------------------------------------------
\* The packet server does what RequestLink promises.
Served == Cardinality(Effective) - (IF NotYet THEN 1 ELSE 0)

\* The mapping, value by value.
Asked == IF link = "up" THEN sent ELSE << >>
NowServed == IF link = "up" THEN Served ELSE 0
Owed == IF tgt.at = "reply" /\ link = "up" THEN tgt.answer ELSE Unanswered
Answered == IF link = "up" THEN answers ELSE << >>

LEMMA EffectiveIs ==
  ASSUME NEW packets \in Seq(Requests \cup {Connect}), NEW t \in Nat,
         NEW m \in 0 .. Len(packets), Ends(packets)[m] <= t,
         m < Len(packets) => t < Ends(packets)[m + 1]
  PROVE  Cardinality({k \in 1 .. Len(packets) : Ends(packets)[k] <= t}) = m
<1>1. \A k \in 0 .. Len(packets) : Ends(packets)[k] \in Nat
  BY EndsAreNat
<1>2. Len(packets) \in Nat
  OBVIOUS
<1>3. ASSUME NEW k \in 1 .. Len(packets)
      PROVE  Ends(packets)[k] <= t <=> k <= m
  <2>1. CASE k <= m
    <3>1. Ends(packets)[k] <= Ends(packets)[m]
      <4>1. CASE k = m
        BY <1>1, <1>2, <4>1
      <4>2. CASE k # m
        <5>1. k \in 0 .. Len(packets) /\ m \in k + 1 .. Len(packets)
          BY <1>2, <2>1, <4>2
        <5>2. Ends(packets)[k] + HdrLen <= Ends(packets)[m]
          BY <5>1, EndsIncrease
        <5>3. Ends(packets)[k] \in Nat /\ Ends(packets)[m] \in Nat
          BY <1>1, <5>1
        <5> QED
          BY <5>2, <5>3 DEF HdrLen
      <4> QED
        BY <4>1, <4>2
    <3>2. Ends(packets)[k] \in Nat /\ Ends(packets)[m] \in Nat
      BY <1>1, <1>2
    <3> QED
      BY <2>1, <3>1, <3>2
  <2>2. CASE ~ (k <= m)
    <3>1. m < Len(packets) /\ m + 1 \in 0 .. Len(packets)
      BY <1>2, <2>2
    <3>2. Ends(packets)[m + 1] <= Ends(packets)[k]
      <4>1. CASE k = m + 1
        BY <1>1, <3>1, <4>1
      <4>2. CASE k # m + 1
        <5>1. k \in (m + 1) + 1 .. Len(packets)
          BY <1>2, <2>2, <3>1, <4>2
        <5>2. Ends(packets)[m + 1] + HdrLen <= Ends(packets)[k]
          BY <3>1, <5>1, EndsIncrease
        <5>3. Ends(packets)[m + 1] \in Nat /\ Ends(packets)[k] \in Nat
          BY <1>1, <3>1
        <5> QED
          BY <5>2, <5>3 DEF HdrLen
      <4> QED
        BY <4>1, <4>2
    <3>3. Ends(packets)[k] \in Nat /\ Ends(packets)[m + 1] \in Nat
      BY <1>1, <3>1
    <3> QED
      BY <2>2, <3>1, <3>2, <3>3
  <2> QED
    BY <2>1, <2>2
<1>4. {k \in 1 .. Len(packets) : Ends(packets)[k] <= t} = 1 .. m
  BY <1>2, <1>3
<1>5. Cardinality(1 .. m) = m
  <2>1. m \in Int /\ 1 \in Int /\ m \in Nat
    BY <1>2
  <2>2. Cardinality(1 .. m) = IF 1 > m THEN 0 ELSE m - 1 + 1
    BY <2>1, FS_Interval
  <2> QED
    BY <2>1, <2>2
<1> QED
  BY <1>4, <1>5

\* How many requests are served, where the task is.
LEMMA ServedIs ==
  ASSUME IInv, FInv, NEW m \in Nat, Framed(m)
  PROVE  /\ m \in 0 .. Len(sent) /\ Len(sent) \in Nat
         /\ Served = IF tgt.at \in {"install", "connect1", "connect2"} THEN m - 1 ELSE m
<1>1. /\ sent \in Seq(Requests \cup {Connect}) /\ Len(sent) \in Nat
      /\ m \in 0 .. Len(sent) /\ taken = End(m) + Part /\ taken \in Nat
      /\ End(m) \in Nat
  BY EndFacts DEF IInv, Framed, FInv, Stream
<1>2. /\ m < Len(sent) => End(m + 1) = End(m) + HdrLen + PktSize(sent[m + 1])
      /\ m < Len(sent) => PktSize(sent[m + 1]) \in Nat
  BY <1>1, EndFacts DEF IInv
<1> DEFINE whole == tgt.at \in {"dispatch", "payload"} /\ tgt.size = 0
<1>3. CASE whole
  <2>1. /\ m < Len(sent) /\ tgt.size = PktSize(sent[m + 1])
        /\ tgt.at = "payload" => tgt.got \in 0 .. tgt.size
    BY <1>3 DEF Framed
  <2>2. Part = HdrLen
    BY <1>3, <2>1 DEF Part, HdrLen
  <2>3. taken = End(m + 1) /\ m + 1 \in 0 .. Len(sent)
    BY <1>1, <1>2, <1>3, <2>1, <2>2 DEF HdrLen
  <2>4. m + 1 < Len(sent) => taken < End((m + 1) + 1)
    <3>1. m + 1 < Len(sent) => /\ End((m + 1) + 1) = End(m + 1) + HdrLen + PktSize(sent[m + 2])
                               /\ PktSize(sent[m + 2]) \in Nat
      BY <1>1, <2>3, EndFacts DEF IInv
    <3> QED
      BY <1>1, <2>3, <3>1 DEF HdrLen
  <2>5. Cardinality(Effective) = m + 1
    BY <1>1, <2>3, <2>4, EffectiveIs DEF Effective, End
  <2> QED
    BY <1>1, <1>3, <2>5 DEF Served, NotYet
<1>4. CASE ~whole
  <2>1. m < Len(sent) => taken < End(m + 1)
    <3> SUFFICES ASSUME m < Len(sent) PROVE taken < End(m + 1)
      OBVIOUS
    <3>1. CASE tgt.at = "hdr"
      <4>1. tgt.got \in 0 .. 1 /\ Part = tgt.got
        BY <3>1 DEF Framed, Part, HdrLen
      <4> QED
        BY <1>1, <1>2, <4>1 DEF HdrLen
    <3>2. CASE tgt.at \in {"dispatch", "payload", "clear"}
      <4>1. /\ tgt.size = PktSize(sent[m + 1])
            /\ tgt.at \in {"payload", "clear"} => tgt.got \in 0 .. tgt.size
            /\ tgt.at # "dispatch" => tgt.got < tgt.size
            /\ tgt.at = "dispatch" => tgt.size # 0
        BY <1>4, <3>2 DEF Framed
      <4>2. CASE tgt.at = "dispatch"
        <5>1. Part = HdrLen /\ tgt.size # 0
          BY <4>1, <4>2 DEF Part
        <5> QED
          BY <1>1, <1>2, <4>1, <5>1 DEF HdrLen
      <4>3. CASE tgt.at # "dispatch"
        <5>1. Part = HdrLen + tgt.got
          BY <3>2, <4>3 DEF Part
        <5>2. tgt.got \in 0 .. tgt.size /\ tgt.got < tgt.size
          BY <3>2, <4>1, <4>3
        <5>3. tgt.size \in Nat /\ End(m + 1) = End(m) + HdrLen + tgt.size
          BY <1>2, <4>1
        <5>4. taken = End(m) + (HdrLen + tgt.got)
          BY <1>1, <5>1
        <5> QED
          BY <1>1, <5>2, <5>3, <5>4 DEF HdrLen
      <4> QED
        BY <4>2, <4>3
    <3>3. CASE tgt.at \notin {"hdr", "dispatch", "payload", "clear"}
      <4>1. Part = 0
        BY <3>3 DEF Part
      <4> QED
        BY <1>1, <1>2, <4>1 DEF HdrLen
    <3> QED
      BY <3>1, <3>2, <3>3
  <2>2. End(m) <= taken
    <3>1. Part \in Nat
      BY <1>1, <1>2 DEF Part, Framed, HdrLen
    <3> QED
      BY <1>1, <3>1
  <2>3. Cardinality(Effective) = m
    BY <1>1, <2>1, <2>2, EffectiveIs DEF Effective, End
  <2> QED
    BY <1>1, <1>4, <2>3 DEF Served, NotYet
<1> QED
  BY <1>1, <1>3, <1>4

\* The steps of RequestLink.
MappedStep == Requested!Next \/ UNCHANGED Requested!vars

LEMMA StutterStep ==
  ASSUME link = "up", link' = "up", UNCHANGED <<Asked, NowServed, Owed, Answered, params>>
  PROVE  MappedStep
BY DEF MappedStep, Requested!vars, Asked, NowServed, Served, Owed, Answered

LEMMA OffLineStep ==
  ASSUME link # "up", link' # "up", DOMAIN params' = DOMAIN params
  PROVE  MappedStep
BY DEF MappedStep, Requested!Next, Requested!LateDownload

LEMMA HangUpStep ==
  ASSUME link = "up", link' # "up", UNCHANGED params
  PROVE  MappedStep
BY DEF MappedStep, Requested!Next, Requested!HangUp, Requested!Nothing, Unanswered

LEMMA ConnectStep ==
  ASSUME link # "up", link' = "up", UNCHANGED params,
         Asked' = << >>, NowServed' = 0, Owed' = Unanswered, Answered' = << >>
  PROVE  MappedStep
BY DEF MappedStep, Requested!Next, Requested!Connect, Asked, NowServed, Served, Owed,
       Answered

LEMMA AskStep ==
  ASSUME link = "up", link' = "up", UNCHANGED <<NowServed, Owed, Answered, params>>,
         Len(Asked') = Len(Asked) + 1, SubSeq(Asked', 1, Len(Asked)) = Asked
  PROVE  MappedStep
BY DEF MappedStep, Requested!Next, Requested!Ask, Asked, NowServed, Served, Owed, Answered

LEMMA AnswerStep ==
  ASSUME link = "up", link' = "up", UNCHANGED <<Asked, NowServed, params>>,
         Owed # Unanswered, Answered' = Append(Answered, Owed), Owed' = Unanswered
  PROVE  MappedStep
BY DEF MappedStep, Requested!Next, Requested!Answer, Requested!Nothing, Unanswered,
       Asked, NowServed, Served, Owed, Answered

LEMMA ServeStep ==
  ASSUME link = "up", link' = "up", UNCHANGED <<Asked, Answered>>,
         NowServed < Len(Asked), NowServed' = NowServed + 1, Owed = Unanswered,
         NEW ok \in BOOLEAN, NEW r, r = Asked[NowServed + 1],
         ok \/ r.type \in WithPayload \cup {"CONNECT"},
         params' = IF r.type = "SETPARAM" /\ ok
                   THEN [s \in Sections |->
                           IF s \in DOMAIN r.set THEN r.set[s] ELSE params[s]]
                   ELSE params,
         Owed' = IF r.type \in Silent \/ (r.type = "CONNECT" /\ ~ok)
                 THEN Unanswered
                 ELSE [type |-> r.type, ok |-> ok,
                       val |-> IF r.type = "GETPARAMS" THEN params ELSE << >>]
  PROVE  MappedStep
<1>1. Requested!Serve
  BY DEF Requested!Serve, Requested!Nothing, Unanswered, Asked, NowServed, Served, Owed,
         Answered
<1> QED
  BY <1>1 DEF MappedStep, Requested!Next

\* What ServedIs says of a state, as an invariant.
Counted ==
  \A m \in Nat : Framed(m) =>
    /\ m \in 0 .. Len(sent) /\ Len(sent) \in Nat
    /\ Served = IF tgt.at \in {"install", "connect1", "connect2"} THEN m - 1 ELSE m

Serves == IInv /\ FInv /\ Counted

\* The next request is the one that the task is at.
LEMMA NextRequest ==
  ASSUME Serves, link = "up",
         tgt.at \in {"dispatch", "payload", "clear", "install", "connect1", "connect2"}
  PROVE  Served \in Nat /\ Served < Len(sent) /\ tgt.pkt = sent[Served + 1]
<1>1. PICK m \in Nat : Framed(m)
  BY DEF Serves, FInv, Stream
<1>2. /\ m \in 0 .. Len(sent) /\ Len(sent) \in Nat
      /\ Served = IF tgt.at \in {"install", "connect1", "connect2"} THEN m - 1 ELSE m
  BY <1>1 DEF Serves, Counted
<1>3. CASE tgt.at \in {"install", "connect1", "connect2"}
  <2>1. m # 0 /\ tgt.pkt = sent[m] /\ Served = m - 1
    BY <1>1, <1>2, <1>3 DEF Framed
  <2>2. (m - 1) + 1 = m /\ m - 1 \in Nat /\ m - 1 < Len(sent)
    BY <1>2, <2>1
  <2> QED
    BY <2>1, <2>2
<1>4. CASE tgt.at \in {"dispatch", "payload", "clear"}
  BY <1>1, <1>2, <1>4 DEF Framed
<1> QED
  BY <1>3, <1>4

\* A step at which nothing is served or sent.
LEMMA QuietStep ==
  ASSUME link = "up", UNCHANGED <<link, sent, answers, params>>, Served' = Served,
         tgt.at # "reply", tgt'.at # "reply"
  PROVE  MappedStep
BY StutterStep DEF Asked, NowServed, Owed, Answered

\* A step at which nothing is received.
LEMMA LocalServed ==
  ASSUME IInv, UNCHANGED <<sent, taken>>
  PROVE  /\ (NotYet <=> NotYet') => Served' = Served
         /\ Served \in Nat /\ NotYet /\ ~NotYet' => Served' = Served + 1
<1>1. Effective' = Effective
  BY DEF Effective, End
<1>2. ASSUME NotYet <=> NotYet' PROVE Served' = Served
  BY <1>1, <1>2, Zenon DEF Served
<1>3. ASSUME Served \in Nat, NotYet, ~NotYet' PROVE Served' = Served + 1
  <2>1. Served = Cardinality(Effective) - 1 /\ Served' = Cardinality(Effective) - 0
    BY <1>1, <1>3, Zenon DEF Served
  <2>2. Cardinality(Effective) \in Nat
    <3>1. 1 \in Int /\ Len(sent) \in Int
      BY EndFacts DEF IInv
    <3>2. IsFiniteSet(1 .. Len(sent)) /\ Effective \subseteq 1 .. Len(sent)
      BY <3>1, FS_Interval DEF Effective
    <3> QED
      BY <3>2, FS_Subset, FS_CardinalityType
  <2> QED
    BY <2>1, <2>2
<1> QED
  BY <1>2, <1>3

\* The request that the task is at is served.
LEMMA ServesNow ==
  ASSUME Serves, link = "up", UNCHANGED <<link, sent, answers>>,
         tgt.at \in {"dispatch", "clear", "install", "connect2"}, Served' = Served + 1,
         NEW ok \in BOOLEAN, ok \/ tgt.pkt.type \in WithPayload \cup {"CONNECT"},
         params' = IF tgt.pkt.type = "SETPARAM" /\ ok THEN SetParam(tgt.pkt) ELSE params,
         IF tgt.pkt.type \in Silent \/ (tgt.pkt.type = "CONNECT" /\ ~ok)
         THEN tgt' = At("upload")
         ELSE tgt' = Replies(AnswerTo(tgt.pkt, ok, IF tgt.pkt.type = "GETPARAMS"
                                                   THEN params ELSE << >>))
  PROVE  MappedStep
<1>1. Served \in Nat /\ Served < Len(sent) /\ tgt.pkt = sent[Served + 1]
  BY NextRequest
<1> DEFINE r == tgt.pkt
           quiet == r.type \in Silent \/ (r.type = "CONNECT" /\ ~ok)
           a == AnswerTo(r, ok, IF r.type = "GETPARAMS" THEN params ELSE << >>)
<1>2. Owed' = IF quiet THEN Unanswered ELSE a
  <2>1. CASE quiet
    <3>1. tgt'.at = "upload"
      BY <2>1, AtFacts
    <3> QED
      BY <2>1, <3>1 DEF Owed
  <2>2. CASE ~quiet
    <3>1. tgt' = Replies(a)
      BY <2>2, Zenon
    <3>2. tgt'.at = "reply" /\ tgt'.answer = a
      BY <3>1, ReplyAnswer DEF Serves
    <3> HIDE DEF a, quiet
    <3> QED
      BY <2>2, <3>2 DEF Owed
  <2> QED
    BY <2>1, <2>2
<1>3. Owed' = IF r.type \in Silent \/ (r.type = "CONNECT" /\ ~ok)
              THEN Unanswered
              ELSE [type |-> r.type, ok |-> ok,
                    val |-> IF r.type = "GETPARAMS" THEN params ELSE << >>]
  BY <1>2 DEF AnswerTo
<1>4. params' = IF r.type = "SETPARAM" /\ ok
                THEN [s \in Sections |->
                        IF s \in DOMAIN r.set THEN r.set[s] ELSE params[s]]
                ELSE params
  BY DEF SetParam
<1>5. /\ NowServed < Len(Asked) /\ NowServed' = NowServed + 1 /\ r = Asked[NowServed + 1]
      /\ UNCHANGED <<Asked, Answered>> /\ Owed = Unanswered /\ link' = "up"
  BY <1>1 DEF NowServed, Asked, Answered, Owed
<1> HIDE DEF r, a, quiet
<1>6. ok \/ r.type \in WithPayload \cup {"CONNECT"}
  BY DEF r
<1> QED
  BY <1>3, <1>4, <1>5, <1>6, ServeStep

\* While the host does not listen nothing is promised.
LEMMA OffLine ==
  ASSUME FInv, FInv', link # "up", link' # "up"
  PROVE  MappedStep
BY OffLineStep DEF FInv, Serving

LEMMA Dropping ==
  ASSUME FInv, FInv', ForceDisconnect, UNCHANGED params
  PROVE  MappedStep
BY OffLine, HangUpStep DEF ForceDisconnect, Drop

LEMMA DispatchedSize ==
  ASSUME Serves, tgt.at = "dispatch"
  PROVE  /\ tgt.size = PktSize(tgt.pkt)
         /\ ~commInitialized => tgt.size = 0
<1>1. PICK m \in Nat : Framed(m)
  BY DEF Serves, FInv, Stream
<1>2. /\ m < Len(sent) /\ tgt.pkt = sent[m + 1] /\ tgt.size = PktSize(tgt.pkt)
      /\ Len(sent) \in Nat
  BY <1>1, EndFacts DEF Framed, Serves, IInv
<1>3. ASSUME ~commInitialized PROVE tgt.size = 0
  <2>1. Len(sent) <= 1
    BY <1>3, Zenon DEF Serves, FInv, Shaking
  <2>2. \A i, l \in Nat : i < l /\ l <= 1 => i = 0 /\ l = 1
    OBVIOUS
  <2>3. m = 0 /\ Len(sent) = 1
    BY <1>2, <2>1, <2>2
  <2>4. tgt.pkt = Connect
    BY <1>2, <2>3 DEF Serves, FInv, Shaking
  <2> QED
    BY <1>2, <2>4, HandshakeHasNoPayload
<1> QED
  BY <1>2, <1>3

LEMMA HostSendsMapped ==
  ASSUME NEW p \in Requests \cup {Connect}, Serves, Serves', HostSends(p)
  PROVE  MappedStep
<1>1. /\ link = "up" /\ link' = "up" /\ sent' = Append(sent, p)
      /\ UNCHANGED <<taken, answers, params, tgt>>
  BY DEF HostSends
<1>2. PICK m \in Nat : Framed(m) /\ Framed(m)'
  <2>1. PICK m \in Nat : Framed(m)
    BY <1>1 DEF Serves, FInv, Stream
  <2> QED
    BY <2>1, HostSendsFrames DEF Serves
<1>3. Served' = Served
  BY <1>1, <1>2 DEF Serves, Counted
<1>4. Len(sent') = Len(sent) + 1 /\ SubSeq(sent', 1, Len(sent)) = sent
  <2>1. sent \in Seq(Requests \cup {Connect})
    BY DEF Serves, IInv, Locals
  <2> QED
    BY <1>1, <2>1
<1> QED
  BY <1>1, <1>3, <1>4, AskStep DEF Asked, NowServed, Owed, Answered

LEMMA WireMapped ==
  ASSUME Serves, Serves', Deliver \/ HostCloses \/ Breaks \/ UNCHANGED vars
  PROVE  MappedStep
<1>1. CASE link = "up" /\ link' = "up"
  <2>1. UNCHANGED <<sent, taken, answers, params, tgt>>
    BY <1>1 DEF Deliver, HostCloses, Breaks, vars
  <2>2. NotYet <=> NotYet'
    BY <2>1 DEF NotYet
  <2>3. Served' = Served
    BY <2>1, <2>2, LocalServed DEF Serves
  <2> QED
    BY <1>1, <2>1, <2>3, StutterStep DEF Asked, NowServed, Owed, Answered
<1>2. CASE link = "up" /\ link' # "up"
  <2>1. UNCHANGED params
    BY DEF Deliver, HostCloses, Breaks, vars
  <2> QED
    BY <1>2, <2>1, HangUpStep
<1>3. CASE link # "up"
  <2>1. link' # "up"
    BY <1>3 DEF Deliver, HostCloses, Breaks, vars
  <2> QED
    BY <1>3, <2>1, OffLine DEF Serves
<1> QED
  BY <1>1, <1>2, <1>3

LEMMA OpenConnectionMapped == ASSUME Serves, Serves', OpenConnection
  PROVE  MappedStep
<1>1. /\ tgt.at = "open" /\ link' = "up" /\ tgt' = At("hdr") /\ tgt'.at = "hdr"
      /\ UNCHANGED <<sent, answers, params>>
  BY AtFacts DEF OpenConnection
<1>2. link = "none" /\ sent = << >> /\ answers = << >>
  BY <1>1 DEF Serves, IInv, Connection, FInv, Shaking
<1>3. PICK m \in Nat : Framed(m)'
  BY <1>1 DEF Serves, FInv, Stream
<1>4. m \in 0 .. Len(sent)' /\ Len(sent)' = 0 /\ Served' = m
  BY <1>1, <1>2, <1>3 DEF Serves, Counted
<1>5. Served' = 0
  BY <1>4
<1> QED
  BY <1>1, <1>2, <1>5, ConnectStep DEF Asked, NowServed, Owed, Answered

LEMMA GetPktHdrMapped == ASSUME Serves, Serves', GetPktHdr
  PROVE  MappedStep
<1>1. tgt.at = "hdr" /\ UNCHANGED <<link, sent, answers, params>>
  BY DEF GetPktHdr
<1>2. CASE link # "up"
  BY <1>1, <1>2, OffLine DEF Serves
<1>3. CASE link = "up"
  <2>1. tgt'.at \in {"upload", "hdr", "dispatch"}
    BY GetPktHdrPlaces DEF Serves
  <2>2. PICK m \in Nat : Framed(m) /\ Framed(m)'
    BY GetPktHdrMoves DEF Serves
  <2>3. Served = m /\ Served' = m
    BY <1>1, <2>1, <2>2 DEF Serves, Counted
  <2> QED
    BY <1>1, <1>3, <2>1, <2>3, QuietStep
<1> QED
  BY <1>2, <1>3

LEMMA DispatchHandshakeMapped == ASSUME Serves, Serves', DispatchHandshake
  PROVE  MappedStep
<1>1. /\ tgt.at = "dispatch" /\ ~commInitialized
      /\ tgt' = [At("connect1") EXCEPT !.pkt = Connect]
      /\ UNCHANGED <<link, sent, taken, answers, params>>
  BY DEF DispatchHandshake
<1>2. tgt'.at = "connect1" /\ tgt.size = 0
  BY <1>1, DispatchedSize DEF At
<1>3. NotYet /\ NotYet'
  BY <1>1, <1>2 DEF NotYet
<1>4. Served' = Served
  BY <1>1, <1>3, LocalServed DEF Serves
<1>5. CASE link = "up"
  BY <1>1, <1>2, <1>4, <1>5, QuietStep
<1>6. CASE link # "up"
  BY <1>1, <1>6, OffLine DEF Serves
<1> QED
  BY <1>5, <1>6

LEMMA DispatchMapped == ASSUME OnlyKnown, Serves, Serves', Dispatch
  PROVE  MappedStep
<1>1. tgt.at = "dispatch" /\ UNCHANGED <<link, sent, taken, answers, params>>
  BY DispatchCases
<1>2. tgt.pkt.type # "UNKNOWN"
  BY <1>1, DispatchedIsKnown DEF Serves
<1>3. CASE link # "up"
  BY <1>1, <1>3, OffLine DEF Serves
<1>4. CASE link = "up"
  <2>1. tgt.pkt.type \notin WithPayload
    BY <1>2, DispatchCases DEF WithPayload
  <2>2. NotYet
    BY <1>1, <2>1, DispatchedSize, PlainHasNoPayload DEF NotYet
  <2>3. CASE tgt' = [tgt EXCEPT !.at = "connect1"]
    <3>1. tgt'.at = "connect1"
      BY <2>3, PlaceFacts DEF Serves, IInv, Locals
    <3>2. NotYet'
      BY <3>1 DEF NotYet
    <3>3. Served' = Served
      BY <1>1, <2>2, <3>2, LocalServed DEF Serves
    <3> QED
      BY <1>1, <1>4, <3>1, <3>3, QuietStep
  <2>4. CASE /\ tgt.pkt.type = "STOP"
             /\ tgt' = At("upload")
    <3>1. ~NotYet'
      BY <2>4, AtFacts DEF NotYet
    <3>2. Served' = Served + 1
      BY <1>1, <1>4, <2>2, <3>1, NextRequest, LocalServed DEF Serves
    <3>3. tgt.pkt.type \in Silent /\ tgt.pkt.type # "SETPARAM"
      BY <2>4 DEF Silent
    <3> QED
      BY <1>1, <1>4, <2>4, <3>2, <3>3, ServesNow
  <2>5. CASE \/ /\ tgt.pkt.type \in {"GET_TIME", "DISCONNECT"}
                /\ tgt' = Replies(AnswerTo(tgt.pkt, TRUE, << >>))
             \/ /\ tgt.pkt.type = "GETPARAMS"
                /\ tgt' = Replies(AnswerTo(tgt.pkt, TRUE, params))
    <3>1. ~NotYet'
      BY <2>5, ReplyAnswer DEF NotYet, Serves
    <3>2. Served' = Served + 1
      BY <1>1, <1>4, <2>2, <3>1, NextRequest, LocalServed DEF Serves
    <3>3. tgt.pkt.type \notin Silent /\ tgt.pkt.type \notin {"SETPARAM", "CONNECT"}
      BY <2>5 DEF Silent
    <3>4. tgt' = Replies(AnswerTo(tgt.pkt, TRUE, IF tgt.pkt.type = "GETPARAMS"
                                                 THEN params ELSE << >>))
      BY <2>5
    <3> QED
      BY <1>1, <1>4, <3>2, <3>3, <3>4, ServesNow
  <2> QED
    BY <1>2, <2>3, <2>4, <2>5, DispatchCases
<1> QED
  BY <1>3, <1>4

LEMMA GrowMapped == ASSUME Serves, Serves', Grow
  PROVE  MappedStep
<1>1. tgt.at = "dispatch" /\ UNCHANGED <<link, sent, taken, answers, params>>
  BY DEF Grow
<1>2. \/ tgt' = [tgt EXCEPT !.at = "payload"]
      \/ tgt' = [tgt EXCEPT !.at = "clear"] /\ ~ (tgt.size <= pktBufSize)
  BY DEF Grow
<1>3. pktBufSize \in Nat /\ tgt.size \in Nat
  BY <1>1 DEF Serves, IInv, Buffered, Locals
<1>4. /\ tgt'.at \in {"payload", "clear"} /\ tgt'.size = tgt.size
      /\ tgt'.at = "clear" => tgt.size # 0
  <2>1. CASE tgt' = [tgt EXCEPT !.at = "payload"]
    BY <2>1, PlaceFacts DEF Serves, IInv, Locals
  <2>2. CASE tgt' = [tgt EXCEPT !.at = "clear"] /\ ~ (tgt.size <= pktBufSize)
    <3>1. tgt.size # 0
      BY <1>3, <2>2
    <3> QED
      BY <2>2, <3>1, PlaceFacts DEF Serves, IInv, Locals
  <2> QED
    BY <1>2, <2>1, <2>2
<1>5. NotYet <=> NotYet'
  BY <1>1, <1>4 DEF NotYet
<1>6. Served' = Served
  BY <1>1, <1>5, LocalServed DEF Serves
<1>7. CASE link = "up"
  BY <1>1, <1>4, <1>6, <1>7, QuietStep
<1>8. CASE link # "up"
  BY <1>1, <1>8, OffLine DEF Serves
<1> QED
  BY <1>7, <1>8

LEMMA GetPktMapped == ASSUME Serves, Serves', GetPkt
  PROVE  MappedStep
<1>1. tgt.at = "payload" /\ UNCHANGED <<link, sent, answers, params>>
  BY DEF GetPkt
<1>2. CASE link # "up"
  BY <1>1, <1>2, OffLine DEF Serves
<1>3. CASE link = "up"
  <2>1. PICK m \in Nat : /\ Framed(m)
                         /\ \/ tgt'.at = "payload" /\ Framed(m)'
                            \/ tgt'.at = "install" /\ Framed(m + 1)'
    BY <1>3, GetPktFrames DEF Serves
  <2>2. Served = m
    BY <1>1, <2>1 DEF Serves, Counted
  <2>3. m + 1 \in Nat /\ (m + 1) - 1 = m
    OBVIOUS
  <2>4. Served' = m
    BY <2>1, <2>3 DEF Serves, Counted
  <2> QED
    BY <1>1, <1>3, <2>1, <2>2, <2>4, QuietStep
<1> QED
  BY <1>2, <1>3

LEMMA ClearPktMapped == ASSUME Serves, Serves', ClearPkt
  PROVE  MappedStep
<1>1. tgt.at = "clear" /\ UNCHANGED <<link, sent, answers, params>>
  BY DEF ClearPkt
<1>2. CASE link # "up"
  BY <1>1, <1>2, OffLine DEF Serves
<1>3. CASE link = "up"
  <2>1. PICK m \in Nat : /\ Framed(m)
                         /\ \/ tgt'.at = "clear" /\ Framed(m)'
                            \/ tgt' = NoMemory /\ Framed(m + 1)'
    BY <1>3, ClearPktFrames DEF Serves
  <2>2. Served = m
    BY <1>1, <2>1 DEF Serves, Counted
  <2>3. CASE tgt'.at = "clear" /\ Framed(m)'
    <3>1. Served' = m
      BY <2>3 DEF Serves, Counted
    <3> QED
      BY <1>1, <1>3, <2>2, <2>3, <3>1, QuietStep
  <2>4. CASE tgt' = NoMemory /\ Framed(m + 1)'
    <3>1. tgt'.at = "reply" /\ m + 1 \in Nat
      <4>1. NoMemory.at = "reply"
        BY ReplyAnswer DEF NoMemory, Serves
      <4>2. tgt'.at = "reply"
        BY <2>4, <4>1
      <4> QED
        BY <4>2
    <3>2. Served' = Served + 1
      BY <2>2, <2>4, <3>1 DEF Serves, Counted
    <3>3. tgt.pkt.type \in WithPayload \ {"UNKNOWN"}
      BY <1>1 DEF Serves, FInv, Serving
    <3>4. tgt.pkt.type \notin Silent /\ tgt.pkt.type \notin {"GETPARAMS", "CONNECT"}
      BY <3>3 DEF WithPayload, Silent
    <3>5. tgt' = Replies(AnswerTo(tgt.pkt, FALSE, IF tgt.pkt.type = "GETPARAMS"
                                                  THEN params ELSE << >>))
      BY <2>4, <3>4 DEF NoMemory
    <3> QED
      BY <1>1, <1>3, <3>2, <3>3, <3>4, <3>5, ServesNow
  <2> QED
    BY <2>1, <2>3, <2>4
<1> QED
  BY <1>2, <1>3

LEMMA InstallMapped == ASSUME Serves, Serves', Install
  PROVE  MappedStep
<1>1. tgt.at = "install" /\ UNCHANGED <<link, sent, taken, answers>>
  BY DEF Install
<1>2. CASE link # "up"
  BY <1>1, <1>2, OffLine DEF Serves
<1>3. CASE link = "up"
  <2>1. tgt.pkt.type \in WithPayload \ {"UNKNOWN"}
    BY <1>1 DEF Serves, FInv, Serving
  <2>2. PICK ok \in BOOLEAN :
          /\ tgt' = Replies(AnswerTo(tgt.pkt, ok, << >>))
          /\ tgt.pkt.type = "SETPARAM" => ok
    BY DEF Install
  <2>3. params' = IF tgt.pkt.type = "SETPARAM" /\ ok THEN SetParam(tgt.pkt) ELSE params
    <3>1. params' = IF tgt.pkt.type = "SETPARAM" THEN SetParam(tgt.pkt) ELSE params
      BY DEF Install
    <3> QED
      BY <2>2, <3>1, Zenon
  <2>4. NotYet /\ ~NotYet'
    BY <1>1, <2>2, ReplyAnswer DEF NotYet, Serves
  <2>5. Served' = Served + 1
    BY <1>1, <1>3, <2>4, NextRequest, LocalServed DEF Serves
  <2>6. tgt.pkt.type \notin Silent /\ tgt.pkt.type \notin {"GETPARAMS", "CONNECT"}
    BY <2>1 DEF WithPayload, Silent
  <2>7. tgt' = Replies(AnswerTo(tgt.pkt, ok, IF tgt.pkt.type = "GETPARAMS"
                                             THEN params ELSE << >>))
    BY <2>2, <2>6
  <2> QED
    BY <1>1, <1>3, <2>1, <2>3, <2>5, <2>6, <2>7, ServesNow
<1> QED
  BY <1>2, <1>3

LEMMA ConnectFirstMapped == ASSUME Serves, Serves', ConnectFirst
  PROVE  MappedStep
<1>1. tgt.at = "connect1" /\ UNCHANGED <<link, sent, taken, answers, params>>
  BY DEF ConnectFirst
<1>2. CASE link # "up"
  BY <1>1, <1>2, OffLine DEF Serves
<1>3. CASE link = "up"
  <2>1. tgt' = [tgt EXCEPT !.at = "connect2"]
    BY <1>3 DEF ConnectFirst, SendOutcomes
  <2>2. tgt'.at = "connect2"
    BY <2>1, PlaceFacts DEF Serves, IInv, Locals
  <2>3. NotYet /\ NotYet'
    BY <1>1, <2>2 DEF NotYet
  <2>4. Served' = Served
    BY <1>1, <2>3, LocalServed DEF Serves
  <2> QED
    BY <1>1, <1>3, <2>2, <2>4, QuietStep
<1> QED
  BY <1>2, <1>3

LEMMA ConnectSecondMapped == ASSUME Serves, Serves', ConnectSecond
  PROVE  MappedStep
<1>1. /\ tgt.at = "connect2" /\ UNCHANGED <<link, sent, taken, answers, params>>
      /\ tgt' = Replies(AnswerTo(tgt.pkt, TRUE, << >>)) \/ tgt' = At("upload")
  BY DEF ConnectSecond
<1>2. tgt.pkt.type = "CONNECT"
  BY <1>1 DEF Serves, FInv, Serving
<1>3. tgt.pkt.type \notin Silent /\ tgt.pkt.type \notin {"SETPARAM", "GETPARAMS"}
  BY <1>2 DEF Silent
<1>4. CASE link # "up"
  BY <1>1, <1>4, OffLine DEF Serves
<1>5. CASE link = "up"
  <2>1. NotYet /\ ~NotYet'
    <3>1. tgt'.at \in {"reply", "upload"}
      BY <1>1, ReplyAnswer, AtFacts DEF Serves
    <3> QED
      BY <1>1, <3>1 DEF NotYet
  <2>2. Served' = Served + 1
    BY <1>1, <1>5, <2>1, NextRequest, LocalServed DEF Serves
  <2>3. CASE tgt' = At("upload")
    BY <1>1, <1>2, <1>3, <1>5, <2>2, <2>3, ServesNow
  <2>4. CASE tgt' = Replies(AnswerTo(tgt.pkt, TRUE, << >>))
    <3>1. tgt' = Replies(AnswerTo(tgt.pkt, TRUE, IF tgt.pkt.type = "GETPARAMS"
                                                 THEN params ELSE << >>))
      BY <1>3, <2>4
    <3> QED
      BY <1>1, <1>2, <1>3, <1>5, <2>2, <3>1, ServesNow
  <2> QED
    BY <1>1, <2>3, <2>4
<1> QED
  BY <1>4, <1>5

LEMMA ReplyMapped == ASSUME Serves, Serves', Reply
  PROVE  MappedStep
<1>1. /\ tgt.at = "reply" /\ tgt'.at = "upload" /\ UNCHANGED params
      /\ \/ ForceDisconnect
         \/ /\ answers' = IF link = "up" THEN Append(answers, tgt.answer) ELSE answers
            /\ UNCHANGED <<link, sent, taken>>
  BY ReplyCases, AtFacts
<1>2. CASE ForceDisconnect
  BY <1>1, <1>2, Dropping DEF Serves
<1>3. CASE /\ answers' = IF link = "up" THEN Append(answers, tgt.answer) ELSE answers
           /\ UNCHANGED <<link, sent, taken>>
  <2>1. CASE link # "up"
    BY <1>3, <2>1, OffLine DEF Serves
  <2>2. CASE link = "up"
    <3>1. (NotYet <=> NotYet') /\ tgt.answer # Unanswered
      BY <1>1 DEF NotYet, Serves, FInv, Serving
    <3>2. Served' = Served
      BY <1>3, <3>1, LocalServed DEF Serves
    <3>3. answers' = Append(answers, tgt.answer)
      BY <1>3, <2>2
    <3> QED
      BY <1>1, <1>3, <2>2, <3>1, <3>2, <3>3, AnswerStep
         DEF Asked, NowServed, Owed, Answered
  <2> QED
    BY <2>1, <2>2
<1> QED
  BY <1>1, <1>2, <1>3

LEMMA UploadMapped == ASSUME Serves, Serves', Upload
  PROVE  MappedStep
<1>1. /\ tgt.at = "upload" /\ UNCHANGED <<link, sent, taken, answers, params>>
      /\ tgt'.at \in {"shutdown", "hdr", "open"}
  BY UploadCases, AtFacts
<1>2. NotYet <=> NotYet'
  BY <1>1 DEF NotYet
<1>3. Served' = Served
  BY <1>1, <1>2, LocalServed DEF Serves
<1>4. CASE link = "up"
  BY <1>1, <1>3, <1>4, QuietStep
<1>5. CASE link # "up"
  BY <1>1, <1>5, OffLine DEF Serves
<1> QED
  BY <1>4, <1>5

\* While a connection holds, the packet server serves the requests of the host one by
\* one and in their order, answers each once and with what serving it did, and makes
\* a download as a whole or not at all: it implements RequestLink.
THEOREM ServerServesRequests == OnlyKnown => (Spec => ImplementsRequests)
<1> SUFFICES ASSUME OnlyKnown PROVE Spec => ImplementsRequests
  OBVIOUS
<1>1. IInv /\ FInv => Serves
  BY ServedIs DEF Serves, Counted
<1>2. Init => Requested!Init
  <2> SUFFICES ASSUME Init PROVE Requested!Init
    OBVIOUS
  <2>1. link = "none" /\ DOMAIN params = Sections
    BY DEF Init
  <2> QED
    BY <2>1 DEF Requested!Init, Requested!Nothing, Unanswered
<1>3. Serves /\ Serves' /\ [Next]_vars => [Requested!Next]_Requested!vars
  <2> SUFFICES ASSUME Serves, Serves', [Next]_vars PROVE MappedStep
    BY DEF MappedStep
  <2>1. CASE UNCHANGED vars \/ Deliver \/ HostCloses \/ Breaks
    BY <2>1, WireMapped
  <2>2. CASE \E p \in Requests \cup {Connect} : HostSends(p)
    BY <2>2, HostSendsMapped
  <2>3. CASE OpenConnection
    BY <2>3, OpenConnectionMapped
  <2>4. CASE GetPktHdr
    BY <2>4, GetPktHdrMapped
  <2>5. CASE GetPktHdrFails \/ DispatchDisconnect \/ UploadFails \/ Shutdown
    <3>1. ForceDisconnect /\ UNCHANGED params
      BY <2>5 DEF GetPktHdrFails, DispatchDisconnect, UploadFails, Shutdown
    <3> QED
      BY <3>1, Dropping DEF Serves
  <2>6. CASE DispatchHandshake
    BY <2>6, DispatchHandshakeMapped
  <2>7. CASE Dispatch
    BY <2>7, DispatchMapped
  <2>8. CASE Grow
    BY <2>8, GrowMapped
  <2>9. CASE GetPkt
    BY <2>9, GetPktMapped
  <2>10. CASE ClearPkt
    BY <2>10, ClearPktMapped
  <2>11. CASE Install
    BY <2>11, InstallMapped
  <2>12. CASE ConnectFirst
    BY <2>12, ConnectFirstMapped
  <2>13. CASE ConnectSecond
    BY <2>13, ConnectSecondMapped
  <2>14. CASE Reply
    BY <2>14, ReplyMapped
  <2>15. CASE Upload
    BY <2>15, UploadMapped
  <2> QED
    BY <2>1, <2>2, <2>3, <2>4, <2>5, <2>6, <2>7, <2>8, <2>9, <2>10, <2>11, <2>12, <2>13,
       <2>14, <2>15 DEF Next, Host, Target, Done
<1> QED
  BY Invariant, Framing, <1>1, <1>2, <1>3, PTL DEF Spec, ImplementsRequests, Requested!Spec
=============================================================================
