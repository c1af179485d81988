------------------------------ MODULE UartRecv ------------------------------
(***************************************************************************)
(* The UART receive block (UARTRecv of mdaquart.c): messages of a fixed    *)
(* size behind a header are cut out of a byte stream that is read in       *)
(* pieces. What a piece leaves over is kept in statics, which all blocks   *)
(* share. Reads and lines are external: a read gets some of the bytes it   *)
(* asks for, or none in time.                                              *)
(***************************************************************************)
EXTENDS SequencesExt

CONSTANTS
  Blocks,        \* the UART receive blocks of the model, each with its own line
  Size,          \* per block: the size of its messages
  Header,        \* the bytes of msg_header
  Framed,        \* the blocks with use_msg_header
  Stream,        \* per block: the bytes that its line will bring
  RxBufSize      \* RX_BUF_SIZE: rx_buffer is that and a header long

HeaderLen == Len(Header)   \* sizeof(msg_header)

VARIABLES
  rx_buffer,     \* its first rx_buf_idx bytes
  msg_header_at,
  pos,           \* per block: bytes of its stream that were read
  data, status,  \* per block: the outputs
  given          \* history, per block: the messages it has output, and where in its
                 \* stream they were read

rx_buf_idx == Len(rx_buffer)
out == <<data, status, given>>
vars == <<rx_buffer, msg_header_at, pos, out>>

TimedOut == -1

TypeOK ==
  /\ \A b \in Blocks : pos[b] \in 0 .. Len(Stream[b])
  /\ msg_header_at \in 0 .. HeaderLen - 1
  /\ \A b \in Blocks : status[b] \in {TimedOut} \cup 0 .. Size[b] + HeaderLen

Init ==
  /\ rx_buffer = << >> /\ msg_header_at = 0
  /\ pos = [b \in Blocks |-> 0] /\ data = [b \in Blocks |-> << >>]
  /\ status = [b \in Blocks |-> 0] /\ given = [b \in Blocks |-> << >>]

-----------------------------------------------------------------------------
\* mdaq_uart_read, at rx_buffer + rx_buf_idx, of so many bytes at most.
ReadLen(b) == Size[b] + HeaderLen - rx_buf_idx
Readable(b, n) == n <= ReadLen(b) /\ n <= Len(Stream[b]) - pos[b]
Piece(b, n) == SubSeq(Stream[b], pos[b] + 1, pos[b] + n)
Reads(b, n) == Readable(b, n) /\ pos' = [pos EXCEPT ![b] = @ + n]

\* msg is output, the first of so many bytes that were read last.
Outputs(b, msg, bytes) ==
  /\ data' = [data EXCEPT ![b] = msg] /\ status' = [status EXCEPT ![b] = Size[b]]
  /\ given' = [given EXCEPT ![b] = Append(@, [at |-> pos'[b] - bytes + 1, msg |-> msg])]
Reports(b, result) == status' = [status EXCEPT ![b] = result] /\ UNCHANGED <<data, given>>

\* Nothing came.
ReadNothing(b) ==
  /\ \E result \in {0, TimedOut} : Reports(b, result)
  /\ UNCHANGED <<rx_buffer, msg_header_at, pos>>

\* The beginning of a message is there: it is added to, and output once it is long
\* enough, without what was read beyond it.
Continues == rx_buf_idx > 0 /\ msg_header_at = 0
Continue(b, n) ==
  /\ b \in Framed /\ n > 0 /\ Reads(b, n) /\ Continues
  /\ LET all == rx_buffer \o Piece(b, n) IN
     IF Len(all) >= Size[b]
     THEN Outputs(b, SubSeq(all, 1, Size[b]), Len(all)) /\ rx_buffer' = << >>
     ELSE rx_buffer' = all /\ UNCHANGED out
  /\ UNCHANGED msg_header_at

\* The bytes of a piece are compared with the header, from where the last one left
\* off: after each byte how much of the header is matched, and where it has ended.
Scanned(piece) ==
  LET after[k \in 0 .. Len(piece)] ==
        IF k = 0 THEN [at |-> msg_header_at, end |-> 0]
        ELSE IF after[k - 1].end > 0 THEN after[k - 1]
        ELSE LET at == IF piece[k] = Header[after[k - 1].at + 1] THEN after[k - 1].at + 1 ELSE 0
             IN [at |-> at, end |-> IF at = HeaderLen THEN k ELSE 0]
  IN after
Scan(piece) == Scanned(piece)[Len(piece)]

\* A header ends in the piece: what follows is a message, or the beginning of one. No
\* more than RX_BUF_SIZE bytes of it are moved to the front of rx_buffer, yet all of them
\* are counted: behind those the buffer holds what it held.
Moved(piece, rest) ==
  [k \in 1 .. Len(rest) |-> IF k <= RxBufSize THEN rest[k] ELSE piece[k]]
FoundKeepsAll(b, piece, end) ==                                        \* mutant
  /\ msg_header_at' = 0
  /\ IF Len(piece) - end = Size[b]
     THEN Outputs(b, SubSeq(piece, end + 1, Len(piece)), Size[b]) /\ rx_buffer' = << >>
     ELSE rx_buffer' = piece /\ Reports(b, TimedOut)
Found(b, piece, end) ==
  /\ msg_header_at' = 0
  /\ LET rest == SubSeq(piece, end + 1, Len(piece)) IN
     IF Len(rest) = Size[b]
     THEN Outputs(b, rest, Size[b]) /\ rx_buffer' = << >>
     ELSE rx_buffer' = Moved(piece, rest) /\ Reports(b, TimedOut)

Search(b, n) ==
  /\ b \in Framed /\ n > 0 /\ Reads(b, n) /\ ~Continues
  /\ LET scan == Scan(Piece(b, n)) IN
     IF scan.end > 0 THEN Found(b, Piece(b, n), scan.end)
     ELSE msg_header_at' = scan.at /\ UNCHANGED rx_buffer /\ Reports(b, TimedOut)

\* Without a header the number of bytes is all that gets out of the function.
ReadPlain(b, n) ==
  /\ b \notin Framed /\ n > 0 /\ Reads(b, n) /\ Reports(b, n)
  /\ UNCHANGED <<rx_buffer, msg_header_at>>

UARTRecv(b) ==
  \/ ReadNothing(b)
  \/ \E n \in 1 .. Len(Stream[b]) : Continue(b, n) \/ Search(b, n) \/ ReadPlain(b, n)

Next == \E b \in Blocks : UARTRecv(b)

Spec == Init /\ [][Next]_vars

-----------------------------------------------------------------------------
\* What is output is what is behind a header in the stream of the block: never
\* bytes of two messages, a part of a header, or noise. (A block without a header
\* that is read in between leaves the beginning of a message alone.)
Behind(b, k) == k > HeaderLen /\ SubSeq(Stream[b], k - HeaderLen, k - 1) = Header
Genuine ==
  \A b \in Framed : \A j \in DOMAIN given[b] :
    LET at == given[b][j].at IN
    Behind(b, at) /\ given[b][j].msg = SubSeq(Stream[b], at, at + Size[b] - 1)

\* Messages are output in the order of the stream, and no byte of it is part of two of
\* them or of one's header, though some are lost with what was read beyond another.
InOrder ==
  \A b \in Framed : \A j, k \in DOMAIN given[b] : j < k =>
    given[b][j].at + Size[b] + HeaderLen <= given[b][k].at

\* The length asked of mdaq_uart_read is never zero or negative, which as unsigned
\* is any number of bytes, behind the end of rx_buffer.
RoomToRead == \A b \in Blocks : ReadLen(b) > 0

\* OutputFcnSpec "UARTRecv(uint8 p1, uint8 y1[p2], int32 y2[1], ...": a positive
\* status counts bytes that are in the output y1.
StatusMeansData == \A b \in Blocks : status[b] > 0 => data[b] # << >>
=============================================================================
