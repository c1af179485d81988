------------------------------ MODULE IOBlocks ------------------------------
(***************************************************************************)
(* The blocks that keep something from one step of the model to the next:  *)
(* ToFile (DataFile), UART receive (UartRecv) and memory read (MemRead).   *)
(* Their statics are their own, so a model with one kind of them at a time *)
(* has all they can do.                                                    *)
(***************************************************************************)
EXTENDS Integers, Sequences

CONSTANTS
  MaxIdx, MaxRecords,               \* of DataFile
  Lines, Size, Header, Framed, Stream, RxBufSize,   \* of UartRecv
  Models, MaxBlocks, MaxSteps       \* of MemRead

\* No model has more memory read blocks than slots. A UART message has at most 255 bytes
\* (p2 of lct_genblocks.m:204 is a uint8) and RX_BUF_SIZE is 512.
ASSUME BlocksAssumption ==
  /\ MaxIdx \in Nat \ {0} /\ MaxRecords \in Nat
  /\ Framed \subseteq Lines /\ Header # << >>
  /\ RxBufSize \in Nat /\ \A b \in Lines : Size[b] \in Nat \ {0} /\ Size[b] <= RxBufSize
  /\ MaxBlocks \in Nat /\ \A m \in Models : Len(m) <= MaxBlocks

VARIABLES
  kind,     \* of the blocks in the model
  phase, turn, doubleBuffering, mem, idx, inUse, fd, jobs, file, logged, late,
  rx_buffer, msg_header_at, pos, data, status, given,
  blocks, block_num, mem_idx, mem_start_idx, steps, out

fileVars == <<phase, turn, doubleBuffering, mem, idx, inUse, fd, jobs, file, logged, late>>
uartVars == <<rx_buffer, msg_header_at, pos, data, status, given>>
memoryVars == <<blocks, block_num, mem_idx, mem_start_idx, steps, out>>
vars == <<kind, fileVars, uartVars, memoryVars>>

File == INSTANCE DataFile WITH NumBlocks <- 1
Uart == INSTANCE UartRecv WITH Blocks <- Lines
Memory == INSTANCE MemRead

Init ==
  /\ File!Init /\ Uart!Init /\ Memory!Init
  /\ \/ kind \in {"file", "uart"} /\ blocks = CHOOSE m \in Models : TRUE
     \/ kind = "memory"

FileStep == kind = "file" /\ File!Next /\ UNCHANGED <<kind, uartVars, memoryVars>>
UartStep == kind = "uart" /\ Uart!Next /\ UNCHANGED <<kind, fileVars, memoryVars>>
MemoryStep == kind = "memory" /\ Memory!Next /\ UNCHANGED <<kind, fileVars, uartVars>>

Next == FileStep \/ UartStep \/ MemoryStep

Spec == Init /\ [][Next]_vars

-----------------------------------------------------------------------------
\* As long as no write took longer than a half is for, the file of a block is the
\* beginning of what the block has logged: nothing lost, doubled or out of order.
FileInOrder == File!FileInOrder

\* "write data remaining in buffer": after ToFileTerminate all of it is there.
FileComplete == File!FileComplete

\* A UART block outputs messages of its line, from behind a header, in the order of
\* the line and no byte twice, however the line is cut into pieces.
MessagesAreGenuine == Uart!Genuine /\ Uart!InOrder /\ Uart!RoomToRead

\* The vector a memory block outputs is the next one of its region, whatever steps
\* other blocks take, as long as the block is periodic or has a vector left.
InTurn == Memory!InTurn
=============================================================================
