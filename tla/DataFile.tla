------------------------------ MODULE DataFile ------------------------------
(***************************************************************************)
(* The ToFile block (mdaqfile.c): each step puts a record into one of two  *)
(* halves of shared memory; a full half is handed to the device with a     *)
(* write that does not wait (external), and the halves are swapped,        *)
(* whatever writes have not ended. The device copies while the model goes  *)
(* on.                                                                     *)
(***************************************************************************)
EXTENDS SequencesExt

CONSTANTS
  NumBlocks,     \* ToFile blocks of the model
  MaxIdx,        \* buff_max_idx when double buffering
  MaxRecords     \* bound: steps of each block

Blocks == 1 .. NumBlocks
Halves == {0, 1}

VARIABLES
  phase, turn,        \* the generated code: which call comes next, for which block
  doubleBuffering,
  mem,                \* the halves: a record in each cell
  idx,                \* records in the buffer in use
  inUse,              \* buff_in_use
  fd,                 \* file_fd: the file of which block, or 0
  jobs,               \* the writes that the device has not ended
  file,               \* what is in the file of each block
  logged,             \* history: steps of each block
  late                \* history: a write took longer than a half is for

buffers == <<mem, idx, inUse>>
vars == <<phase, turn, doubleBuffering, buffers, fd, jobs, file, logged, late>>

Record(b, n) == <<b, n>>
Blank == <<0, 0>>

TypeOK ==
  /\ phase \in {"init", "step", "terminate", "done"} /\ turn \in Blocks
  /\ doubleBuffering \in BOOLEAN
  /\ DOMAIN mem = Halves /\ \A h \in Halves : DOMAIN mem[h] = 0 .. MaxIdx - 1
  /\ idx \in 0 .. MaxIdx - 1 /\ inUse \in Halves /\ fd \in Blocks \cup {0}
  /\ \A k \in DOMAIN jobs : jobs[k].pos < jobs[k].len /\ jobs[k].len <= MaxIdx
  /\ DOMAIN file = Blocks /\ logged \in [Blocks -> 0 .. MaxRecords] /\ late \in BOOLEAN

Init ==
  /\ phase = "init" /\ turn = 1 /\ doubleBuffering = FALSE
  /\ mem = [h \in Halves |-> [c \in 0 .. MaxIdx - 1 |-> Blank]]
  /\ idx = 0 /\ inUse = 0 /\ fd = 0 /\ jobs = << >>
  /\ file = [b \in Blocks |-> << >>] /\ logged = [b \in Blocks |-> 0]
  /\ late = FALSE

\* The generated code calls the blocks one after the other.
NextTurn(after) ==
  IF turn < NumBlocks THEN turn' = turn + 1 /\ UNCHANGED phase
  ELSE turn' = 1 /\ phase' \in after

-----------------------------------------------------------------------------
\* Every block uses file_data[0], and all of them set it up. A model faster than
\* WRITE_FREQ is double buffered.
ToFileInit ==
  /\ phase = "init" /\ NextTurn({"step"})
  /\ fd' = turn
  /\ mem' = [h \in Halves |-> [c \in 0 .. MaxIdx - 1 |-> Blank]]
  /\ doubleBuffering' \in BOOLEAN
  /\ UNCHANGED <<idx, inUse, jobs, file, logged, late>>

Job(len) ==
  [file |-> fd, half |-> inUse, len |-> len, pos |-> 0, at |-> logged'[1]]

\* A write takes less than the tenth of a second that a half is for when double
\* buffered, and less than a step of the model when not. Nothing in the code sees to it.
DeviceKeepsUp ==
  \A k \in DOMAIN jobs : doubleBuffering /\ logged[1] - jobs[k].at < MaxIdx

\* The record, and the write when there are enough of them.
SwapForgotten ==                                                       \* mutant
  IF ~doubleBuffering \/ idx + 1 >= MaxIdx
  THEN /\ jobs' = Append(jobs, Job(idx + 1)) /\ idx' = 0 /\ UNCHANGED inUse
  ELSE idx' = idx + 1 /\ UNCHANGED <<jobs, inUse>>
WriteWhenFull ==
  IF ~doubleBuffering \/ idx + 1 >= MaxIdx
  THEN /\ jobs' = Append(jobs, Job(idx + 1)) /\ idx' = 0
       /\ inUse' = IF doubleBuffering THEN 1 - inUse ELSE inUse
  ELSE idx' = idx + 1 /\ UNCHANGED <<jobs, inUse>>

ToFileStep ==
  /\ phase = "step" /\ logged[turn] < MaxRecords
  /\ NextTurn({"step", "terminate"})
  /\ logged' = [logged EXCEPT ![turn] = @ + 1]
  /\ mem' = [mem EXCEPT ![inUse][idx] = Record(turn, logged'[turn])]
  /\ late' = (late \/ ~DeviceKeepsUp)
  /\ WriteWhenFull
  /\ UNCHANGED <<doubleBuffering, fd, file>>

\* mdaq_file_flush2 waits for the device, then the rest is written.
TerminateAtOnce ==                                                     \* mutant
  /\ phase = "terminate" /\ NextTurn({"done"})
  /\ file' = IF fd = 0 THEN file
             ELSE [file EXCEPT ![fd] = @ \o [k \in 1 .. idx |-> mem[inUse][k - 1]]]
  /\ idx' = 0 /\ inUse' = 0 /\ fd' = 0
  /\ UNCHANGED <<doubleBuffering, mem, jobs, logged, late>>
ToFileTerminate ==
  /\ phase = "terminate" /\ jobs = << >> /\ NextTurn({"done"})
  /\ file' = IF fd = 0 THEN file
             ELSE [file EXCEPT ![fd] = @ \o [k \in 1 .. idx |-> mem[inUse][k - 1]]]
  /\ idx' = 0 /\ inUse' = 0 /\ fd' = 0
  /\ UNCHANGED <<doubleBuffering, mem, jobs, logged, late>>

\* The device copies record by record from the memory as it is then.
Transfer ==
  /\ jobs # << >>
  /\ LET job == Head(jobs) IN
     /\ file' = [file EXCEPT ![job.file] = Append(@, mem[job.half][job.pos])]
     /\ jobs' = IF job.pos + 1 < job.len THEN [jobs EXCEPT ![1].pos = @ + 1]
                ELSE Tail(jobs)
  /\ UNCHANGED <<phase, turn, doubleBuffering, buffers, fd, logged, late>>

Done ==
  /\ jobs = << >> /\ UNCHANGED vars
  /\ phase = "done" \/ (phase = "step" /\ logged[turn] = MaxRecords)

Next == ToFileInit \/ ToFileStep \/ ToFileTerminate \/ Transfer \/ Done

Spec == Init /\ [][Next]_vars

-----------------------------------------------------------------------------
Logged(b, n) == [k \in 1 .. n |-> Record(b, k)]

\* As long as no write took longer than a half is for, the file of a block is the
\* beginning of what the block has logged: nothing lost, doubled or out of order,
\* however the device's copying and the steps of the model come in between each other.
FileInOrder == ~late => \A b \in Blocks : IsPrefix(file[b], Logged(b, logged[b]))

\* "write data remaining in buffer": after ToFileTerminate all of it is there.
FileComplete ==
  phase = "done" /\ ~late => \A b \in Blocks : file[b] = Logged(b, logged[b])

\* "Support calling from within For-Each subsystem": the block can be there more
\* than once, each with a file of its own.
OwnFile == \A b \in Blocks : \A k \in DOMAIN file[b] : file[b][k][1] = b
=============================================================================
