------------------------------ MODULE MemRead -------------------------------
(***************************************************************************)
(* The block that outputs what the host has written to memory              *)
(* (mdaqmemrd.c): each step copies from the block's index, which its start *)
(* finds, and moves the index on by a vector. Addresses count elements.    *)
(***************************************************************************)
EXTENDS FiniteSetsExt, Integers, Sequences

CONSTANTS
  Models,       \* the blocks a model has, in the order they are started
  MaxBlocks,    \* MAX_MEM_READ_BLK; a model has no more of them
  MaxSteps      \* steps of a block

VARIABLES
  blocks,       \* the model: [start, size, vec, periodic] of each block
  block_num,    \* blocks whose MEMRDInit was called
  mem_idx,      \* per slot the index of the next copy
  mem_start_idx,
  steps,        \* per block its steps
  out           \* per block its last copy, which has data_size elements: where from

vars == <<blocks, block_num, mem_idx, mem_start_idx, steps, out>>

Slots == 0 .. MaxBlocks - 1
BlockIds == 1 .. Len(blocks)
RegionEnd(b) == blocks[b].start + blocks[b].size
NoCopy == [from |-> 0, len |-> 0]

\* Types; an index never goes further than a vector beyond the end of its region.
TypeOK ==
  /\ blocks \in Models /\ block_num \in 0 .. Len(blocks)
  /\ \A s \in Slots : mem_idx[s] >= mem_start_idx[s]
  /\ \A b \in 1 .. block_num : \A s \in 0 .. block_num - 1 :
       mem_start_idx[s] = blocks[b].start => mem_idx[s] < RegionEnd(b) + blocks[b].vec
  /\ steps \in [BlockIds -> 0 .. MaxSteps]
  /\ \A b \in BlockIds : out[b].len \in {0, blocks[b].size}

Init ==
  /\ blocks \in Models /\ block_num = 0
  /\ mem_idx = [s \in Slots |-> 0] /\ mem_start_idx = [s \in Slots |-> 0]
  /\ steps = [b \in BlockIds |-> 0] /\ out = [b \in BlockIds |-> NoCopy]

-----------------------------------------------------------------------------
MEMRDInit ==
  /\ block_num < Len(blocks)
  /\ mem_idx' = [mem_idx EXCEPT ![block_num] = blocks[block_num + 1].start]
  /\ mem_start_idx' = [mem_start_idx EXCEPT ![block_num] = blocks[block_num + 1].start]
  /\ block_num' = block_num + 1
  /\ UNCHANGED <<blocks, steps, out>>

\* A block has no handle: its slot is the first one with its start.
SlotsOf(b) == {s \in 0 .. block_num - 1 : mem_start_idx[s] = blocks[b].start}
SlotOfLast(b) == block_num - 1                                         \* mutant
SlotOf(b) == Min(SlotsOf(b))

\* A periodic block goes back to the start of its region when it is at the end.
IndexNow(b, idx) ==
  IF blocks[b].periodic /\ idx >= RegionEnd(b) THEN blocks[b].start ELSE idx

Advanced(b, idx) == IF idx < RegionEnd(b) THEN idx + blocks[b].vec ELSE idx

\* With all slots taken MEMRDStep does nothing. The copy has data_size elements, as many
\* as the region, from wherever the index is: it ends behind the region unless the index
\* is at the start.
MEMRDStep(b) ==
  /\ block_num = Len(blocks) /\ steps[b] < MaxSteps
  /\ steps' = [steps EXCEPT ![b] = @ + 1]
  /\ IF block_num >= MaxBlocks THEN UNCHANGED <<mem_idx, out>>
     ELSE LET s == SlotOf(b)
              idx == IndexNow(b, mem_idx[s]) IN
          /\ out' = [out EXCEPT ![b] = [from |-> idx, len |-> blocks[b].size]]
          /\ mem_idx' = [mem_idx EXCEPT ![s] = Advanced(b, idx)]
  /\ UNCHANGED <<blocks, block_num, mem_start_idx>>

Done == block_num = Len(blocks) /\ (\A b \in BlockIds : steps[b] = MaxSteps) /\ UNCHANGED vars

Next == MEMRDInit \/ (\E b \in BlockIds : MEMRDStep(b)) \/ Done

Spec == Init /\ [][Next]_vars

-----------------------------------------------------------------------------
\* mdaqmemrd.c: the output y1[p3] of a block is a vector, the beginning of what a step
\* copies. It is the next vector of the block's region, all of it inside the region,
\* whatever steps other blocks take; a periodic block goes round. (What the rest of the
\* copy overwrites is OutputFits'. A block that is not periodic has no next vector after
\* the last one: it copies from behind its region.)
VectorsLeft(b) == blocks[b].periodic \/ (steps[b] - 1) * blocks[b].vec < blocks[b].size
InTurn ==
  \A b \in BlockIds : steps[b] > 0 /\ VectorsLeft(b) =>
    /\ out[b].from = blocks[b].start + (((steps[b] - 1) * blocks[b].vec) % blocks[b].size)
    /\ blocks[b].vec <= out[b].len /\ out[b].from + blocks[b].vec <= RegionEnd(b)

\* lct_genblocks.m: 'MEMRDStep(single y1[p3], ...)'. The output has the elements of a
\* vector, and a step writes no more of them.
OutputFits == \A b \in BlockIds : out[b].len <= blocks[b].vec
=============================================================================
