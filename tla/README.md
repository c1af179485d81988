# MicroDAQ external mode: models, checks and proofs

This directory holds TLA+ models of the target side of Simulink external mode
as this repository ships it for the MicroDAQ (a TI C6000 DSP under SYS/BIOS).
The program logs signals of a running model into circular buffers, sends them
to the host, and is started, stopped and parameterised by packets of the host.

All C files named below without a directory are in
`src/microdaq_ert/microdaq/ext_mode/target/`; `updown` is `updown_c6000.c`,
`ext_svr` is `ext_svr_c6000.c`, `ext_work` is `ext_work_c6000.c`.

## The system

| Component | State | Operations | Interacts with |
|---|---|---|---|
| Circular upload buffers (`updown` 1184-1905) | per tid: `head`, `tail`, `newTail`, `empty`, the bytes | assign, copy, commit a time point; move the tail one step; list, send, release | clock Swi writes, background task reads |
| Upload triggers (`updown` 759-1281, 1515-1782) | `trigInfo`: state, count, duration, hold off, delay, pre-trigger | select, arm, check, fire, end, cancel, prepare the final flush, destroy | driven by the Swi at the base rate, and by packets |
| Upload server, logging sessions (`ext_svr` 821-902, `updown` 843-1063) | tables and buffers of two upInfos, the binary `uploadSem` | select signals, upload, end of an event, final flush, free | shares the semaphore and the trigger state with the Swi |
| Host link (`ext_svr` 109-760, 950-1187) | `connected`, `commInitialized`, `pktBuf` | open, connect handshake, header, payload, dispatch, disconnect | rtiostream below, everything else above |
| Start, stop, termination (`ext_main.c`, `ext_work`) | `extmodeSimStatus`, `modelStatus`, stop request, error status, `OverrunFlags`, the Clock, `term` | start up, step, stop, shut down, terminate | main, the Swi and the background task |
| Parameter download (`updown` 102-194) | the model's parameters | set, get | host link |
| rtiostream transport (`rtiostream_interface_mdaq.c`, `rtiostreamtgt.c`) | connected socket | open (waits for a host), receive (polls), send, close | mdaq network library |
| I/O blocks (`src/microdaq_ert/blocks/*.c`) | double buffers of files, UART carry over, memory block numbers, encoder positions | initialise, step, terminate | mdaq library |
| Host tools (`src/microdaq_ert/tools`, `*.m`) | a link id | open, scan, close, download | MLink library |
| Code generation and build | none at run time | templates, target classes, legacy code tool | |

Two threads of control run at once. The **clock Swi** (`rt_task_function`)
steps the model every base period, runs to completion, and preempts the
**background task** (`rtExtModeOneStep`, priority 1), which handles at most one
packet and then lets the upload server work on every upInfo. Before `BIOS_start`
main itself serves packets until the start packet comes. Nothing is locked:
what keeps the two apart is the order of single stores, the trigger state, and a
binary semaphore that is never waited for.

Hard behaviours: a Swi between two stores of the server; decisions on a list
made earlier; points given up half way; one semaphore for two sessions; a
disconnect or a failed send in the middle of an upload; the order of freeing and
resetting; three ways a model can end at once. `hazards` in `PROJECT.json` names
each at its line.

What makes each component correct:
* buffers: no accepted cell is overwritten, lost, doubled or reordered; a point is
  refused only for want of room; an event is uploaded and ends;
* triggers: an event has its duration; a cancelled one is not re-armed; a
  pre-trigger keeps the newest points;
* sessions: a running event is flushed before its memory goes; no data follows the
  end of an event; a disconnected target holds nothing; every event ends;
* life of the model: terminated once, not stepped afterwards, its error reported as it
  was set, a stop request gets to the end;
* host link: framing is kept whatever fails, one response per request, the
  handshake starts over after each disconnect;
* selections: whole or not there, nothing leaks, an armed trigger has its memory, also
  while memory is freed, and fires at crossings;
* blocks: the file is what was logged, a UART outputs only messages of its line, the
  vector that a memory block outputs is the next one of its region.

## Modules

`CircularBuf` - one buffer, at the granularity of memory accesses. Pointers are
offsets. A cell does not hold data but the position of that data in the stream
of everything logged, so that "the right byte in the right order" can be said.
`ppc` is where the Swi is in `UploadBufAddTimePoint` (one step per
`UploadBufAssignMem` and copy), `cpc` where the server is: `ScanBufs`
(`SetExtBufListFields`), `EndTest`, `SendSection1/2`, and `UploadBufDataSent`
as three steps `StoreTail`, `CompareHead`, `StoreEmpty`. A background step needs
`ppc = "idle"`: the Swi runs to completion.

`BoundedStream` - what a buffer promises, without pointers: cells accepted while
open, at most `Capacity` outstanding, released in order, closed and reopened. Its
one exception, `Spoil`, is the finding about `UploadBufDataSent`.
`CircularBuf!Stream` instantiates it (`phase <- Phase`, `accepted <- wpos`,
`released <- rpos`), and `ImplementsStream` is checked and proved.

`UploadTrigger` - the trigger state machine of one upInfo as operators on a
record. Buffers are counters here: `BoundedStream` is what they rely on.
`Tick` is one whole base rate tick (`UploadCheckTrigger`,
`UploadBufAddTimePoint` for each sample time that has a hit, which is `Uploaded`,
`UploadCheckEndTrigger`). `AddTimePoint` has the outcomes of that function: the
window slides (`Slide`), a point is stored (`Store`), there is nothing to store because
the sample time has no signals (1565) or no active system (1654, `Skip`), or no room
(`GiveUp`). `Inputs` is what a tick finds: a crossing, the sample times with an active
system, and whether a full buffer lacks room for a header as well.

`UploadSession` - both upInfos, the semaphore and the background task composed
with `UploadTrigger`. `srv` is the program counter of the task and its locals:
`pkt` (one packet action per handler), `pend`, `get`, `test`, `send`, and for a
final flush `prepare`, `free`, `reset`.

`ModelRun` - main, the Swi in both builds, and the background task, from start to
termination; the data logging is left out, its control is in `UploadSession`. The
generated code may set any error status, and `Terminate` prints what `rt_TermModel`
prints (380-387).

`MultiRate` - `rt_OneStep` of the multitasking build, statement by statement, with
a timer that may run ahead of the Swi: `Call`, `BaseOverrun`, `UpdateEvent` (the
task counters and event flags), `StepBase`, `StepSubrate`, `Return`.

`HostLink` - each receive, send and allocation of `rt_PktServerWork` and its
handlers is a step of `tgt`: `GetPktHdr`, `Dispatch`, `Grow`, `GetPkt`,
`ClearPkt`, `Install` (the handlers that copy a payload, parameter download among
them), `ConnectFirst/Second`, `Reply`, then `Upload`. The host's packets are a
stream of units that `Deliver` brings one by one; `taken` is how far the target has
read it. `HostSends`, `HostCloses`, `Breaks` and `Deliver` are external.

`RequestLink` - what that server promises to a host: requests are served in order
and once, each is answered once with what serving it did, a download takes effect
as a whole if and only if it was answered OK. `HostLink!Requested` instantiates it
(`served` counts the packets that were read to the end and have taken effect).

`UploadTables` - `UploadLogInfoInit`, `InitSysUploadTable`, `UploadBufInit`,
`UploadInitTrigger` and `UploadLogInfoTerm` with a step for every allocation,
each of which may fail, and steps `FreeTables`, `FreeBufs`, `FreeTrigger` and `Reset`
in the order in which memory is freed and the trigger unarmed (890-928, 804-817). `by`
is the caller of `UploadLogInfoTerm`. `heap` is what is allocated, `ptrs` which
pointers are set, `lost` whose pointer was overwritten; `at = "wild"` is behind the
use of a NULL pointer, `"dangling"` behind the use of freed memory by the Swi.

`TrigSignals` - `UploadCheckTriggerSignals`: the comparison with the old values
of the signals, and where in memory those are kept.

`LoggingMemory` - the two above composed: the background task selects, arms,
disconnects and ends sessions while the Swi checks the signals at any point between,
also between two steps of freeing.

`DataFile`, `UartRecv`, `MemRead` - the I/O blocks that keep statics from step to
step: the double buffer of `mdaqfile.c` against a device that copies while the model
runs on, the buffer of partial messages of `mdaquart.c`, the shared index table
of `mdaqmemrd.c`. `IOBlocks` is a model with blocks of one of these kinds (`kind`),
since their statics have nothing in common.

`MC*` modules give the constants of runs; `*Proofs` modules hold the proofs of
the module of that name.

The last fields of records and the variables called history only observe.
Definitions marked `mutant` are not part of any specification: each is a
plausible mistake in the definition after it, and the run of the property it
belongs to fails with it.

### What the models assume

* The Swi preempts the background task between memory accesses and runs to
  completion; the background task never preempts it. Stores take effect in
  program order (`UploadBufDataSent` is plain C; the compiler could reorder it).
* The header of a time point is written at the end of
  `UploadBufAddTimePoint`, into the cells assigned at its beginning; the model
  fills them when they are assigned. They are not visible before `head` moves.
* `MOVE_TAIL_ONESTEP` reads the size of a point from the word after `tail`. When
  that word is outside the allocation `tail` goes astray, and the model ends there
  (`astray`): the properties of `CircularBuf` say what holds until then. It happens
  in the run, whose points reach the last word (counterexample `SizesAreRead`).
* In `UploadSession` a tick is one step, and a trigger signal crosses or does not
  cross by choice; the host selects signals, selects a trigger and arms it in this
  order and between events, as the asserts of `UploadArmTrigger` demand; the
  single tasking build is modelled. `Activities` says whether the model has
  conditional subsystems, whose systems may be inactive at a tick. A window of one
  point that slides makes its buffer look full, as in finding `pre_trigger_of_one`.
  What the Swi does with freed buffers is not followed up (`wild`).
* `rt_PktServerWork` may read a packet in the call that opens the connection. In
  the models it is the packet of the next call, with nothing to upload between.
* `HostLink`: receives and sends have the results of BSD sockets (a poll without
  data, an orderly close, an error that stays), assumed of the mdaq network library.
  The host may pipeline, but asks for nothing before it has both connect responses,
  and for nothing after a packet that ends the connection or the model. `SetParam` and
  `ProcessGetParamsPkt` copy in one step: a model step in the middle is left out.
* `MultiRate`: a Swi cannot preempt itself; ticks that come meanwhile are counted and
  served afterwards (SYS/BIOS).
* `UploadTables`, `LoggingMemory`: the host selects at least one system, and a trigger
  after the signals and not while one is armed; it may select a second one. Memory
  behind an allocation belongs to others, who may change it. The Swi runs between any
  two steps of the task. The use of a NULL or of freed memory is undefined: nothing is
  said of what follows. The re-arming of a trigger after its hold off is in
  `UploadSession`.
* `IOBlocks`: one ToFile block, whose steps go on whatever writes have not ended. `late`
  records that a write took longer than a half is for (`DeviceKeepsUp`: a tenth of a
  second when double buffered, a step of the model when not); nothing is claimed of the
  file from then on. One UART block with a message header, and messages for which
  `rx_buffer` has room (the size is a `uint8` and `RX_BUF_SIZE` is 512); memory read
  blocks with starts of their own, fewer than slots.
  The section on counterexamples shows what happens with two files, two UARTs and two
  equal starts, and `FiresOnCrossing` is checked with one section of signals for
  the same reason.
* Failed sends of responses and of termination packets change no state in the
  code, and none here. Generated code is external: it may set any error status (the end
  of the simulation is one, which is not reported as an error), and the stop request.
* A packet type that was not received is an uninitialized variable: a choice.

## Runs

| Run | Configuration | Shows |
|---|---|---|
| `circular_buf` | 12 cells, header 2, points of 2 (no active system), 4 and 7, sections of 1 and 3, pre-trigger 0 or 2, 21 cells in all | pointers in range, nothing overwritten or reordered, `empty` exact outside `UploadBufDataSent`, the pre-trigger window, overflow only without room, `BoundedStream` implemented, a terminating event ends |
| `upload_session` | one upInfo, 2 sample times with or without signals and active systems, room for 2 points, a manual one shot and a re-armed delayed trigger | length of events, cancel sticks, final flush, no data after the end, what is listed stays, the Swi does not use what is freed after the flush of a running event or in a shutdown |
| `upload_infos` | 2 upInfos, 1 sample time, room for 3 points, a manual one shot and a re-armed pre-trigger of 2 points | a disconnected target holds nothing, a pre-trigger only drops what is there and counts towards the length of the event, an upInfo that is served ends its event |
| `model_run` | both builds, with and without waiting for the start packet, with any error of the generated code | one termination, no step after it, the error status that is printed is the one that was set (single tasking build), a stop request gets to the end |
| `host_link` | requests of all kinds, downloads of one and two sections, packets in any pieces, every allocation may fail, 3 packets on each of 2 connections | framing is kept, payloads fit, `RequestLink` implemented, a broken line is dropped, the next connection starts afresh, each request is answered or the connection ends |
| `multi_rate` | subrates of 2 and 3 ticks, 2 waiting ticks, 7 base steps | each subrate is stepped once for each of its hits, in order, and no step that came in time is accused |
| `logging_memory` | 3 sample times, selections of 1 to 3 systems, two of which do not fit, any allocation may fail, one or two signals of 3 values | nothing leaks but a trigger selected twice, no allocation of a selection overwrites a pointer, a selection is whole or not there, an armed trigger has its memory unless a disconnect request or a selection takes it, and fires exactly at crossings |
| `io_blocks` | halves of 3 records and 10 steps; messages of 3 behind a header of 2 in a line with noise, broken headers and short messages; two memory blocks of 1 to 3 vectors, 7 steps | the file is what was logged, whole at the end, as long as the device keeps up; only messages of the line, in order and no byte twice; a block outputs the next vector of its region, inside it, while it has one |

Runs that show a comment of the code not to hold (`findings`):

| Run | Comment | What happens |
|---|---|---|
| `head_at_tail` | `updown` 1303 "head == tail represents an empty buffer" | the Swi fills the buffer between the store of `tail` and the comparison; all of it is dropped |
| `pre_trigger_of_one` | `updown` 1582 "Advance the tail" | `tail` meets `head`, `empty` stays false, the newest points are refused |
| `final_flush` | `updown` 962, `ext_svr` 1229 | three buffers per call: with three sample times the end of the event is not sent before the buffers are freed |
| `events_end` | `updown` 1778 "Let upload server run" | the other upInfo takes every post of the semaphore |

### Further counterexamples

These configurations violate the property they check. They delimit the runs above:
each is a case that a passing run leaves out, because the code does not have the
property there. `tlc -config X.cfg M` shows the behaviour; where the configuration
is that of a passing run, put the property named in it first.

| Configuration (module) | What is said | What the code does |
|---|---|---|
| `MCEndsDrained` (`MCCircularBuf`) | `updown` 1886: "If all bufs are empty and we are terminating then we're now done!" | the last point is committed between the list and the test (1888), and thrown away |
| `MCEndShutsDown` (`MCModelRun`) | `ext_svr` 1229: "the target reaching tfinal while data uploading is in progress" | the final time (`ext_main.c` 194) terminates the model; the background task is not told and does not flush |
| `MCClosedIsDropped` (`MCHostLink`) | `rtiostream_interface_mdaq.c` 366: "we want the target to disconnect from the host" | an orderly close is a receive of 0 (`rtiostreamtgt.c` 50), taken for no data: the target never waits for a new host |
| `MCHaveAPacket` (`MCHostLink`) | `ext_svr` 1001: "At this point we know that we have a packet" | the payload of a packet of unknown type (1165) is taken for the next header |
| `MCOverrunIsSeen` (`MCMultiRate`) | `ext_main.c` 250: "Check and see if base step time is too fast" | the Swi cannot preempt itself, so `OverrunFlags[0]` is 0 at every call: a late base rate step goes unseen |
| `MCFailureIsReturned` (`MCUploadTables`) | `updown` 974: "Return the error status." | `UploadLogInfoTerm` (892) walks `sysTables` and maps that were never allocated, and the `calloc` of `circBufs` is not tested |
| `MCTwoSections` (`MCTrigSignals`) | `updown` 1134: "Allocate space to hold the old values of the trigger signals." | a `real_T` pointer is advanced by bytes (1467): old values of a second section are outside of that space, and the trigger fires without a crossing |
| `MCOwnFile` (`DataFile`) | `lct_genblocks.m` 245: "Support calling from within For-Each subsystem" | `block_num` is 0 in every call (`mdaqfile.c` 101): two blocks write into the file started last |
| `MCUartPlain` (`MCUartRecv`) | `lct_genblocks.m` 204: `y1[p2]` is the data | without a header (`mdaquart.c` 145) a count is reported and nothing copied to `data` |
| `MCTwoUarts` (`MCUartRecv`) | `lct_genblocks.m` 206: "Support calling from within For-Each subsystem" | the static buffer (`mdaquart.c` 79) mixes the lines of two blocks into one message |
| `MCOutputFits` (`MCMemRead`) | `lct_genblocks.m` 119: `y1[p3]` | `data_size` elements are copied (`mdaqmemrd.c` 51) into an output of one vector |
| `MCModelRun` (`MCModelRun`) with `IsrOverrunIsReal` for `ErrorIsReported` | `ext_main.c` 384: "ISR overrun - sampling rate too fast" | an early return leaves `OverrunFlags[0]` incremented (186, 193), so that line follows every error status, also without an overrun |
| `MCLoggingMemory` (`MCLoggingMemory`) with `NothingLost` for `NoLeak` | `ext_svr` 711: "an attempt to re-initialize the trigger selection" is an error | `UploadInitTrigger` (1113-1145) has only asserts against it: a second selection loses the sections and old values of the first |
| `MCLoggingMemory` (`MCLoggingMemory`) with `SwiFindsMemory` for `ArmedHasMemory` | `updown` 925: "Reset all vals to initial value and NULL out pointers." | after everything was freed: a disconnect request (`ext_svr` 247) or a selection (995) over an armed trigger frees what the Swi still uses until 817 |
| `MCCircularBuf` (`MCCircularBuf`) with `SizesAreRead` for `Intact` | `updown` 1313: "Move the tail of a circular buffer forward by one time step" | a point that starts in the last word has its size behind the allocation (1320), and `tail` goes anywhere |
| `MCSameRegion` (`MCMemRead`) | `lct_genblocks.m` 121: "Support calling from within For-Each subsystem" | blocks of one start share an index (`mdaqmemrd.c` 41), each skips what the other reads |

**Bounds.** Twelve cells are filled exactly by three middle points; a middle and a
large one leave the last cell, in which the next point may start. So points end at
the end of the buffer, wrap within a section or behind their first cell, fill it, do
not fit, and are given up with sections in; 21 cells in all let the stream go around
nearly twice, with `StreamBound` the only cap. Two points of room per
sample time make overflows happen within a duration of 3 and not within 2; three
let a window of two slide with the point that comes. Two
sample times are the least with a subrate; three are the least at which the limit
of three buffers per call bites (`final_flush`). `NumInfos = 2` is `NUM_UPINFOS`.
In `host_link` (`MaxPkts`, `MaxConns`) the handshake and two requests are the least
at which one request follows another that was refused, cut short or silent; a
second connection is what inherits state from the first. A header is two
units, so that it can arrive in parts, a payload up to two. In `multi_rate`
(`MaxPending`, `MaxSteps`, `MaxFlags`) seven steps go through all phases of periods
2 and 3, with ticks that wait. `logging_memory` has no bound besides its
selections. In `io_blocks` (`MaxRecords`, `MaxSteps`) ten records fill each half
and come back to it with one left over; the line is read to its end in pieces of all
sizes; seven steps go round each region twice. No symmetry is used.

**Fairness.** `CircularBuf`: the Swi completes a point it began (weak, it runs
to completion), and the background task gets the CPU again and again (strong,
because each of its steps needs the Swi to be idle): a model step that never
leaves time before the next tick is what `ext_main.c` 186 calls an overrun and
treats as fatal. `UploadSession`: the timer ticks and the task goes on.
`ModelRun`: each thread goes on. `HostLink`: the task goes on and what was sent
arrives. `MultiRate`: the Swi goes on. No fairness is assumed of the host, of
connections, or of the success of a send. `ServedEnds` takes as its
hypothesis that the pend of that upInfo succeeds again and again; `events_end`
shows that the code does not guarantee it. `LoggingMemory` and `IOBlocks` state
safety only.

## Proofs

`CircularBufProofs` (for every buffer size, section length and point length):
* `PointersStayInRange` without a pre-trigger, also when points are larger than the
  buffer. The others assume `PointsFit` (a point is not larger than an empty buffer: the
  host sizes the buffers for whole points) and `PreTrigsFit` (a pre-trigger is not of one
  point: finding `pre_trigger_of_one`). Sizes may be odd or even. When
  a point starts in the last cell, `MOVE_TAIL_ONESTEP` (1320-1323) reads its size behind the
  allocation and moves `tail` anywhere; from that read on (`astray`) the model leaves the
  buffer as it is and the theorems claim nothing about the code (`NextIsStep`: every
  other step is one of `Step`). That the read happens at all is shown by
  `SizesAreRead`, in the table above.
* `LoggedDataIsKept`, `EmptyFlagIsExact`, `OverFlowsAreExplained`,
  `BufferImplementsStream` (the refinement), and of the window before the trigger
  `WindowIsCounted` and `WindowKeepsNewest`.
* Argument: none of the properties is inductive, since they say nothing of what is
  between a store and its neighbour. `Fifo` in `CircularBuf` adds it:
  `Pointers` places `head` `Used` cells behind `tail` and says when `empty` and
  the pending comparison are exact; `Assigning` places `tmpHead` behind what
  the Swi has copied and not committed; `Contents` fixes every cell from `tail`
  to `tmpHead`; `Hosted` says how far the server is with its list. Once
  `UploadBufDataSent` has mistaken a full buffer (`misread`), nothing is claimed
  until the trigger is armed again. `Window` says that an armed buffer holds whole
  points, that `preTrig.count` counts them and is at most the duration, and less than it
  while a point is added: so the slide of the window drops the oldest point
  and never the last one. `FifoInv = RangeInv /\ FlagsOK /\ Fifo /\ Window` is inductive;
  one lemma per action. `EmptyIsExact` follows only outside `UploadBufDataSent`.

`ModelRunProofs` (both builds): `TerminationIsSingle`, `TerminationIsFinal`, from the
invariant `Life`: how often MODEL_TERMINATE was called
as a function of `term` and of where the task is, and that the clock is gone
from `ClockDelete` on, which is what keeps the test and the set of `term` together.
`ErrorsAreReported` adds `Told`: what `rt_TermModel` has printed or, once `term` is set,
what it will print in the single tasking build, for whatever error the generated code
set at whatever step. Which overrun it prints is not part of it: see
`IsrOverrunIsReal`.

`MultiRateProofs` (any number of subrates and any periods): `TypeCorrect`,
`NoFalseOverrun`. The invariant is `TypeOK /\ Settled /\ Counted`:
`Settled` says at each place of `rt_OneStep` which event and overrun flags are up,
`Counted` that the steps of a subrate, its pending one and the ticks left in its
counter add up to a multiple of its period. `RatesInOrder` (each hit stepped, once and
after the faster rates) adds `Fresh`: a flag is up
exactly when the counter of its subrate has just been reloaded, so that a hit belongs
to the tick that is being served.

`UploadTablesProofs` (any selections, sample times and failures): `SelectionIsWhole`,
`NothingIsOverwritten` (the asserts before each allocation of a selection) and `NothingLeaks`. `Progress` says what is
allocated at each place of `UploadLogInfoInit` and at each step of
`UploadLogInfoTerm`, which frees the tables, the buffers and the memory of the trigger one after the
other with the Swi between them; `Owned` that what is allocated has its pointer;
`OnlyTriggers` that nothing is ever lost but the sections and old values of a trigger
that is selected a second time, which `UploadInitTrigger` overwrites. All three are
claimed until a NULL is used for a table that was not allocated (`wild`), or the Swi
uses what was freed: after that the memory of the program may be anything.
`Vacant` adds for the asserts that what the loop has still to allocate has no pointer yet.

`HostLinkProofs` (any requests and parameters, any number of packets and
connections, packets cut at any unit, memory missing at any time):
* `PayloadFits`, `HandshakeComesFirst`, from `Locals`, `Buffered` (`pktBufSize` is the
  size of the buffer there is) and `Connection` (the flags of `ext_svr` follow the
  connection).
* `PacketsAreInStep` and `ServerServesRequests` (the refinement of `RequestLink`) under
  `OnlyKnown`: no packet is of a type the target does not know. That
  hypothesis is needed: the payload of such a packet is left on the line
  (counterexample `MCHaveAPacket`). The run `host_link` satisfies it.
* Argument: the invariant `FInv`. `Stream` says that the target has taken a whole
  number of packets and a part of the next one, which `tgt` determines (`Framed`), as
  long as the line has not failed; `Shaking` that the handshake is the first packet;
  `Serving` which packets each handler can be at, and that an answer has been made
  when it is sent; `Links` types the line. Where packets end is
  a recursive function on the packets of the host (`Ends`): that it exists and adds
  up is shown with the first packet at which it would not (`EndsUnfolds`), by
  the well-foundedness of < on Nat; that the ends of packets increase
  (`EndsIncrease`) tells the headers from the payloads. The refinement adds `Counted`: `served` is the
  number of packets taken whole, less the one that is being installed. Then every
  step is a `Connect`, `Ask`, `Serve`, `Answer`, `HangUp` or `LateDownload` of
  `RequestLink`, or none (`MappedStep`).

`LoggingMemoryProofs`: the composition implements `UploadTables` (`TablesImplemented`:
every step is one of it or leaves its variables alone), so what was proved there holds
here (`NothingLeaksInMemory`, `NothingIsOverwrittenInMemory`). `ArmedTriggerHasMemory`
needs `ArmedInv`: between packets an armed trigger has a selection and its old values,
and while `UploadLogInfoTerm` frees them the trigger is armed only if a disconnect request or a
selection over an armed trigger called it. All other callers unarm it first; these two do not (counterexample
`SwiFindsMemory`).
`TriggerFiresOnCrossing` assumes `OneSectionEach` (a trigger with one section of
signals, of any width): with two the counterexample `MCTwoSections` breaks it. Its
invariant `OldIsBefore` says that the old values are the values at the last check, in
the cells that were allocated for them.

`IOBlocksProofs`: one invariant for each kind of block, which the steps of the other
kinds leave alone.
* `RegionsComeInTurn` from `SlotsFollow`: the slot of a block is the one it started, and
  its index is behind its last copy (`Turn`), so that the next vector is inside the region
  (`TurnInRegion`). It speaks of the vector that is output, by a block that is periodic or
  has a vector left; what `memcpy` copies behind the output port is not in it
  (counterexample `OutputFits`). `RegionsApart` assumes starts of their own
  (counterexample `MCSameRegion`), regions of whole vectors, and fewer blocks than
  slots: with all of them taken `MEMRDStep` returns at once (`mdaqmemrd.c` 38), and no
  block reads anything.
* `RecordsStayInOrder` and `FileIsComplete` from `FileFollows`: as long as no write has
  taken longer than a half is for (`late`), what is logged is in the file, in the one or
  two writes in flight, or in the half in use, in this order. The age of a write (`at`) says that a
  write in time reads the half that is not in use. Nothing in the code waits for a write that is
  late, so no more can be claimed.
* `MessagesComeFromTheLine` from `Receiving`: the header that is matched ends where the
  line was read to, and the buffer holds the line from behind the last header. Each
  message is behind the one before, so no byte is output twice. `BlocksAssumption` gives each
  block a message for which `RX_BUF_SIZE` has room.
  The scan of a piece is a recursive function (`Scanned`), unfolded as `Ends` above.
  `OneReceiver` assumes one block with a header (counterexample `MCTwoUarts`) and that
  blocks without one have messages that are no smaller: they read behind the
  partial message of the other (`mdaquart.c` 84), and with a smaller message of
  their own the length of that read could be 0 or less.

`UploadSessionProofs` (any number of upInfos and sample times, any room, any triggers
with their delays, durations and hold offs):
* `TypesAreKept`, `CancelIsFinal`, `EndedEventsAreQuiet`, `ListedPointsAreHeld`,
  `DisconnectIsClean` without a condition;
* `FinalFlushOfTwo` for at most two sample times: with three the finding
  `final_flush` breaks it; and under it `FlushFreesQuietly`: the Swi uses freed memory only
  after a disconnect request over a trigger that waits;
* `WindowOfOneRate` for one sample time and a pre-trigger of any length: with two, `preTrig.count`, which they share,
  lets the pre-trigger drop what is not there;
* `EventsHaveTheirLength` when no trigger has a pre-trigger or there is one sample time;
  ticks in which no system is active are counted and not stored, and taken off.
* Argument: a tick goes over the sample times by the function `Uploaded`, defined by
  recursion. That it exists and unfolds is shown with the smallest sample time at
  which it would not (`UploadedUnfolds`, from the well-foundedness of < on Nat), and
  what it keeps, again with the first at which it would fail (`UploadedFrom`,
  `UploadedAll`). `Kept` sums up what a tick may do to an upInfo. `SInv` is inductive:
  `Served` and `Listed` say what the server knows of the upInfo it works on,
  `Ends` what is true of an event the host was told is over, `Memory` that an upInfo
  without buffers is idle, `Flushing` what a final flush has already freed. The last three theorems
  add one invariant each: `Drained` (how many of the listed buffers are still to be
  sent against how many the call may send), `Windowed` (the window holds what
  `preTrig.count` says) and `Timed` (the points of the event against `count`).

Only model-checked: liveness (`Terminates`, `ServedEnds`, `StopShutsDown`,
`BrokenIsDropped`, `AnsweredOrGone`; out of the prover's reach), and the runs that
show a comment not to hold. Every safety property of a passing run is a theorem, under
the hypotheses named above.

## Not modelled, and what is left of the plan

* The multitasking build in `UploadSession` (no test of the stop request there).
* The copy of parameters against the Swi: `SetParam` is one step.
* Memory write blocks (`mdaqmemwr.c`): each step uses `mem_idx[block_num]`, the slot
  behind the last (line 60), so that no block has a region of its own to check.
* Encoder blocks (`mdaqenc.c`, `mdaqenc2.c`): a register is read and compared with a
  remembered position, one sequential function; nothing says what its direction
  output is relative to.
* The length of numbers printed with `%f` by the ToFile block; a formatted record is
  one cell.
* What EXT_MODEL_PAUSE should do to the clock: `rt_OneStep` does not look at
  `modelStatus`, and no comment or test says that it should.
* Command line arguments of the transport.
* For good: the thin I/O wrappers, the host tools and the build files (sequential
  calls without state of their own), vendored headers and libraries, the PIL main
  loop. The layout of signal tables is data that the properties do not tell apart.
