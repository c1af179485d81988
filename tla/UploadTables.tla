---------------------------- MODULE UploadTables ----------------------------
(***************************************************************************)
(* The memory of one upInfo (updown_c6000.c): EXT_SELECT_SIGNALS allocates *)
(* a table for each system, a map and its sections for each sample time in *)
(* it, the circular buffers and the lists for the server; a trigger has    *)
(* allocations of its own. Each of them may fail; the end of a session, a  *)
(* new selection and a failed one free what there is, in steps that the    *)
(* clock Swi may come between.                                             *)
(***************************************************************************)
EXTENDS Integers, Sequences

CONSTANTS
  NumTids,      \* numSampTimes
  Selections    \* signal selections of the host: per system the sample times that
                \* have signals, per sample time the size of its circular buffer

Tids == 0 .. NumTids - 1

\* The host selects signals of at least one system.
ASSUME SelectionsAssumption ==
  /\ NumTids \in Nat \ {0}
  /\ \A new \in Selections :
       /\ new.systems \in Seq(SUBSET Tids) /\ Len(new.systems) > 0
       /\ new.size \in [Tids -> Int]

\* The allocations, each named by the pointer that is kept of it.
SysTables == <<"sysTables">>
MapsOf(s) == <<"uploadMap", s>>
MapOf(s, t) == <<"uploadMap", s, t>>
SectionsOf(s, t) == <<"sections", s, t>>
CircBufs == <<"circBufs">>
BufOf(t) == <<"buf", t>>
Bufs == <<"bufs">>
TidList == <<"tids">>
TrigSections == <<"trigSections">>
OldTrigSigVals == <<"oldTrigSigVals">>

VARIABLES
  at,           \* what is allocated or freed next; "idle"; "wild" after a NULL was
                \* used, "dangling" after the Swi used what was freed
  sel,          \* the selection being processed
  sys, tids,    \* its loops: the system, and the sample times that are left
  nSys,         \* of the upInfo
  ptrs,         \* its pointers that are not NULL
  heap,         \* the allocations that were not freed
  by,           \* why UploadLogInfoTerm runs
  pending,      \* the selection that is processed after it, if any
  lost          \* history: allocations whose only pointer was overwritten

cursor == <<sel, sys, tids>>
memory == <<nSys, ptrs, heap, lost>>
caller == <<by, pending>>
vars == <<at, cursor, memory, caller>>

NoSelection == [systems |-> << >>, size |-> [t \in Tids |-> 0]]
Allocating == {"sysTables", "uploadMap", "map", "sections", "circBufs", "buf", "bufs", "tids"}
Freeing == {"freeTables", "freeBufs", "freeTrigger", "reset"}
Undefined == {"wild", "dangling"}

\* Types; UploadLogInfoInit's loops stay inside the tables that nSys counts.
TypeOK ==
  /\ at \in Allocating \cup Freeing \cup Undefined \cup {"idle"}
  /\ {sel, pending} \subseteq Selections \cup {NoSelection}
  /\ sys \in 1 .. Len(sel.systems) + 1 /\ tids \subseteq Tids
  /\ nSys \in 0 .. Len(sel.systems)
  /\ by \in {"none", "end", "disconnect", "select", "fail"}
  /\ at \in {"uploadMap", "map", "sections"} => sys <= nSys
  /\ at \in {"map", "sections", "buf"} => tids # {}

Init ==
  /\ at = "idle" /\ sel = NoSelection /\ sys = 1 /\ tids = {}
  /\ nSys = 0 /\ ptrs = {} /\ heap = {} /\ lost = {}
  /\ by = "none" /\ pending = NoSelection

-----------------------------------------------------------------------------
\* UploadLogInfoTerm walks the tables of all systems that nSys counts ...
Walked == 1 .. nSys
UsesNull == nSys > 0 /\ (SysTables \notin ptrs \/ \E s \in Walked : MapsOf(s) \notin ptrs)

\* ... and an upInfo without systems it leaves alone. The selection then follows, if
\* the host asked for one: nSys is that of the new one.
Follows(next) ==
  IF next = NoSelection THEN at' = "idle" /\ nSys' = 0 /\ UNCHANGED cursor
  ELSE /\ at' = "sysTables" /\ nSys' = Len(next.systems)
       /\ sel' = next /\ sys' = 1 /\ tids' = {}

Term(why, next) ==
  /\ UNCHANGED <<ptrs, heap, lost>>
  /\ IF nSys = 0 THEN Follows(next) /\ UNCHANGED caller
     ELSE /\ at' = (IF UsesNull THEN "wild" ELSE "freeTables") /\ UNCHANGED <<cursor, nSys>>
          /\ by' = why /\ pending' = next

\* It frees the tables, ...
TablesOf(s) == {MapsOf(s)} \cup {MapOf(s, t) : t \in Tids} \cup {SectionsOf(s, t) : t \in Tids}
FreedTables == {SysTables} \cup UNION {TablesOf(s) : s \in Walked}
FreeTables ==
  /\ at = "freeTables" /\ at' = "freeBufs" /\ heap' = heap \ FreedTables
  /\ UNCHANGED <<cursor, nSys, ptrs, lost, caller>>

\* ... the buffers and the lists, ...
FreedBufsForgotten == {CircBufs, Bufs, TidList}                        \* mutant
FreedBufs ==
  {Bufs, TidList} \cup
    IF CircBufs \in ptrs THEN {CircBufs} \cup {BufOf(t) : t \in Tids} ELSE {}
FreeBufs ==
  /\ at = "freeBufs" /\ at' = "freeTrigger" /\ heap' = heap \ FreedBufs
  /\ UNCHANGED <<cursor, nSys, ptrs, lost, caller>>

\* ... and the memory of the trigger, whose pointers are set to NULL.
OfTrigger == {TrigSections, OldTrigSigVals}
FreeTrigger ==
  /\ at = "freeTrigger" /\ at' = "reset"
  /\ heap' = heap \ OfTrigger /\ ptrs' = ptrs \ OfTrigger
  /\ UNCHANGED <<cursor, nSys, lost, caller>>

\* Only now the trigger is unarmed, and UploadLogInfoReset leaves no pointer.
Reset ==
  /\ at = "reset" /\ ptrs' = {} /\ Follows(pending)
  /\ by' = "none" /\ pending' = NoSelection
  /\ UNCHANGED <<heap, lost>>

\* The Swi comes between two of these steps and uses what was freed: see LoggingMemory.
SwiUsesFreed ==
  /\ at \in Freeing /\ at' = "dangling" /\ UNCHANGED <<cursor, memory, caller>>

\* UploadEndLoggingSession, which the server calls at the end of an event and
\* ForceDisconnectFromHost, has unarmed the trigger before.
EndLoggingSession == at = "idle" /\ Term("end", NoSelection)

\* DisconnectFromHost calls UploadLogInfoTerm as it is.
DisconnectFromHost == at = "idle" /\ Term("disconnect", NoSelection)

-----------------------------------------------------------------------------
\* UploadLogInfoInit: the old selection goes first.
SelectSignalsOver(next) ==                                             \* mutant
  /\ at = "idle" /\ Follows(next) /\ UNCHANGED <<ptrs, heap, lost, caller>>
SelectSignals(next) == at = "idle" /\ Term("select", next)

Allocated(p) ==
  /\ ptrs' = ptrs \cup {p} /\ heap' = heap \cup {p} /\ lost' = lost \cup (ptrs \cap {p})
  /\ UNCHANGED <<nSys, caller>>

\* An allocation that fails: EXIT_POINT frees everything and returns the error.
FailsQuietly ==                                                        \* mutant
  /\ at' = "idle" /\ UNCHANGED <<cursor, memory, caller>>
Fails == Term("fail", NoSelection)

AllocSysTables ==
  /\ at = "sysTables"
  /\ \/ Allocated(SysTables) /\ at' = "uploadMap" /\ UNCHANGED cursor
     \/ Fails

\* InitSysUploadTable for system sys: an array of pointers to its maps, ...
NextSystem == IF sys < nSys THEN "uploadMap" ELSE "circBufs"
GoOn ==
  IF tids' = {} THEN at' = NextSystem /\ sys' = sys + 1 ELSE at' = "map" /\ UNCHANGED sys
AllocMaps ==
  /\ at = "uploadMap"
  /\ \/ /\ Allocated(MapsOf(sys)) /\ tids' = sel.systems[sys] /\ UNCHANGED sel
        /\ GoOn
     \/ Fails

\* ... and, for each sample time that has signals, a map ...
Current == {t \in tids : \A u \in tids : t <= u}
AllocMap ==
  /\ at = "map"
  /\ \/ /\ \E t \in Current : Allocated(MapOf(sys, t))
        /\ at' = "sections" /\ UNCHANGED cursor
     \/ Fails

\* ... with its sections, which InitUploadSection sets.
AllocSections ==
  /\ at = "sections"
  /\ \/ /\ \E t \in Current : Allocated(SectionsOf(sys, t)) /\ tids' = tids \ {t}
        /\ UNCHANGED sel
        /\ GoOn
     \/ Fails

\* This one is not tested: the first buffer is then initialised behind NULL, unless
\* the host says that it does not fit.
AllocCircBufs ==
  /\ at = "circBufs" /\ at' = "buf" /\ tids' = Tids /\ UNCHANGED <<sel, sys>>
  /\ Allocated(CircBufs) \/ UNCHANGED <<memory, caller>>

\* UploadBufInit of each circular buffer. A negative size is an error of the host's.
BufInit(t) ==
  \/ sel.size[t] # 0 /\ (CircBufs \in ptrs \/ sel.size[t] < 0) /\ Fails
  \/ /\ sel.size[t] >= 0 /\ CircBufs \notin ptrs
     /\ at' = "wild" /\ UNCHANGED <<cursor, memory, caller>>
  \/ /\ sel.size[t] >= 0 /\ CircBufs \in ptrs
     /\ IF sel.size[t] > 0 THEN Allocated(BufOf(t)) ELSE UNCHANGED <<memory, caller>>
     /\ tids' = tids \ {t} /\ UNCHANGED <<sel, sys>>
     /\ at' = IF tids' = {} THEN "bufs" ELSE "buf"

BufsInit == at = "buf" /\ \E t \in Current : BufInit(t)

AllocBufs ==
  /\ at = "bufs"
  /\ \/ Allocated(Bufs) /\ at' = "tids" /\ UNCHANGED cursor
     \/ Fails

AllocTids ==
  /\ at = "tids"
  /\ \/ Allocated(TidList) /\ at' = "idle" /\ UNCHANGED cursor
     \/ Fails

\* UploadInitTrigger for a trigger with a signal, selected after the signals. It frees
\* nothing of a trigger selected before.
SelectTrigger ==
  /\ at = "idle" /\ nSys > 0
  /\ ptrs' = ptrs \cup OfTrigger /\ heap' = heap \cup OfTrigger
  /\ lost' = lost \cup (ptrs \cap OfTrigger)
  /\ UNCHANGED <<at, cursor, nSys, caller>>

\* One of its allocations returns NULL, over the old pointer: UploadDestroyTrigger frees
\* what there is a pointer to.
SelectTriggerFails ==
  /\ at = "idle" /\ nSys > 0
  /\ ptrs' = ptrs \ OfTrigger /\ heap' = heap \ OfTrigger
  /\ \E null \in {{TrigSections}, OfTrigger} : lost' = lost \cup (ptrs \cap null)
  /\ UNCHANGED <<at, cursor, nSys, caller>>

\* What a program does then is undefined: nothing is said about it.
Wild == at \in Undefined /\ UNCHANGED vars

LogInfoInit ==
  \/ \E next \in Selections : SelectSignals(next)
  \/ AllocSysTables \/ AllocMaps \/ AllocMap \/ AllocSections
  \/ AllocCircBufs \/ BufsInit \/ AllocBufs \/ AllocTids

LogInfoTerm == FreeTables \/ FreeBufs \/ FreeTrigger \/ Reset \/ SwiUsesFreed

Next ==
  \/ LogInfoInit \/ LogInfoTerm \/ SelectTrigger \/ SelectTriggerFails
  \/ EndLoggingSession \/ DisconnectFromHost \/ Wild

Spec == Init /\ [][Next]_vars

-----------------------------------------------------------------------------
\* UploadLogInfoTerm: "Destroy all data associated with data logging." What a failed
\* map or section of the last system, buffer, list or trigger, the end of a session or a
\* new selection leave behind has a pointer and is not freed; every failure of another
\* kind uses a NULL. Only a trigger may be lost, by a second selection of one.
NoLeak == at \notin Freeing \cup Undefined => heap = ptrs /\ lost \subseteq OfTrigger

\* What UploadInitTrigger asserts (map->sections == NULL, oldTrigSigVals == NULL), with
\* assertions compiled out, and what the code does not keep to: a second
\* EXT_SELECT_TRIGGER is not refused and loses the memory of the first.
NothingLost == lost = {}

\* The pointer that the next allocation sets.
Target ==
  CASE at = "sysTables" -> {SysTables}
    [] at = "uploadMap" -> {MapsOf(sys)}
    [] at = "map" -> {MapOf(sys, t) : t \in Current}
    [] at = "sections" -> {SectionsOf(sys, t) : t \in Current}
    [] at = "circBufs" -> {CircBufs}
    [] at = "buf" -> {BufOf(t) : t \in Current}
    [] at = "bufs" -> {Bufs}
    [] at = "tids" -> {TidList}
    [] OTHER -> {}

\* The assertions of UploadLogInfoInit, InitSysUploadTable and UploadBufInit: no
\* pointer to an allocation is overwritten by the next one. (Those of
\* UploadInitTrigger do not hold: NothingLost.)
AssertsHold == Target \cap ptrs = {}

\* Between two packets an upInfo has all that its selection needs or nothing at all:
\* the Swi, which tests few of these pointers, finds complete tables behind nSys.
Complete ==
  /\ nSys = Len(sel.systems) /\ {SysTables, CircBufs, Bufs, TidList} \subseteq ptrs
  /\ \A s \in 1 .. nSys : /\ MapsOf(s) \in ptrs
                          /\ \A t \in sel.systems[s] : {MapOf(s, t), SectionsOf(s, t)} \subseteq ptrs
  /\ \A t \in Tids : sel.size[t] > 0 => BufOf(t) \in ptrs
AllOrNothing == at = "idle" => Complete \/ (nSys = 0 /\ ptrs = {})

\* UploadLogInfoInit: "Initialize data uploading by processing the EXT_SELECT_SIGNALS
\* packet. Return the error status." A failed allocation is returned as an error: the
\* way there uses no table that was not allocated.
FailureIsReturned == at # "wild"
=============================================================================
