------------------------- MODULE UploadTablesProofs -------------------------
(***************************************************************************)
(* UploadTables for every selection: while no NULL and nothing freed was   *)
(* used, only a trigger that is selected over another leaks, and between   *)
(* two packets a selection is there completely or not at all.              *)
(***************************************************************************)
EXTENDS UploadTables, TLAPS

\* What UploadLogInfoInit has allocated by the time it is at one of its places.
Has(P, s, T) == \A t \in T : MapOf(s, t) \in P /\ SectionsOf(s, t) \in P
SysDone(s) == MapsOf(s) \in ptrs /\ Has(ptrs, s, sel.systems[s])
Selected == at = "idle" /\ nSys > 0
Progress ==
  /\ at = "sysTables" => sys = 1
  /\ at \in {"uploadMap", "map", "sections"} =>
       sys \in 1 .. nSys /\ SysTables \in ptrs /\ \A s \in 1 .. sys - 1 : SysDone(s)
  /\ at \in {"map", "sections"} =>
       /\ MapsOf(sys) \in ptrs
       /\ Has(ptrs, sys, sel.systems[sys] \ tids)
  /\ at = "sections" => \A t \in Current : MapOf(sys, t) \in ptrs
  /\ at \in {"circBufs", "buf", "bufs", "tids"} \/ Selected =>
       SysTables \in ptrs /\ \A s \in 1 .. nSys : SysDone(s)
  /\ at = "buf" => \A t \in Tids \ tids : sel.size[t] > 0 => BufOf(t) \in ptrs
  /\ at \in {"bufs", "tids"} \/ Selected =>
       CircBufs \in ptrs /\ \A t \in Tids : sel.size[t] > 0 => BufOf(t) \in ptrs
  /\ at = "tids" \/ Selected => Bufs \in ptrs
  /\ Selected => TidList \in ptrs

\* UploadLogInfoTerm finds everything there is, step by step: it knows the systems of
\* the selection, and the buffers by an array that was allocated before them.
FreedByTerm == FreedTables \cup FreedBufs \cup OfTrigger
Owned ==
  /\ at \notin Freeing => heap = ptrs
  /\ at = "freeTables" => heap \subseteq FreedByTerm
  /\ at = "freeBufs" => heap \subseteq FreedBufs \cup OfTrigger
  /\ at = "freeTrigger" => heap \subseteq OfTrigger
  /\ at = "reset" => heap = {}
  /\ at \notin Freeing => ptrs \subseteq FreedByTerm
  /\ nSys = 0 => at = "idle" /\ ptrs = {}
  /\ nSys > 0 => sel \in Selections /\ nSys = Len(sel.systems)
  /\ nSys \in Nat /\ tids \subseteq Tids
  /\ pending \in Selections \cup {NoSelection}

IInv == at \notin Undefined => Owned /\ Progress

LEMMA SelectionFacts ==
  ASSUME NEW new \in Selections
  PROVE  /\ Len(new.systems) \in Nat \ {0}
         /\ \A s \in 1 .. Len(new.systems) : new.systems[s] \subseteq Tids
BY SelectionsAssumption

\* The selection that follows, if one does, finds an empty upInfo.
LEMMA FollowsKeeps ==
  ASSUME NEW next \in Selections \cup {NoSelection}, Follows(next), tids \subseteq Tids,
         heap' = {}, ptrs' = {}, pending' \in Selections \cup {NoSelection}
  PROVE  IInv'
<1>1. CASE next = NoSelection
  <2>1. at' = "idle" /\ nSys' = 0 /\ tids' = tids
    BY <1>1 DEF Follows, cursor
  <2>2. Owned'
    BY <2>1 DEF Owned, Freeing
  <2>3. Progress'
    BY <2>1 DEF Progress, Selected
  <2> QED
    BY <2>2, <2>3 DEF IInv
<1>2. CASE next # NoSelection
  <2>1. /\ at' = "sysTables" /\ nSys' = Len(next.systems) /\ sel' = next /\ sys' = 1
        /\ tids' = {} /\ nSys' \in Nat \ {0} /\ next \in Selections
    BY <1>2, SelectionFacts DEF Follows
  <2>2. Owned'
    BY <2>1 DEF Owned, Freeing
  <2>3. Progress'
    BY <2>1 DEF Progress, Selected
  <2> QED
    BY <2>2, <2>3 DEF IInv
<1> QED
  BY <1>1, <1>2

\* UploadLogInfoTerm is called with everything owned, or for an upInfo without anything.
LEMMA TermKeeps ==
  ASSUME IInv, at \notin Freeing \cup Undefined,
         NEW why, NEW next \in Selections \cup {NoSelection}, Term(why, next)
  PROVE  IInv'
<1>1. /\ Owned /\ heap = ptrs /\ ptrs \subseteq FreedByTerm /\ tids \subseteq Tids
      /\ nSys \in Nat /\ UNCHANGED <<ptrs, heap>>
  BY DEF IInv, Owned, Term
<1>2. CASE nSys = 0
  <2>1. ptrs' = {} /\ heap' = {} /\ Follows(next) /\ pending' = pending
    BY <1>1, <1>2 DEF Owned, Term, caller
  <2>2. pending' \in Selections \cup {NoSelection}
    BY <1>1, <2>1 DEF Owned
  <2> QED
    BY <1>1, <2>1, <2>2, FollowsKeeps
<1>3. CASE nSys # 0
  <2>1. at' \in {"wild", "freeTables"} /\ UNCHANGED <<cursor, nSys>> /\ pending' = next
    BY <1>3 DEF Term
  <2>2. FreedByTerm' = FreedByTerm
    BY <1>1, <2>1 DEF FreedByTerm, FreedTables, FreedBufs, Walked
  <2>3. Owned'
    BY <1>1, <1>3, <2>1, <2>2 DEF Owned, Freeing, cursor
  <2>4. Progress'
    BY <2>1 DEF Progress, Selected
  <2> QED
    BY <2>3, <2>4 DEF IInv
<1> QED
  BY <1>2, <1>3

\* The steps of UploadLogInfoTerm leave nothing.
LEMMA FreeingKeeps == IInv /\ LogInfoTerm => IInv'
<1> SUFFICES ASSUME IInv, LogInfoTerm PROVE IInv'
  OBVIOUS
<1>0. Owned /\ at \in Freeing /\ nSys > 0
  <2>1. at \in Freeing
    BY DEF LogInfoTerm, FreeTables, FreeBufs, FreeTrigger, Reset, SwiUsesFreed, Freeing
  <2>2. at \notin Undefined /\ at # "idle"
    BY <2>1 DEF Freeing, Undefined
  <2> QED
    BY <2>1, <2>2 DEF IInv, Owned
<1>1. ASSUME FreeTables \/ FreeBufs PROVE IInv'
  <2>1. /\ UNCHANGED <<nSys, ptrs, pending, sel, tids>>
    BY <1>1 DEF FreeTables, FreeBufs, cursor, caller
  <2>2. FreedByTerm' = FreedByTerm /\ FreedBufs' = FreedBufs
    BY <2>1 DEF FreedByTerm, FreedTables, FreedBufs, Walked
  <2>3. CASE FreeTables
    <3>1. at' = "freeBufs" /\ heap' \subseteq FreedBufs \cup OfTrigger
      BY <1>0, <2>3 DEF FreeTables, Owned, FreedByTerm
    <3>2. Owned'
      BY <1>0, <2>1, <2>2, <3>1 DEF Owned, Freeing
    <3> QED
      BY <3>1, <3>2 DEF IInv, Progress, Selected
  <2>4. CASE FreeBufs
    <3>1. at' = "freeTrigger" /\ heap' \subseteq OfTrigger
      BY <1>0, <2>4 DEF FreeBufs, Owned
    <3>2. Owned'
      BY <1>0, <2>1, <3>1 DEF Owned, Freeing, OfTrigger
    <3> QED
      BY <3>1, <3>2 DEF IInv, Progress, Selected
  <2> QED
    BY <1>1, <2>3, <2>4
<1>2. CASE FreeTrigger
  <2>1. at' = "reset" /\ heap' = {} /\ UNCHANGED <<nSys, pending, sel, tids>>
    BY <1>0, <1>2 DEF FreeTrigger, Owned, cursor, caller
  <2>2. Owned'
    BY <1>0, <2>1 DEF Owned, Freeing
  <2> QED
    BY <2>1, <2>2 DEF IInv, Progress, Selected
<1>3. CASE Reset
  <2>1. /\ heap' = {} /\ ptrs' = {} /\ Follows(pending) /\ pending' = NoSelection
        /\ pending \in Selections \cup {NoSelection} /\ tids \subseteq Tids
    BY <1>0, <1>3 DEF Reset, Owned
  <2> QED
    BY <2>1, FollowsKeeps
<1>4. CASE SwiUsesFreed
  BY <1>4 DEF SwiUsesFreed, IInv, Undefined
<1> QED
  BY <1>1, <1>2, <1>3, <1>4 DEF LogInfoTerm

\* An allocation adds to what is owned.
LEMMA AllocatedIsOwned ==
  ASSUME Owned, NEW p, Allocated(p), nSys > 0, UNCHANGED sel, tids' \subseteq Tids,
         at \notin Freeing, at' \notin Freeing,
         \/ p \in {SysTables, CircBufs, Bufs, TidList}
         \/ \E s \in 1 .. nSys : p \in TablesOf(s)
         \/ CircBufs \in ptrs /\ \E t \in Tids : p = BufOf(t)
  PROVE  Owned'
<1>1. ptrs' = ptrs \cup {p} /\ heap' = ptrs' /\ nSys' = nSys /\ pending' = pending
  BY DEF Allocated, Owned, caller
<1>2. FreedByTerm \subseteq FreedByTerm'
  BY <1>1 DEF FreedByTerm, FreedTables, FreedBufs, Walked
<1>3. p \in FreedByTerm'
  <2>1. CASE p \in {SysTables, Bufs, TidList}
    BY <2>1 DEF FreedByTerm, FreedTables, FreedBufs
  <2>2. CASE p = CircBufs
    BY <1>1, <2>2 DEF FreedByTerm, FreedBufs
  <2>3. CASE \E s \in 1 .. nSys : p \in TablesOf(s)
    <3>1. PICK s \in Walked' : p \in TablesOf(s)
      BY <1>1, <2>3 DEF Walked
    <3>2. p \in FreedTables'
      BY <3>1 DEF FreedTables
    <3> QED
      BY <3>2 DEF FreedByTerm
  <2>4. CASE CircBufs \in ptrs /\ \E t \in Tids : p = BufOf(t)
    <3>1. CircBufs \in ptrs' /\ p \in {BufOf(t) : t \in Tids}
      BY <1>1, <2>4
    <3>2. p \in FreedBufs'
      BY <3>1, Zenon DEF FreedBufs
    <3> QED
      BY <3>2 DEF FreedByTerm
  <2> QED
    BY <2>1, <2>2, <2>3, <2>4
<1>4. ptrs' \subseteq FreedByTerm'
  BY <1>1, <1>2, <1>3 DEF Owned
<1> QED
  BY <1>1, <1>4 DEF Owned, Freeing

LEMMA SelectSignalsKeeps ==
  ASSUME IInv, NEW new \in Selections, SelectSignals(new)
  PROVE  IInv'
<1>1. at = "idle" /\ Term("select", new)
  BY DEF SelectSignals
<1> QED
  BY <1>1, TermKeeps DEF Freeing, Undefined

LEMMA EndKeeps == IInv /\ (EndLoggingSession \/ DisconnectFromHost) => IInv'
<1> SUFFICES ASSUME IInv, NEW why, at = "idle", Term(why, NoSelection) PROVE IInv'
  BY DEF EndLoggingSession, DisconnectFromHost
<1> QED
  BY TermKeeps DEF Freeing, Undefined

\* A step of UploadLogInfoInit that fails.
LEMMA FailKeeps == IInv /\ at \in Allocating /\ Fails => IInv'
BY TermKeeps DEF Fails, Freeing, Undefined, Allocating

LEMMA AllocSysTablesKeeps == IInv /\ AllocSysTables => IInv'
<1> SUFFICES ASSUME IInv, AllocSysTables, Allocated(SysTables), at' = "uploadMap",
                    UNCHANGED cursor
             PROVE  IInv'
  BY FailKeeps DEF AllocSysTables, Allocating
<1>1. Owned /\ nSys > 0 /\ at = "sysTables"
  BY DEF IInv, Owned, Undefined, AllocSysTables
<1>2. Owned'
  BY <1>1, AllocatedIsOwned DEF cursor, Owned, Freeing
<1>3. sys = 1 /\ nSys \in Nat
  BY <1>1 DEF Progress, Owned, IInv, Undefined
<1>4. at' = "uploadMap" /\ sys' = 1 /\ nSys' = nSys /\ SysTables \in ptrs'
  BY <1>3 DEF Allocated, cursor
<1>5. sys' \in 1 .. nSys' /\ 1 .. sys' - 1 = {}
  BY <1>1, <1>3, <1>4
<1>6. Progress'
  BY <1>4, <1>5 DEF Progress, Selected
<1> QED
  BY <1>2, <1>6 DEF IInv

\* Current is at most one sample time.
LEMMA CurrentIsOne ==
  ASSUME tids \subseteq Tids
  PROVE  Current \subseteq tids /\ \A t \in Current, u \in Current : t = u
<1>1. Tids \subseteq Int
  BY SelectionsAssumption DEF Tids
<1>2. ASSUME NEW t \in Current, NEW u \in Current
      PROVE  t \in Int /\ u \in Int /\ t <= u /\ u <= t
  BY <1>1, <1>2 DEF Current
<1>3. \A t \in Current, u \in Current : t = u
  BY <1>2
<1>4. Current \subseteq tids
  BY DEF Current
<1> QED
  BY <1>3, <1>4

\* With the last sample time of a system its table is complete.
LEMMA NextSystemKeeps ==
  ASSUME Progress, at \in {"uploadMap", "sections"}, nSys \in Nat, nSys' = nSys, sel' = sel,
         ptrs \subseteq ptrs', at' = NextSystem, sys' = sys + 1,
         MapsOf(sys) \in ptrs', Has(ptrs', sys, sel.systems[sys])
  PROVE  Progress'
<1>1. sys \in 1 .. nSys /\ SysTables \in ptrs' /\ \A s \in 1 .. sys - 1 : SysDone(s)'
  BY DEF Progress, SysDone, Has
<1>2. \A s \in 1 .. sys : s \in 1 .. sys - 1 \/ s = sys
  BY <1>1
<1>3. \A s \in {sys} : SysDone(s)'
  BY DEF SysDone, Has
<1>4. \A s \in 1 .. sys : SysDone(s)'
  BY <1>1, <1>2, <1>3
<1>5. CASE sys < nSys
  <2>1. at' = "uploadMap" /\ sys' \in 1 .. nSys' /\ 1 .. sys' - 1 = 1 .. sys
    BY <1>1, <1>5 DEF NextSystem
  <2> QED
    BY <1>1, <1>4, <2>1 DEF Progress, Selected
<1>6. CASE ~(sys < nSys)
  <2>1. at' = "circBufs" /\ 1 .. nSys' = 1 .. sys
    BY <1>1, <1>6 DEF NextSystem
  <2> QED
    BY <1>1, <1>4, <2>1 DEF Progress, Selected
<1> QED
  BY <1>5, <1>6

LEMMA AllocMapsKeeps == IInv /\ AllocMaps => IInv'
<1> SUFFICES ASSUME IInv, AllocMaps, Allocated(MapsOf(sys)), tids' = sel.systems[sys],
                    UNCHANGED sel, GoOn
             PROVE  IInv'
  BY FailKeeps DEF AllocMaps, Allocating
<1>1. /\ Owned /\ Progress /\ at = "uploadMap" /\ nSys > 0 /\ nSys \in Nat
      /\ sys \in 1 .. nSys /\ nSys' = nSys /\ ptrs' = ptrs \cup {MapsOf(sys)}
  BY DEF IInv, Owned, Progress, AllocMaps, Allocated, Undefined
<1>2. tids' \subseteq Tids
  BY <1>1, SelectionFacts DEF Owned
<1>3. Owned'
  <2>1. MapsOf(sys) \in TablesOf(sys)
    BY DEF TablesOf
  <2> QED
    BY <1>1, <1>2, <2>1, AllocatedIsOwned DEF Freeing, GoOn, NextSystem
<1>4. CASE tids' = {}
  <2>1. at' = NextSystem /\ sys' = sys + 1
    BY <1>4 DEF GoOn
  <2>2. MapsOf(sys) \in ptrs' /\ Has(ptrs', sys, sel.systems[sys])
    BY <1>1, <1>4 DEF Has
  <2> QED
    BY <1>1, <1>3, <2>1, <2>2, NextSystemKeeps DEF IInv
<1>5. CASE tids' # {}
  <2>1. at' = "map" /\ sys' = sys
    BY <1>5 DEF GoOn
  <2>2. Progress'
    BY <1>1, <2>1 DEF Progress, Selected, SysDone, Has
  <2> QED
    BY <1>3, <2>2 DEF IInv
<1> QED
  BY <1>4, <1>5

LEMMA AllocMapKeeps == IInv /\ AllocMap => IInv'
<1> SUFFICES ASSUME IInv, AllocMap, NEW t \in Current, Allocated(MapOf(sys, t)),
                    at' = "sections", UNCHANGED cursor
             PROVE  IInv'
  BY FailKeeps DEF AllocMap, Allocating
<1>1. /\ Owned /\ Progress /\ at = "map" /\ nSys > 0 /\ nSys \in Nat /\ t \in Tids
      /\ sys \in 1 .. nSys /\ nSys' = nSys /\ ptrs' = ptrs \cup {MapOf(sys, t)}
      /\ sel' = sel /\ tids' = tids /\ sys' = sys
  BY CurrentIsOne DEF IInv, Owned, Progress, AllocMap, Allocated, cursor, Undefined
<1>2. Owned'
  <2>1. MapOf(sys, t) \in TablesOf(sys)
    BY <1>1 DEF TablesOf
  <2> QED
    BY <1>1, <2>1, AllocatedIsOwned DEF Owned, Freeing, GoOn, NextSystem
<1>3. Current' = Current /\ \A u \in Current : u = t
  BY <1>1, CurrentIsOne DEF Current, Owned
<1>4. Progress'
  BY <1>1, <1>3 DEF Progress, Selected, SysDone, Has
<1> QED
  BY <1>2, <1>4 DEF IInv

LEMMA AllocSectionsKeeps == IInv /\ AllocSections => IInv'
<1> SUFFICES ASSUME IInv, AllocSections, NEW t \in Current, Allocated(SectionsOf(sys, t)),
                    tids' = tids \ {t}, UNCHANGED sel, GoOn
             PROVE  IInv'
  BY FailKeeps DEF AllocSections, Allocating
<1>1. /\ Owned /\ Progress /\ at = "sections" /\ nSys > 0 /\ nSys \in Nat /\ t \in Tids
      /\ sys \in 1 .. nSys /\ nSys' = nSys /\ ptrs' = ptrs \cup {SectionsOf(sys, t)}
  BY CurrentIsOne DEF IInv, Owned, Progress, AllocSections, Allocated, Undefined
<1>2. Owned'
  <2>1. SectionsOf(sys, t) \in TablesOf(sys)
    BY <1>1 DEF TablesOf
  <2> QED
    BY <1>1, <2>1, AllocatedIsOwned DEF Owned, Freeing, GoOn, NextSystem
<1>3. MapsOf(sys) \in ptrs' /\ Has(ptrs', sys, sel.systems[sys] \ tids')
  BY <1>1 DEF Progress, Has
<1>4. CASE tids' = {}
  <2>1. at' = NextSystem /\ sys' = sys + 1
    BY <1>4 DEF GoOn
  <2>2. Has(ptrs', sys, sel.systems[sys])
    BY <1>3, <1>4 DEF Has
  <2> QED
    BY <1>1, <1>2, <1>3, <2>1, <2>2, NextSystemKeeps DEF IInv
<1>5. CASE tids' # {}
  <2>1. at' = "map" /\ sys' = sys
    BY <1>5 DEF GoOn
  <2>2. Progress'
    BY <1>1, <1>3, <2>1 DEF Progress, Selected, SysDone, Has
  <2> QED
    BY <1>2, <2>2 DEF IInv
<1> QED
  BY <1>4, <1>5

LEMMA AllocCircBufsKeeps == IInv /\ AllocCircBufs => IInv'
<1> SUFFICES ASSUME IInv, AllocCircBufs PROVE IInv'
  OBVIOUS
<1>1. /\ Owned /\ Progress /\ at = "circBufs" /\ nSys > 0 /\ nSys \in Nat /\ nSys' = nSys
      /\ at' = "buf" /\ tids' = Tids /\ sel' = sel /\ ptrs \subseteq ptrs'
  BY DEF IInv, Owned, AllocCircBufs, Allocated, Undefined, memory
<1>2. Owned'
  <2>1. CASE Allocated(CircBufs)
    BY <1>1, <2>1, AllocatedIsOwned DEF Freeing, GoOn, NextSystem
  <2>2. CASE UNCHANGED <<memory, caller>>
    <3>1. FreedByTerm' = FreedByTerm
      BY <2>2 DEF FreedByTerm, FreedTables, FreedBufs, Walked, memory
    <3> QED
      BY <1>1, <2>2, <3>1 DEF Owned, Freeing, memory, caller
  <2> QED
    BY <2>1, <2>2 DEF AllocCircBufs
<1>3. Progress'
  BY <1>1 DEF Progress, Selected, SysDone, Has
<1> QED
  BY <1>2, <1>3 DEF IInv

LEMMA BufsInitKeeps == IInv /\ BufsInit => IInv'
<1> SUFFICES ASSUME IInv, at = "buf", NEW t \in Current, BufInit(t) PROVE IInv'
  BY DEF BufsInit
<1>1. /\ Owned /\ Progress /\ nSys > 0 /\ nSys \in Nat /\ t \in Tids
  BY CurrentIsOne DEF IInv, Owned, Undefined
<1>2. CASE Fails
  BY <1>1, <1>2, FailKeeps DEF Allocating
<1>3. CASE at' = "wild"
  BY <1>3 DEF IInv, Undefined
<1>4. CASE /\ sel.size[t] >= 0 /\ CircBufs \in ptrs
           /\ IF sel.size[t] > 0 THEN Allocated(BufOf(t)) ELSE UNCHANGED <<memory, caller>>
           /\ tids' = tids \ {t} /\ UNCHANGED <<sel, sys>>
           /\ at' = IF tids' = {} THEN "bufs" ELSE "buf"
  <2>1. /\ nSys' = nSys /\ ptrs \subseteq ptrs' /\ tids' = tids \ {t} /\ sel' = sel
        /\ sel.size[t] > 0 => BufOf(t) \in ptrs'
        /\ at' = IF tids' = {} THEN "bufs" ELSE "buf"
    BY <1>4 DEF Allocated, memory
  <2>2. Owned'
    <3>1. CASE sel.size[t] > 0
      BY <1>1, <1>4, <3>1, AllocatedIsOwned DEF Owned, Freeing
    <3>2. CASE ~(sel.size[t] > 0)
      <4>1. UNCHANGED <<nSys, ptrs, heap, pending>>
        BY <1>4, <3>2 DEF memory, caller
      <4>2. FreedByTerm' = FreedByTerm
        BY <4>1 DEF FreedByTerm, FreedTables, FreedBufs, Walked
      <4> QED
        BY <1>1, <2>1, <4>1, <4>2 DEF Owned, Freeing
    <3> QED
      BY <3>1, <3>2
  <2>3. \A u \in Tids \ tids' : sel.size[u] > 0 => BufOf(u) \in ptrs'
    BY <1>1, <2>1 DEF Progress
  <2>4. SysTables \in ptrs' /\ \A s \in 1 .. nSys : SysDone(s)'
    BY <1>1, <2>1 DEF Progress, SysDone, Has
  <2>5. CASE tids' = {}
    <3>1. Progress'
      BY <1>1, <1>4, <2>1, <2>3, <2>4, <2>5 DEF Progress, Selected
    <3> QED
      BY <2>2, <3>1 DEF IInv
  <2>6. CASE tids' # {}
    <3>1. Progress'
      BY <1>1, <1>4, <2>1, <2>3, <2>4, <2>6 DEF Progress, Selected
    <3> QED
      BY <2>2, <3>1 DEF IInv
  <2> QED
    BY <2>5, <2>6
<1> QED
  BY <1>2, <1>3, <1>4 DEF BufInit

LEMMA AllocBufsKeeps == IInv /\ AllocBufs => IInv'
<1> SUFFICES ASSUME IInv, at = "bufs", Allocated(Bufs), at' = "tids", UNCHANGED cursor
             PROVE  IInv'
  BY FailKeeps DEF AllocBufs, Allocating
<1>1. /\ Owned /\ Progress /\ nSys > 0 /\ nSys \in Nat /\ nSys' = nSys /\ sel' = sel
      /\ ptrs' = ptrs \cup {Bufs} /\ tids' \subseteq Tids
  BY DEF IInv, Owned, Allocated, cursor, Undefined
<1>2. Owned'
  BY <1>1, AllocatedIsOwned DEF Freeing
<1>3. Progress'
  BY <1>1 DEF Progress, Selected, SysDone, Has
<1> QED
  BY <1>2, <1>3 DEF IInv

LEMMA AllocTidsKeeps == IInv /\ AllocTids => IInv'
<1> SUFFICES ASSUME IInv, at = "tids", Allocated(TidList), at' = "idle", UNCHANGED cursor
             PROVE  IInv'
  BY FailKeeps DEF AllocTids, Allocating
<1>1. /\ Owned /\ Progress /\ nSys > 0 /\ nSys \in Nat /\ nSys' = nSys /\ sel' = sel
      /\ ptrs' = ptrs \cup {TidList} /\ tids' \subseteq Tids
  BY DEF IInv, Owned, Allocated, cursor, Undefined
<1>2. Owned'
  BY <1>1, AllocatedIsOwned DEF Freeing
<1>3. Progress'
  BY <1>1 DEF Progress, Selected, SysDone, Has
<1> QED
  BY <1>2, <1>3 DEF IInv

LEMMA SelectTriggerKeeps == IInv /\ (SelectTrigger \/ SelectTriggerFails) => IInv'
<1> SUFFICES ASSUME IInv, SelectTrigger \/ SelectTriggerFails PROVE IInv'
  OBVIOUS
<1>1. /\ at = "idle" /\ nSys > 0 /\ nSys' = nSys /\ sel' = sel /\ tids' = tids
      /\ at' = at /\ pending' = pending
  BY DEF SelectTrigger, SelectTriggerFails, cursor, caller
<1>2. Owned /\ Progress
  BY <1>1 DEF IInv, Undefined
<1>3. heap' = ptrs' /\ ptrs' \subseteq ptrs \cup OfTrigger /\ ptrs \subseteq ptrs' \cup OfTrigger
  BY <1>1, <1>2 DEF SelectTrigger, SelectTriggerFails, Owned, Freeing
<1>4. /\ {SysTables, CircBufs, Bufs, TidList} \cap OfTrigger = {}
      /\ \A s, t : /\ MapsOf(s) \notin OfTrigger /\ MapOf(s, t) \notin OfTrigger
                  /\ SectionsOf(s, t) \notin OfTrigger /\ BufOf(t) \notin OfTrigger
  BY DEF OfTrigger, TrigSections, OldTrigSigVals, SysTables, CircBufs, Bufs, TidList, MapsOf,
         MapOf, SectionsOf, BufOf
<1>5. Owned'
  <2>1. FreedByTerm \subseteq FreedByTerm'
    BY <1>1, <1>3, <1>4 DEF FreedByTerm, FreedTables, FreedBufs, Walked
  <2>2. ptrs' \subseteq FreedByTerm'
    BY <1>1, <1>2, <1>3, <2>1 DEF Owned, Freeing, FreedByTerm
  <2> QED
    BY <1>1, <1>2, <1>3, <2>2 DEF Owned, Freeing
<1>6. Progress'
  <2>1. /\ {SysTables, CircBufs, Bufs, TidList} \subseteq ptrs'
        /\ \A t \in Tids : sel'.size[t] > 0 => BufOf(t) \in ptrs'
    BY <1>1, <1>2, <1>3, <1>4 DEF Progress, Selected
  <2>2. \A s \in 1 .. nSys' : SysDone(s)'
    BY <1>1, <1>2, <1>3, <1>4 DEF Progress, Selected, SysDone, Has
  <2> QED
    BY <1>1, <2>1, <2>2 DEF Progress, Selected
<1> QED
  BY <1>5, <1>6 DEF IInv

LEMMA Invariant == Spec => []IInv
<1>1. Init => IInv
  <2>1. Init => Owned
    BY DEF Init, Owned
  <2>2. Init => Progress
    BY DEF Init, Progress, Selected
  <2> QED
    BY <2>1, <2>2 DEF IInv
<1>2. IInv /\ [Next]_vars => IInv'
  <2>1. IInv /\ UNCHANGED vars => IInv'
    BY DEF vars, cursor, memory, caller, IInv, Owned, Progress, Selected, SysDone, Has, Current,
           FreedByTerm, FreedTables, FreedBufs, Walked
  <2>2. IInv /\ LogInfoInit => IInv'
    BY SelectSignalsKeeps, AllocSysTablesKeeps, AllocMapsKeeps, AllocMapKeeps,
       AllocSectionsKeeps, AllocCircBufsKeeps, BufsInitKeeps, AllocBufsKeeps, AllocTidsKeeps
       DEF LogInfoInit
  <2>3. IInv /\ Wild => IInv'
    BY DEF Wild, vars, IInv
  <2> QED
    BY <2>1, <2>2, <2>3, SelectTriggerKeeps, EndKeeps, FreeingKeeps DEF Next
<1> QED
  BY <1>1, <1>2, PTL DEF Spec

\* Between two packets the tables of a selection are complete, or there are none.
THEOREM SelectionIsWhole == Spec => []AllOrNothing
<1>1. IInv => AllOrNothing
  <2>1. SUFFICES ASSUME IInv, at = "idle", nSys # 0 PROVE Complete
    BY DEF AllOrNothing, IInv, Owned, Undefined
  <2>2. Owned /\ Progress /\ Selected
    BY <2>1 DEF IInv, Owned, Selected, Undefined
  <2> QED
    BY <2>2 DEF Complete, Owned, Progress, SysDone, Has
<1> QED
  BY Invariant, <1>1, PTL

-----------------------------------------------------------------------------
\* What UploadLogInfoInit has still to allocate has no pointer yet.
NoTables(P, s) == TablesOf(s) \cap P = {}
NoBufs(P, T) == \A t \in T : BufOf(t) \notin P
NoLists(P) == Bufs \notin P /\ TidList \notin P
Vacant ==
  /\ at = "sysTables" => ptrs = {}
  /\ at \in {"uploadMap", "map", "sections"} => \A s \in sys + 1 .. nSys : NoTables(ptrs, s)
  /\ at = "uploadMap" => NoTables(ptrs, sys)
  /\ at \in {"map", "sections"} => \A t \in tids : SectionsOf(sys, t) \notin ptrs
  /\ at = "map" => \A t \in tids : MapOf(sys, t) \notin ptrs
  /\ at = "sections" => \A t \in tids \ Current : MapOf(sys, t) \notin ptrs
  /\ at \in {"uploadMap", "map", "sections", "circBufs"} => CircBufs \notin ptrs /\ NoBufs(ptrs, Tids)
  /\ at = "buf" => NoBufs(ptrs, tids)
  /\ at \in {"uploadMap", "map", "sections", "circBufs", "buf", "bufs"} => NoLists(ptrs)
  /\ at = "tids" => TidList \notin ptrs

\* The allocations have names of their own.
LEMMA NamesDiffer ==
  ASSUME NEW s, NEW t
  PROVE  /\ MapsOf(s) \notin {SysTables, CircBufs, Bufs, TidList}
         /\ MapOf(s, t) \notin {SysTables, CircBufs, Bufs, TidList}
         /\ SectionsOf(s, t) \notin {SysTables, CircBufs, Bufs, TidList}
         /\ BufOf(t) \notin {SysTables, CircBufs, Bufs, TidList}
         /\ \A u : MapsOf(s) = MapsOf(u) => s = u
         /\ \A u : BufOf(t) = BufOf(u) => t = u
         /\ \A u, v : MapOf(s, t) = MapOf(u, v) => s = u /\ t = v
         /\ \A u, v : SectionsOf(s, t) = SectionsOf(u, v) => s = u /\ t = v
         /\ \A u, v : MapOf(s, t) # SectionsOf(u, v)
         /\ \A u : MapsOf(u) # MapOf(s, t) /\ MapsOf(u) # SectionsOf(s, t)
         /\ \A u : BufOf(u) # MapOf(s, t) /\ BufOf(u) # SectionsOf(s, t) /\ BufOf(u) # MapsOf(s)
BY DEF MapsOf, MapOf, SectionsOf, BufOf, SysTables, CircBufs, Bufs, TidList

LEMMA SingleNamesDiffer ==
  SysTables # CircBufs /\ SysTables # Bufs /\ SysTables # TidList /\ CircBufs # Bufs
    /\ CircBufs # TidList /\ Bufs # TidList
BY DEF SysTables, CircBufs, Bufs, TidList

\* The tables of a system are of that system.
LEMMA OtherTables ==
  ASSUME NEW s, NEW p \in TablesOf(s)
  PROVE  /\ \A u : p \in TablesOf(u) => u = s
         /\ p \notin {SysTables, CircBufs, Bufs, TidList} /\ \A t : p # BufOf(t)
BY NamesDiffer DEF TablesOf

\* Places without allocations.
LEMMA VacantAtRest == ASSUME at' \in Freeing \cup Undefined \cup {"idle"} PROVE Vacant'
BY DEF Vacant, Freeing, Undefined

\* InitSysUploadTable is done with a system: the next one, or the buffers.
LEMMA NextSystemVacant ==
  ASSUME Vacant, at \in {"uploadMap", "sections"}, sys \in 1 .. nSys, nSys \in Nat,
         NEW p \in TablesOf(sys), ptrs' = ptrs \cup {p}, nSys' = nSys,
         at' = NextSystem, sys' = sys + 1
  PROVE  Vacant'
<1>1. p \notin {SysTables, CircBufs, Bufs, TidList} /\ \A t : p # BufOf(t)
  BY OtherTables
<1>2. ASSUME NEW s \in sys + 1 .. nSys PROVE NoTables(ptrs', s)
  <2>1. p \notin TablesOf(s)
    BY OtherTables
  <2> QED
    BY <1>2, <2>1 DEF Vacant, NoTables
<1>3. CircBufs \notin ptrs' /\ NoBufs(ptrs', Tids) /\ NoLists(ptrs')
  BY <1>1 DEF Vacant, NoBufs, NoLists
<1>4. CASE sys < nSys
  <2>1. at' = "uploadMap" /\ sys' \in sys + 1 .. nSys
    BY <1>4 DEF NextSystem
  <2>2. NoTables(ptrs', sys') /\ \A s \in sys' + 1 .. nSys' : NoTables(ptrs', s)
    BY <1>2, <2>1
  <2> QED
    BY <1>3, <2>1, <2>2 DEF Vacant
<1>5. CASE ~(sys < nSys)
  BY <1>3, <1>5 DEF NextSystem, Vacant
<1> QED
  BY <1>4, <1>5

LEMMA FollowsVacant == ASSUME NEW next, Follows(next), ptrs' = {} PROVE Vacant'
<1>1. at' \in {"idle", "sysTables"}
  BY DEF Follows
<1> QED
  BY <1>1 DEF Vacant

LEMMA TermVacant ==
  ASSUME IInv, at \in Allocating \cup {"idle"}, NEW why, NEW next, Term(why, next)
  PROVE  Vacant'
<1>1. CASE nSys = 0
  <2>1. ptrs' = {}
    BY <1>1 DEF Term, IInv, Owned, Allocating, Undefined
  <2> QED
    BY <1>1, <2>1, FollowsVacant DEF Term
<1>2. CASE nSys # 0
  BY <1>2, VacantAtRest DEF Term, Freeing, Undefined
<1> QED
  BY <1>1, <1>2

LEMMA FailVacant == ASSUME IInv, Fails, at \in Allocating PROVE Vacant'
BY TermVacant DEF Fails

LEMMA AllocSysTablesVacant == ASSUME IInv, Vacant, AllocSysTables PROVE Vacant'
<1> SUFFICES ASSUME Allocated(SysTables), at' = "uploadMap", UNCHANGED cursor PROVE Vacant'
  BY FailVacant DEF AllocSysTables, Allocating
<1>1. ptrs' = {SysTables}
  BY DEF Vacant, AllocSysTables, Allocated
<1>2. ASSUME NEW s PROVE NoTables(ptrs', s)
  BY <1>1, OtherTables DEF NoTables
<1>3. CircBufs \notin ptrs' /\ NoBufs(ptrs', Tids) /\ NoLists(ptrs')
  BY <1>1, NamesDiffer, SingleNamesDiffer DEF NoBufs, NoLists
<1> QED
  BY <1>2, <1>3 DEF Vacant

LEMMA AllocMapsVacant == ASSUME IInv, Vacant, AllocMaps PROVE Vacant'
<1> SUFFICES ASSUME Allocated(MapsOf(sys)), tids' = sel.systems[sys], GoOn PROVE Vacant'
  BY FailVacant DEF AllocMaps, Allocating
<1> DEFINE p == MapsOf(sys)
<1>1. /\ at = "uploadMap" /\ ptrs' = ptrs \cup {p} /\ nSys' = nSys /\ p \in TablesOf(sys)
      /\ sys \in 1 .. nSys /\ nSys \in Nat
  BY DEF AllocMaps, Allocated, TablesOf, IInv, Progress, Owned, Undefined
<1>2. tids' \subseteq Tids
  BY SelectionFacts, <1>1 DEF IInv, Owned, Undefined
<1> HIDE DEF p
<1>3. CASE tids' = {}
  BY <1>1, <1>3, NextSystemVacant DEF GoOn
<1>4. CASE tids' # {}
  <2>1. at' = "map" /\ sys' = sys
    BY <1>4 DEF GoOn
  <2>2. ASSUME NEW s \in sys + 1 .. nSys PROVE NoTables(ptrs', s)
    <3>1. s # sys
      BY <1>1
    <3> QED
      BY <1>1, <2>2, <3>1, OtherTables DEF Vacant, NoTables
  <2>3. CircBufs \notin ptrs' /\ NoBufs(ptrs', Tids) /\ NoLists(ptrs')
    BY <1>1, OtherTables DEF Vacant, NoBufs, NoLists
  <2>4. ASSUME NEW t \in Tids PROVE SectionsOf(sys, t) \notin ptrs' /\ MapOf(sys, t) \notin ptrs'
    <3>1. SectionsOf(sys, t) \in TablesOf(sys) /\ MapOf(sys, t) \in TablesOf(sys)
      BY DEF TablesOf
    <3> QED
      BY <1>1, <3>1, NamesDiffer DEF Vacant, NoTables, p
  <2> QED
    BY <1>1, <1>2, <2>1, <2>2, <2>3, <2>4 DEF Vacant
<1> QED
  BY <1>3, <1>4

LEMMA AllocMapVacant == ASSUME IInv, Vacant, AllocMap PROVE Vacant'
<1> SUFFICES ASSUME NEW t \in Current, Allocated(MapOf(sys, t)), at' = "sections",
                    UNCHANGED cursor
             PROVE  Vacant'
  BY FailVacant DEF AllocMap, Allocating
<1> DEFINE p == MapOf(sys, t)
<1>1. /\ at = "map" /\ ptrs' = ptrs \cup {p} /\ nSys' = nSys /\ sys' = sys /\ tids' = tids
      /\ sys \in 1 .. nSys /\ nSys \in Nat /\ t \in Tids /\ p \in TablesOf(sys)
      /\ t \in Current'
  BY CurrentIsOne DEF AllocMap, Allocated, TablesOf, IInv, Progress, Owned, cursor, Current, Undefined
<1> HIDE DEF p
<1>2. ASSUME NEW s \in sys + 1 .. nSys PROVE NoTables(ptrs', s)
  <2>1. s # sys
    BY <1>1
  <2> QED
    BY <1>1, <1>2, <2>1, OtherTables DEF Vacant, NoTables
<1>3. CircBufs \notin ptrs' /\ NoBufs(ptrs', Tids) /\ NoLists(ptrs')
  BY <1>1, OtherTables DEF Vacant, NoBufs, NoLists
<1>4. ASSUME NEW u \in tids PROVE SectionsOf(sys, u) \notin ptrs' /\ (u # t => MapOf(sys, u) \notin ptrs')
  BY <1>1, NamesDiffer DEF Vacant, p
<1> QED
  BY <1>1, <1>2, <1>3, <1>4 DEF Vacant

LEMMA AllocSectionsVacant == ASSUME IInv, Vacant, AllocSections PROVE Vacant'
<1> SUFFICES ASSUME NEW t \in Current, Allocated(SectionsOf(sys, t)), tids' = tids \ {t}, GoOn
             PROVE  Vacant'
  BY FailVacant DEF AllocSections, Allocating
<1> DEFINE p == SectionsOf(sys, t)
<1>1. /\ at = "sections" /\ ptrs' = ptrs \cup {p} /\ nSys' = nSys /\ t \in tids
      /\ sys \in 1 .. nSys /\ nSys \in Nat /\ t \in Tids /\ p \in TablesOf(sys)
      /\ \A u \in Current : u = t
  BY CurrentIsOne DEF AllocSections, Allocated, TablesOf, IInv, Progress, Owned, Undefined
<1> HIDE DEF p
<1>2. CASE tids' = {}
  BY <1>1, <1>2, NextSystemVacant DEF GoOn
<1>3. CASE tids' # {}
  <2>1. at' = "map" /\ sys' = sys
    BY <1>3 DEF GoOn
  <2>2. ASSUME NEW s \in sys + 1 .. nSys PROVE NoTables(ptrs', s)
    <3>1. s # sys
      BY <1>1
    <3> QED
      BY <1>1, <2>2, <3>1, OtherTables DEF Vacant, NoTables
  <2>3. CircBufs \notin ptrs' /\ NoBufs(ptrs', Tids) /\ NoLists(ptrs')
    BY <1>1, OtherTables DEF Vacant, NoBufs, NoLists
  <2>4. ASSUME NEW u \in tids' PROVE SectionsOf(sys, u) \notin ptrs' /\ MapOf(sys, u) \notin ptrs'
    <3>1. u \in tids \ Current /\ u # t
      BY <1>1
    <3> QED
      BY <1>1, <3>1, NamesDiffer DEF Vacant, p
  <2> QED
    BY <1>1, <2>1, <2>2, <2>3, <2>4 DEF Vacant
<1> QED
  BY <1>2, <1>3

LEMMA AllocCircBufsVacant == ASSUME IInv, Vacant, AllocCircBufs PROVE Vacant'
<1>1. at = "circBufs" /\ at' = "buf" /\ tids' = Tids /\ ptrs' \subseteq ptrs \cup {CircBufs}
  BY DEF AllocCircBufs, Allocated, memory
<1>2. NoBufs(ptrs', Tids) /\ NoLists(ptrs')
  BY <1>1, NamesDiffer, SingleNamesDiffer DEF Vacant, NoBufs, NoLists
<1> QED
  BY <1>1, <1>2 DEF Vacant

LEMMA BufsInitVacant == ASSUME IInv, Vacant, BufsInit PROVE Vacant'
<1>1. PICK t \in Current : BufInit(t)
  BY DEF BufsInit
<1> SUFFICES ASSUME ptrs' \subseteq ptrs \cup {BufOf(t)}, tids' = tids \ {t},
                    at' \in {"bufs", "buf"}
             PROVE  Vacant'
  <2>1. at' = "wild" \/ Fails \/
          (ptrs' \subseteq ptrs \cup {BufOf(t)} /\ tids' = tids \ {t} /\ at' \in {"bufs", "buf"})
    BY <1>1 DEF BufInit, Allocated, memory
  <2> QED
    BY <2>1, VacantAtRest, FailVacant DEF BufsInit, Allocating, Undefined
<1>2. at = "buf"
  BY DEF BufsInit
<1>3. NoBufs(ptrs', tids')
  BY <1>2, NamesDiffer DEF Vacant, NoBufs
<1>4. NoLists(ptrs')
  BY <1>2, NamesDiffer DEF Vacant, NoLists
<1> QED
  BY <1>3, <1>4 DEF Vacant

LEMMA ListsVacant == ASSUME IInv, Vacant, AllocBufs \/ AllocTids PROVE Vacant'
<1>1. CASE AllocBufs
  <2> SUFFICES ASSUME ptrs' = ptrs \cup {Bufs}, at' = "tids" PROVE Vacant'
    BY <1>1, FailVacant DEF AllocBufs, Allocated, Allocating
  <2> QED
    BY <1>1, SingleNamesDiffer DEF AllocBufs, Vacant, NoLists
<1>2. CASE AllocTids
  BY <1>2, FailVacant, VacantAtRest DEF AllocTids, Allocating
<1> QED
  BY <1>1, <1>2

LEMMA VacantInvariant == Spec => []Vacant
<1>1. Init => Vacant
  BY DEF Init, Vacant
<1>2. ASSUME IInv, Vacant, [Next]_vars PROVE Vacant'
  <2>1. CASE UNCHANGED vars
    BY <1>2, <2>1 DEF vars, cursor, memory, Vacant, NoTables, NoBufs, NoLists, Current
  <2>5. ASSUME NEW next, SelectSignals(next) PROVE Vacant'
    BY <1>2, <2>5, TermVacant DEF SelectSignals
  <2>2. CASE LogInfoInit
    BY <1>2, <2>2, <2>5, AllocSysTablesVacant, AllocMapsVacant, AllocMapVacant,
       AllocSectionsVacant, AllocCircBufsVacant, BufsInitVacant, ListsVacant DEF LogInfoInit
  <2>3. CASE SelectTrigger \/ SelectTriggerFails \/ EndLoggingSession \/ DisconnectFromHost
    BY <1>2, <2>3, TermVacant, VacantAtRest
       DEF SelectTrigger, SelectTriggerFails, EndLoggingSession, DisconnectFromHost
  <2>4. CASE LogInfoTerm
    <3>1. CASE Reset
      BY <3>1, FollowsVacant DEF Reset
    <3>2. CASE FreeTables \/ FreeBufs \/ FreeTrigger \/ SwiUsesFreed
      BY <3>2, VacantAtRest
         DEF FreeTables, FreeBufs, FreeTrigger, SwiUsesFreed, Freeing, Undefined
    <3> QED
      BY <2>4, <3>1, <3>2 DEF LogInfoTerm
  <2>6. CASE Wild
    BY <2>6, VacantAtRest DEF Wild, vars
  <2> QED
    BY <1>2, <2>1, <2>2, <2>3, <2>4, <2>6 DEF Next
<1> QED
  BY Invariant, <1>1, <1>2, PTL DEF Spec

\* The assertions of UploadLogInfoInit, InitSysUploadTable and UploadBufInit hold: no
\* allocation overwrites the only pointer to another, whatever was selected before.
THEOREM NothingIsOverwritten == Spec => []AssertsHold
<1>3. ASSUME Vacant PROVE AssertsHold
  <2>1. SUFFICES ASSUME NEW p \in Target, p \in ptrs PROVE FALSE
    BY DEF AssertsHold
  <2>2. Current \subseteq tids
    BY DEF Current
  <2>3. CASE at = "sysTables"
    BY <1>3, <2>1, <2>3 DEF Vacant
  <2>4. CASE at = "uploadMap"
    <3>1. p = MapsOf(sys)
      BY <2>1, <2>4 DEF Target
    <3> QED
      BY <1>3, <2>1, <2>4, <3>1 DEF Vacant, NoTables, TablesOf
  <2>5. CASE at = "map"
    <3>1. \E t \in Current : p = MapOf(sys, t)
      BY <2>1, <2>5 DEF Target
    <3> QED
      BY <1>3, <2>1, <2>2, <2>5, <3>1 DEF Vacant
  <2>6. CASE at = "sections"
    <3>1. \E t \in Current : p = SectionsOf(sys, t)
      BY <2>1, <2>6 DEF Target
    <3> QED
      BY <1>3, <2>1, <2>2, <2>6, <3>1 DEF Vacant
  <2>7. CASE at = "circBufs"
    <3>1. p = CircBufs
      BY <2>1, <2>7 DEF Target
    <3> QED
      BY <1>3, <2>1, <2>7, <3>1 DEF Vacant
  <2>8. CASE at = "buf"
    <3>1. \E t \in Current : p = BufOf(t)
      BY <2>1, <2>8 DEF Target
    <3> QED
      BY <1>3, <2>1, <2>2, <2>8, <3>1 DEF Vacant, NoBufs
  <2>9. CASE at = "bufs"
    <3>1. p = Bufs
      BY <2>1, <2>9 DEF Target
    <3> QED
      BY <1>3, <2>1, <2>9, <3>1 DEF Vacant, NoLists
  <2>10. CASE at = "tids"
    <3>1. p = TidList
      BY <2>1, <2>10 DEF Target
    <3> QED
      BY <1>3, <2>1, <2>10, <3>1 DEF Vacant
  <2>11. at \notin {"sysTables", "uploadMap", "map", "sections", "circBufs", "buf", "bufs", "tids"}
           => Target = {}
    BY ZenonT(30) DEF Target
  <2> QED
    BY <2>1, <2>3, <2>4, <2>5, <2>6, <2>7, <2>8, <2>9, <2>10, <2>11
<1> QED
  BY VacantInvariant, <1>3, PTL

\* With a selection nothing is lost: what is allocated next has no pointer yet.
OnlyTriggers == lost \subseteq OfTrigger
LEMMA OnlyTriggersAreLost == Spec => []OnlyTriggers
<1>1. Init => OnlyTriggers
  BY DEF Init, OnlyTriggers
<1>2. ASSUME OnlyTriggers, AssertsHold, [Next]_vars PROVE OnlyTriggers'
  <2>1. ASSUME NEW p \in Target, Allocated(p) PROVE OnlyTriggers'
    BY <1>2, <2>1 DEF Allocated, AssertsHold, OnlyTriggers
  <2>2. ASSUME NEW why, NEW next, Term(why, next) PROVE OnlyTriggers'
    BY <1>2, <2>2 DEF Term, OnlyTriggers
  <2>3. CASE LogInfoInit
    <3>1. CASE \E next \in Selections : SelectSignals(next)
      BY <2>2, <3>1 DEF SelectSignals
    <3>2. CASE AllocSysTables
      BY <2>1, <2>2, <3>2 DEF AllocSysTables, Fails, Target
    <3>3. CASE AllocMaps
      BY <2>1, <2>2, <3>3 DEF AllocMaps, Fails, Target
    <3>4. CASE AllocMap
      BY <2>1, <2>2, <3>4 DEF AllocMap, Fails, Target
    <3>5. CASE AllocSections
      BY <2>1, <2>2, <3>5 DEF AllocSections, Fails, Target
    <3>6. CASE AllocCircBufs
      BY <1>2, <2>1, <3>6 DEF AllocCircBufs, Target, memory, OnlyTriggers
    <3>7. CASE BufsInit
      <4>1. PICK t \in Current : BufInit(t)
        BY <3>7 DEF BufsInit
      <4>2. Fails \/ UNCHANGED memory \/ Allocated(BufOf(t))
        BY <4>1 DEF BufInit
      <4>3. BufOf(t) \in Target
        BY <3>7 DEF Target, BufsInit
      <4> QED
        BY <1>2, <2>1, <2>2, <4>2, <4>3 DEF Fails, memory, OnlyTriggers
    <3>8. CASE AllocBufs
      BY <2>1, <2>2, <3>8 DEF AllocBufs, Fails, Target
    <3>9. CASE AllocTids
      BY <2>1, <2>2, <3>9 DEF AllocTids, Fails, Target
    <3> QED
      BY <2>3, <3>1, <3>2, <3>3, <3>4, <3>5, <3>6, <3>7, <3>8, <3>9 DEF LogInfoInit
  <2>4. CASE LogInfoTerm
    BY <1>2, <2>4
       DEF LogInfoTerm, FreeTables, FreeBufs, FreeTrigger, Reset, SwiUsesFreed, memory, OnlyTriggers
  <2>5. CASE SelectTrigger \/ SelectTriggerFails
    BY <1>2, <2>5 DEF SelectTrigger, SelectTriggerFails, OfTrigger, OnlyTriggers
  <2>6. CASE EndLoggingSession \/ DisconnectFromHost
    BY <2>2, <2>6 DEF EndLoggingSession, DisconnectFromHost
  <2>7. CASE Wild \/ UNCHANGED vars
    BY <1>2, <2>7 DEF Wild, vars, memory, OnlyTriggers
  <2> QED
    BY <1>2, <2>3, <2>4, <2>5, <2>6, <2>7 DEF Next
<1> QED
  BY NothingIsOverwritten, <1>1, <1>2, PTL DEF Spec

\* For every selection: outside of UploadLogInfoTerm everything allocated has its
\* pointer, after a failed allocation too, unless a NULL or freed memory was used; and
\* only what belonged to a trigger was ever lost.
THEOREM NothingLeaks == Spec => []NoLeak
<1>1. IInv /\ OnlyTriggers => NoLeak
  BY DEF IInv, Owned, NoLeak, OnlyTriggers
<1> QED
  BY Invariant, OnlyTriggersAreLost, <1>1, PTL
=============================================================================
