---------------------------- MODULE LoggingMemory ----------------------------
(***************************************************************************)
(* The memory of one upInfo and who uses it: the background task selects   *)
(* signals, selects and arms a trigger and ends sessions (UploadTables),   *)
(* while the clock Swi checks the trigger signals against the old values   *)
(* that are kept in memory of the trigger (TrigSignals).                   *)
(***************************************************************************)
EXTENDS UploadTables

CONSTANTS Widths, RealSize, Values, Level    \* of TrigSignals

VARIABLES
  widths, lookForRising, lookForFalling, armed, oldTrigSigVals, haveOldTrigSigVal, before

\* Signals compare with the level; each section has a number of them.
ASSUME SignalsAssumption ==
  Values \subseteq Int /\ Level \in Int /\ RealSize \in Nat /\ Widths \subseteq Seq(Nat)

Signals == INSTANCE TrigSignals WITH Selections <- Widths
signals ==
  <<widths, lookForRising, lookForFalling, armed, oldTrigSigVals, haveOldTrigSigVal, before>>

MemoryInit == Init /\ Signals!Init

-----------------------------------------------------------------------------
\* The task: UploadLogInfoTerm resets the trigger at its end only.
Session ==
  \/ (LogInfoInit \/ FreeTables \/ FreeBufs \/ FreeTrigger \/ DisconnectFromHost \/ Wild)
       /\ UNCHANGED signals
  \/ Reset /\ Signals!Destroy

\* UploadEndLoggingSession: "trigInfo.state = TRIGGER_UNARMED", then UploadLogInfoTerm.
SessionEndsArmed == EndLoggingSession /\ UNCHANGED signals        \* mutant
SessionEnds == EndLoggingSession /\ Signals!Disarm

\* A trigger is selected before it is armed: any selection, and anything in the memory.
TriggerSelected ==
  \/ SelectTrigger /\ Signals!Select
  \/ SelectTriggerFails /\ Signals!Destroy

\* A packet arms a trigger that was selected; UploadCancelLogging.
ArmTrigger ==
  at = "idle" /\ OldTrigSigVals \in ptrs /\ Signals!Arm /\ UNCHANGED vars
CancelLogging == at = "idle" /\ Signals!Disarm /\ UNCHANGED vars

\* The Swi, between any two steps of the task, tests the state of the trigger only. A
\* trigger that fires stores a time point at once, from the tables.
CheckTrigger ==
  /\ armed /\ OldTrigSigVals \in heap /\ at \notin Undefined
  /\ \E values \in Signals!Signals : Signals!Check(values)
  /\ IF armed' \/ SysTables \in heap THEN UNCHANGED vars ELSE SwiUsesFreed

CheckFreed ==
  armed /\ OldTrigSigVals \notin heap /\ SwiUsesFreed /\ UNCHANGED signals

MemoryNext ==
  \/ Session \/ SessionEnds \/ TriggerSelected \/ ArmTrigger \/ CancelLogging
  \/ CheckTrigger \/ CheckFreed

MemorySpec == MemoryInit /\ [][MemoryNext]_<<vars, signals>>

-----------------------------------------------------------------------------
\* UploadCheckTriggerSignals and UploadBufAddTimePoint test no pointer. Whenever the Swi
\* would check a trigger there is memory for its old values and a complete table behind
\* nSys, also in the middle of UploadLogInfoTerm when a failed selection, the server or
\* ForceDisconnectFromHost calls it; an EXT_DISCONNECT_REQUEST and a selection over an
\* armed trigger do not unarm it first.
HasMemory == {OldTrigSigVals, SysTables} \subseteq heap /\ nSys > 0 /\ Complete
ArmedHasMemory == armed /\ at \notin Undefined => HasMemory \/ by \in {"disconnect", "select"}

\* UploadLogInfoTerm: "Fields are re-initialized and pointers NULL'ed out by
\* UploadLogInfoReset()", after everything was freed: what the code does not keep to.
SwiFindsMemory == armed /\ at \notin Undefined => HasMemory

\* The trigger fires exactly at the crossings since it was armed, though its memory
\* was freed and allocated again, with other values, between.
FiresOnCrossing == Signals!FiresOnCrossing
=============================================================================
