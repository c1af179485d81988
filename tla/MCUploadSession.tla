--------------------------- MODULE MCUploadSession ---------------------------
(***************************************************************************)
(* UploadSession for TLC: once with two sample times and one upInfo, for   *)
(* the triggers, once with both upInfos, for what they share.              *)
(***************************************************************************)
EXTENDS UploadSession

Trigger(manual, tid, duration, holdOff, delay) ==
  [manual |-> manual, tid |-> tid, duration |-> duration, holdOff |-> holdOff,
   delay |-> delay]

\* Two sample times: a one shot event that starts at once, and a re-armed one with
\* a delayed trigger in the slower rate, which overflows unless it is served.
TwoRates == {Trigger(TRUE, 0, 2, OneShot, 0), Trigger(FALSE, 1, 3, 0, 1)}

\* One sample time: a one shot event that starts at once, and a re-armed one that
\* keeps the two points before the crossing.
OneRate == {Trigger(TRUE, 0, 1, OneShot, 0), Trigger(FALSE, 0, 3, 0, -2)}

\* Models without and with conditional subsystems.
Unconditional == {Tids}
Conditional == SUBSET Tids

\* A one shot event in three sample times.
OneShotOnly == {Trigger(TRUE, 0, 2, OneShot, 0)}

\* A pre-trigger of one point in two sample times.
PreTrigger == {Trigger(FALSE, 0, 3, OneShot, -1)}
=============================================================================
