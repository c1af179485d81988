----------------------------- MODULE MCModelRun -----------------------------
(***************************************************************************)
(* ModelRun for TLC, from both builds.                                     *)
(***************************************************************************)
EXTENDS ModelRun

BothBuilds == {"single", "multi"}
=============================================================================
