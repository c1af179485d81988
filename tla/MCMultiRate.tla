---------------------------- MODULE MCMultiRate ----------------------------
(***************************************************************************)
(* MultiRate for TLC: two subrates, of two and of three ticks.             *)
(***************************************************************************)
EXTENDS MultiRate

TwoAndThree == <<2, 3>>
=============================================================================
