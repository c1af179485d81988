---------------------------- MODULE MCCircularBuf ----------------------------
(***************************************************************************)
(* CircularBuf for TLC: a buffer of twelve cells. Three middle time points *)
(* fill it exactly; a middle and a large one leave its last cell, in which *)
(* the next may start. Points wrap, end at the end of the buffer, do not   *)
(* fit, and are given up with some sections in.                            *)
(***************************************************************************)
EXTENDS CircularBuf
=============================================================================
