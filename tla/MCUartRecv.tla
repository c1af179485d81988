----------------------------- MODULE MCUartRecv -----------------------------
(***************************************************************************)
(* UartRecv for TLC: headers of two bytes; messages of three, with noise,  *)
(* a broken header and a message cut short between them.                   *)
(***************************************************************************)
EXTENDS UartRecv

TwoBytes == <<1, 2>>
Noisy == <<9, 1, 1, 2, 11, 12, 13, 1, 2, 21, 22, 23, 1, 9, 1, 2, 31, 32, 33, 9, 9, 1, 2, 41>>

\* A framed block and one without a header.
Two == {"a", "b"}
JustA == {"a"}
EqualSizes == [b \in Two |-> 3]
NoisyAndPlain == [b \in Two |-> IF b = "a" THEN Noisy ELSE <<7, 7, 8>>]

\* Two framed blocks.
TwoSizes == [b \in Two |-> IF b = "a" THEN 3 ELSE 2]
OneMessageEach ==
  [b \in Two |-> IF b = "a" THEN <<1, 2, 11, 12, 13>> ELSE <<1, 2, 61, 62>>]
=============================================================================
