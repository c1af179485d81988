----------------------------- MODULE MCIOBlocks -----------------------------
(***************************************************************************)
(* IOBlocks for TLC: file buffers of three records; headers of two bytes   *)
(* before messages of three, with noise, a broken header and a message cut *)
(* short between them; two memory blocks with regions of one to three      *)
(* vectors, periodic or not, in all orders of their steps.                 *)
(***************************************************************************)
EXTENDS IOBlocks

TwoBytes == <<1, 2>>
Noisy == <<9, 1, 1, 2, 11, 12, 13, 1, 2, 21, 22, 23, 1, 9, 1, 2, 31, 32, 33, 9, 9, 1, 2, 41>>

\* A framed block and one without a header.
Two == {"a", "b"}
JustA == {"a"}
EqualSizes == [b \in Two |-> 3]
NoisyAndPlain == [b \in Two |-> IF b = "a" THEN Noisy ELSE <<7, 7, 8>>]

Block(start, n, vec, periodic) ==
  [start |-> start, size |-> n * vec, vec |-> vec, periodic |-> periodic]
Apart == {<<Block(0, n, 2, p), Block(6, m, 1, q)>> :
            n \in 1 .. 3, m \in 1 .. 3, p \in BOOLEAN, q \in BOOLEAN}
=============================================================================
