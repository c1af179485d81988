----------------------------- MODULE MCMemRead ------------------------------
(***************************************************************************)
(* MemRead for TLC: models of two blocks with regions of one to three      *)
(* vectors, periodic or not, in all orders of their steps; and a model     *)
(* with two blocks that read the same region.                              *)
(***************************************************************************)
EXTENDS MemRead

Block(start, n, vec, periodic) ==
  [start |-> start, size |-> n * vec, vec |-> vec, periodic |-> periodic]
Apart == {<<Block(0, n, 2, p), Block(6, m, 1, q)>> :
            n \in 1 .. 3, m \in 1 .. 3, p \in BOOLEAN, q \in BOOLEAN}
Same == {<<Block(0, 2, 1, TRUE), Block(0, 2, 1, TRUE)>>}
=============================================================================
