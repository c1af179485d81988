--------------------------- MODULE MCUploadTables ---------------------------
(***************************************************************************)
(* UploadTables for TLC: three sample times, selections of one to three    *)
(* systems, some without signals in a sample time, two that do not fit.    *)
(***************************************************************************)
EXTENDS TLC, UploadTables

Both == [systems |-> <<{0, 1}, {0}>>, size |-> 0 :> 1 @@ 1 :> 1 @@ 2 :> 0]
Three == [systems |-> <<{1}, {0, 1, 2}, {}>>, size |-> [t \in Tids |-> 1]]
Single == [systems |-> <<{0}>>, size |-> 0 :> 1 @@ 1 :> 0 @@ 2 :> 0]
TooLarge == [systems |-> <<{0, 1, 2}>>, size |-> 0 :> 1 @@ 1 :> -1 @@ 2 :> 1]
Unfit == [systems |-> <<{0}>>, size |-> 0 :> -1 @@ 1 :> 1 @@ 2 :> 0]
Some == {Both, Three, Single, TooLarge, Unfit}
=============================================================================
