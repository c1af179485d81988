---------------------------- MODULE BoundedStream ----------------------------
(***************************************************************************)
(* What one upload buffer promises, with no pointers in it: a stream of    *)
(* logged cells of which at most Capacity are outstanding, released in the *)
(* order they were accepted, and only until the logging event is over.     *)
(*                                                                         *)
(* The promise has one exception.  UploadBufDataSent can mistake a full    *)
(* buffer for an empty one; from then on the stream is spoilt and nothing  *)
(* is promised until it is reopened.                                       *)
(***************************************************************************)
EXTENDS Integers

CONSTANT Capacity   \* a positive number of cells

VARIABLES
  phase,      \* "closed", "open", "closing" or "spoilt"
  accepted,   \* cells logged so far
  released    \* cells the buffer has let go: sent, or dropped by a pre-trigger

vars == <<phase, accepted, released>>

Init == phase = "closed" /\ accepted = 0 /\ released = 0

\* A reopened stream starts empty.
Open ==
  /\ phase \in {"closed", "spoilt"} /\ phase' = "open"
  /\ released' = accepted /\ UNCHANGED accepted

Accept ==
  /\ phase = "open" /\ UNCHANGED <<phase, released>>
  /\ accepted' \in Nat /\ accepted' > accepted
  /\ accepted' - released <= Capacity

Release ==
  /\ phase \in {"open", "closing"} /\ UNCHANGED <<phase, accepted>>
  /\ released' \in Nat /\ released' > released /\ released' <= accepted

\* The duration is over, the buffer has overflowed, or logging is cancelled.
Close == phase = "open" /\ phase' = "closing" /\ UNCHANGED <<accepted, released>>

\* All has been sent, or the connection has gone.
End == phase \in {"open", "closing"} /\ phase' = "closed" /\ UNCHANGED <<accepted, released>>

\* A cancelled hold off goes through the termination of an event again.
Reclose == phase = "closed" /\ phase' = "closing" /\ UNCHANGED <<accepted, released>>

Spoil ==
  /\ phase \in {"open", "closing"} /\ phase' = "spoilt"
  /\ accepted > released /\ UNCHANGED <<accepted, released>>

Spoilt == phase = "spoilt" /\ phase' = "spoilt" /\ accepted' \in Nat /\ released' \in Nat

Next == Open \/ Accept \/ Release \/ Close \/ End \/ Reclose \/ Spoil \/ Spoilt

Spec == Init /\ [][Next]_vars

\* Never more outstanding than fits, never released what was not accepted.
Bounded == phase # "spoilt" => released <= accepted /\ accepted - released <= Capacity
=============================================================================
