----------------------------- MODULE MCHostLink -----------------------------
(***************************************************************************)
(* HostLink for TLC: two parameter sections, requests of every kind, and   *)
(* packets of a type that the target does not know.                        *)
(***************************************************************************)
EXTENDS HostLink

Plain(type) == [type |-> type, set |-> << >>]
SetParams(set) == [type |-> "SETPARAM", set |-> set]

\* Downloads of one section and of both.
Downloads == {SetParams(1 :> 1), SetParams([s \in {1, 2} |-> 2])}

Sessions == {Plain("ARM"), Plain("GET_TIME"), Plain("STOP"), Plain("DISCONNECT"),
             Plain("DISCONNECT_NOW")}
All == Downloads \cup Sessions \cup {Plain("GETPARAMS"), Plain("SELECT")}
Unknown == {Plain("UNKNOWN"), Plain("GET_TIME")}
=============================================================================
