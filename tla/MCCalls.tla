------------------------------ MODULE MCCalls -------------------------------
(***************************************************************************)
(* Calls with one node over a line and one over the internet, or two over  *)
(* the internet, and the counts of ftncico/call.c in proportion.           *)
(***************************************************************************)
EXTENDS Calls

MCScan == <<"a", "b">>

\* At most two callers of a node are stopped, and one calls.
MCPidOf == [a |-> 1..3, b |-> 4..6]

\* putstatus of 1, 10 and 0, where 30 make a node undialable.
MCCount == [noconnect |-> 1, unlisted |-> 2, other |-> 0]
=============================================================================
