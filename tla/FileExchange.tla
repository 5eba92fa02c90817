---------------------------- MODULE FileExchange ----------------------------
(***************************************************************************)
(* What a file transfer protocol of ftncico promises, whichever it is: a   *)
(* file is delivered while its sender still keeps it, and the sender lets  *)
(* go of it after it was delivered.  A file whose acknowledgement was lost *)
(* is kept, and so may be delivered again.                                 *)
(***************************************************************************)
EXTENDS Naturals

CONSTANT File   \* the files in the outbound at the start

VARIABLES kept,   \* the files that are still in the outbound
          copies  \* how often each file was delivered

vars == <<kept, copies>>

Init ==
  /\ kept = File
  /\ copies = [f \in File |-> 0]

Deliver(f) ==
  /\ f \in kept
  /\ copies' = [copies EXCEPT ![f] = @ + 1]
  /\ UNCHANGED kept

Release(f) ==
  /\ f \in kept
  /\ copies[f] > 0
  /\ kept' = kept \ {f}
  /\ UNCHANGED copies

Next == \E f \in File : Deliver(f) \/ Release(f)

Safe == Init /\ [][Next]_vars

Spec ==
  /\ Safe
  /\ \A f \in File : WF_vars(copies[f] = 0 /\ Deliver(f)) /\ WF_vars(Release(f))

=============================================================================
