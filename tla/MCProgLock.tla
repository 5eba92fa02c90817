----------------------------- MODULE MCProgLock -----------------------------
(***************************************************************************)
(* Instances of ProgLock for TLC.  Three processes are the least with which *)
(* two can judge the lock of a third.                                      *)
(***************************************************************************)
EXTENDS ProgLock

CONSTANTS p1, p2, p3

TwoProcs == {p1, p2}
ThreeProcs == {p1, p2, p3}
Program == {"program"}
Every == {"program", "task", "dir"}

(***************************************************************************)
(* Two formulas that TLC refutes; README.md says with which constants.     *)
(***************************************************************************)

\* html/programs/ftnfido.html:30, "To prevent that ftnfido will run more than
\* once at the same time a lock is placed in the protected inbound".
RunsOnce == Cardinality(Holders) <= 1

\* "Another ftnmon is already running, abort" (ftnmon/ftnmon.c:794): a program
\* that goes removes the lock it took, not the one that made it abort.
UnlockOwn ==
  [][\A p \in Proc : pc[p] = "ulunlink" /\ pc'[p] = "gone" /\ lock # None
       => owner = p]_lockvars
=============================================================================
