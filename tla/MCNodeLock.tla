----------------------------- MODULE MCNodeLock -----------------------------
(***************************************************************************)
(* Instances of NodeLock for TLC: two processes, and a mailer of another   *)
(* operating system as the third party that locks the node.                *)
(***************************************************************************)
EXTENDS NodeLock

CONSTANTS p1, p2

TwoProcs == {p1, p2}

(***************************************************************************)
(* A formula that TLC refutes; README.md says with which constants.        *)
(***************************************************************************)

\* The comment at lib/nodelock.c:90, "If lock is our own lock, then it's ok and
\* we are ready": a process that nodelock grants the node to owns its lock file.
GrantedLockIsOwn == [][\A p \in Proc : p \in held' \ held => bsy' = p]_bsyvars
=============================================================================
