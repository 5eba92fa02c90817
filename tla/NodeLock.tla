------------------------------ MODULE NodeLock ------------------------------
(***************************************************************************)
(* The .bsy lock of one fidonet node, lib/nodelock.c.  Mailers, the queue  *)
(* flusher and mailers of another operating system compete for one name in *)
(* the outbound.  A process writes its pid in a temporary file that nobody *)
(* else opens (its name holds the pid) and link(2)s it to the lock's name: *)
(* the link is atomic and fails when the name exists.  All that follows a  *)
(* failed link is a sequence of separate system calls on a name whose file *)
(* others may replace between any two of them.                             *)
(***************************************************************************)
EXTENDS Naturals, FiniteSets

CONSTANTS Proc,        \* the processes, each with a pid that is never reused
          Foreign,     \* the owner of an empty lock file: another system
          NoFile,      \* the lock's name is not in the directory
          ZeroLocks,   \* CFG.ZeroLocks: another system shares the outbound
          CanOverstay, \* bound: six hours may pass over a lock file
          CanCrash     \* bound: processes may be killed

ASSUME OwnersDistinct == Foreign \notin Proc /\ NoFile \notin Proc /\ Foreign # NoFile
ASSUME SwitchesBoolean == {ZeroLocks, CanOverstay, CanCrash} \subseteq BOOLEAN

VARIABLES
  bsy,     \* what the name leads to: a file with a pid, a Foreign one, or NoFile
  old,     \* that file is more than six hours old
  alive,   \* the processes that run
  pc,      \* where each process is in nodelock or nodeulock
  seen,    \* the owner each process read from the lock file last
  held,    \* the processes that work under a lock nodelock granted
  robbed,  \* history: the holders whose lock file another process removed
  deluded, \* history: the holders that took an empty lock file for their own
  moved    \* history: the name changed since the process read the file

bsyvars == <<bsy, old, alive, pc, seen, held, robbed, deluded, moved>>

owners == <<held, robbed, deluded>>

Label == {"idle", "link", "read", "stat", "killYoung", "killOld", "unlink",
          "relink", "ulread", "ulunlink"}

BsyTypeOK ==
  /\ bsy \in Proc \union {Foreign, NoFile}
  /\ old \in BOOLEAN
  /\ alive \subseteq Proc
  /\ pc \in [Proc -> Label]
  /\ seen \in [Proc -> Proc \union {Foreign}]
  /\ held \subseteq alive
  /\ robbed \subseteq held
  /\ deluded \subseteq held
  /\ moved \in [Proc -> BOOLEAN]

BsyInit ==
  /\ bsy = NoFile
  /\ old = FALSE
  /\ alive = Proc
  /\ pc = [p \in Proc |-> "idle"]
  /\ seen = [p \in Proc |-> p]
  /\ held = {}
  /\ robbed = {}
  /\ deluded = {}
  /\ moved = [p \in Proc |-> FALSE]

At(p, label) == p \in alive /\ pc[p] = label

Goto(p, label) == pc' = [pc EXCEPT ![p] = label]

\* The name leads to another file, or to none, for whoever looked at it before.
Rename(file) ==
  /\ bsy' = file
  /\ old' = FALSE
  /\ moved' = [p \in Proc |-> TRUE]

(***************************************************************************)
(* nodelock                                                                *)
(***************************************************************************)

\* The temporary file is written.  A process calls nodelock whatever it holds:
\* a session locks the address it calls, and again each one the remote presents.
BeginLock(p) ==
  /\ At(p, "idle")
  /\ Goto(p, "link")
  /\ UNCHANGED <<bsy, old, alive, seen, owners, moved>>

\* Mutant: the temporary file is renamed over the lock, which never fails.
GrantByRename(p) ==
  /\ Rename(p)
  /\ held' = held \union {p}
  /\ robbed' = robbed \ {p}
  /\ deluded' = deluded \ {p}
  /\ Goto(p, "idle")
  /\ UNCHANGED <<alive, seen>>

\* link succeeds and nodelock returns 0.
Grant(p) ==
  /\ bsy = NoFile
  /\ Rename(p)
  /\ held' = held \union {p}
  /\ robbed' = robbed \ {p}
  /\ deluded' = deluded \ {p}
  /\ Goto(p, "idle")
  /\ UNCHANGED <<alive, seen>>

\* The first link: granted, or EEXIST leads to a look at the file.
LinkFirst(p) ==
  /\ At(p, "link")
  /\ \/ Grant(p)
     \/ /\ bsy # NoFile
        /\ Goto(p, "read")
        /\ UNCHANGED <<bsy, old, alive, seen, owners, moved>>

\* Any other error of link: nodelock returns 1.
LinkError(p) ==
  /\ At(p, "link")
  /\ Goto(p, "idle")
  /\ UNCHANGED <<bsy, old, alive, seen, owners, moved>>

\* The file cannot be opened because it is gone: nodelock returns 1.
ReadGone(p) ==
  /\ At(p, "read")
  /\ bsy = NoFile
  /\ Goto(p, "idle")
  /\ UNCHANGED <<bsy, old, alive, seen, owners, moved>>

\* Mutant: the result of the second fopen is not looked at.
ReadOwnerUnchecked(p) ==
  /\ At(p, "read")
  /\ seen' = [seen EXCEPT ![p] = bsy]
  /\ Goto(p, "stat")
  /\ UNCHANGED <<bsy, old, alive, owners, moved>>

\* The owner is read.  An own pid makes nodelock return 0.
ReadOwner(p) ==
  /\ At(p, "read")
  /\ bsy # NoFile
  /\ seen' = [seen EXCEPT ![p] = bsy]
  /\ moved' = [moved EXCEPT ![p] = FALSE]
  /\ IF bsy = p
     THEN Goto(p, "idle") /\ held' = held \union {p}
     ELSE Goto(p, "stat") /\ UNCHANGED held
  /\ UNCHANGED <<bsy, old, alive, robbed, deluded>>

\* Nothing is read from an empty file.  The comparison with the own pid comes
\* before the test of what fscanf returned, and tmppid is not initialized: an
\* earlier call on the same stack may have left the own pid there.
ReadEmpty(p) ==
  /\ At(p, "read")
  /\ bsy = Foreign
  /\ Goto(p, "idle")
  /\ held' = held \union {p}
  /\ deluded' = deluded \union {p}
  /\ UNCHANGED <<bsy, old, alive, seen, robbed, moved>>

\* file_time returns -1 for a name that is gone, and the unsigned difference
\* with the present time is then far more than six hours.
LooksOld == old \/ bsy = NoFile

StatLock(p) ==
  /\ At(p, "stat")
  /\ Goto(p, IF LooksOld THEN "killOld" ELSE "killYoung")
  /\ UNCHANGED <<bsy, old, alive, seen, owners, moved>>

\* Mutant: errno is not compared with ESRCH, the lock of a live pid goes too.
JudgeAnyPid(p) ==
  /\ At(p, "killOld") \/ At(p, "killYoung")
  /\ Goto(p, IF pc[p] = "killOld" \/ seen[p] \in Proc THEN "unlink" ELSE "idle")
  /\ UNCHANGED <<bsy, old, alive, seen, owners, moved>>

\* Mutant: the death of the owner is not asked for, only the age counts.
JudgeByAge(p) ==
  /\ At(p, "killOld") \/ At(p, "killYoung")
  /\ Goto(p, IF pc[p] = "killOld" THEN "unlink" ELSE "idle")
  /\ UNCHANGED <<bsy, old, alive, seen, owners, moved>>

\* An empty file falls to its age alone; a pid to its death or to its age.
\* What is neither makes nodelock return 1.
Judge(p) ==
  /\ At(p, "killOld") \/ At(p, "killYoung")
  /\ Goto(p, IF pc[p] = "killOld" \/ seen[p] \in Proc \ alive THEN "unlink" ELSE "idle")
  /\ UNCHANGED <<bsy, old, alive, seen, owners, moved>>

\* unlink removes whatever the name leads to now; an error is not looked at.
Unlink(p) ==
  /\ At(p, "unlink")
  /\ Goto(p, "relink")
  /\ IF bsy = NoFile
     THEN UNCHANGED <<bsy, old, moved, robbed>>
     ELSE Rename(NoFile) /\ robbed' = robbed \union ({bsy} \intersect held)
  /\ UNCHANGED <<alive, seen, held, deluded>>

\* The second and last link: granted, or nodelock returns 1.
LinkAgain(p) ==
  /\ At(p, "relink")
  /\ \/ Grant(p)
     \/ /\ bsy # NoFile
        /\ Goto(p, "idle")
        /\ UNCHANGED <<bsy, old, alive, seen, owners, moved>>

(***************************************************************************)
(* nodeulock                                                               *)
(***************************************************************************)

\* The caller is done with the node; error paths of call() unlock without
\* asking whether the lock is still theirs.
BeginUnlock(p) ==
  /\ At(p, "idle")
  /\ Goto(p, "ulread")
  /\ held' = held \ {p}
  /\ robbed' = robbed \ {p}
  /\ deluded' = deluded \ {p}
  /\ UNCHANGED <<bsy, old, alive, seen, moved>>

\* Only a file that holds the own pid goes on to the unlink.
UnlockRead(p) ==
  /\ At(p, "ulread")
  /\ IF bsy = p
     THEN Goto(p, "ulunlink") /\ moved' = [moved EXCEPT ![p] = FALSE]
     ELSE Goto(p, "idle") /\ UNCHANGED moved
  /\ UNCHANGED <<bsy, old, alive, seen, owners>>

UnlockUnlink(p) ==
  /\ At(p, "ulunlink")
  /\ Goto(p, "idle")
  /\ IF bsy = NoFile
     THEN UNCHANGED <<bsy, old, moved, robbed>>
     ELSE Rename(NoFile) /\ robbed' = robbed \union ({bsy} \intersect held)
  /\ UNCHANGED <<alive, seen, held, deluded>>

(***************************************************************************)
(* The world around: time, the kill of a process, the other system.  Some  *)
(* process is always left: the scheduler starts mailers for waiting mail.  *)
(***************************************************************************)

SixHoursPass ==
  /\ CanOverstay
  /\ bsy # NoFile
  /\ old' = TRUE
  /\ UNCHANGED <<bsy, alive, pc, seen, owners, moved>>

Crash(p) ==
  /\ CanCrash
  /\ p \in alive
  /\ alive # {p}
  /\ alive' = alive \ {p}
  /\ held' = held \ {p}
  /\ robbed' = robbed \ {p}
  /\ deluded' = deluded \ {p}
  /\ Goto(p, "idle")
  /\ UNCHANGED <<bsy, old, seen, moved>>

ForeignLock ==
  /\ ZeroLocks
  /\ bsy = NoFile
  /\ Rename(Foreign)
  /\ UNCHANGED <<alive, pc, seen, owners>>

ForeignUnlock ==
  /\ bsy = Foreign
  /\ Rename(NoFile)
  /\ UNCHANGED <<alive, pc, seen, owners>>

-----------------------------------------------------------------------------
Lock(p) ==
  \/ BeginLock(p) \/ LinkFirst(p) \/ LinkError(p) \/ ReadGone(p) \/ ReadOwner(p)
  \/ ReadEmpty(p) \/ StatLock(p) \/ Judge(p) \/ Unlink(p) \/ LinkAgain(p)

Unlock(p) == BeginUnlock(p) \/ UnlockRead(p) \/ UnlockUnlink(p)

BsyNext ==
  \/ \E p \in Proc : Lock(p) \/ Unlock(p) \/ Crash(p)
  \/ SixHoursPass \/ ForeignLock \/ ForeignUnlock

BsySpec == BsyInit /\ [][BsyNext]_bsyvars

\* A process that runs goes on, calls for the node again and again (the
\* scheduler repeats a call until the mail is gone), and link does not fail
\* for other reasons for ever.
BsyFairness ==
  \A p \in Proc : /\ WF_bsyvars(Lock(p) \/ Unlock(p))
                  /\ SF_bsyvars(BeginLock(p))
                  /\ SF_bsyvars(LinkFirst(p))

FairSpec == BsySpec /\ BsyFairness

(***************************************************************************)
(* Properties                                                              *)
(***************************************************************************)

\* Of the processes that work under the lock all but the robbed and the deluded
\* own the file the name leads to: two processes serve a node at once only after
\* one had its lock file removed, or mistook another system's for its own.
SoleHolder == \A p \in held \ (robbed \union deluded) : bsy = p

\* A process about to unlink the name removes either a file it may remove (in
\* nodelock one that is old or of a dead process, in nodeulock its own) or one
\* that came after the file it judged: there is no other way to lose a lock.
UnlinkJudged ==
  \A p \in Proc :
    ~moved[p] => /\ At(p, "unlink") => old \/ bsy \in Proc \ alive
                 /\ At(p, "ulunlink") => bsy = p

\* The lock file of a dead process does not lock the node for ever.
DeadOwnerGivesWay == bsy \in Proc \ alive ~> bsy \notin Proc \ alive

\* What html/misc/outbound.html:93-96 says of .bsy files: a program checks if
\* the pid in the file exists and only a file without one is stale.  Taken for
\* files under six hours: no program removes the file of another that runs.
LiveLockKept ==
  [][\A p \in Proc : At(p, "unlink") /\ ~At(p, "unlink")' /\ ~old /\ bsy # NoFile
        => bsy \notin alive]_bsyvars
=============================================================================
