------------------------------ MODULE ProgLock ------------------------------
(***************************************************************************)
(* The lock files that keep a program from running twice: lockprogram and  *)
(* ulockprogram (lib/proglock.c, copied in ftnmon/proglock.c), locktask and *)
(* ulocktask (ftntask/ftntask.c), lockdir and ulockdir (ftnfido/dirlock.c). *)
(* All three write their pid in a temporary file, link it to the lock's    *)
(* name and, when the name exists, ask whether the pid in it still lives.  *)
(* They differ in whether the temporary file's name is shared by all, in   *)
(* whether the unlock compares the pid, and in whether a refused program   *)
(* unlocks on its way out.  A name leads to an inode, and link makes a     *)
(* second name of the same inode.                                          *)
(***************************************************************************)
EXTENDS Naturals, FiniteSets

CONSTANTS Proc,       \* the processes; each takes the lock at most once
          Common,     \* the one name of a shared temporary file
          None,       \* no inode, no process
          Kinds,      \* the locks there are: "program", "task", "dir"
          CanCrash    \* bound: processes may be killed

ASSUME NamesDistinct == Common \notin Proc /\ None \notin Proc \union {Common}
ASSUME KindsKnown == Kinds \subseteq {"program", "task", "dir"}
ASSUME CanCrashBoolean == CanCrash \in BOOLEAN

VARIABLES
  kind,    \* which of the locks this is
  tmp,     \* the inode each temporary name leads to, named by its creator
  lock,    \* the inode the lock's name leads to
  content, \* the pid in each inode, None when it is empty
  fd,      \* the inode each process has open for writing
  seen,    \* the pid each process read from the lock last
  pc,      \* where each process is
  owner,   \* history: who linked the lock's name
  robbed   \* history: processes whose lock another one removed

\* lockprogram and locktask name the temporary file after the program alone.
SharedTmp == kind # "dir"

\* Mutant: the pid is left out of the name.
TmpNameWithoutPid(p) == Common

\* The temporary name, "<program>.tmp" or "TMP.<pid>".
TmpName(p) == IF SharedTmp THEN Common ELSE p

lockvars == <<kind, tmp, lock, content, fd, seen, pc, owner, robbed>>
files == <<tmp, lock, content>>

Label == {"start", "write", "link", "read", "kill", "stale", "drop", "refuse",
          "running", "ulread", "ulunlink", "gone"}

LockTypeOK ==
  /\ kind \in Kinds
  /\ tmp \in [Proc \union {Common} -> Proc \union {None}]
  /\ lock \in Proc \union {None}
  /\ content \in [Proc -> Proc \union {None}]
  /\ fd \in [Proc -> Proc]
  /\ seen \in [Proc -> Proc]
  /\ pc \in [Proc -> Label]
  /\ owner \in Proc \union {None}
  /\ robbed \subseteq Proc

LockInit ==
  /\ kind \in Kinds
  /\ tmp = [n \in Proc \union {Common} |-> None]
  /\ lock = None
  /\ content = [p \in Proc |-> None]
  /\ fd = [p \in Proc |-> p]
  /\ seen = [p \in Proc |-> p]
  /\ pc = [p \in Proc |-> "start"]
  /\ owner = None
  /\ robbed = {}

Goto(p, label) == pc' = [pc EXCEPT ![p] = label]

\* The processes between a successful link and the end of their work.
Holders == {p \in Proc : pc[p] \in {"drop", "running"}}

\* p unlinks the lock's name; unlink's own error, no such name, is not looked at.
RemoveLock(p) ==
  /\ lock' = None
  /\ owner' = None
  /\ robbed' = robbed \union (({owner} \intersect Holders) \ {p})

\* fopen "w" makes an empty file, or empties the one the name leads to.
OpenTmp(p) ==
  /\ pc[p] = "start"
  /\ LET i == IF tmp[TmpName(p)] = None THEN p ELSE tmp[TmpName(p)]
     IN  /\ tmp' = [tmp EXCEPT ![TmpName(p)] = i]
         /\ content' = [content EXCEPT ![i] = None]
         /\ fd' = [fd EXCEPT ![p] = i]
  /\ Goto(p, "write")
  /\ UNCHANGED <<kind, lock, seen, owner, robbed>>

\* fclose writes the buffered pid, whatever names the inode has by now.
WritePid(p) ==
  /\ pc[p] = "write"
  /\ content' = [content EXCEPT ![fd[p]] = p]
  /\ Goto(p, "link")
  /\ UNCHANGED <<kind, tmp, lock, fd, seen, owner, robbed>>

\* Mutant: rename instead of link, which replaces a lock that exists.
LinkReplacing(p) ==
  /\ pc[p] = "link"
  /\ IF tmp[TmpName(p)] # None
     THEN lock' = tmp[TmpName(p)] /\ owner' = p /\ Goto(p, "drop")
     ELSE Goto(p, "read") /\ UNCHANGED <<lock, owner>>
  /\ UNCHANGED <<kind, tmp, content, fd, seen, robbed>>

\* link fails when the lock's name exists, or when another process has removed
\* the shared temporary name; the code does not tell the two apart.
LinkLock(p) ==
  /\ pc[p] = "link"
  /\ IF lock = None /\ tmp[TmpName(p)] # None
     THEN lock' = tmp[TmpName(p)] /\ owner' = p /\ Goto(p, "drop")
     ELSE Goto(p, "read") /\ UNCHANGED <<lock, owner>>
  /\ UNCHANGED <<kind, tmp, content, fd, seen, robbed>>

\* Mutant: a failed fopen is not noticed and the pid is what it was before, none.
ReadPidUnchecked(p) ==
  /\ pc[p] = "read"
  /\ seen' = [seen EXCEPT ![p] = IF lock = None THEN None ELSE content[lock]]
  /\ Goto(p, "kill")
  /\ UNCHANGED <<kind, files, fd, owner, robbed>>

\* A lock that cannot be opened or holds no pid refuses the caller.
ReadPid(p) ==
  /\ pc[p] = "read"
  /\ IF lock # None /\ content[lock] # None
     THEN seen' = [seen EXCEPT ![p] = content[lock]] /\ Goto(p, "kill")
     ELSE Goto(p, "refuse") /\ UNCHANGED seen
  /\ UNCHANGED <<kind, files, fd, owner, robbed>>

KillPid(p) ==
  /\ pc[p] = "kill"
  /\ Goto(p, IF pc[seen[p]] = "gone" THEN "stale" ELSE "refuse")
  /\ UNCHANGED <<kind, files, fd, seen, owner, robbed>>

\* Mutant: the stale lock stays, the loop tries again.
UnlinkStaleForgotten(p) ==
  /\ pc[p] = "stale"
  /\ Goto(p, "link")
  /\ UNCHANGED <<kind, files, fd, seen, owner, robbed>>

\* "no return, try lock again"
UnlinkStale(p) ==
  /\ pc[p] = "stale"
  /\ RemoveLock(p)
  /\ Goto(p, "link")
  /\ UNCHANGED <<kind, tmp, content, fd, seen>>

\* A refused program ends.  The users of lockprogram do so with die(), which
\* calls ulockprogram; ftntask exits, and ftnfido's die() leaves out the unlock.
AfterRefusal == IF kind = "program" THEN "ulread" ELSE "gone"

\* The temporary name goes on success and on refusal.
DropTmp(p) ==
  /\ pc[p] \in {"drop", "refuse"}
  /\ tmp' = [tmp EXCEPT ![TmpName(p)] = None]
  /\ Goto(p, IF pc[p] = "drop" THEN "running" ELSE AfterRefusal)
  /\ UNCHANGED <<kind, lock, content, fd, seen, owner, robbed>>

\* The program has done its work and calls the unlock function.
BeginUnlock(p) ==
  /\ pc[p] = "running"
  /\ Goto(p, "ulread")
  /\ robbed' = robbed \ {p}
  /\ UNCHANGED <<kind, files, fd, seen, owner>>

\* ulockprogram unlinks whatever pid it read; ulocktask and ulockdir only the
\* own one; an empty lock goes in ulockprogram and ulocktask, not in ulockdir.
MayUnlink(p) ==
  lock # None /\ \/ content[lock] = p
                 \/ content[lock] = None /\ SharedTmp
                 \/ content[lock] # None /\ kind = "program"

UnlockRead(p) ==
  /\ pc[p] = "ulread"
  /\ Goto(p, IF MayUnlink(p) THEN "ulunlink" ELSE "gone")
  /\ UNCHANGED <<kind, files, fd, seen, owner, robbed>>

UnlockUnlink(p) ==
  /\ pc[p] = "ulunlink"
  /\ RemoveLock(p)
  /\ Goto(p, "gone")
  /\ UNCHANGED <<kind, tmp, content, fd, seen>>

\* A killed process leaves its files as they are.
Crash(p) ==
  /\ CanCrash
  /\ pc[p] \notin {"start", "gone"}
  /\ Goto(p, "gone")
  /\ robbed' = robbed \ {p}
  /\ UNCHANGED <<kind, files, fd, seen, owner>>

-----------------------------------------------------------------------------
TryLock(p) ==
  \/ OpenTmp(p) \/ WritePid(p) \/ LinkLock(p) \/ ReadPid(p) \/ KillPid(p)
  \/ UnlinkStale(p) \/ DropTmp(p)

Unlock(p) == BeginUnlock(p) \/ UnlockRead(p) \/ UnlockUnlink(p)

LockNext == \E p \in Proc : TryLock(p) \/ Unlock(p) \/ Crash(p)

LockSpec == LockInit /\ [][LockNext]_lockvars

\* A process in the lock functions goes on.
FairSpec == LockSpec /\ \A p \in Proc : WF_lockvars(TryLock(p) /\ pc[p] # "start")

(***************************************************************************)
(* Properties                                                              *)
(***************************************************************************)

\* Programs that run and were not robbed of their lock linked it themselves:
\* there is one of them at most, in all the lock functions.
SoleRunner == \A p \in Holders \ robbed : owner = p /\ lock # None

\* With a temporary file of the own (lockdir) the lock names who linked it, so
\* those who find it ask for the right process.
LockNamesOwner == kind = "dir" /\ lock # None => content[lock] = owner

\* The loop of the lock functions ends: a caller gets the lock or is refused.
CallReturns ==
  \A p \in Proc : pc[p] = "write" ~> pc[p] \in {"running", "ulread", "gone"}
=============================================================================
