------------------------------- MODULE Calls --------------------------------
(***************************************************************************)
(* Calling the nodes that have mail: ftntask scans the outbound            *)
(* (ftntask/outstat.c), keeps a list of nodes to call with as many places  *)
(* as tasks (ftntask/calllist.c), and starts every twenty seconds at most  *)
(* one ftncico, going round the list (ftntask/ftntask.c).  ftncico locks   *)
(* the node, calls it and leaves the result in the node's status file      *)
(* (ftncico/call.c, ftncico/callstat.c), from which the next scan learns   *)
(* it.  Nodes call in as well.                                             *)
(***************************************************************************)
EXTENDS Integers, Sequences, FiniteSets

CONSTANTS
  Scan,        \* the nodes, in the order a scan of the outbound finds them
  Line,        \* the nodes called over a line, the others over the internet
  PidOf,       \* [Node -> SUBSET Nat]: the numbers processes that call a node get
  MaxTasks,    \* MAXTASKS, of the list of calls and of the list of tasks
  MaxTcp,      \* TCFG.max_tcp, sessions over the internet
  Lines,       \* lines for calls
  Undialable,  \* 30 failures
  Count,       \* [failures -> Nat]: what a failure adds
  MaxEvents    \* bound: what comes from outside

Node == {Scan[i] : i \in DOMAIN Scan}
Pid == UNION {PidOf[n] : n \in Node}
Slot == 0..(MaxTasks - 1)
NoPid == 0

ASSUME NodesKnown == Line \subseteq Node /\ Cardinality(Node) = Len(Scan)
ASSUME NumbersKnown ==
  /\ \A n, o \in Node : n # o => PidOf[n] \intersect PidOf[o] = {}
  /\ {MaxTasks, MaxTcp, Lines, Undialable} \subseteq Nat \ {0} /\ MaxEvents \in Nat
  /\ Pid \subseteq Nat \ {NoPid} /\ Count \in [DOMAIN Count -> Nat]
  /\ "unlisted" \in DOMAIN Count

VARIABLES
  want,        \* the nodes whose mail or poll may be sent now
  cst,         \* their status files: failures, and whether the retry time is to come
  calllist,    \* the nodes to call
  call_entry,  \* the last one called
  call_work,   \* the last scan found nodes to call
  rescan,      \* the outbound is to be scanned
  pass,        \* where the slow pass of the scheduler is
  internet,    \* ftntask reaches the internet
  task,        \* the task list of ftntask
  job,         \* a job of module MailIn is in it
  proc,        \* the processes of ftncico that call
  incoming,    \* the nodes in a session they called for
  events

vars == <<want, cst, calllist, call_entry, call_work, rescan, pass, internet, task, job, proc, incoming,
          events>>

Nobody == "nobody"
Empty == [node |-> Nobody, wait |-> FALSE, calling |-> FALSE, taskpid |-> NoPid]
NoProc == [node |-> Nobody, at |-> "off", stopped |-> FALSE]

TypeOK ==
  /\ want \subseteq Node /\ incoming \subseteq Node
  /\ cst \in [Node -> [tryno : 0..Undialable, wait : BOOLEAN]]
  /\ calllist \in [Slot -> [node : Node \union {Nobody}, wait : BOOLEAN, calling : BOOLEAN,
                            taskpid : Pid \union {NoPid}]]
  /\ call_entry \in 0..MaxTasks
  /\ call_work \in BOOLEAN /\ rescan \in BOOLEAN /\ internet \in BOOLEAN /\ job \in BOOLEAN
  /\ task \subseteq Pid /\ pass \in {"scan", "launch"}
  /\ proc \in [Pid -> [node : Node \union {Nobody}, stopped : BOOLEAN,
                       at : {"off", "start", "session", "putok", "putstatus", "ended"}]]
  /\ events \in 0..MaxEvents

Init ==
  /\ want = {} /\ incoming = {}
  /\ cst = [n \in Node |-> [tryno |-> 0, wait |-> FALSE]]
  /\ calllist = [i \in Slot |-> Empty]
  /\ call_entry = MaxTasks /\ call_work = FALSE
  /\ rescan = TRUE /\ pass = "scan" /\ internet = FALSE
  /\ task = {} /\ job = FALSE /\ proc = [p \in Pid |-> NoProc]
  /\ events = 0

Event == events < MaxEvents /\ events' = events + 1

(***************************************************************************)
(* The status of a node.                                                   *)
(***************************************************************************)
Least(a, b) == IF a < b THEN a ELSE b

\* putstatus: the failures are counted up to the number that matters.
putstatus(n, incr) ==
  cst' = [cst EXCEPT ![n] = [tryno |-> Least(@.tryno + incr, Undialable), wait |-> TRUE]]
putstatusOk(n) == cst' = [cst EXCEPT ![n] = [tryno |-> 0, wait |-> FALSE]]

\* What outstat makes of a node: F_CALL, and the call mode check_calllist asks for.
F_CALL(n) == n \in want /\ cst[n].tryno < Undialable
Callable(n) == F_CALL(n) /\ (n \in Line \/ internet)

(***************************************************************************)
(* One pass of the scheduler.                                              *)
(***************************************************************************)

\* What wait4 reports: a process that ended, and one that was stopped.
Gone == {p \in task : proc[p].at = "ended" \/ proc[p].stopped}

\* Mutant: the list of calls does not hear of the end.
ReapedUnnoticed == [i \in Slot |-> IF calllist[i].taskpid \in Gone
                                   THEN [calllist[i] EXCEPT !.taskpid = NoPid] ELSE calllist[i]]

Reaped == [i \in Slot |-> IF calllist[i].taskpid \in Gone
                          THEN [calllist[i] EXCEPT !.calling = FALSE, !.taskpid = NoPid]
                          ELSE calllist[i]]

\* check_calllist: entries that need no call go, even those that are being called; the
\* others are refreshed; new ones get the free places.
Position(n) == CHOOSE i \in DOMAIN Scan : Scan[i] = n

\* Mutant: a node that is being called does not count.
ListedIdle(list, n) == \E i \in Slot : list[i].node = n /\ ~list[i].calling

Listed(list, n) == \E i \in Slot : list[i].node = n

\* Mutant: the call status of an entry is that of the day it was made.
RefreshedNever(e) == e

Refreshed(e) == IF Callable(e.node) THEN [e EXCEPT !.wait = cst[e.node].wait] ELSE e

check_calllist(list) ==
  LET kept == [i \in Slot |-> IF list[i].node # Nobody /\ F_CALL(list[i].node)
                              THEN Refreshed(list[i]) ELSE Empty]
      free == {i \in Slot : kept[i] = Empty}
      new  == {n \in Node : Callable(n) /\ ~Listed(kept, n)}
      Before(n) == Cardinality({m \in new : Position(m) < Position(n)})
      Below(i)  == Cardinality({k \in free : k < i})
      For(i)    == {n \in new : Before(n) = Below(i)}
  IN [i \in Slot |-> IF i \in free /\ For(i) # {}
                     THEN LET n == CHOOSE m \in For(i) : TRUE
                          IN [Empty EXCEPT !.node = n, !.wait = cst[n].wait]
                     ELSE kept[i]]

\* ipmailers: who registered a TCP/IP session; runtasktype; pots_free and isdn_free.
InSession(p) == proc[p].at \in {"session", "putok", "putstatus"}
ipmailers ==
  Cardinality({p \in Pid : InSession(p) /\ proc[p].node \notin Line}) + Cardinality(incoming \ Line)
runtasktype == Cardinality({p \in task : proc[p].node \in Line})
lines_free ==
  Lines - Cardinality({p \in Pid : InSession(p) /\ proc[p].node \in Line})
        - Cardinality(incoming \intersect Line)

MayStart(e) ==
  /\ e.node # Nobody /\ ~e.calling /\ ~e.wait
  /\ IF e.node \in Line THEN runtasktype < lines_free
     ELSE ipmailers < MaxTcp /\ internet

\* Mutant: the search begins at the first entry every time.
Rotate1(entry, k) == IF k > MaxTasks THEN MaxTasks ELSE k - 1

\* Mutant: the entry is counted on, without an end.
RotateOn(entry, k) == entry + k

\* The k-th entry after the last; one of them lies behind the list and has no node.
Rotate(entry, k) == (entry + k) % (MaxTasks + 1)

Found == {k \in 1..(MaxTasks + 1) :
            Rotate(call_entry, k) \in Slot /\ MayStart(calllist[Rotate(call_entry, k)])}

\* Every second what ended is noticed. Nobody waits for a process that was stopped and
\* taken off the list: it remains a zombie.
FastRun ==
  /\ pass = "scan" /\ Gone # {}
  /\ calllist' = Reaped /\ task' = task \ Gone /\ rescan' = TRUE
  /\ proc' = [p \in Pid |-> IF p \in Gone /\ proc[p].at = "ended" THEN NoProc ELSE proc[p]]
  /\ UNCHANGED <<want, cst, call_entry, call_work, pass, internet, job, incoming, events>>

\* Every twenty seconds the outbound is scanned if that was asked for, ...
SlowScan ==
  /\ pass = "scan" /\ rescan
  /\ calllist' = check_calllist(calllist)
  /\ call_work' = (\E i \in Slot : calllist'[i].node # Nobody)
  /\ rescan' = FALSE /\ pass' = "launch"
  /\ UNCHANGED <<want, cst, call_entry, internet, task, job, proc, incoming, events>>

\* ... and the next entry of the list is called; launch wants a place in the task list.
launch(p, entry) ==
  IF Cardinality(task) + (IF job THEN 1 ELSE 0) < MaxTasks
  THEN /\ calllist' = [calllist EXCEPT ![entry].calling = TRUE, ![entry].taskpid = p]
       /\ task' = task \union {p}
       /\ proc' = [proc EXCEPT ![p] = [NoProc EXCEPT !.node = calllist[entry].node, !.at = "start"]]
  ELSE UNCHANGED <<calllist, task, proc>>

NewPid(n, p) ==
  p \in PidOf[n] /\ proc[p].at = "off" /\ \A q \in PidOf[n] : proc[q].at = "off" => p <= q

SlowLaunch ==
  /\ pass = "launch" \/ ~rescan
  /\ pass' = "scan"
  /\ IF call_work /\ Found # {}
     THEN \E k \in Found, p \in Pid :
            LET entry == Rotate(call_entry, k) IN
            /\ \A other \in Found : k <= other
            /\ NewPid(calllist[entry].node, p) /\ launch(p, entry)
            /\ call_entry' = entry /\ rescan' = TRUE
     ELSE /\ call_entry' = IF call_work THEN Rotate(call_entry, MaxTasks + 1) ELSE call_entry
          /\ UNCHANGED <<calllist, task, proc, rescan>>
  /\ UNCHANGED <<want, cst, call_work, internet, job, incoming, events>>

(***************************************************************************)
(* ftncico.                                                                *)
(***************************************************************************)
Locked(n) == n \in incoming \/ \E p \in Pid : proc[p].at = "session" /\ proc[p].node = n

Runs(p) == ~proc[p].stopped
Ftncico == UNCHANGED <<calllist, call_entry, call_work, rescan, pass, internet, task, job, incoming,
                       events>>

Ends(p) == proc' = [proc EXCEPT ![p].at = "ended"]

\* A locked node is tried later, one that is not in the nodelist hardly again.
call(p) ==
  /\ proc[p].at = "start" /\ Runs(p)
  /\ \/ Locked(proc[p].node) /\ putstatus(proc[p].node, 0) /\ Ends(p)
     \/ ~Locked(proc[p].node) /\ putstatus(proc[p].node, Count["unlisted"]) /\ Ends(p)
     \/ /\ ~Locked(proc[p].node)
        /\ proc' = [proc EXCEPT ![p].at = "session"] /\ UNCHANGED cst
  /\ UNCHANGED want /\ Ftncico

\* The session ends, a good one has sent the mail, and the node is unlocked; only then
\* the result is written.
session(p) ==
  /\ proc[p].at = "session" /\ Runs(p)
  /\ \/ /\ internet \/ proc[p].node \in Line
        /\ want' = want \ {proc[p].node} /\ proc' = [proc EXCEPT ![p].at = "putok"]
     \/ proc' = [proc EXCEPT ![p].at = "putstatus"] /\ UNCHANGED want
  /\ UNCHANGED cst /\ Ftncico

PutResult(p) ==
  /\ Runs(p)
  /\ \/ proc[p].at = "putok" /\ putstatusOk(proc[p].node)
     \/ /\ proc[p].at = "putstatus"
        /\ \E r \in DOMAIN Count \ {"unlisted"} : putstatus(proc[p].node, Count[r])
  /\ Ends(p) /\ UNCHANGED want /\ Ftncico

Step(p) == call(p) \/ session(p) \/ PutResult(p)

(***************************************************************************)
(* What comes from outside.                                                *)
(***************************************************************************)
Outside == UNCHANGED <<calllist, call_entry, call_work, pass, task>>

\* ftnfido puts mail in the outbound, or the hours begin in which it may be sent; the
\* semafore scanout is set.
MailOut(n) ==
  /\ n \notin want /\ Event /\ want' = want \union {n} /\ rescan' = TRUE
  /\ Outside /\ UNCHANGED <<cst, internet, job, proc, incoming>>

\* The hours end: the scheduler knew the time and scans.
HoursEnd(n) ==
  /\ n \in want /\ Event /\ want' = want \ {n} /\ rescan' = TRUE
  /\ Outside /\ UNCHANGED <<cst, internet, job, proc, incoming>>

\* ftnout reset, and poll for a node whose last call failed.
Reset(n) ==
  /\ cst[n].tryno > 0 /\ Event /\ putstatusOk(n) /\ rescan' = TRUE
  /\ Outside /\ UNCHANGED <<want, internet, job, proc, incoming>>

InternetUp ==
  /\ ~internet /\ internet' = TRUE /\ rescan' = TRUE
  /\ Outside /\ UNCHANGED <<want, cst, job, proc, incoming, events>>

InternetDown ==
  /\ internet /\ Event /\ internet' = FALSE /\ rescan' = TRUE
  /\ Outside /\ UNCHANGED <<want, cst, job, proc, incoming>>

Answer(n) ==
  /\ ~Locked(n) /\ Event /\ incoming' = incoming \union {n}
  /\ Outside /\ UNCHANGED <<want, cst, rescan, internet, job, proc>>

\* Only a good session touches the status; it sends the mail as well.
AnswerEnd(n) ==
  /\ n \in incoming /\ incoming' = incoming \ {n}
  /\ \/ want' = want \ {n} /\ putstatusOk(n)
     \/ UNCHANGED <<want, cst>>
  /\ Outside /\ UNCHANGED <<rescan, internet, job, proc, events>>

\* The retry time of a node has come, in its file and in the copy of it.
RetryTime(n) ==
  /\ cst[n].wait \/ \E i \in Slot : calllist[i].node = n /\ calllist[i].wait
  /\ cst' = [cst EXCEPT ![n].wait = FALSE]
  /\ calllist' = [i \in Slot |-> IF calllist[i].node = n THEN [calllist[i] EXCEPT !.wait = FALSE]
                                 ELSE calllist[i]]
  /\ UNCHANGED <<want, call_entry, call_work, rescan, pass, internet, task, job, proc, incoming, events>>

\* A caller is killed, leaves its node locked by a dead process, and its status as it was;
\* or it is stopped, and continued.
Kill(p) ==
  /\ (proc[p].at = "start" \/ InSession(p)) /\ Event
  /\ proc' = [proc EXCEPT ![p] = [@ EXCEPT !.at = "ended", !.stopped = FALSE]]
  /\ Outside /\ UNCHANGED <<want, cst, rescan, internet, job, incoming>>

Stop(p) ==
  /\ (proc[p].at = "start" \/ InSession(p)) /\ Runs(p) /\ Event
  /\ proc' = [proc EXCEPT ![p].stopped = TRUE]
  /\ Outside /\ UNCHANGED <<want, cst, rescan, internet, job, incoming>>

Continue(p) ==
  /\ proc[p].stopped /\ proc' = [proc EXCEPT ![p].stopped = FALSE]
  /\ Outside /\ UNCHANGED <<want, cst, rescan, internet, job, incoming, events>>

\* Another task takes a place of the list and leaves it.
JobBegin ==
  /\ ~job /\ Cardinality(task) < MaxTasks /\ Event /\ job' = TRUE
  /\ Outside /\ UNCHANGED <<want, cst, rescan, internet, proc, incoming>>
JobEnd ==
  /\ job /\ job' = FALSE
  /\ Outside /\ UNCHANGED <<want, cst, rescan, internet, proc, incoming, events>>

Next ==
  \/ FastRun \/ SlowScan \/ SlowLaunch
  \/ \E p \in Pid : call(p) \/ session(p) \/ PutResult(p) \/ Kill(p) \/ Stop(p) \/ Continue(p)
  \/ \E n \in Node : \/ MailOut(n) \/ HoursEnd(n) \/ Reset(n)
                     \/ Answer(n) \/ AnswerEnd(n) \/ RetryTime(n)
  \/ InternetUp \/ InternetDown \/ JobBegin \/ JobEnd

\* ftntask goes on (it looks for ended tasks every second), sessions end, time passes, the
\* internet comes back and a stopped process is continued.
Fairness ==
  /\ SF_vars(FastRun) /\ WF_vars(SlowScan) /\ WF_vars(SlowLaunch)
  /\ WF_vars(InternetUp) /\ WF_vars(JobEnd) /\ WF_vars(\E n \in Node : AnswerEnd(n))
  /\ \A n \in Node : /\ WF_vars(\E p \in PidOf[n] : Step(p) \/ Continue(p))
                    /\ WF_vars(RetryTime(n))

Spec == Init /\ [][Next]_vars /\ Fairness

(***************************************************************************)
(* Properties.                                                             *)
(***************************************************************************)

\* An entry that is marked as being called names the task that calls its node, so that
\* the end of that task, and nothing else, frees it.
CallKnown ==
  \A i \in Slot :
    /\ calllist[i].calling <=> calllist[i].taskpid # NoPid
    /\ calllist[i].calling => /\ calllist[i].taskpid \in task
                              /\ proc[calllist[i].taskpid].node = calllist[i].node

\* No node has two entries: it would be called twice at the same time.
ListedOnce ==
  \A i, k \in Slot : calllist[i].node = calllist[k].node /\ calllist[i].node # Nobody => i = k

\* A node that may be called is on the list, unless the list is full, a scan is due, or a
\* caller of the node was stopped: nobody notices the end of that one.
NodeListed ==
  \A n \in Node : Callable(n) /\ ~rescan /\ Gone = {} =>
    \/ Listed(calllist, n) \/ \A i \in Slot : calllist[i].node # Nobody
    \/ \E p \in Pid \ task : proc[p].node = n

\* A node is not called before the retry time its last caller set, nor when it is
\* undialable, unless an earlier call of it is still under way or was stopped, or a scan
\* was asked for after the one the call relies on (the internet was down then).
CalledInTime ==
  [][\A p \in Pid : p \in task' \ task =>
       LET n == proc'[p].node IN
       \/ ~cst[n].wait /\ cst[n].tryno < Undialable
       \/ rescan \/ \E q \in Pid : proc[q].node = n]_vars

\* A node with mail is called, unless it is undialable or its mail is gone.
Served ==
  \A n \in Node : n \in want ~>
    \/ n \notin want \/ cst[n].tryno >= Undialable
    \/ \E p \in Pid : proc[p].node = n /\ proc[p].at # "off"

=============================================================================
