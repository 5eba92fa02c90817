---------------------------- MODULE CallsProofs -----------------------------
(***************************************************************************)
(* Calls for any nodes, lines, limits and length of the list: an entry     *)
(* that is being called names the task that calls its node, and no node    *)
(* has two entries.  And NodeLock, the lock that a call and a session need,*)
(* for any set of processes.                                               *)
(***************************************************************************)
EXTENDS Calls, NodeLock, FiniteSetTheorems, TLAPS

USE NodesKnown, NumbersKnown

CstType == [tryno : 0..Undialable, wait : BOOLEAN]
EntryType == [node : Node \union {Nobody}, wait : BOOLEAN, calling : BOOLEAN,
              taskpid : Pid \union {NoPid}]
ProcType == [node : Node \union {Nobody}, stopped : BOOLEAN,
             at : {"off", "start", "session", "putok", "putstatus", "ended"}]

\* The number of the process that gets an entry is of no other task.
Started == \A p \in task : proc[p].at # "off"

LEMMA Numbers == /\ MaxTasks \in Nat /\ MaxTasks > 0 /\ Undialable \in Nat /\ Undialable > 0
                 /\ Slot = 0..(MaxTasks - 1)
BY DEF Slot

LEMMA InitType == Init => TypeOK
<1> SUFFICES ASSUME Init PROVE TypeOK
  OBVIOUS
<1>1. /\ Empty \in EntryType /\ NoProc \in ProcType /\ [tryno |-> 0, wait |-> FALSE] \in CstType
  BY Numbers DEF Empty, EntryType, NoProc, ProcType, CstType
<1>2. /\ cst \in [Node -> CstType] /\ calllist \in [Slot -> EntryType] /\ proc \in [Pid -> ProcType]
  BY <1>1 DEF Init
<1>3. call_entry \in 0..MaxTasks /\ events \in 0..MaxEvents
  BY Numbers DEF Init
<1> QED
  BY <1>2, <1>3 DEF Init, TypeOK, CstType, EntryType, ProcType

LEMMA PutStatus ==
  ASSUME TypeOK, NEW n, NEW incr \in Nat, putstatus(n, incr) \/ putstatusOk(n)
  PROVE  cst' \in [Node -> CstType]
<1>1. cst \in [Node -> CstType]
  BY DEF TypeOK, CstType
<1>2. CASE n \notin Node
  BY <1>1, <1>2 DEF putstatus, putstatusOk
<1>3. CASE n \in Node
  <2>1. Least(cst[n].tryno + incr, Undialable) \in 0..Undialable
    BY <1>1, <1>3, Numbers DEF Least, CstType
  <2>2. [tryno |-> Least(cst[n].tryno + incr, Undialable), wait |-> TRUE] \in CstType
    BY <2>1 DEF CstType
  <2>3. [tryno |-> 0, wait |-> FALSE] \in CstType
    BY Numbers DEF CstType
  <2> QED
    BY <1>1, <1>3, <2>2, <2>3 DEF putstatus, putstatusOk
<1> QED
  BY <1>2, <1>3

LEMMA RotateType == ASSUME NEW k \in Nat, NEW entry \in 0..MaxTasks
                    PROVE  Rotate(entry, k) \in 0..MaxTasks
BY Numbers DEF Rotate

LEMMA LaunchType ==
  ASSUME TypeOK, NEW p \in Pid, NEW entry \in Slot, launch(p, entry)
  PROVE  /\ calllist' \in [Slot -> EntryType] /\ task' \subseteq Pid
         /\ proc' \in [Pid -> ProcType]
<1>1. CASE UNCHANGED <<calllist, task, proc>>
  BY <1>1 DEF TypeOK, EntryType, ProcType
<1>2. CASE ~UNCHANGED <<calllist, task, proc>>
  <2>1. /\ calllist' = [calllist EXCEPT ![entry].calling = TRUE, ![entry].taskpid = p]
        /\ task' = task \union {p}
        /\ proc' = [proc EXCEPT ![p] = [NoProc EXCEPT !.node = calllist[entry].node, !.at = "start"]]
    BY <1>2 DEF launch
  <2>2. calllist[entry] \in EntryType
    BY DEF TypeOK, EntryType
  <2>3. [NoProc EXCEPT !.node = calllist[entry].node, !.at = "start"] \in ProcType
    BY <2>2 DEF NoProc, ProcType, EntryType
  <2> DEFINE e == [calllist[entry] EXCEPT !.calling = TRUE, !.taskpid = p]
  <2>4. e \in EntryType
    BY <2>2 DEF EntryType
  <2>5. calllist' = [calllist EXCEPT ![entry] = e]
    BY <2>1 DEF TypeOK
  <2> HIDE DEF e
  <2>6. calllist' \in [Slot -> EntryType]
    BY <2>4, <2>5 DEF TypeOK, EntryType
  <2> QED
    BY <2>1, <2>3, <2>6 DEF TypeOK, ProcType
<1> QED
  BY <1>1, <1>2

LEMMA ScanType == ASSUME TypeOK PROVE check_calllist(calllist) \in [Slot -> EntryType]
<1> DEFINE kept == [i \in Slot |-> IF calllist[i].node # Nobody /\ F_CALL(calllist[i].node)
                                 THEN Refreshed(calllist[i]) ELSE Empty]
           free == {i \in Slot : kept[i] = Empty}
           new  == {n \in Node : Callable(n) /\ ~Listed(kept, n)}
           Before(n) == Cardinality({m \in new : Position(m) < Position(n)})
           Below(i)  == Cardinality({k \in free : k < i})
           For(i)    == {n \in new : Before(n) = Below(i)}
           Entry(i)  == IF i \in free /\ For(i) # {}
                        THEN LET n == CHOOSE m \in For(i) : TRUE
                             IN [Empty EXCEPT !.node = n, !.wait = cst[n].wait]
                        ELSE kept[i]
<1>1. check_calllist(calllist) = [i \in Slot |-> Entry(i)]
  BY DEF check_calllist
<1>2. \A i \in Slot : kept[i] \in EntryType
  <2> TAKE i \in Slot
  <2>1. Empty \in EntryType
    BY DEF Empty, EntryType
  <2>2. calllist[i] \in EntryType
    BY DEF TypeOK, EntryType
  <2>3. ASSUME Callable(calllist[i].node)
        PROVE  [calllist[i] EXCEPT !.wait = cst[calllist[i].node].wait] \in EntryType
    <3>1. cst[calllist[i].node].wait \in BOOLEAN
      <4>1. calllist[i].node \in Node
        BY <2>3, SMTT(60) DEF Callable, F_CALL, TypeOK
      <4> QED
        BY <4>1 DEF TypeOK
    <3> HIDE <2>3
    <3> QED
      BY <3>1, <2>2 DEF EntryType
  <2> QED
    BY <2>1, <2>2, <2>3 DEF Refreshed
<1>3. ASSUME NEW i \in Slot, For(i) # {}
      PROVE  [Empty EXCEPT !.node = CHOOSE m \in For(i) : TRUE,
                           !.wait = cst[CHOOSE m \in For(i) : TRUE].wait] \in EntryType
  <2> DEFINE n == CHOOSE m \in For(i) : TRUE
  <2>1. n \in Node
    BY <1>3
  <2>2. cst[n].wait \in BOOLEAN
    BY <2>1 DEF TypeOK
  <2> HIDE DEF n
  <2>3. [Empty EXCEPT !.node = n, !.wait = cst[n].wait] \in EntryType
    BY <2>1, <2>2 DEF Empty, EntryType
  <2> QED
    BY <2>3 DEF n
<1>4. \A i \in Slot : Entry(i) \in EntryType
  <2> HIDE DEF kept, For, free
  <2> QED
    BY <1>2, <1>3
<1> HIDE DEF Entry
<1> QED
  BY <1>1, <1>4

\* A scan leaves an entry to its task, or empties it, or makes a new one.
LEMMA ScanKeeps ==
  ASSUME TypeOK, NEW i \in Slot
  PROVE  LET e == check_calllist(calllist)[i] IN
         \/ ~e.calling /\ e.taskpid = NoPid
         \/ /\ e.calling = calllist[i].calling /\ e.taskpid = calllist[i].taskpid
            /\ e.node = calllist[i].node
<1>1. Refreshed(calllist[i]).calling = calllist[i].calling
      /\ Refreshed(calllist[i]).taskpid = calllist[i].taskpid
      /\ Refreshed(calllist[i]).node = calllist[i].node
  BY DEF Refreshed, TypeOK
<1> QED
  BY <1>1 DEF check_calllist, Empty

\* A change of one process.
LEMMA ProcStep ==
  ASSUME TypeOK, NEW p \in Pid, NEW e \in ProcType, proc' = [proc EXCEPT ![p] = e]
  PROVE  proc' \in [Pid -> ProcType]
BY DEF TypeOK, ProcType

LEMMA ProcAt ==
  ASSUME TypeOK, NEW p \in Pid,
         NEW a \in {"off", "start", "session", "putok", "putstatus", "ended"},
         NEW b \in BOOLEAN
  PROVE  /\ proc[p] \in ProcType /\ [proc[p] EXCEPT !.at = a] \in ProcType
         /\ [proc[p] EXCEPT !.stopped = b] \in ProcType
         /\ [proc[p] EXCEPT !.at = a, !.stopped = b] \in ProcType
<1>1. proc[p] \in ProcType
  BY DEF TypeOK, ProcType
<1>2. [proc[p] EXCEPT !.at = a] \in ProcType
  BY <1>1 DEF ProcType
<1>3. ASSUME NEW e \in ProcType PROVE [e EXCEPT !.stopped = b] \in ProcType
  BY <1>3 DEF ProcType
<1>4. [proc[p] EXCEPT !.at = a, !.stopped = b] = [[proc[p] EXCEPT !.at = a] EXCEPT !.stopped = b]
  OBVIOUS
<1> QED
  BY <1>1, <1>2, <1>3, <1>4

LEMMA FtncicoType ==
  ASSUME TypeOK, NEW p \in Pid, Step(p)
  PROVE  TypeOK'
<1>1. cst' \in [Node -> CstType]
  <2>1. Count["unlisted"] \in Nat /\ 0 \in Nat /\ \A r \in DOMAIN Count : Count[r] \in Nat
    OBVIOUS
  <2>2. CASE cst' = cst
    BY <2>2 DEF TypeOK, CstType
  <2> QED
    BY <2>1, <2>2, PutStatus DEF Step, call, session, PutResult
<1>2. proc' \in [Pid -> ProcType]
  <2> PICK a \in {"ended", "session", "putok", "putstatus"} :
         proc' = [proc EXCEPT ![p].at = a]
    BY DEF Step, call, session, PutResult, Ends
  <2>1. proc' = [proc EXCEPT ![p] = [proc[p] EXCEPT !.at = a]]
    BY DEF TypeOK
  <2> QED
    BY <2>1, ProcAt, ProcStep
<1>3. want' \subseteq Node
  BY DEF TypeOK, Step, call, session, PutResult
<1>4. Ftncico
  BY DEF Step, call, session, PutResult
<1> QED
  BY <1>1, <1>2, <1>3, <1>4 DEF TypeOK, Ftncico, CstType, ProcType

LEMMA SchedulerType ==
  ASSUME TypeOK, FastRun \/ SlowScan \/ SlowLaunch
  PROVE  TypeOK'
<1>1. CASE FastRun
  <2>1. Reaped \in [Slot -> EntryType]
    <3> SUFFICES ASSUME NEW i \in Slot
                 PROVE  /\ calllist[i] \in EntryType
                        /\ [calllist[i] EXCEPT !.calling = FALSE, !.taskpid = NoPid] \in EntryType
      BY DEF Reaped
    <3> QED
      BY ZenonT(60) DEF TypeOK, EntryType
  <2>2. proc' \in [Pid -> ProcType]
    <3> NoProc \in ProcType
      BY DEF NoProc, ProcType
    <3> QED
      BY <1>1 DEF FastRun, TypeOK, ProcType
  <2> QED
    BY <1>1, <2>1, <2>2 DEF FastRun, TypeOK, EntryType, ProcType
<1>2. CASE SlowScan
  <2>1. calllist' \in [Slot -> EntryType]
    BY <1>2, ScanType DEF SlowScan
  <2>2. call_work' \in BOOLEAN
    BY <1>2 DEF SlowScan
  <2> QED
    BY <1>2, <2>1, <2>2 DEF SlowScan, TypeOK, EntryType
<1>3. CASE SlowLaunch
  <2>1. CASE call_work /\ Found # {}
    <3>1. PICK k \in Found, p \in Pid :
            LET entry == Rotate(call_entry, k) IN
            /\ NewPid(calllist[entry].node, p) /\ launch(p, entry)
            /\ call_entry' = entry /\ rescan' = TRUE
      BY <1>3, <2>1 DEF SlowLaunch
    <3>2. Rotate(call_entry, k) \in Slot
      BY DEF Found
    <3>3. call_entry' \in 0..MaxTasks
      BY <3>1, <3>2, Numbers
    <3>4. calllist' \in [Slot -> EntryType] /\ task' \subseteq Pid /\ proc' \in [Pid -> ProcType]
      BY <3>1, <3>2, LaunchType
    <3> QED
      BY <1>3, <3>1, <3>3, <3>4 DEF SlowLaunch, TypeOK, EntryType, ProcType
  <2>2. CASE ~(call_work /\ Found # {})
    <3>1. call_entry' \in 0..MaxTasks
      <4>1. call_entry \in 0..MaxTasks /\ MaxTasks + 1 \in Nat
        BY Numbers DEF TypeOK
      <4>2. Rotate(call_entry, MaxTasks + 1) \in 0..MaxTasks
        BY <4>1, RotateType
      <4> QED
        BY <1>3, <2>2, <4>1, <4>2 DEF SlowLaunch
    <3> QED
      BY <1>3, <2>2, <3>1 DEF SlowLaunch, TypeOK
  <2> QED
    BY <2>1, <2>2
<1> QED
  BY <1>1, <1>2, <1>3

LEMMA EventType == ASSUME TypeOK, Event PROVE events' \in 0..MaxEvents
BY DEF TypeOK, Event

LEMMA OutsideType ==
  ASSUME TypeOK, NEW n \in Node,
         MailOut(n) \/ HoursEnd(n) \/ Reset(n) \/ Answer(n) \/ AnswerEnd(n) \/ RetryTime(n)
  PROVE  TypeOK'
<1>1. CASE MailOut(n) \/ HoursEnd(n) \/ Answer(n)
  BY <1>1, EventType DEF MailOut, HoursEnd, Answer, Outside, TypeOK
<1>2. CASE Reset(n)
  BY <1>2, EventType, PutStatus DEF Reset, Outside, TypeOK, CstType
<1>3. CASE AnswerEnd(n)
  <2>1. cst' \in [Node -> CstType]
    <3> CASE cst' = cst
      BY DEF TypeOK, CstType
    <3> QED
      BY <1>3, PutStatus DEF AnswerEnd
  <2> QED
    BY <1>3, <2>1 DEF AnswerEnd, Outside, TypeOK, CstType
<1>4. CASE RetryTime(n)
  <2>1. cst' \in [Node -> CstType]
    <3>1. [cst[n] EXCEPT !.wait = FALSE] \in CstType
      <4>1. ASSUME NEW r \in CstType PROVE [r EXCEPT !.wait = FALSE] \in CstType
        BY DEF CstType
      <4>2. cst[n] \in CstType
        BY DEF TypeOK, CstType
      <4> QED
        BY <4>1, <4>2, Zenon
    <3>2. cst' = [cst EXCEPT ![n] = [cst[n] EXCEPT !.wait = FALSE]]
      BY <1>4 DEF RetryTime, TypeOK
    <3> QED
      BY <3>1, <3>2 DEF TypeOK, CstType
  <2>2. calllist' \in [Slot -> EntryType]
    <3> SUFFICES ASSUME NEW i \in Slot
                 PROVE  /\ calllist[i] \in EntryType
                        /\ [calllist[i] EXCEPT !.wait = FALSE] \in EntryType
      BY <1>4 DEF RetryTime
    <3> QED
      BY ZenonT(60) DEF TypeOK, EntryType
  <2> QED
    BY <1>4, <2>1, <2>2 DEF RetryTime, TypeOK, CstType, EntryType
<1> QED
  BY <1>1, <1>2, <1>3, <1>4

LEMMA SignalType ==
  ASSUME TypeOK, NEW p \in Pid, Kill(p) \/ Stop(p) \/ Continue(p)
  PROVE  TypeOK'
<1>1. PICK e \in ProcType : proc' = [proc EXCEPT ![p] = e]
  <2>1. CASE Kill(p)
    <3>1. proc' = [proc EXCEPT ![p] = [proc[p] EXCEPT !.at = "ended", !.stopped = FALSE]]
      BY <2>1 DEF Kill, TypeOK
    <3> QED
      BY <3>1, ProcAt
  <2>2. CASE Stop(p) \/ Continue(p)
    <3>1. PICK b \in BOOLEAN : proc' = [proc EXCEPT ![p] = [proc[p] EXCEPT !.stopped = b]]
      BY <2>2 DEF Stop, Continue, TypeOK
    <3> QED
      BY <3>1, ProcAt
  <2> QED
    BY <2>1, <2>2
<1>2. proc' \in [Pid -> ProcType]
  BY <1>1, ProcStep
<1>3. events' \in 0..MaxEvents
  BY EventType DEF Kill, Stop, Continue, TypeOK
<1> QED
  BY <1>2, <1>3 DEF Kill, Stop, Continue, Outside, TypeOK, ProcType

LEMMA NextType == TypeOK /\ [Next]_vars => TypeOK'
<1> SUFFICES ASSUME TypeOK, [Next]_vars PROVE TypeOK'
  OBVIOUS
<1>1. CASE UNCHANGED vars
  BY <1>1 DEF vars, TypeOK
<1>2. CASE InternetUp \/ InternetDown \/ JobBegin \/ JobEnd
  BY <1>2, EventType DEF InternetUp, InternetDown, JobBegin, JobEnd, Outside, TypeOK
<1> QED
  BY <1>1, <1>2, SchedulerType, FtncicoType, SignalType, OutsideType DEF Next, Step

IInv == TypeOK /\ CallKnown /\ Started

\* Whatever ftncico and the outside do, the list and the tasks stay.
LEMMA OthersKeep ==
  ASSUME IInv, UNCHANGED task,
         \A i \in Slot : /\ calllist'[i].calling = calllist[i].calling
                        /\ calllist'[i].taskpid = calllist[i].taskpid
                        /\ calllist'[i].node = calllist[i].node,
         \A p \in task : proc'[p].node = proc[p].node /\ proc'[p].at # "off"
  PROVE  CallKnown' /\ Started'
BY DEF IInv, CallKnown, Started

LEMMA SchedulerKnows ==
  ASSUME IInv, FastRun \/ SlowScan \/ SlowLaunch
  PROVE  CallKnown' /\ Started'
<1> USE DEF IInv
<1>0. \A i \in Slot : calllist[i].taskpid \in Pid \union {NoPid}
  BY DEF TypeOK
<1>1. CASE FastRun
  <2>1. /\ calllist' = Reaped /\ task' = task \ Gone
        /\ \A p \in task' : proc'[p] = proc[p]
    BY <1>1 DEF FastRun, TypeOK
  <2>2. ASSUME NEW i \in Slot
        PROVE  \/ ~calllist'[i].calling /\ calllist'[i].taskpid = NoPid
               \/ calllist'[i] = calllist[i] /\ calllist[i].taskpid \notin Gone
    BY <2>1, ZenonT(60) DEF Reaped, TypeOK
  <2>3. CallKnown'
    BY <2>1, <2>2 DEF CallKnown
  <2> QED
    BY <2>1, <2>3 DEF Started
<1>2. CASE SlowScan
  <2>1. ASSUME NEW i \in Slot
        PROVE  \/ ~calllist'[i].calling /\ calllist'[i].taskpid = NoPid
               \/ /\ calllist'[i].calling = calllist[i].calling
                  /\ calllist'[i].taskpid = calllist[i].taskpid
                  /\ calllist'[i].node = calllist[i].node
    BY <1>2, ScanKeeps DEF SlowScan
  <2> QED
    BY <1>2, <2>1 DEF SlowScan, CallKnown, Started
<1>3. CASE SlowLaunch
  <2>1. CASE UNCHANGED <<calllist, task, proc>>
    BY <2>1 DEF CallKnown, Started
  <2>2. CASE ~UNCHANGED <<calllist, task, proc>>
    <3>1. PICK entry \in Slot, p \in Pid :
            NewPid(calllist[entry].node, p) /\ launch(p, entry)
      BY <1>3, <2>2 DEF SlowLaunch, Found
    <3>2. /\ calllist' = [calllist EXCEPT ![entry].calling = TRUE, ![entry].taskpid = p]
          /\ task' = task \union {p}
          /\ proc' = [proc EXCEPT ![p] = [NoProc EXCEPT !.node = calllist[entry].node, !.at = "start"]]
      BY <2>2, <3>1 DEF launch
    <3>3. p \notin task /\ p # NoPid
      BY <3>1, NumbersKnown DEF NewPid, Started
    <3>4. proc'[p].node = calllist[entry].node /\ proc'[p].at = "start"
      BY <3>2 DEF TypeOK, NoProc
    <3>5. \A q \in task : proc'[q] = proc[q]
      BY <3>2, <3>3 DEF TypeOK
    <3>6. /\ calllist'[entry].calling /\ calllist'[entry].taskpid = p
          /\ calllist'[entry].node = calllist[entry].node
      BY <3>2 DEF TypeOK
    <3>7. \A i \in Slot \ {entry} : calllist'[i] = calllist[i]
      BY <3>2 DEF TypeOK
    <3>8. CallKnown'
      <4> SUFFICES ASSUME NEW i \in Slot
                   PROVE  /\ calllist'[i].calling <=> calllist'[i].taskpid # NoPid
                          /\ calllist'[i].calling =>
                               /\ calllist'[i].taskpid \in task'
                               /\ proc'[calllist'[i].taskpid].node = calllist'[i].node
        BY DEF CallKnown
      <4>1. CASE i = entry
        BY <4>1, <3>2, <3>3, <3>4, <3>6
      <4>2. CASE i # entry
        <5>1. calllist'[i] = calllist[i]
          BY <4>2, <3>7
        <5>2. /\ calllist[i].calling <=> calllist[i].taskpid # NoPid
              /\ calllist[i].calling => /\ calllist[i].taskpid \in task
                                        /\ proc[calllist[i].taskpid].node = calllist[i].node
          BY DEF CallKnown
        <5>3. /\ calllist[i].calling => /\ calllist[i].taskpid \in task'
                                        /\ proc'[calllist[i].taskpid].node = calllist[i].node
          <6> SUFFICES ASSUME calllist[i].calling
                       PROVE  /\ calllist[i].taskpid \in task'
                              /\ proc'[calllist[i].taskpid].node = calllist[i].node
            OBVIOUS
          <6>1. calllist[i].taskpid \in task /\ proc[calllist[i].taskpid].node = calllist[i].node
            BY <5>2
          <6>2. proc'[calllist[i].taskpid] = proc[calllist[i].taskpid]
            BY <6>1, <3>5
          <6> QED
            BY <6>1, <6>2, <3>2
        <5> QED
          BY <5>1, <5>2, <5>3, Zenon
      <4> QED
        BY <4>1, <4>2
    <3> QED
      BY <3>2, <3>4, <3>5, <3>8 DEF Started
  <2> QED
    BY <2>1, <2>2
<1> QED
  BY <1>1, <1>2, <1>3

\* A process of ftncico keeps its node, and is there until it was noticed.
LEMMA FtncicoKnows ==
  ASSUME IInv, NEW p \in Pid, Step(p) \/ Kill(p) \/ Stop(p) \/ Continue(p)
  PROVE  CallKnown' /\ Started'
<1>1. UNCHANGED <<calllist, task>>
  BY DEF Step, call, session, PutResult, Ftncico, Kill, Stop, Continue, Outside
<1>2. \A q \in task : proc'[q].node = proc[q].node /\ proc'[q].at # "off"
  <2>1. CASE Step(p)
    <3>1. PICK a \in {"ended", "session", "putok", "putstatus"} : proc' = [proc EXCEPT ![p].at = a]
      BY <2>1 DEF Step, call, session, PutResult, Ends
    <3> QED
      BY <3>1 DEF IInv, TypeOK, Started
  <2>2. CASE Kill(p)
    BY <2>2 DEF Kill, IInv, TypeOK, Started
  <2>3. CASE Stop(p) \/ Continue(p)
    <3>1. PICK b \in BOOLEAN : proc' = [proc EXCEPT ![p].stopped = b]
      BY <2>3 DEF Stop, Continue
    <3>2. \A q \in task : proc'[q].node = proc[q].node /\ proc'[q].at = proc[q].at
      BY <3>1 DEF IInv, TypeOK
    <3> QED
      BY <3>2 DEF IInv, Started
  <2> QED
    BY <2>1, <2>2, <2>3
<1> QED
  BY <1>1, <1>2, OthersKeep

LEMMA OutsideKnows ==
  ASSUME IInv, NEW n \in Node,
         MailOut(n) \/ HoursEnd(n) \/ Reset(n) \/ Answer(n) \/ AnswerEnd(n) \/ RetryTime(n)
  PROVE  CallKnown' /\ Started'
<1>1. UNCHANGED <<task, proc>>
  BY DEF MailOut, HoursEnd, Reset, Answer, AnswerEnd, RetryTime, Outside
<1>2. ASSUME NEW i \in Slot
      PROVE  /\ calllist'[i].calling = calllist[i].calling
             /\ calllist'[i].taskpid = calllist[i].taskpid
             /\ calllist'[i].node = calllist[i].node
  <2>1. CASE RetryTime(n)
    BY <2>1 DEF RetryTime, IInv, TypeOK
  <2> QED
    BY <2>1 DEF MailOut, HoursEnd, Reset, Answer, AnswerEnd, Outside
<1> QED
  BY <1>1, <1>2 DEF IInv, CallKnown, Started

LEMMA NextKnown == IInv /\ [Next]_vars => IInv'
<1> SUFFICES ASSUME IInv, [Next]_vars PROVE CallKnown' /\ Started'
  BY NextType DEF IInv
<1>1. CASE UNCHANGED vars
  BY <1>1 DEF vars, IInv, CallKnown, Started
<1>2. CASE InternetUp \/ InternetDown \/ JobBegin \/ JobEnd
  BY <1>2 DEF InternetUp, InternetDown, JobBegin, JobEnd, Outside, IInv, CallKnown, Started
<1> QED
  BY <1>1, <1>2, SchedulerKnows, FtncicoKnows, OutsideKnows DEF Next, Step

\* The types of ftntask's lists and of the status files, for any nodes, lists and limits.
THEOREM TypeCorrect == Spec => []TypeOK
<1> QED
  BY InitType, NextType, PTL DEF Spec

\* ftntask.c:1515 and checktasks: an entry of the list that is being called names the task
\* that calls its node, whatever is killed, stopped or reset meanwhile.
THEOREM CallsKnown == Spec => []CallKnown
<1>1. Init => IInv
  BY InitType DEF Init, IInv, CallKnown, Started, Empty
<1>2. IInv => CallKnown
  BY DEF IInv
<1> QED
  BY <1>1, <1>2, NextKnown, PTL DEF Spec

\* No two free places have as many free ones below.
LEMMA BelowDiffers ==
  ASSUME NEW free \in SUBSET Slot, NEW i \in free, NEW k \in free,
         Cardinality({j \in free : j < i}) = Cardinality({j \in free : j < k})
  PROVE  i = k
<1>1. free \subseteq Int /\ IsFiniteSet(free)
  <2>0. 0 \in Int /\ MaxTasks - 1 \in Int
    BY Numbers
  <2>1. IsFiniteSet(0..(MaxTasks - 1))
    BY <2>0, FS_Interval
  <2>2. IsFiniteSet(Slot)
    BY <2>1, Numbers
  <2> QED
    BY <2>2, FS_Subset, Numbers
<1>2. ASSUME NEW m \in free, NEW n \in free, m < n
      PROVE  Cardinality({j \in free : j < m}) # Cardinality({j \in free : j < n})
  <2>1. IsFiniteSet({j \in free : j < n})
    BY <1>1, FS_Subset
  <2>2. {j \in free : j < m} \subseteq {j \in free : j < n}
    BY <1>1, <1>2
  <2>3. {j \in free : j < m} # {j \in free : j < n}
    BY <1>1, <1>2
  <2> QED
    BY <2>1, <2>2, <2>3, FS_Subset
<1>3. ~(i < k) /\ ~(k < i)
  BY <1>2
<1> QED
  BY <1>1, <1>3

\* A scan gives the free places to nodes that have no entry, each to another one.
LEMMA ScanOnce ==
  ASSUME TypeOK, ListedOnce, NEW a \in Slot, NEW b \in Slot,
         check_calllist(calllist)[a].node = check_calllist(calllist)[b].node,
         check_calllist(calllist)[a].node # Nobody
  PROVE  a = b
<1> DEFINE kept == [i \in Slot |-> IF calllist[i].node # Nobody /\ F_CALL(calllist[i].node)
                                 THEN Refreshed(calllist[i]) ELSE Empty]
           free == {i \in Slot : kept[i] = Empty}
           new  == {n \in Node : Callable(n) /\ ~Listed(kept, n)}
           Before(n) == Cardinality({m \in new : Position(m) < Position(n)})
           Below(i)  == Cardinality({k \in free : k < i})
           For(i)    == {n \in new : Before(n) = Below(i)}
           Entry(i)  == IF i \in free /\ For(i) # {}
                        THEN LET n == CHOOSE m \in For(i) : TRUE
                             IN [Empty EXCEPT !.node = n, !.wait = cst[n].wait]
                        ELSE kept[i]
<1>1. \A i \in Slot : check_calllist(calllist)[i] = Entry(i)
  BY Zenon DEF check_calllist
<1>2. \A i \in Slot : kept[i].node = calllist[i].node \/ kept[i].node = Nobody
  BY DEF Refreshed, Empty, TypeOK
<1>3. \A i, k \in Slot : kept[i].node = kept[k].node /\ kept[i].node # Nobody => i = k
  BY <1>2 DEF ListedOnce
<1>4. \A i \in Slot : i \in free /\ For(i) # {} => Entry(i).node \in For(i)
  <2> SUFFICES ASSUME NEW i \in Slot, i \in free, For(i) # {} PROVE Entry(i).node \in For(i)
    OBVIOUS
  <2> DEFINE n == CHOOSE m \in For(i) : TRUE
  <2>1. n \in For(i)
    OBVIOUS
  <2>2. Entry(i) = [Empty EXCEPT !.node = n, !.wait = cst[n].wait]
    OBVIOUS
  <2> HIDE DEF n, Entry
  <2>3. Entry(i).node = n
    BY <2>2 DEF Empty
  <2> QED
    BY <2>1, <2>3
<1>5. \A i \in Slot : ~(i \in free /\ For(i) # {}) => Entry(i) = kept[i]
  OBVIOUS
<1>6. \A n \in new : \A k \in Slot : kept[k].node # n
  BY DEF Listed
<1>7. \A i, k \in free : Below(i) = Below(k) => i = k
  <2>1. free \in SUBSET Slot
    OBVIOUS
  <2> HIDE DEF free
  <2> QED
    BY <2>1, BelowDiffers
<1>8. \A i : For(i) \subseteq new /\ \A n \in For(i) : Before(n) = Below(i)
  OBVIOUS
<1> HIDE DEF Entry, For, new, free, kept, Before, Below
<1>9. Entry(a).node = Entry(b).node /\ Entry(a).node # Nobody
  BY <1>1
<1>10. CASE a \in free /\ For(a) # {} /\ b \in free /\ For(b) # {}
  BY <1>4, <1>7, <1>8, <1>9, <1>10
<1>11. CASE a \in free /\ For(a) # {} /\ ~(b \in free /\ For(b) # {})
  BY <1>4, <1>5, <1>6, <1>8, <1>9, <1>11
<1>12. CASE ~(a \in free /\ For(a) # {}) /\ b \in free /\ For(b) # {}
  BY <1>4, <1>5, <1>6, <1>8, <1>9, <1>12
<1>13. CASE ~(a \in free /\ For(a) # {}) /\ ~(b \in free /\ For(b) # {})
  BY <1>3, <1>5, <1>9, <1>13
<1> QED
  BY <1>10, <1>11, <1>12, <1>13, SMTT(60)

LEMMA NextOnce == TypeOK /\ ListedOnce /\ [Next]_vars => ListedOnce'
<1> SUFFICES ASSUME TypeOK, ListedOnce, [Next]_vars, ~SlowScan PROVE ListedOnce'
  BY ScanOnce, Zenon DEF SlowScan, ListedOnce
<1>1. ASSUME NEW i \in Slot PROVE calllist'[i].node = calllist[i].node
  <2>1. CASE calllist' = calllist
    BY <2>1
  <2>2. CASE FastRun
    BY <2>2, ZenonT(60) DEF FastRun, Reaped, TypeOK
  <2>3. CASE SlowLaunch
    <3>1. CASE \E entry, p : launch(p, entry)
      <4>1. PICK entry, p : launch(p, entry)
        BY <3>1
      <4>2. \/ calllist' = calllist
            \/ calllist' = [calllist EXCEPT ![entry].calling = TRUE, ![entry].taskpid = p]
        BY <4>1 DEF launch
      <4>3. CASE calllist' = [calllist EXCEPT ![entry].calling = TRUE, ![entry].taskpid = p]
        <5>1. CASE i = entry
          <6>1. calllist'[i] = [calllist[i] EXCEPT !.calling = TRUE, !.taskpid = p]
            BY <4>3, <5>1 DEF TypeOK
          <6> QED
            BY <6>1 DEF TypeOK
        <5>2. CASE i # entry
          BY <4>3, <5>2 DEF TypeOK
        <5> QED
          BY <5>1, <5>2
      <4> QED
        BY <4>2, <4>3
    <3>2. CASE calllist' = calllist
      BY <3>2
    <3> QED
      BY <2>3, <3>1, <3>2 DEF SlowLaunch
  <2>4. CASE \E n \in Node : RetryTime(n)
    BY <2>4 DEF RetryTime, TypeOK
  <2> QED
    BY <2>1, <2>2, <2>3, <2>4, Zenon DEF Next, vars, Ftncico, Outside, call, session, PutResult, Kill, Stop,
       Continue, MailOut, HoursEnd, Reset, Answer, AnswerEnd, InternetUp, InternetDown, JobBegin, JobEnd
<1> QED
  BY <1>1 DEF ListedOnce

\* ftntask/calllist.c: however the list fills and empties, no node is entered twice.
THEOREM OneEntry == Spec => []ListedOnce
<1>1. Init => ListedOnce
  BY DEF Init, ListedOnce, Empty
<1> QED
  BY <1>1, InitType, NextType, NextOnce, PTL DEF Spec

(***************************************************************************)
(* The node lock, which every call needs, for any set of processes.  Both  *)
(* safety properties need to know what a process still knows of the file   *)
(* it looked at: as long as the name did not move since, the file is the   *)
(* one it read.                                                            *)
(***************************************************************************)

\* What a process read or saw is still so while the name has not moved; past
\* its judgement only a file it may remove is left.
KnowsFile(p) ==
  ~moved[p] =>
    /\ pc[p] \in {"stat", "killYoung", "killOld", "unlink"} => bsy = seen[p]
    /\ pc[p] = "killOld" => old
    /\ pc[p] = "unlink" => old \/ bsy \in Proc \ alive
    /\ pc[p] = "ulunlink" => bsy = p

BsyInv ==
  /\ BsyTypeOK
  /\ SoleHolder
  /\ \A p \in Proc : KnowsFile(p)

USE OwnersDistinct, SwitchesBoolean

LEMMA BsyInitInv == BsyInit => BsyInv
BY DEF BsyInit, BsyInv, BsyTypeOK, Label, SoleHolder, KnowsFile

LEMMA BsyNextType == BsyTypeOK /\ [BsyNext]_bsyvars => BsyTypeOK'
<1> SUFFICES ASSUME BsyTypeOK, [BsyNext]_bsyvars PROVE BsyTypeOK'
  OBVIOUS
<1> USE DEF BsyTypeOK, Label, At, Goto, Rename, owners
<1>1. CASE UNCHANGED bsyvars
  BY <1>1 DEF bsyvars
<1>2. ASSUME NEW p \in Proc, Lock(p) PROVE BsyTypeOK'
  <2>1. CASE BeginLock(p)
    BY <2>1 DEF BeginLock
  <2>2. CASE LinkFirst(p)
    BY <2>2 DEF LinkFirst, Grant
  <2>3. CASE LinkError(p)
    BY <2>3 DEF LinkError
  <2>4. CASE ReadGone(p)
    BY <2>4 DEF ReadGone
  <2>5. CASE ReadOwner(p)
    BY <2>5 DEF ReadOwner
  <2>6. CASE StatLock(p)
    BY <2>6 DEF StatLock
  <2>7. CASE Judge(p)
    BY <2>7 DEF Judge
  <2>8. CASE Unlink(p)
    BY <2>8 DEF Unlink
  <2>9. CASE LinkAgain(p)
    BY <2>9 DEF LinkAgain, Grant
  <2>10. CASE ReadEmpty(p)
    BY <2>10 DEF ReadEmpty
  <2> QED
    BY <1>2, <2>1, <2>2, <2>3, <2>4, <2>5, <2>6, <2>7, <2>8, <2>9, <2>10 DEF Lock
<1>3. ASSUME NEW p \in Proc, Unlock(p) PROVE BsyTypeOK'
  <2>1. CASE BeginUnlock(p)
    BY <2>1 DEF BeginUnlock
  <2>2. CASE UnlockRead(p)
    BY <2>2 DEF UnlockRead
  <2>3. CASE UnlockUnlink(p)
    BY <2>3 DEF UnlockUnlink
  <2> QED
    BY <1>3, <2>1, <2>2, <2>3 DEF Unlock
<1>4. ASSUME NEW p \in Proc, Crash(p) PROVE BsyTypeOK'
  BY <1>4 DEF Crash
<1>5. CASE SixHoursPass \/ ForeignLock \/ ForeignUnlock
  BY <1>5 DEF SixHoursPass, ForeignLock, ForeignUnlock
<1> QED
  BY <1>1, <1>2, <1>3, <1>4, <1>5 DEF BsyNext

\* The name is linked only when it leads nowhere, and whoever removes a file
\* robs its holder: the holders that are not robbed keep their file.
LEMMA NextSoleHolder == BsyInv /\ [BsyNext]_bsyvars => SoleHolder'
<1> SUFFICES ASSUME BsyInv, [BsyNext]_bsyvars PROVE SoleHolder'
  OBVIOUS
<1> USE DEF BsyInv, BsyTypeOK, SoleHolder, At, Goto, Rename, owners
<1>1. CASE UNCHANGED bsyvars
  BY <1>1 DEF bsyvars
<1>2. ASSUME NEW p \in Proc, Grant(p) PROVE SoleHolder'
  BY <1>2 DEF Grant
<1>3. ASSUME NEW p \in Proc, Lock(p) PROVE SoleHolder'
  BY <1>2, <1>3 DEF Lock, BeginLock, LinkFirst, LinkError, ReadGone, ReadOwner,
                    ReadEmpty, StatLock, Judge, Unlink, LinkAgain
<1>4. ASSUME NEW p \in Proc, Unlock(p) PROVE SoleHolder'
  BY <1>4 DEF Unlock, BeginUnlock, UnlockRead, UnlockUnlink
<1>5. ASSUME NEW p \in Proc, Crash(p) PROVE SoleHolder'
  BY <1>5 DEF Crash
<1>6. CASE SixHoursPass \/ ForeignLock \/ ForeignUnlock
  BY <1>6 DEF SixHoursPass, ForeignLock, ForeignUnlock
<1> QED
  BY <1>1, <1>3, <1>4, <1>5, <1>6 DEF BsyNext

LEMMA NextKnowsFile == BsyInv /\ [BsyNext]_bsyvars => (\A p \in Proc : KnowsFile(p))'
<1> SUFFICES ASSUME BsyInv, [BsyNext]_bsyvars, NEW q \in Proc PROVE KnowsFile(q)'
  OBVIOUS
<1> USE DEF BsyInv, BsyTypeOK, Label, KnowsFile, At, Goto, owners
<1>1. CASE UNCHANGED bsyvars
  BY <1>1 DEF bsyvars
<1>2. ASSUME NEW file, Rename(file) PROVE KnowsFile(q)'
  BY <1>2 DEF Rename
<1>3. ASSUME NEW p \in Proc, Lock(p) PROVE KnowsFile(q)'
  <2>1. CASE BeginLock(p) \/ LinkError(p) \/ ReadGone(p) \/ ReadEmpty(p)
    BY <2>1 DEF BeginLock, LinkError, ReadGone, ReadEmpty
  <2>2. CASE LinkFirst(p) \/ LinkAgain(p)
    BY <1>2, <2>2 DEF LinkFirst, LinkAgain, Grant
  <2>3. CASE ReadOwner(p)
    BY <2>3 DEF ReadOwner
  <2>4. CASE StatLock(p)
    BY <2>4 DEF StatLock, LooksOld
  <2>5. CASE Judge(p)
    BY <2>5 DEF Judge
  <2>6. CASE Unlink(p)
    BY <1>2, <2>6 DEF Unlink
  <2> QED
    BY <1>3, <2>1, <2>2, <2>3, <2>4, <2>5, <2>6 DEF Lock
<1>4. ASSUME NEW p \in Proc, Unlock(p) PROVE KnowsFile(q)'
  <2>1. CASE BeginUnlock(p)
    BY <2>1 DEF BeginUnlock
  <2>2. CASE UnlockRead(p)
    BY <2>2 DEF UnlockRead
  <2>3. CASE UnlockUnlink(p)
    BY <1>2, <2>3 DEF UnlockUnlink
  <2> QED
    BY <1>4, <2>1, <2>2, <2>3 DEF Unlock
<1>5. ASSUME NEW p \in Proc, Crash(p) PROVE KnowsFile(q)'
  BY <1>5 DEF Crash
<1>6. CASE SixHoursPass
  BY <1>6 DEF SixHoursPass
<1>7. CASE ForeignLock \/ ForeignUnlock
  BY <1>2, <1>7 DEF ForeignLock, ForeignUnlock
<1> QED
  BY <1>1, <1>3, <1>4, <1>5, <1>6, <1>7 DEF BsyNext

\* The strengthening holds in every reachable state.
THEOREM BsyInductive == BsySpec => []BsyInv
<1>1. BsyInv /\ [BsyNext]_bsyvars => BsyInv'
  BY BsyNextType, NextSoleHolder, NextKnowsFile DEF BsyInv
<1> QED
  BY BsyInitInv, <1>1, PTL DEF BsySpec

\* Every variable keeps its type, for any set of processes.
THEOREM BsyTypeCorrect == BsySpec => []BsyTypeOK
<1>1. BsyInv => BsyTypeOK
  BY DEF BsyInv
<1> QED
  BY BsyInductive, <1>1, PTL

\* Nobody works beside an owner of the lock who was not robbed of its file.
THEOREM OneHolder == BsySpec => []SoleHolder
<1>1. BsyInv => SoleHolder
  BY DEF BsyInv
<1> QED
  BY BsyInductive, <1>1, PTL

\* A live process can lose a young lock only to one that judged another file.
THEOREM LossNeedsWindow == BsySpec => []UnlinkJudged
<1>1. BsyInv => UnlinkJudged
  BY DEF BsyInv, KnowsFile, UnlinkJudged, At
<1> QED
  BY BsyInductive, <1>1, PTL
=============================================================================
