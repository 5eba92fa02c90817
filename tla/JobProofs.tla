----------------------------- MODULE JobProofs ------------------------------
(***************************************************************************)
(* The jobs of ftnfido and the locks they and the other programs take.     *)
(*   MailIn, for any mailers and timers: one program at a time works on    *)
(* the message bases, and as long as the task list has room for every      *)
(* mailer ftntask starts and two jobs no packet in the inbound is          *)
(* forgotten.                                                              *)
(*   ProgLock, for any set of processes: the programs that run beside each *)
(* other were robbed of their lock, in every mode; and with a temporary    *)
(* file of the own the lock always names the process that linked it.       *)
(***************************************************************************)
EXTENDS MailIn, ProgLock, FiniteSetTheorems, TLAPS

USE SetsKnown, BoundsKnown

\* Every job whose program was started has a place in the task list, and of the tasks
\* at most one works on the message bases and at most one is an idle job.
Alone(S) == \A i, j \in S : i = j
OneTask == Alone(task \intersect FtnfidoType) /\ Alone(task \intersect IdleJob)

LEMMA JobSets == /\ Job = {"mailout", "mailin", "newnews", "ftnindex", "msglink", "reqindex"}
                 /\ FtnfidoType \subseteq Job /\ IdleJob \subseteq Job
                 /\ Job \ FtnfidoType \subseteq IdleJob
                 /\ FtnfidoType = {"mailout", "mailin", "newnews", "msglink"}
BY DEF Job, IdleJob, FtnfidoType

LEMMA OneMore ==
  ASSUME NEW S, IsFiniteSet(S), NEW x
  PROVE  /\ Cardinality(S) \in Nat /\ Cardinality(S \union {x}) \in Nat
         /\ Cardinality(S \union {x}) <= Cardinality(S) + 1
<1>1. IsFiniteSet(S \union {x})
  BY FS_AddElement
<1>2. Cardinality(S) \in Nat /\ Cardinality(S \union {x}) \in Nat
  BY <1>1, FS_CardinalityType
<1>3. Cardinality(S \union {x}) = IF x \in S THEN Cardinality(S) ELSE Cardinality(S) + 1
  BY FS_AddElement
<1> QED
  BY <1>2, <1>3

LEMMA InitType == Init => TypeOK
<1> SUFFICES ASSUME Init PROVE TypeOK
  OBVIOUS
<1>1. Cardinality({}) = 0 /\ {j \in Job : at[j] # "off"} = {}
  BY FS_EmptySet DEF Init
<1>2. /\ mailer \in [Mailer -> {"off", "session", "leaving"}] /\ at \in [Job -> Place]
      /\ tosswait \in 0..TossWait /\ ptimer \in 0..PauseTime /\ events \in 0..MaxEvents
  BY DEF Init, Place
<1>3. Cardinality(task) <= MaxTasks
  BY <1>1 DEF Init
<1> QED
  BY <1>1, <1>2, <1>3 DEF Init, TypeOK

LEMMA TasksFinite == ASSUME TypeOK
                     PROVE  IsFiniteSet(task)
<1>1. IsFiniteSet(Launched)
  BY FS_Subset
<1>2. IsFiniteSet(Launched \union {"mailout"} \union {"mailin"} \union {"newnews"})
  <2>1. IsFiniteSet(Launched \union {"mailout"})
    BY <1>1, FS_AddElement
  <2>2. IsFiniteSet(Launched \union {"mailout"} \union {"mailin"})
    BY <2>1, FS_AddElement
  <2> QED
    BY <2>2, FS_AddElement
<1>3. IsFiniteSet(Launched \union {"mailout"} \union {"mailin"} \union {"newnews"} \union {"ftnindex"}
                  \union {"msglink"})
  <2>1. IsFiniteSet(Launched \union {"mailout"} \union {"mailin"} \union {"newnews"} \union {"ftnindex"})
    BY <1>2, FS_AddElement
  <2> QED
    BY <2>1, FS_AddElement
<1>4. IsFiniteSet(Launched \union {"mailout"} \union {"mailin"} \union {"newnews"} \union {"ftnindex"}
                  \union {"msglink"} \union {"reqindex"})
  BY <1>3, FS_AddElement
<1>5. task \in SUBSET (Launched \union {"mailout"} \union {"mailin"} \union {"newnews"}
                       \union {"ftnindex"} \union {"msglink"} \union {"reqindex"})
  <2>1. task \subseteq Launched \union Job
    BY DEF TypeOK
  <2> QED
    BY <2>1, JobSets
<1> QED
  BY <1>4, <1>5, FS_Subset

\* The job that is looked at first is one of those that are ready.
LEMMA FirstIsReady == ASSUME NEW J \in SUBSET Job, J # {}
                      PROVE  First(J) \in J
<1> DEFINE Leads(i) == Order[i] \in J /\ \A k \in 1..(i - 1) : Order[k] \notin J
<1>1. Len(Order) = 6
  BY DEF Order
<1>2. /\ Order[1] = "mailout" /\ Order[2] = "mailin" /\ Order[3] = "newnews"
      /\ Order[4] = "ftnindex" /\ Order[5] = "msglink" /\ Order[6] = "reqindex"
  BY DEF Order
<1>3. \E i \in 1..6 : Order[i] \in J
  <2>1. PICK j \in J : TRUE
    OBVIOUS
  <2>2. j \in {Order[1], Order[2], Order[3], Order[4], Order[5], Order[6]}
    BY <1>2, <2>1, JobSets
  <2> QED
    BY <2>1, <2>2
<1>4. \E i \in 1..6 : Leads(i)
  <2>1. CASE Order[1] \in J
    BY <2>1
  <2>2. CASE Order[1] \notin J /\ Order[2] \in J
    BY <2>2
  <2>3. CASE Order[1] \notin J /\ Order[2] \notin J /\ Order[3] \in J
    BY <2>3
  <2>4. CASE Order[1] \notin J /\ Order[2] \notin J /\ Order[3] \notin J /\ Order[4] \in J
    BY <2>4
  <2>5. CASE /\ Order[1] \notin J /\ Order[2] \notin J /\ Order[3] \notin J /\ Order[4] \notin J
             /\ Order[5] \in J
    BY <2>5
  <2>6. CASE /\ Order[1] \notin J /\ Order[2] \notin J /\ Order[3] \notin J /\ Order[4] \notin J
             /\ Order[5] \notin J /\ Order[6] \in J
    BY <2>6
  <2> QED
    BY <1>3, <2>1, <2>2, <2>3, <2>4, <2>5, <2>6
<1> QED
  BY <1>1, <1>4 DEF First

\* What one turn of the scheduler does: the semafores it serves go, at most one job is
\* started, and none only if nothing was ready or the list is full.
LEMMA Turn ==
  ASSUME TypeOK, NEW second \in BOOLEAN, NEW minute \in BOOLEAN, Pass(second, minute)
  PROVE  \E served, started \in SUBSET sema :
           /\ started \subseteq served
           /\ sema' = sema \ served
           /\ task' = (task \ Ended) \union started
           /\ at' = [j \in Job |-> IF j \in started THEN "start"
                                   ELSE IF at[j] = "ended" THEN "off" ELSE at[j]]
           /\ \A j \in served : \E wait : Ready(j, task \ Ended, wait)
           /\ Alone(started)
           /\ started # {} => served = started /\ Cardinality(task \ Ended) < MaxTasks
           /\ started = {} => served = {} \/ Cardinality(task \ Ended) >= MaxTasks
           /\ tosswait' \in 0..TossWait /\ ptimer' \in 0..PauseTime
           /\ UNCHANGED <<inbound, box, mailer, gotfiles, hand, Processing, left, events>>
<1> DEFINE list == task \ Ended
           p == IF Ended # {} THEN PauseTime ELSE ptimer
           pause == IF second /\ p > 0 THEN p - 1 ELSE p
           wait == IF minute /\ tosswait > 0 THEN tosswait - 1 ELSE tosswait
           ready == IF Processing /\ pause = 0 THEN {j \in sema : Ready(j, list, wait)} ELSE {}
           full == Cardinality(list) >= MaxTasks
           served == IF full \/ ready = {} THEN ready ELSE {First(ready)}
           started == IF full THEN {} ELSE served
<1>1. /\ sema' = sema \ served
      /\ tosswait' = IF "mailin" \in served /\ MailersRunning(list) = {} THEN TossWait ELSE wait
      /\ ptimer' = IF started # {} THEN PauseTime ELSE pause
      /\ task' = list \union started
      /\ at' = [j \in Job |-> IF j \in started THEN "start"
                              ELSE IF at[j] = "ended" THEN "off" ELSE at[j]]
      /\ UNCHANGED <<inbound, box, mailer, gotfiles, hand, Processing, left, events>>
  BY Zenon DEF Pass
<1>2. ready \in SUBSET Job /\ ready \in SUBSET sema /\ \A j \in ready : Ready(j, list, wait)
  BY DEF TypeOK
<1>3. ready # {} => First(ready) \in ready
  BY <1>2, FirstIsReady
<1>4. served \in SUBSET ready /\ started \in SUBSET served /\ Alone(started)
  <2> HIDE DEF ready, full
  <2> QED
    BY <1>3 DEF Alone
<1>5. /\ started # {} => served = started /\ Cardinality(list) < MaxTasks
      /\ started = {} => served = {} \/ Cardinality(list) >= MaxTasks
  <2>1. IsFiniteSet(list)
    BY TasksFinite, FS_Subset
  <2>2. Cardinality(list) \in Nat
    BY <2>1, FS_CardinalityType
  <2> HIDE DEF ready, list
  <2> QED
    BY <2>2
<1>6. tosswait' \in 0..TossWait /\ ptimer' \in 0..PauseTime
  <2>1. wait \in 0..TossWait /\ pause \in 0..PauseTime
    BY DEF TypeOK
  <2> HIDE DEF wait, pause, served, started, list
  <2> QED
    BY <1>1, <2>1
<1> HIDE DEF ready, served, started, wait, pause, full
<1> QED
  BY <1>1, <1>2, <1>4, <1>5, <1>6

(***************************************************************************)
(* The types, and the tasks that exclude each other.                       *)
(***************************************************************************)
LEMMA SemaType ==
  ASSUME TypeOK, NEW s \in Job, sem_set(s) \/ sem_reset(s)
  PROVE  /\ sema' \subseteq Job /\ tosswait' \in 0..TossWait /\ ptimer' \in 0..PauseTime
         /\ left' \subseteq inbound
BY DEF TypeOK, sem_set, sem_reset

LEMMA TurnType ==
  ASSUME TypeOK, NEW second \in BOOLEAN, NEW minute \in BOOLEAN, Pass(second, minute)
  PROVE  TypeOK'
<1>1. PICK served, started \in SUBSET sema :
        /\ sema' = sema \ served
        /\ task' = (task \ Ended) \union started
        /\ at' = [j \in Job |-> IF j \in started THEN "start"
                                ELSE IF at[j] = "ended" THEN "off" ELSE at[j]]
        /\ Alone(started)
        /\ started # {} => Cardinality(task \ Ended) < MaxTasks
        /\ tosswait' \in 0..TossWait /\ ptimer' \in 0..PauseTime
        /\ UNCHANGED <<inbound, box, mailer, gotfiles, hand, Processing, left, events>>
  BY Turn
<1>2. IsFiniteSet(task) /\ IsFiniteSet(task \ Ended)
  BY TasksFinite, FS_Subset
<1>3. Cardinality(task') <= MaxTasks
  <2>1. Cardinality(task \ Ended) <= Cardinality(task)
    BY <1>2, FS_Subset
  <2>2. Cardinality(task) \in Nat /\ Cardinality(task \ Ended) \in Nat
    BY <1>2, FS_CardinalityType
  <2>3. CASE started = {}
    <3>1. task' = task \ Ended
      BY <1>1, <2>3
    <3> QED
      BY <2>1, <2>2, <3>1 DEF TypeOK
  <2>4. CASE started # {}
    <3>1. PICK j \in started : started = {j}
      BY <1>1, <2>4 DEF Alone
    <3>2. task' = (task \ Ended) \union {j}
      BY <1>1, <3>1
    <3>3. Cardinality(task') \in Nat /\ Cardinality(task') <= Cardinality(task \ Ended) + 1
      BY <1>2, <3>2, OneMore
    <3>4. Cardinality(task \ Ended) < MaxTasks
      BY <1>1, <2>4
    <3> QED
      BY <2>2, <3>3, <3>4
  <2> QED
    BY <2>3, <2>4
<1>4. task' \subseteq Launched \union Job /\ sema' \subseteq Job
  BY <1>1 DEF TypeOK
<1>5. at' \in [Job -> Place] /\ {j \in Job : at'[j] # "off"} \subseteq task'
  <2>1. at' \in [Job -> Place]
    BY <1>1 DEF TypeOK, Place
  <2>2. ASSUME NEW j \in Job, at'[j] # "off" PROVE j \in task'
    <3>1. CASE j \in started
      BY <1>1, <3>1
    <3>2. CASE j \notin started
      <4>1. at[j] # "ended" /\ at[j] # "off"
        BY <1>1, <2>2, <3>2
      <4>2. j \in task /\ j \notin Mailer
        BY <4>1 DEF TypeOK
      <4>3. j \notin Ended
        BY <4>1, <4>2 DEF Ended
      <4> QED
        BY <1>1, <4>2, <4>3
    <3> QED
      BY <3>1, <3>2
  <2> QED
    BY <2>1, <2>2
<1> QED
  BY <1>1, <1>3, <1>4, <1>5 DEF TypeOK

LEMMA BeginSessionType == ASSUME TypeOK, NEW m \in Mailer, BeginSession(m)
                          PROVE  TypeOK'
<1>1. /\ mailer' \in [Mailer -> {"off", "session", "leaving"}]
      /\ events' \in 0..MaxEvents
      /\ UNCHANGED <<inbound, box, gotfiles, sema, tosswait, at, hand, Processing, left>>
  BY DEF BeginSession, TypeOK, Event
<1>2. /\ task' \subseteq Launched \union Job /\ Cardinality(task') <= MaxTasks /\ task \subseteq task'
      /\ ptimer' \in 0..PauseTime
  <2>1. CASE m \notin Launched
    BY <2>1 DEF BeginSession, TypeOK
  <2>2. CASE m \in Launched
    <3>1. Cardinality(task) < MaxTasks /\ task' = task \union {m} /\ ptimer' = PauseTime
      BY <2>2 DEF BeginSession
    <3>2. Cardinality(task') <= Cardinality(task) + 1 /\ Cardinality(task) \in Nat
             /\ Cardinality(task') \in Nat
      <4>1. IsFiniteSet(task)
        BY TasksFinite
      <4> QED
        BY <3>1, <4>1, OneMore
    <3> QED
      BY <2>2, <3>1, <3>2 DEF TypeOK
  <2> QED
    BY <2>1, <2>2
<1> QED
  BY <1>1, <1>2 DEF TypeOK

LEMMA JobMoves ==
  ASSUME TypeOK, NEW j \in Job, NEW place \in Place, at[j] # "off", GoTo(j, place)
  PROVE  at' \in [Job -> Place] /\ {i \in Job : at'[i] # "off"} \subseteq task
BY DEF TypeOK, GoTo

\* What a toss that breaks off does, wherever it does: a job moves on, one event more, and of
\* the files and semafores nothing changes but what is left.
LEMMA BreakType ==
  ASSUME TypeOK, BreakOff
  PROVE  /\ at' \in [Job -> Place] /\ {i \in Job : at'[i] # "off"} \subseteq task
         /\ events' \in 0..MaxEvents
         /\ left' \subseteq inbound
         /\ UNCHANGED <<inbound, box, sema, tosswait, ptimer, mailer, gotfiles, task, hand, Processing>>
<1>1. ASSUME NEW j \in Job, BeginFails(j)
      PROVE  at' \in [Job -> Place] /\ {i \in Job : at'[i] # "off"} \subseteq task
  BY <1>1, JobMoves DEF BeginFails, Place
<1>2. ASSUME TicBreaksOff \/ TossBreaksOff
      PROVE  at' \in [Job -> Place] /\ {i \in Job : at'[i] # "off"} \subseteq task
  <2>1. PICK place \in Place : GoTo("mailin", place)
    BY <1>2 DEF TicBreaksOff, TossBreaksOff, TicsDone, PktsDone, Place
  <2>2. at["mailin"] # "off" /\ "mailin" \in Job
    BY <1>2, JobSets DEF TicBreaksOff, TossBreaksOff
  <2> QED
    BY <2>1, <2>2, JobMoves
<1>3. Event /\ JobOnly /\ \E K \in SUBSET Kind : Leave(K)
  BY DEF BreakOff, BeginFails, TicBreaksOff, TossBreaksOff, Kind
<1>4. left' \subseteq inbound /\ UNCHANGED <<inbound, box, sema, tosswait, ptimer>>
  BY <1>3 DEF Leave, TypeOK
<1>5. events' \in 0..MaxEvents
  BY <1>3 DEF Event, TypeOK
<1> QED
  BY <1>1, <1>2, <1>3, <1>4, <1>5 DEF BreakOff, JobOnly

LEMMA JobType ==
  ASSUME TypeOK, (\E j \in Job : RunJob(j)) \/ RunMailin \/ BreakOff
  PROVE  TypeOK' /\ task' = task /\ hand' = hand
<1>1. ASSUME NEW j \in Job, Begin(j) PROVE TypeOK'
  <2>1. PICK place \in Place : GoTo(j, place)
    BY <1>1 DEF Begin, Place
  <2> QED
    BY <1>1, <2>1, JobMoves DEF Begin, NoSema, JobOnly, NoEvent, TypeOK
<1>2. ASSUME NEW j \in Job, Work(j) PROVE TypeOK'
  BY <1>2, JobMoves DEF Work, Place, NoSema, JobOnly, NoEvent, TypeOK
<1>3. ASSUME NEW j \in Job, Exit(j) PROVE TypeOK'
  <2>1. at' \in [Job -> Place] /\ {i \in Job : at'[i] # "off"} \subseteq task
    BY <1>3, JobMoves DEF Exit, Place
  <2>2. /\ sema' \subseteq Job /\ tosswait' \in 0..TossWait /\ ptimer' \in 0..PauseTime
        /\ left' \subseteq inbound
    BY <1>3, SemaType, JobSets DEF Exit, NoSema, TypeOK
  <2> QED
    BY <1>3, <2>1, <2>2 DEF Exit, JobOnly, NoEvent, TypeOK
<1>4. CASE ResetMailin
  <2>1. at' \in [Job -> Place] /\ {i \in Job : at'[i] # "off"} \subseteq task
    BY <1>4, JobMoves, JobSets DEF ResetMailin, Place
  <2>2. /\ sema' \subseteq Job /\ tosswait' \in 0..TossWait /\ ptimer' \in 0..PauseTime
        /\ left' \subseteq inbound
    BY <1>4, SemaType, JobSets DEF ResetMailin, NoSema, TypeOK
  <2> QED
    BY <1>4, <2>1, <2>2 DEF ResetMailin, JobOnly, NoEvent, TypeOK
<1>5. CASE Tic
  <2>1. CASE "tic" \in inbound
    BY <1>5, <2>1 DEF Tic, Take, JobOnly, NoEvent, TypeOK
  <2>2. CASE "tic" \notin inbound
    <3>1. at' \in [Job -> Place] /\ {i \in Job : at'[i] # "off"} \subseteq task
      BY <1>5, <2>2, JobMoves, JobSets DEF Tic, TicsDone, Place
    <3> QED
      BY <1>5, <2>2, <3>1 DEF Tic, NoSema, JobOnly, NoEvent, TypeOK
  <2> QED
    BY <2>1, <2>2
<1>6. CASE TossMail
  <2>1. at' \in [Job -> Place] /\ {i \in Job : at'[i] # "off"} \subseteq task
    BY <1>6, JobMoves, JobSets DEF TossMail, PktsDone, Place
  <2> QED
    BY <1>6, <2>1 DEF TossMail, Take, JobOnly, NoEvent, TypeOK
<1>7. CASE dirinbound
  <2>1. at' \in [Job -> Place] /\ {i \in Job : at'[i] # "off"} \subseteq task
    BY <1>7, JobMoves, JobSets DEF dirinbound, Place
  <2> QED
    BY <1>7, <2>1 DEF dirinbound, NoSema, JobOnly, NoEvent, TypeOK
<1>8. CASE BreakOff
  BY <1>8, BreakType DEF TypeOK
<1>9. task' = task /\ hand' = hand
  BY DEF RunJob, RunMailin, BreakOff, Begin, BeginFails, Work, Exit, ResetMailin, Tic, TicBreaksOff,
         TossMail, TossBreaksOff, dirinbound, JobOnly
<1> QED
  BY <1>1, <1>2, <1>3, <1>4, <1>5, <1>6, <1>7, <1>8, <1>9 DEF RunJob, RunMailin

LEMMA StepType == TypeOK /\ [Next]_vars => TypeOK'
<1> SUFFICES ASSUME TypeOK, [Next]_vars PROVE TypeOK'
  OBVIOUS
<1>1. CASE UNCHANGED vars
  BY <1>1 DEF vars, TypeOK
<1>2. ASSUME NEW second \in BOOLEAN, NEW minute \in BOOLEAN, Pass(second, minute) PROVE TypeOK'
  BY <1>2, TurnType
<1>3. ASSUME NEW s \in Job, Request(s) PROVE TypeOK'
  <2>1. /\ sema' \subseteq Job /\ tosswait' \in 0..TossWait /\ ptimer' \in 0..PauseTime
        /\ left' \subseteq inbound
    BY <1>3, SemaType DEF Request
  <2> QED
    BY <1>3, <2>1 DEF Request, Event, TypeOK
<1>4. CASE (\E j \in Job : RunJob(j)) \/ RunMailin \/ BreakOff
  BY <1>4, JobType
<1>5. ASSUME NEW m \in Mailer, BeginSession(m) PROVE TypeOK'
  BY <1>5, BeginSessionType
<1>6. ASSUME NEW m \in Mailer, EndSession(m) PROVE TypeOK'
  <2>1. /\ sema' \subseteq Job /\ tosswait' \in 0..TossWait /\ ptimer' \in 0..PauseTime
        /\ left' \subseteq inbound
    BY <1>6, SemaType, JobSets DEF EndSession, NoSema, TypeOK
  <2> QED
    BY <1>6, <2>1 DEF EndSession, TypeOK
<1>7. ASSUME NEW m \in Mailer, ExitClient(m) PROVE TypeOK'
  BY <1>7 DEF ExitClient, TypeOK
<1>8. ASSUME NEW m \in Mailer, NEW k \in Kind, ReceiveFile(m, k) PROVE TypeOK'
  BY <1>8 DEF ReceiveFile, TypeOK
<1>9. ASSUME NEW k \in Kind, DropFile(k) PROVE TypeOK'
  BY <1>9 DEF DropFile, Event, TypeOK
<1>10. CASE Suspend \/ Resume
  <2>1. Processing' \in BOOLEAN
    BY <1>10, Zenon DEF Suspend, Resume
  <2>2. events' \in 0..MaxEvents
    <3>1. events' = events \/ (events < MaxEvents /\ events' = events + 1)
      BY <1>10, Zenon DEF Suspend, Resume, Event
    <3> QED
      BY <3>1 DEF TypeOK
  <2>3. UNCHANGED <<inbound, box, mailer, gotfiles, sema, tosswait, ptimer, task, at, hand, left>>
    BY <1>10, Zenon DEF Suspend, Resume
  <2> QED
    BY <2>1, <2>2, <2>3 DEF TypeOK
<1> QED
  BY <1>1, <1>2, <1>3, <1>4, <1>5, <1>6, <1>7, <1>8, <1>9, <1>10 DEF Next

LEMMA StepTask == TypeOK /\ OneTask /\ [Next]_vars => OneTask'
<1> SUFFICES ASSUME TypeOK, OneTask, [Next]_vars PROVE OneTask'
  OBVIOUS
<1>1. ASSUME task' = task PROVE OneTask'
  BY <1>1 DEF OneTask
<1>2. ASSUME NEW second \in BOOLEAN, NEW minute \in BOOLEAN, Pass(second, minute) PROVE OneTask'
  <2>1. PICK served, started \in SUBSET sema :
          /\ started \subseteq served
          /\ task' = (task \ Ended) \union started
          /\ \A j \in served : \E wait : Ready(j, task \ Ended, wait)
          /\ Alone(started)
    BY <1>2, Turn
  <2>2. CASE started = {}
    BY <2>1, <2>2 DEF OneTask, Alone
  <2>3. CASE started # {}
    <3>1. PICK j \in started : started = {j}
      BY <2>1, <2>3 DEF Alone
    <3>2. PICK wait : Ready(j, task \ Ended, wait)
      BY <2>1, <3>1
    <3>3. CASE j \in IdleJob
      <4>1. task' = {j}
        BY <2>1, <3>1, <3>2, <3>3 DEF Ready
      <4> QED
        BY <4>1 DEF OneTask, Alone
    <3>4. CASE j \notin IdleJob
      <4>1. (task \ Ended) \intersect FtnfidoType = {}
        BY <3>2, <3>4 DEF Ready
      <4>2. task' \intersect FtnfidoType \subseteq {j}
        BY <2>1, <3>1, <4>1
      <4>3. task' \intersect IdleJob \subseteq task \intersect IdleJob
        BY <2>1, <3>1, <3>4
      <4> QED
        BY <4>2, <4>3 DEF OneTask, Alone
    <3> QED
      BY <3>3, <3>4
  <2> QED
    BY <2>2, <2>3
<1>3. ASSUME NEW m \in Mailer, BeginSession(m) PROVE OneTask'
  <2>1. task' \subseteq task \union {m} /\ m \notin FtnfidoType /\ m \notin IdleJob /\ task \subseteq task'
    BY <1>3, JobSets DEF BeginSession
  <2>2. /\ task' \intersect FtnfidoType = task \intersect FtnfidoType
        /\ task' \intersect IdleJob = task \intersect IdleJob
    BY <2>1
  <2> QED
    BY <2>2 DEF OneTask
<1>4. ASSUME (\E j \in Job : RunJob(j)) \/ RunMailin \/ BreakOff PROVE OneTask'
  BY <1>1, <1>4, JobType
<1>5. ASSUME NEW m \in Mailer, EndSession(m) PROVE OneTask'
  BY <1>1, <1>5 DEF EndSession
<1> QED
  BY <1>1, <1>2, <1>3, <1>4, <1>5
  DEF Next, vars, Request, ExitClient, ReceiveFile, DropFile, Suspend, Resume

(***************************************************************************)
(* Packets.                                                                *)
(***************************************************************************)

\* Nobody but ftntask runs ftnfido.
Unattended == hand = FALSE

\* A place in the list for every mailer ftntask starts, an idle job and one job more.
Roomy == Cardinality(Launched) + 2 <= MaxTasks

LEMMA RoomLeft ==
  ASSUME TypeOK, OneTask, Roomy, (task \ Ended) \intersect FtnfidoType = {}
  PROVE  Cardinality(task \ Ended) < MaxTasks
<1>1. IsFiniteSet(Launched) /\ Cardinality(Launched) \in Nat
  BY FS_Subset, FS_CardinalityType
<1>2. task \ Ended \subseteq Launched \union (task \intersect IdleJob)
  BY JobSets DEF TypeOK
<1>3. \E x : task \ Ended \subseteq Launched \union {x}
  <2>1. CASE task \intersect IdleJob = {}
    BY <1>2, <2>1
  <2>2. CASE task \intersect IdleJob # {}
    <3>1. PICK x \in task \intersect IdleJob : task \intersect IdleJob = {x}
      BY <2>2 DEF OneTask, Alone
    <3> QED
      BY <1>2, <3>1
  <2> QED
    BY <2>1, <2>2
<1>4. PICK x : task \ Ended \subseteq Launched \union {x}
  BY <1>3
<1>5. /\ IsFiniteSet(Launched \union {x})
      /\ Cardinality(Launched \union {x}) \in Nat
      /\ Cardinality(Launched \union {x}) <= Cardinality(Launched) + 1
  BY <1>1, OneMore, FS_AddElement
<1>6. /\ Cardinality(task \ Ended) <= Cardinality(Launched \union {x})
      /\ Cardinality(task \ Ended) \in Nat
  <2>1. IsFiniteSet(task \ Ended)
    BY <1>4, <1>5, FS_Subset
  <2> QED
    BY <1>4, <1>5, <2>1, FS_Subset, FS_CardinalityType
<1> QED
  BY <1>1, <1>5, <1>6 DEF Roomy

\* Where the packets are safe, or known to be left: what a step may not take away.
Safe == Due \/ at["mailin"] \in Ahead("pkt") \/ "pkt" \in left

LEMMA SafeIsRemembered == PacketsRemembered <=> ("pkt" \in inbound => Safe)
BY Zenon DEF PacketsRemembered, Remembered, Safe, Due

LEMMA PassKeeps ==
  ASSUME TypeOK, OneTask, Roomy, Safe,
         NEW second \in BOOLEAN, NEW minute \in BOOLEAN, Pass(second, minute)
  PROVE  Safe'
<1>1. PICK served, started \in SUBSET sema :
        /\ sema' = sema \ served
        /\ at' = [j \in Job |-> IF j \in started THEN "start"
                                ELSE IF at[j] = "ended" THEN "off" ELSE at[j]]
        /\ \A j \in served : \E wait : Ready(j, task \ Ended, wait)
        /\ started # {} => served = started
        /\ started = {} => served = {} \/ Cardinality(task \ Ended) >= MaxTasks
        /\ UNCHANGED <<mailer, gotfiles, left>>
  BY Turn
<1>2. "mailin" \in Job /\ "mailin" \notin IdleJob
  BY JobSets DEF IdleJob
<1>3. CASE "mailin" \in served
  <2>1. PICK wait : Ready("mailin", task \ Ended, wait)
    BY <1>1, <1>3
  <2>2. (task \ Ended) \intersect FtnfidoType = {}
    BY <1>2, <2>1 DEF Ready
  <2>3. Cardinality(task \ Ended) < MaxTasks
    BY <2>2, RoomLeft
  <2>4. Cardinality(task \ Ended) \in Nat
    <3>1. IsFiniteSet(task \ Ended)
      BY TasksFinite, FS_Subset
    <3> QED
      BY <3>1, FS_CardinalityType
  <2>5. started # {}
    BY <1>1, <1>3, <2>3, <2>4
  <2>6. at'["mailin"] = "start"
    BY <1>1, <1>2, <1>3, <2>5
  <2> QED
    BY <2>6 DEF Safe, Ahead
<1>4. CASE "mailin" \notin served
  <2>1. "mailin" \in sema => "mailin" \in sema'
    BY <1>1, <1>4
  <2>2. at["mailin"] \in Ahead("pkt") => at'["mailin"] \in Ahead("pkt")
    BY <1>1, <1>2 DEF Ahead
  <2> QED
    BY <1>1, <2>1, <2>2 DEF Safe, Due
<1> QED
  BY <1>3, <1>4

LEMMA JobKeeps ==
  ASSUME TypeOK, Unattended, (\E j \in Job : RunJob(j)) \/ RunMailin, "pkt" \in inbound => Safe
  PROVE  "pkt" \in inbound' => Safe'
<1>1. UNCHANGED <<mailer, gotfiles>>
  BY DEF RunJob, RunMailin, Begin, Work, Exit, ResetMailin, Tic, TossMail, dirinbound, JobOnly
<1>2. at \in [Job -> Place] /\ "mailin" \in Job
  BY JobSets DEF TypeOK
<1>3. ASSUME NEW j \in Job, RunJob(j), "pkt" \in inbound' PROVE Safe'
  <2>1. inbound' = inbound
    BY <1>3 DEF RunJob, Begin, Work, Exit
  <2>2. /\ "mailin" \in sema => "mailin" \in sema'
        /\ "pkt" \in left => "pkt" \in left'
    <3>1. ASSUME NEW t \in {"msglink", "reqindex"}, sem_set(t) PROVE sema \subseteq sema' /\ left' = left
      BY <3>1 DEF sem_set
    <3> QED
      BY <1>3, <3>1 DEF RunJob, Begin, Work, Exit, NoSema
  <2>3. at["mailin"] \in Ahead("pkt") => at'["mailin"] \in Ahead("pkt")
    <3>1. CASE Begin(j)
      BY <1>2, <3>1 DEF Begin, GoTo, Unattended, Ahead
    <3>2. CASE Work(j) \/ Exit(j)
      BY <1>2, <3>2 DEF Work, Exit, GoTo, Ahead
    <3> QED
      BY <1>3, <3>1, <3>2 DEF RunJob
  <2> QED
    BY <1>1, <1>3, <2>1, <2>2, <2>3 DEF Safe, Due
<1>4. ASSUME ResetMailin, "pkt" \in inbound' PROVE Safe'
  <2>1. at'["mailin"] \in {"tic", "toss"}
    BY <1>2, <1>4 DEF ResetMailin, GoTo
  <2> QED
    BY <2>1 DEF Safe, Ahead
<1>5. ASSUME Tic, "pkt" \in inbound' PROVE Safe'
  <2>1. at'["mailin"] \in {"tic", "tic2", "tossreset", "toss2"}
    BY <1>2, <1>5 DEF Tic, TicsDone, GoTo
  <2> QED
    BY <2>1 DEF Safe, Ahead
<1>6. CASE TossMail
  BY <1>6 DEF TossMail, Take
<1>7. ASSUME dirinbound, "pkt" \in inbound' PROVE Safe'
  <2>1. CASE box = {}
    <3>1. "pkt" \in inbound /\ sema' = sema /\ left' = left /\ at["mailin"] = "dir"
      BY <1>7, <2>1 DEF dirinbound, NoSema
    <3>2. at["mailin"] \notin Ahead("pkt")
      BY <3>1 DEF Ahead
    <3> QED
      BY <1>1, <3>1, <3>2 DEF Safe, Due
  <2>2. CASE box # {}
    <3>1. at'["mailin"] = "tic2"
      BY <1>2, <1>7, <2>2 DEF dirinbound, GoTo
    <3> QED
      BY <3>1 DEF Safe, Ahead
  <2> QED
    BY <2>1, <2>2
<1> QED
  BY <1>3, <1>4, <1>5, <1>6, <1>7 DEF RunMailin

\* A toss that breaks off with a packet there leaves it, unless a toss is due.
LEMMA BreakKeeps ==
  ASSUME TypeOK, BreakOff, "pkt" \in inbound, Safe
  PROVE  Safe'
<1>1. UNCHANGED <<sema, mailer, gotfiles, inbound>> /\ at \in [Job -> Place] /\ "mailin" \in Job
  BY BreakType, JobSets DEF TypeOK
<1>2. Due => Due'
  BY <1>1 DEF Due
<1>3. "pkt" \in left => "pkt" \in left'
  BY DEF BreakOff, BeginFails, TicBreaksOff, TossBreaksOff, Leave
<1>4. ASSUME ~Due, at["mailin"] \in Ahead("pkt") PROVE at'["mailin"] \in Ahead("pkt") \/ "pkt" \in left'
  <2>1. ASSUME NEW j \in Job, BeginFails(j) PROVE at'["mailin"] = at["mailin"] \/ "pkt" \in left'
    BY <1>1, <1>4, <2>1 DEF BeginFails, GoTo, Leave, Kind
  <2>2. CASE TicBreaksOff
    <3>1. CASE GoTo("mailin", "exit") /\ Leave(Kind)
      BY <1>4, <3>1 DEF Leave, Kind
    <3>2. CASE GoTo("mailin", TicsDone)
      BY <1>1, <3>2 DEF GoTo, TicsDone, Ahead
    <3> QED
      BY <2>2, <3>1, <3>2 DEF TicBreaksOff
  <2>3. CASE TossBreaksOff
    BY <1>4, <2>3 DEF TossBreaksOff, Leave
  <2> QED
    BY <1>4, <2>1, <2>2, <2>3 DEF BreakOff
<1>5. CASE Due
  BY <1>2, <1>5 DEF Safe
<1>6. CASE ~Due
  BY <1>3, <1>4, <1>6 DEF Safe
<1> QED
  BY <1>5, <1>6

LEMMA StepPackets ==
  ASSUME TypeOK, OneTask, Roomy, Unattended, PacketsRemembered, [Next]_vars
  PROVE  PacketsRemembered'
<1> SUFFICES ASSUME "pkt" \in inbound' PROVE Safe'
  BY SafeIsRemembered DEF PacketsRemembered, Remembered, Safe, Due
<1>1. "pkt" \in inbound => Safe
  BY SafeIsRemembered
<1>2. ASSUME UNCHANGED <<sema, mailer, gotfiles, at, inbound, left>> PROVE Safe'
  BY <1>1, <1>2 DEF Safe, Due
<1>3. ASSUME NEW second \in BOOLEAN, NEW minute \in BOOLEAN, Pass(second, minute) PROVE Safe'
  <2>1. inbound' = inbound
    BY <1>3 DEF Pass
  <2> QED
    BY <1>1, <1>3, <2>1, PassKeeps
<1>4. ASSUME NEW s \in Job, Request(s) PROVE Safe'
  <2>1. CASE s = "mailin"
    BY <1>4, <2>1 DEF Request, sem_set, Safe, Due
  <2>2. CASE s # "mailin"
    BY <1>1, <1>4, <2>2 DEF Request, sem_set, Safe, Due
  <2> QED
    BY <2>1, <2>2
<1>5. ASSUME (\E j \in Job : RunJob(j)) \/ RunMailin PROVE Safe'
  BY <1>1, <1>5, JobKeeps
<1>6. ASSUME NEW m \in Mailer, BeginSession(m) PROVE Safe'
  <2>1. ASSUME NEW n \in gotfiles, mailer[n] = "session" PROVE mailer'[n] = "session"
    BY <1>6, <2>1 DEF BeginSession, TypeOK
  <2> QED
    BY <1>1, <1>6, <2>1 DEF BeginSession, Safe, Due
<1>7. ASSUME NEW m \in Mailer, EndSession(m) PROVE Safe'
  <2>1. CASE m \in gotfiles
    BY <1>7, <2>1 DEF EndSession, sem_set, Safe, Due
  <2>2. CASE m \notin gotfiles
    <3>1. ASSUME NEW n \in gotfiles, mailer[n] = "session" PROVE mailer'[n] = "session" /\ n \in gotfiles'
      BY <1>7, <2>2, <3>1 DEF EndSession, TypeOK
    <3>2. UNCHANGED <<sema, at, inbound, left>>
      BY <1>7, <2>2 DEF EndSession, NoSema
    <3> QED
      BY <1>1, <3>1, <3>2 DEF Safe, Due
  <2> QED
    BY <2>1, <2>2
<1>8. ASSUME NEW m \in Mailer, ExitClient(m) PROVE Safe'
  <2>1. ASSUME NEW n \in gotfiles, mailer[n] = "session" PROVE mailer'[n] = "session"
    BY <1>8, <2>1 DEF ExitClient, TypeOK
  <2> QED
    BY <1>1, <1>8, <2>1 DEF ExitClient, Safe, Due
<1>9. ASSUME NEW m \in Mailer, NEW k \in Kind, ReceiveFile(m, k) PROVE Safe'
  BY <1>9 DEF ReceiveFile, Safe, Due
<1>10. ASSUME NEW k \in Kind, DropFile(k) PROVE Safe'
  BY <1>2, <1>10 DEF DropFile
<1>11. CASE Suspend \/ Resume
  BY <1>2, <1>11 DEF Suspend, Resume
<1>12. CASE BreakOff
  <2>1. inbound' = inbound
    BY <1>12, BreakType
  <2> QED
    BY <1>1, <1>12, <2>1, BreakKeeps
<1> QED
  BY <1>2, <1>3, <1>4, <1>5, <1>6, <1>7, <1>8, <1>9, <1>10, <1>11, <1>12 DEF Next, vars

(***************************************************************************)
(* The theorems.                                                           *)
(***************************************************************************)
LEMMA FirstState == Init => TypeOK /\ OneTask /\ Unattended /\ PacketsRemembered
BY InitType DEF Init, OneTask, Alone, Unattended, PacketsRemembered, Remembered

LEMMA StepHand == [Next]_vars /\ Unattended => Unattended'
BY ZenonT(60) DEF Next, vars, Unattended, Pass, Request, RunJob, RunMailin, BreakOff, Begin, BeginFails, Work,
       Exit, ResetMailin, Tic, TicBreaksOff, TossMail, TossBreaksOff, dirinbound, JobOnly, BeginSession,
       EndSession, ExitClient, ReceiveFile, DropFile, Suspend, Resume

LEMMA OneWorks == TypeOK /\ OneTask => OneFtnfido
<1> SUFFICES ASSUME TypeOK, OneTask PROVE OneFtnfido
  OBVIOUS
<1> DEFINE Running == {j \in FtnfidoType : at[j] \notin {"off", "ended"}}
<1>1. Running \subseteq task \intersect FtnfidoType
  BY JobSets DEF TypeOK
<1>2. Alone(Running)
  BY <1>1 DEF OneTask, Alone
<1>3. Running = {} \/ \E j : Running = {j}
  BY <1>2 DEF Alone
<1>4. Cardinality(Running) <= 1
  <2> HIDE DEF Running
  <2>1. CASE Running = {}
    BY <2>1, FS_EmptySet
  <2>2. CASE \E j : Running = {j}
    <3>1. PICK j : Running = {j}
      BY <2>2
    <3>2. Cardinality({j}) = 1
      BY FS_Singleton
    <3> QED
      BY <3>1, <3>2
  <2> QED
    BY <1>3, <2>1, <2>2
<1> QED
  BY <1>4 DEF OneFtnfido

\* The variables keep their types; above all the task list of ftntask never holds more than
\* MaxTasks tasks, and no job runs that ftntask does not have in its list.
THEOREM TypeCorrect == Spec => []TypeOK
<1>1. Init => TypeOK
  BY InitType
<1>2. TypeOK /\ [Next]_vars => TypeOK'
  BY StepType
<1> QED
  BY <1>1, <1>2, PTL DEF Spec

\* "Max. 1 ftnfido task": whatever the semafores, the mailers and the timers do, and however
\* long the task list is, ftntask has one program at work on the message bases.
THEOREM OneAtATime == Spec => []OneFtnfido
<1>1. Init => TypeOK /\ OneTask
  BY FirstState
<1>2. TypeOK /\ OneTask /\ [Next]_vars => TypeOK' /\ OneTask'
  BY StepType, StepTask
<1>3. TypeOK /\ OneTask => OneFtnfido
  BY OneWorks
<1> QED
  BY <1>1, <1>2, <1>3, PTL DEF Spec

\* With a place in the task list for each mailer that ftntask can have started, an idle job
\* and one more, no packet in the inbound is forgotten, wherever a toss breaks off: one that is
\* asked for is started before its semafore goes, and what it leaves is known as left until
\* the next session with files sets the semafore again.
THEOREM PacketsKept ==
  ASSUME Roomy
  PROVE  Spec => []PacketsRemembered
<1> DEFINE IInv == TypeOK /\ OneTask /\ Unattended /\ PacketsRemembered
<1>1. Init => IInv
  BY FirstState
<1>2. IInv /\ [Next]_vars => IInv'
  BY StepType, StepTask, StepHand, StepPackets
<1>3. IInv => PacketsRemembered
  OBVIOUS
<1> HIDE DEF IInv
<1> QED
  BY <1>1, <1>2, <1>3, PTL DEF Spec

(***************************************************************************)
(* The lock files.                                                         *)
(***************************************************************************)
USE NamesDistinct, KindsKnown, CanCrashBoolean

LEMMA LockInitType == LockInit => LockTypeOK
BY DEF LockInit, LockTypeOK, Label

LEMMA LockNextType == LockTypeOK /\ [LockNext]_lockvars => LockTypeOK'
<1> SUFFICES ASSUME LockTypeOK, [LockNext]_lockvars PROVE LockTypeOK'
  OBVIOUS
<1> USE DEF LockTypeOK, Label, Goto, files
<1>1. CASE UNCHANGED lockvars
  BY <1>1 DEF lockvars
<1>2. ASSUME NEW p \in Proc, TryLock(p) PROVE LockTypeOK'
  <2> TmpName(p) \in Proc \union {Common}
    BY DEF TmpName
  <2>1. CASE OpenTmp(p)
    BY <2>1 DEF OpenTmp
  <2>2. CASE WritePid(p)
    BY <2>2 DEF WritePid
  <2>3. CASE LinkLock(p)
    BY <2>3 DEF LinkLock
  <2>4. CASE ReadPid(p)
    BY <2>4 DEF ReadPid
  <2>5. CASE KillPid(p)
    BY <2>5 DEF KillPid
  <2>6. CASE UnlinkStale(p)
    BY <2>6 DEF UnlinkStale, RemoveLock, Holders
  <2>7. CASE DropTmp(p)
    BY <2>7 DEF DropTmp, AfterRefusal
  <2> QED
    BY <1>2, <2>1, <2>2, <2>3, <2>4, <2>5, <2>6, <2>7 DEF TryLock
<1>3. ASSUME NEW p \in Proc, Unlock(p) PROVE LockTypeOK'
  BY <1>3 DEF Unlock, BeginUnlock, UnlockRead, UnlockUnlink, RemoveLock, Holders
<1>4. ASSUME NEW p \in Proc, Crash(p) PROVE LockTypeOK'
  BY <1>4 DEF Crash
<1> QED
  BY <1>1, <1>2, <1>3, <1>4 DEF LockNext

\* link succeeds only for the name of no file, and a removal robs the owner.
LEMMA NextSoleRunner == LockTypeOK /\ SoleRunner /\ [LockNext]_lockvars => SoleRunner'
<1> SUFFICES ASSUME LockTypeOK, SoleRunner, [LockNext]_lockvars PROVE SoleRunner'
  OBVIOUS
<1> USE DEF LockTypeOK, Label, SoleRunner, Holders, Goto, files
<1>1. CASE UNCHANGED lockvars
  BY <1>1 DEF lockvars
<1>2. ASSUME NEW p \in Proc, TryLock(p) PROVE SoleRunner'
  <2>1. CASE OpenTmp(p) \/ WritePid(p) \/ ReadPid(p) \/ KillPid(p) \/ DropTmp(p)
    BY <2>1 DEF OpenTmp, WritePid, ReadPid, KillPid, DropTmp, AfterRefusal
  <2>2. CASE LinkLock(p)
    <3> TmpName(p) \in Proc \union {Common}
      BY DEF TmpName
    <3> QED
      BY <2>2 DEF LinkLock
  <2>3. CASE UnlinkStale(p)
    BY <2>3 DEF UnlinkStale, RemoveLock
  <2> QED
    BY <1>2, <2>1, <2>2, <2>3 DEF TryLock
<1>3. ASSUME NEW p \in Proc, Unlock(p) PROVE SoleRunner'
  BY <1>3 DEF Unlock, BeginUnlock, UnlockRead, UnlockUnlink, RemoveLock
<1>4. ASSUME NEW p \in Proc, Crash(p) PROVE SoleRunner'
  BY <1>4 DEF Crash
<1> QED
  BY <1>1, <1>2, <1>3, <1>4 DEF LockNext

\* Every variable keeps its type.
THEOREM LockTypeCorrect == LockSpec => []LockTypeOK
BY LockInitType, LockNextType, PTL DEF LockSpec

\* Whoever runs and was not robbed linked the lock that is there.
THEOREM OneRunner == LockSpec => []SoleRunner
<1>1. LockInit => SoleRunner
  BY DEF LockInit, SoleRunner, Holders
<1> QED
  BY <1>1, NextSoleRunner, LockTypeCorrect, PTL DEF LockSpec

\* What nobody else touches in a temporary file of the own: the name leads to
\* the own inode, which holds the own pid until it ends.
OwnFiles ==
  /\ \A p \in Proc : /\ fd[p] = p
                     /\ tmp[p] \in {p, None}
                     /\ pc[p] \notin {"start", "write", "gone"} => content[p] = p
  /\ lock = owner
  /\ lock # None => content[lock] = lock /\ pc[lock] # "start"

LEMMA KindKept == [LockNext]_lockvars => kind' = kind
BY DEF LockNext, lockvars, TryLock, Unlock, OpenTmp, WritePid, LinkLock, ReadPid, KillPid, UnlinkStale,
       DropTmp, BeginUnlock, UnlockRead, UnlockUnlink, Crash

LEMMA NextOwnFiles ==
  kind = "dir" /\ LockTypeOK /\ OwnFiles /\ [LockNext]_lockvars => OwnFiles'
<1> SUFFICES ASSUME kind = "dir", LockTypeOK, OwnFiles, [LockNext]_lockvars PROVE OwnFiles'
  OBVIOUS
<1> USE DEF LockTypeOK, Label, OwnFiles, Goto, files, TmpName, SharedTmp
<1>1. CASE UNCHANGED lockvars
  BY <1>1 DEF lockvars
<1>2. ASSUME NEW p \in Proc, TryLock(p) PROVE OwnFiles'
  <2>1. CASE OpenTmp(p)
    BY <2>1 DEF OpenTmp
  <2>2. CASE WritePid(p)
    BY <2>2 DEF WritePid
  <2>3. CASE LinkLock(p)
    BY <2>3 DEF LinkLock
  <2>4. CASE ReadPid(p) \/ KillPid(p) \/ DropTmp(p)
    BY <2>4 DEF ReadPid, KillPid, DropTmp, AfterRefusal
  <2>5. CASE UnlinkStale(p)
    BY <2>5 DEF UnlinkStale, RemoveLock
  <2> QED
    BY <1>2, <2>1, <2>2, <2>3, <2>4, <2>5 DEF TryLock
<1>3. ASSUME NEW p \in Proc, Unlock(p) PROVE OwnFiles'
  BY <1>3 DEF Unlock, BeginUnlock, UnlockRead, UnlockUnlink, RemoveLock
<1>4. ASSUME NEW p \in Proc, Crash(p) PROVE OwnFiles'
  BY <1>4 DEF Crash
<1> QED
  BY <1>1, <1>2, <1>3, <1>4 DEF LockNext

\* lockdir's lock names the process that linked it, for any set of processes.
THEOREM DirLockNamesOwner == LockSpec => []LockNamesOwner
<1> DEFINE I == kind = "dir" => OwnFiles
<1>1. LockInit => I
  BY DEF LockInit, OwnFiles
<1>2. LockTypeOK /\ I /\ [LockNext]_lockvars => I'
  <2> SUFFICES ASSUME LockTypeOK, I, [LockNext]_lockvars, kind' = "dir" PROVE OwnFiles'
    OBVIOUS
  <2> QED
    BY KindKept, NextOwnFiles
<1>3. LockTypeOK /\ I => LockNamesOwner
  BY DEF LockTypeOK, OwnFiles, LockNamesOwner
<1> QED
  BY <1>1, <1>2, <1>3, LockTypeCorrect, PTL DEF LockSpec

=============================================================================
