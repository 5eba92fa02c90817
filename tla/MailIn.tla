------------------------------- MODULE MailIn -------------------------------
(***************************************************************************)
(* From the inbound to the message bases: mailers that receive files set   *)
(* the semafore "mailin", the scheduler of ftntask/ftntask.c starts the    *)
(* jobs its semafores ask for, and ftnfido, started as "tic toss", resets  *)
(* the semafore and empties the inbound (ftnfido/ftnfido.c).  Mailers, the *)
(* scheduler and the jobs are processes; a semafore is a flag in ftntask   *)
(* that every process sets and resets with a request.                      *)
(***************************************************************************)
EXTENDS Integers, Sequences, FiniteSets

CONSTANTS
  Mailer,     \* mailer processes
  Launched,   \* those ftntask starts to call a node, the others answer a call
  Tcp,        \* those with a TCP/IP session, the others use a line
  Outside,    \* the semafores that ftnstat and other programs set
  MaxTasks,   \* MAXTASKS, the size of the task list
  PauseTime,  \* PAUSETIME, in seconds
  TossWait,   \* TOSSWAIT_TIME, in minutes
  MaxEvents,  \* bound: sessions, requests from outside, closings of the BBS, tosses broken off
  Endless     \* the sessions are not counted as events

\* What lies in the inbound: .tic files and mail packets.
Kind == {"tic", "pkt"}

IdleJob == {"ftnindex", "msglink", "reqindex"}
Job == {"mailout", "mailin", "newnews"} \union IdleJob

\* The jobs of task type FTNFIDO; msglink runs ftnmsg, the others ftnfido itself.
FtnfidoType == {"mailout", "mailin", "newnews", "msglink"}
FtnfidoJob == FtnfidoType \ {"msglink"}

ASSUME SetsKnown ==
  /\ Launched \subseteq Mailer /\ Tcp \subseteq Mailer /\ Mailer \intersect Job = {}
  /\ IsFiniteSet(Mailer) /\ Outside \subseteq Job
ASSUME BoundsKnown ==
  /\ {MaxTasks, PauseTime, TossWait, MaxEvents} \subseteq Nat /\ Endless \in BOOLEAN

VARIABLES
  inbound,   \* the kinds of files that lie there
  box,       \* those in the directory of a node with directory sessions
  mailer,    \* per mailer: no session, in session, or still registered after it
  gotfiles,  \* the mailers that received a file
  sema,      \* the semafores that are set
  tosswait,  \* minutes left
  ptimer,    \* seconds left
  task,      \* the task list of ftntask: jobs and launched mailers
  at,        \* per job: where its program is
  hand,      \* a ftnfido that was started by hand holds the lock (module MCMailIn)
  Processing,\* the BBS is open, the load normal and the power on
  left,      \* what a toss that broke off left behind, until the semafore is set again
  events

vars == <<inbound, box, mailer, gotfiles, sema, tosswait, ptimer, task, at, hand, Processing, left,
          events>>

\* "ended" is a process that waits to be reaped.
Place == {"off", "start", "work", "ticreset", "tic", "tossreset", "toss", "dir", "tic2", "toss2",
          "exit", "ended"}

TypeOK ==
  /\ {inbound, box} \subseteq SUBSET Kind /\ left \subseteq inbound
  /\ mailer \in [Mailer -> {"off", "session", "leaving"}] /\ gotfiles \subseteq Mailer
  /\ sema \subseteq Job /\ tosswait \in 0..TossWait /\ ptimer \in 0..PauseTime
  /\ task \subseteq Launched \union Job /\ Cardinality(task) <= MaxTasks
  /\ at \in [Job -> Place] /\ {j \in Job : at[j] # "off"} \subseteq task
  /\ hand \in BOOLEAN /\ Processing \in BOOLEAN /\ events \in 0..MaxEvents

Init ==
  /\ inbound = {} /\ box = {} /\ left = {}
  /\ mailer = [m \in Mailer |-> "off"] /\ gotfiles = {}
  /\ sema = {} /\ tosswait = TossWait /\ ptimer = 0 /\ task = {}
  /\ at = [j \in Job |-> "off"]
  /\ hand = FALSE /\ Processing = TRUE /\ events = 0

Event == events < MaxEvents /\ events' = events + 1

(***************************************************************************)
(* sem_set: every setting restarts the timers, and a toss is called for    *)
(* again.                                                                  *)
(***************************************************************************)
sem_set(s) ==
  /\ sema' = sema \union {s}
  /\ tosswait' = IF s = "mailin" THEN TossWait ELSE tosswait
  /\ left' = IF s = "mailin" THEN {} ELSE left
  /\ ptimer' = PauseTime

sem_reset(s) ==
  /\ sema' = sema \ {s} /\ ptimer' = PauseTime /\ UNCHANGED <<tosswait, left>>

NoSema == UNCHANGED <<sema, tosswait, ptimer, left>>

Request(s) ==
  /\ s \in Outside /\ Event /\ sem_set(s)
  /\ UNCHANGED <<inbound, box, mailer, gotfiles, task, at, hand, Processing>>

(***************************************************************************)
(* The scheduler.                                                          *)
(***************************************************************************)

\* Mutant: only mailers are taken off the list.
EndedMailers == {m \in task \intersect Mailer : mailer[m] = "off"}

\* Mutant: a job leaves the list before its program has ended.
EndedEarly == {m \in task \intersect Mailer : mailer[m] = "off"}
              \union {j \in task \intersect Job : at[j] \in {"exit", "ended"}}

\* checktasks: what ended leaves the list.
Ended == {m \in task \intersect Mailer : mailer[m] = "off"}
         \union {j \in task \intersect Job : at[j] = "ended"}

\* ipmailers, and the tasks that use a line.  Who answers on a line is not counted.
MailersRunning(list) == {m \in Mailer : IF m \in Tcp THEN mailer[m] # "off" ELSE m \in list}

\* Mutant: the toss does not wait for another ftnfido.
ReadyBeside(j, list, wait) ==
  CASE j = "mailin" -> MailersRunning(list) = {} \/ wait = 0
    [] j \in IdleJob -> list = {}
    [] OTHER -> list \intersect FtnfidoType = {}

\* The conditions of the jobs, the pause timer apart.
Ready(j, list, wait) ==
  IF j \in IdleJob THEN list = {}
  ELSE /\ list \intersect FtnfidoType = {}
       /\ j = "mailin" => MailersRunning(list) = {} \/ wait = 0

\* They are looked at in this order, and a launch starts the pause timer.
Order == <<"mailout", "mailin", "newnews", "ftnindex", "msglink", "reqindex">>
First(J) == Order[CHOOSE i \in 1..Len(Order) : Order[i] \in J /\ \A k \in 1..(i - 1) : Order[k] \notin J]

\* One pass; several may fall in one second, and a minute begins with a second.  The
\* semafore is reset whatever launch returned.
Pass(second, minute) ==
  /\ minute => second
  /\ LET list == task \ Ended
         pause == LET p == IF Ended # {} THEN PauseTime ELSE ptimer
                  IN IF second /\ p > 0 THEN p - 1 ELSE p
         wait == IF minute /\ tosswait > 0 THEN tosswait - 1 ELSE tosswait
         ready == IF Processing /\ pause = 0 THEN {j \in sema : Ready(j, list, wait)} ELSE {}
         full == Cardinality(list) >= MaxTasks
         served == IF full \/ ready = {} THEN ready ELSE {First(ready)}
         started == IF full THEN {} ELSE served
     IN /\ sema' = sema \ served
        /\ tosswait' = IF "mailin" \in served /\ MailersRunning(list) = {} THEN TossWait ELSE wait
        /\ ptimer' = IF started # {} THEN PauseTime ELSE pause
        /\ task' = list \union started
        /\ at' = [j \in Job |-> IF j \in started THEN "start"
                               ELSE IF at[j] = "ended" THEN "off" ELSE at[j]]
  /\ UNCHANGED <<inbound, box, mailer, gotfiles, hand, Processing, left, events>>

\* The BBS is closed or opened, the power fails or returns, the load rises or falls.
Suspend ==
  /\ Processing /\ Event /\ Processing' = FALSE
  /\ UNCHANGED <<inbound, box, mailer, gotfiles, sema, tosswait, ptimer, task, at, hand, left>>

Resume ==
  /\ ~Processing /\ Processing' = TRUE
  /\ UNCHANGED <<inbound, box, mailer, gotfiles, sema, tosswait, ptimer, task, at, hand, left, events>>

(***************************************************************************)
(* Mailers.                                                                *)
(***************************************************************************)

\* A launched mailer takes a place in the task list (module Calls).
BeginSession(m) ==
  /\ mailer[m] = "off" /\ m \notin task
  /\ IF Endless THEN UNCHANGED events ELSE Event
  /\ mailer' = [mailer EXCEPT ![m] = "session"]
  /\ IF m \in Launched
     THEN /\ Processing /\ Cardinality(task) < MaxTasks
          /\ task' = task \union {m} /\ ptimer' = PauseTime
     ELSE UNCHANGED <<task, ptimer>>
  /\ UNCHANGED <<inbound, box, gotfiles, sema, tosswait, at, hand, Processing, left>>

ReceiveFile(m, k) ==
  /\ mailer[m] = "session"
  /\ inbound' = inbound \union {k} /\ gotfiles' = gotfiles \union {m}
  /\ UNCHANGED <<box, mailer, sema, tosswait, ptimer, task, at, hand, Processing, left, events>>

\* Mutant: only a mailer that called sets the semafore.
EndSessionSilent(m) ==
  /\ mailer[m] = "session"
  /\ mailer' = [mailer EXCEPT ![m] = "leaving"]
  /\ IF m \in gotfiles /\ m \in Launched THEN sem_set("mailin") ELSE NoSema
  /\ gotfiles' = gotfiles \ {m}
  /\ UNCHANGED <<inbound, box, task, at, hand, Processing, events>>

\* die() of ftncico sets the semafore before it unregisters.
EndSession(m) ==
  /\ mailer[m] = "session"
  /\ mailer' = [mailer EXCEPT ![m] = "leaving"]
  /\ IF m \in gotfiles THEN sem_set("mailin") ELSE NoSema
  /\ gotfiles' = gotfiles \ {m}
  /\ UNCHANGED <<inbound, box, task, at, hand, Processing, events>>

ExitClient(m) ==
  /\ mailer[m] = "leaving"
  /\ mailer' = [mailer EXCEPT ![m] = "off"]
  /\ UNCHANGED <<inbound, box, gotfiles, sema, tosswait, ptimer, task, at, hand, Processing, left, events>>

\* A node with directory sessions leaves files in its directory; nobody is told.
DropFile(k) ==
  /\ Event /\ box' = box \union {k}
  /\ UNCHANGED <<inbound, mailer, gotfiles, sema, tosswait, ptimer, task, at, hand, Processing, left>>

(***************************************************************************)
(* The jobs.  ftnfido locks the inbound; one that ftntask started gives up *)
(* when the lock is taken.                                                 *)
(***************************************************************************)
GoTo(j, place) == at' = [at EXCEPT ![j] = place]

JobOnly == UNCHANGED <<mailer, gotfiles, task, hand, Processing>>
NoEvent == UNCHANGED events

\* A toss is called for: the semafore is set, or a session that will set it is going on.
Due == "mailin" \in sema \/ \E m \in gotfiles : mailer[m] = "session"

\* Files of these kinds stay where they are; when no toss is due nobody will see them
\* before another session sets the semafore.
Leave(K) ==
  /\ left' = IF Due THEN left ELSE left \union (K \intersect inbound)
  /\ UNCHANGED <<inbound, box, sema, tosswait, ptimer>>

Begin(j) ==
  /\ at[j] = "start"
  /\ GoTo(j, CASE j \in FtnfidoJob /\ hand -> "ended"
               [] j = "mailin" -> "ticreset"
               [] OTHER -> "work")
  /\ NoSema /\ UNCHANGED <<inbound, box>> /\ JobOnly /\ NoEvent

\* The disk is full, or the nodelists can't be used.
BeginFails(j) ==
  /\ j \in FtnfidoJob /\ at[j] = "start" /\ Event
  /\ GoTo(j, "ended")
  /\ Leave(IF j = "mailin" THEN Kind ELSE {}) /\ JobOnly

Work(j) ==
  /\ at[j] = "work" /\ GoTo(j, "exit")
  /\ NoSema /\ UNCHANGED <<inbound, box>> /\ JobOnly /\ NoEvent

\* The semafore is reset before the .tic files and again before the packets.
ResetMailin ==
  /\ \/ at["mailin"] = "ticreset" /\ GoTo("mailin", "tic")
     \/ at["mailin"] = "tossreset" /\ GoTo("mailin", "toss")
  /\ IF "mailin" \in sema THEN sem_reset("mailin") ELSE NoSema
  /\ UNCHANGED <<inbound, box>> /\ JobOnly /\ NoEvent

\* Where the program is after the .tic files and after the packets.
TicsDone == IF at["mailin"] = "tic" THEN "tossreset" ELSE "toss2"
PktsDone == IF at["mailin"] = "toss" THEN "dir" ELSE "exit"

\* A kind of file is gone from the inbound.
Take(k) ==
  /\ inbound' = inbound \ {k} /\ left' = left \ {k}
  /\ UNCHANGED <<box, sema, tosswait, ptimer>>

\* Hatch and Tic until nothing is left to do.
Tic ==
  /\ at["mailin"] \in {"tic", "tic2"}
  /\ IF "tic" \in inbound
     THEN Take("tic") /\ UNCHANGED at
     ELSE GoTo("mailin", TicsDone) /\ NoSema /\ UNCHANGED <<inbound, box>>
  /\ JobOnly /\ NoEvent

\* Tic fails when the disk is full or the inbound can't be read, and ftnfido ends; when the
\* power fails or the disk becomes full between two files it goes on to the packets.
TicBreaksOff ==
  /\ at["mailin"] \in {"tic", "tic2"} /\ Event
  /\ \/ GoTo("mailin", "exit") /\ Leave(Kind)
     \/ "tic" \in inbound /\ GoTo("mailin", TicsDone) /\ Leave({"tic"})
  /\ JobOnly

\* A packet that is no good is renamed.
TossMail ==
  /\ at["mailin"] \in {"toss", "toss2"}
  /\ GoTo("mailin", PktsDone)
  /\ Take("pkt") /\ JobOnly /\ NoEvent

\* On low space, a power failure or a packet that is locked the toss goes on without the
\* rest; without a readable inbound ftnfido ends.
TossBreaksOff ==
  /\ at["mailin"] \in {"toss", "toss2"} /\ Event
  /\ GoTo("mailin", PktsDone) \/ GoTo("mailin", "exit")
  /\ Leave({"pkt"}) /\ JobOnly

\* Files of directory sessions are moved to the inbound and processed at once.
dirinbound ==
  /\ at["mailin"] = "dir"
  /\ GoTo("mailin", IF box = {} THEN "exit" ELSE "tic2")
  /\ inbound' = inbound \union box /\ box' = {}
  /\ NoSema /\ JobOnly /\ NoEvent

\* die() of ftnfido: what was imported is to be linked and indexed.
Exit(j) ==
  /\ at[j] = "exit" /\ GoTo(j, "ended")
  /\ \/ NoSema
     \/ j \in FtnfidoJob /\ \E s \in {"msglink", "reqindex"} : sem_set(s)
  /\ UNCHANGED <<inbound, box>> /\ JobOnly /\ NoEvent

RunJob(j) == Begin(j) \/ Work(j) \/ Exit(j)
RunMailin == ResetMailin \/ Tic \/ TossMail \/ dirinbound
BreakOff == TicBreaksOff \/ TossBreaksOff \/ \E j \in Job : BeginFails(j)

Next ==
  \/ \E second, minute \in BOOLEAN : Pass(second, minute)
  \/ \E s \in Job : Request(s) \/ RunJob(s)
  \/ RunMailin \/ BreakOff
  \/ \E m \in Mailer : BeginSession(m) \/ EndSession(m) \/ ExitClient(m)
  \/ \E m \in Mailer, k \in Kind : ReceiveFile(m, k)
  \/ \E k \in Kind : DropFile(k)
  \/ Suspend \/ Resume

\* The scheduler polls for a second, time passes, programs come to their end, and the
\* BBS is not closed for ever.
Fairness ==
  /\ WF_vars(Pass(TRUE, FALSE)) /\ WF_vars(Pass(TRUE, TRUE)) /\ WF_vars(Resume)
  /\ WF_vars(RunMailin) /\ \A j \in Job : WF_vars(RunJob(j))
  /\ \A m \in Mailer : WF_vars(EndSession(m)) /\ WF_vars(ExitClient(m))

Spec == Init /\ [][Next]_vars /\ Fairness

(***************************************************************************)
(* Properties.                                                             *)
(***************************************************************************)

\* "Max. 1 ftnfido task" (html/programs/ftntask.html): message bases and areas are
\* changed by one program at a time.
OneFtnfido == Cardinality({j \in FtnfidoType : at[j] \notin {"off", "ended"}}) <= 1

\* Somebody will still look at what lies in the inbound: the semafore is set, a mailer
\* that will set it is in session, or a toss runs that has not passed these files.
Ahead(k) ==
  CASE k = "tic" -> {"start", "ticreset", "tic", "tic2"}
    [] k = "pkt" -> {"start", "ticreset", "tic", "tossreset", "toss", "tic2", "toss2"}

Remembered(k) ==
  k \in inbound =>
    \/ "mailin" \in sema
    \/ \E m \in gotfiles : mailer[m] = "session"
    \/ at["mailin"] \in Ahead(k)
    \/ k \in left

\* No packet is forgotten, however sessions, tosses and semafores overlap, but by a toss
\* that broke off when none was due, and then only until the next session with files.
PacketsRemembered == Remembered("pkt")

\* The same of a .tic file.
TicsRemembered == Remembered("tic")

\* A received packet is tossed, or the toss breaks off.
Tossed == "pkt" \in inbound ~> ("pkt" \notin inbound \/ "pkt" \in left)

=============================================================================
