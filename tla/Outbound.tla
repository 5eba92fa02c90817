------------------------------ MODULE Outbound ------------------------------
(***************************************************************************)
(* The outbound of one node: flush_dir (ftnfido/queue.c) packs the queue   *)
(* into ARCmail archives and a packet and lists what is to be sent in the  *)
(* .flo file (lib/attach.c); a session sends what is listed, marks the     *)
(* lines and truncates or removes the files (ftncico/filelist.c); and      *)
(* scanout, in ftntask, removes old archives (ftntask/scanout.c).  The     *)
(* first two lock the node, the third does not.  Any of them may be killed *)
(* between two system calls.                                               *)
(***************************************************************************)
EXTENDS Integers, Sequences, FiniteSets

CONSTANTS
  Mail,       \* packets that are sent in an archive
  Net,        \* netmail that is sent as a packet of its own
  File,       \* files that are sent and stay where they are
  Packet,     \* the packet of the netmail in the outbound
  MaxNr,      \* the last digit of an archive's name ('9' or 'z')
  MaxArc,     \* maxarcsize, in packets
  Closes,     \* the other side ends a session in which nothing comes any more
  MaxFaults,  \* bound: kills, lost connections, failing archivers and writes
  MaxWeeks    \* bound: how often time passes

Nr == 0..MaxNr

\* How old an archive is: of this week, over six days, over toss_days.
Age == 0..2

ASSUME BoundsKnown == {MaxNr, MaxArc, MaxFaults, MaxWeeks} \subseteq Nat /\ Closes \in BOOLEAN
ASSUME NamesApart ==
  /\ IsFiniteSet(Mail)
  /\ Mail \intersect Net = {} /\ File \intersect (Mail \union Net \union Nr) = {}
  /\ Packet \notin File \union Nr

VARIABLES
  queue,      \* what waits in the queue: packets, netmail and lines of .filelist
  there,      \* the archives that exist
  holds,      \* what is in them; an archive that was sent is empty
  age,
  outpkt,     \* the netmail in the packet of the outbound
  flo,        \* the lines of the .flo file; without lines it does not exist
  lock,       \* who locks the node
  fl,         \* ftnfido: where it is, packets to do, the digit of arcfile, the item, Attach
  se,         \* the session: where it is, its list, entries sent, answered, gone and Got
  sc,         \* scanout: the archive it has looked at, and what it saw
  new,        \* what was not yet put into the queue
  delivered,  \* what the other side has
  due,        \* files that were queued and not sent since
  purged, robbed, spoilt, orphan,  \* history, see the properties
  faults, weeks

files == <<there, holds, age>>
bounds == <<faults, weeks>>
history == <<purged, robbed, spoilt>>
vars == <<queue, there, holds, age, outpkt, flo, lock, fl, se, sc, new, delivered, due, purged, robbed,
          spoilt, orphan, faults, weeks>>

Line == [name : Nr \union File, sent : BOOLEAN]
Entry == [name : Nr \union File \union {Packet}, line : Nat]

TypeOK ==
  /\ queue \subseteq Mail \union Net \union File
  /\ there \subseteq Nr /\ holds \in [Nr -> SUBSET Mail] /\ age \in [Nr -> Age]
  /\ \A n \in Nr \ there : holds[n] = {}
  /\ outpkt \subseteq Net /\ flo \in Seq(Line)
  /\ lock \in {"free", "ftnfido", "ftncico"}
  /\ fl \in [at : {"idle", "left", "pack", "packed", "appended", "files", "unattached"},
             todo : SUBSET (Mail \union File), nr : Nr, item : Mail \union File \union {Packet}, attach : BOOLEAN]
  /\ se \in [at : {"idle", "talk", "got", "cut"}, list : Seq(Entry), sent : Nat, got : Nat,
             gone : SUBSET Nat, done : SUBSET Nat, turn : Nat]
  /\ se.got <= se.sent /\ se.sent <= Len(se.list) /\ se.gone \subseteq 1..se.sent
  /\ se.at \in {"got", "cut"} => se.turn \in 1..Len(se.list) + 1
  /\ sc \in {[at |-> "idle"]} \union [at : {"empty", "held"}, nr : Nr, saw : SUBSET Mail]
  /\ new \subseteq Mail \union Net \union File /\ delivered \subseteq Mail \union Net
  /\ due \subseteq File /\ {purged, robbed} \subseteq SUBSET Mail /\ spoilt \subseteq Net
  /\ orphan \subseteq Nr \union File
  /\ faults \in 0..MaxFaults /\ weeks \in 0..MaxWeeks

NoFlush == [at |-> "idle", todo |-> {}, nr |-> 0, item |-> Packet, attach |-> FALSE]
NoSession == [at |-> "idle", list |-> <<>>, sent |-> 0, got |-> 0, gone |-> {}, done |-> {}, turn |-> 1]

Init ==
  /\ queue = {} /\ there = {} /\ holds = [n \in Nr |-> {}] /\ age = [n \in Nr |-> 0]
  /\ outpkt = {} /\ flo = <<>> /\ lock = "free"
  /\ fl = NoFlush /\ se = NoSession /\ sc = [at |-> "idle"]
  /\ new = Mail \union Net \union File /\ delivered = {} /\ due = {}
  /\ purged = {} /\ robbed = {} /\ spoilt = {} /\ orphan = {}
  /\ faults = 0 /\ weeks = 0

Fault == faults < MaxFaults /\ faults' = faults + 1 /\ UNCHANGED weeks

\* An archive that is removed or truncated.
Emptied(n, set) ==
  /\ there' = set
  /\ holds' = [holds EXCEPT ![n] = {}]
  /\ orphan' = orphan \ {n}

(***************************************************************************)
(* ftnfido.  It fills the queue and flushes it, one after the other.       *)
(***************************************************************************)

AddMail(x) ==
  /\ fl.at = "idle"
  /\ x \in new
  /\ new' = new \ {x} /\ queue' = queue \union {x}
  /\ due' = IF x \in File THEN due \union {x} ELSE due
  /\ UNCHANGED <<files, outpkt, flo, lock, fl, se, sc, delivered, history, orphan, bounds>>

\* Mutant: the node is not locked.
BeginFlushUnlocked ==
  /\ fl.at = "idle" /\ queue # {}
  /\ fl' = [NoFlush EXCEPT !.at = "pack", !.todo = queue \intersect Mail]
  /\ UNCHANGED <<queue, files, outpkt, flo, lock, se, sc, new, delivered, due, history, orphan, bounds>>

\* A node that is locked is left for the next time.
BeginFlush ==
  /\ fl.at = "idle" /\ queue # {}
  /\ lock = "free" /\ lock' = "ftnfido"
  /\ fl' = [NoFlush EXCEPT !.at = "pack", !.todo = queue \intersect Mail]
  /\ UNCHANGED <<queue, files, outpkt, flo, se, sc, new, delivered, due, history, orphan, bounds>>

\* The archiver of the node is not known: flush_dir returns, and the node stays locked until
\* ftnfido ends.
NoArchiver ==
  /\ fl.at = "idle" /\ queue # {}
  /\ lock = "free" /\ lock' = "ftnfido"
  /\ Fault
  /\ fl' = [NoFlush EXCEPT !.at = "left"]
  /\ UNCHANGED <<queue, files, outpkt, flo, se, sc, new, delivered, due, history, orphan>>

LeaveNode ==
  /\ fl.at = "left" /\ fl' = NoFlush
  /\ lock' = IF lock = "ftnfido" THEN "free" ELSE lock
  /\ UNCHANGED <<queue, files, outpkt, flo, se, sc, new, delivered, due, history, orphan, bounds>>

Truncated(n) == n \in there /\ holds[n] = {}
TooBig(n) == MaxArc > 0 /\ Cardinality(holds[n]) > MaxArc
WeekOld(n) == n \in there /\ holds[n] # {} /\ age[n] > 0

\* The loop that looks for the name of the archive; d is the digit of arcfile,
\* which the packet before may have left, nr the number it counts.
Usable(d, nr) == d \notin there \/ (Truncated(d) /\ (age[d] > 0 \/ nr = MaxNr))
Bumped(d, nr) ==
  LET n1 == IF nr < MaxNr /\ (Truncated(d) \/ TooBig(d)) THEN nr + 1 ELSE nr
      d1 == IF n1 = nr THEN d ELSE n1
  IN  IF n1 < MaxNr /\ WeekOld(d1) THEN n1 + 1 ELSE n1
Found[nr \in Nr] ==
  IF Usable(nr, nr) \/ Bumped(nr, nr) = nr THEN nr ELSE Found[Bumped(nr, nr)]

First(set) == CHOOSE i \in set : \A j \in set : i <= j

\* Mutant: the search goes on behind the last digit.
ArcfilePast(d) == First({n \in d..(MaxNr + 1) : Usable(n, 0) \/ ~(Truncated(n) \/ TooBig(n) \/ WeekOld(n))})

Arcfile(d) == IF Usable(d, 0) \/ Bumped(d, 0) = 0 THEN d ELSE Found[Bumped(d, 0)]

\* Mutant: a truncated archive that is used again is not attached.
FreshOnly(n) == n \notin there

\* The archive is attached when the archiver creates it.
Fresh(n) == n \notin there \/ Truncated(n)

\* A truncated archive is removed before the archiver is called.
Pack(m) ==
  LET n == Arcfile(fl.nr) IN
  /\ fl.at = "pack" /\ m \in fl.todo
  /\ there' = there \union {n}
  /\ holds' = [holds EXCEPT ![n] = @ \union {m}]
  /\ age' = [age EXCEPT ![n] = 0]
  /\ fl' = [at |-> "packed", todo |-> fl.todo \ {m}, nr |-> n, item |-> m, attach |-> Fresh(n)]
  /\ UNCHANGED <<queue, outpkt, flo, lock, se, sc, new, delivered, due, history, orphan, bounds>>

\* The archiver fails: the packet stays in the queue.
PackFails(m) ==
  LET n == Arcfile(fl.nr) IN
  /\ fl.at = "pack" /\ m \in fl.todo
  /\ Fault
  /\ IF Truncated(n) THEN Emptied(n, there \ {n}) ELSE UNCHANGED <<there, holds, orphan>>
  /\ fl' = [fl EXCEPT !.todo = @ \ {m}, !.nr = n]
  /\ UNCHANGED <<queue, age, outpkt, flo, lock, se, sc, new, delivered, due, history>>

\* attach: a file that does not exist any more is not listed.
Unpack ==
  /\ fl.at = "packed"
  /\ queue' = queue \ {fl.item}
  /\ flo' = IF fl.attach /\ fl.nr \in there THEN Append(flo, [name |-> fl.nr, sent |-> FALSE]) ELSE flo
  /\ orphan' = IF fl.attach THEN orphan \ {fl.nr} ELSE orphan
  /\ fl' = [fl EXCEPT !.at = "pack", !.item = Packet]
  /\ UNCHANGED <<files, outpkt, lock, se, sc, new, delivered, due, history, bounds>>

\* attach cannot open the .flo: nobody looks at what it returns.
AttachFails ==
  /\ fl.at = "packed" /\ fl.attach /\ fl.nr \in there
  /\ Fault
  /\ queue' = queue \ {fl.item}
  /\ orphan' = orphan \union {fl.nr}
  /\ fl' = [fl EXCEPT !.at = "pack", !.item = Packet]
  /\ UNCHANGED <<files, outpkt, flo, lock, se, sc, new, delivered, due, history>>

\* The netmail in the queue is appended to the packet in the outbound.
AppendPacket ==
  /\ fl.at = "pack" /\ fl.todo = {}
  /\ outpkt' = outpkt \union (queue \intersect Net)
  /\ fl' = [fl EXCEPT !.at = "appended"]
  /\ UNCHANGED <<queue, files, flo, lock, se, sc, new, delivered, due, history, orphan, bounds>>

\* What is written to a full disk is lost: neither fwrite nor fclose is looked at.
AppendFails(lost) ==
  /\ fl.at = "pack" /\ fl.todo = {} /\ lost # {}
  /\ Fault
  /\ outpkt' = outpkt \union ((queue \intersect Net) \ lost)
  /\ spoilt' = spoilt \union lost
  /\ fl' = [fl EXCEPT !.at = "appended"]
  /\ UNCHANGED <<queue, files, flo, lock, se, sc, new, delivered, due, purged, robbed, orphan>>

\* The packet cannot be opened: the netmail stays in the queue.
OpenFails ==
  /\ fl.at = "pack" /\ fl.todo = {}
  /\ Fault
  /\ fl' = [fl EXCEPT !.at = "files", !.todo = queue \intersect File]
  /\ UNCHANGED <<queue, files, outpkt, flo, lock, se, sc, new, delivered, due, history, orphan>>

DropPacket ==
  /\ fl.at = "appended"
  /\ queue' = queue \ Net
  /\ fl' = [fl EXCEPT !.at = "files", !.todo = queue \intersect File]
  /\ UNCHANGED <<files, outpkt, flo, lock, se, sc, new, delivered, due, history, orphan, bounds>>

\* The lines of a name that are still to send.
Open(name) == {i \in DOMAIN flo : flo[i].name = name /\ ~flo[i].sent}

\* un_attach: the first line of the file that is not yet sent is marked.
Unlisted(f) ==
  IF Open(f) = {} THEN flo ELSE [flo EXCEPT ![First(Open(f))].sent = TRUE]

UnAttach(f) ==
  /\ fl.at = "files" /\ f \in fl.todo
  /\ flo' = Unlisted(f)
  /\ fl' = [fl EXCEPT !.at = "unattached", !.todo = @ \ {f}, !.item = f]
  /\ UNCHANGED <<queue, files, outpkt, lock, se, sc, new, delivered, due, history, orphan, bounds>>

Attach ==
  /\ fl.at = "unattached"
  /\ flo' = Append(flo, [name |-> fl.item, sent |-> FALSE])
  /\ orphan' = orphan \ {fl.item}
  /\ fl' = [fl EXCEPT !.at = "files", !.item = Packet]
  /\ UNCHANGED <<queue, files, outpkt, lock, se, sc, new, delivered, due, history, bounds>>

FileFails ==
  /\ fl.at = "unattached"
  /\ Fault
  /\ orphan' = orphan \union {fl.item}
  /\ fl' = [fl EXCEPT !.at = "files", !.item = Packet]
  /\ UNCHANGED <<queue, files, outpkt, flo, lock, se, sc, new, delivered, due, history>>

\* When every line of .filelist is done it is removed, and the node unlocked.
EndFlush ==
  /\ fl.at = "files" /\ fl.todo = {}
  /\ queue' = queue \ File
  /\ lock' = IF lock = "ftnfido" THEN "free" ELSE lock
  /\ fl' = NoFlush
  /\ UNCHANGED <<files, outpkt, flo, se, sc, new, delivered, due, history, orphan, bounds>>

(***************************************************************************)
(* The session.                                                            *)
(***************************************************************************)

\* Lines of archives that scanout removed: fill_binkp_list marks the first of a name,
\* and fopen "w" creates the archive.
Missing == {n \in Nr \ there : Open(n) # {}}
Dangling == {First(Open(n)) : n \in Missing}

\* A set of line numbers in their order.
InOrder(set) ==
  CHOOSE q \in [1..Cardinality(set) -> set] : \A i, j \in DOMAIN q : i < j => q[i] < q[j]

\* create_filelist: the packet, then the lines that are not marked.
List ==
  LET lines == InOrder({i \in DOMAIN flo : ~flo[i].sent /\ i \notin Dangling})
      Entries == [k \in DOMAIN lines |-> [name |-> flo[lines[k]].name, line |-> lines[k]]]
  IN  IF outpkt = {} THEN Entries ELSE <<[name |-> Packet, line |-> 0]>> \o Entries

BeginSession ==
  /\ lock = "free" /\ lock' = "ftncico"
  /\ outpkt # {} \/ flo # <<>>
  /\ se' = [NoSession EXCEPT !.at = "talk", !.list = List]
  /\ flo' = [i \in DOMAIN flo |-> [flo[i] EXCEPT !.sent = @ \/ i \in Dangling]]
  /\ there' = there \union Missing
  /\ age' = [n \in Nr |-> IF n \in Missing THEN 0 ELSE age[n]]
  /\ UNCHANGED <<queue, holds, outpkt, fl, sc, new, delivered, due, history, orphan, bounds>>

\* The next file is sent, and the other side has it.
Transfer ==
  LET name == se.list[se.sent + 1].name IN
  /\ se.at = "talk" /\ se.sent < Len(se.list)
  /\ name \in Nr => name \in there
  /\ delivered' = delivered \union (IF name = Packet THEN outpkt ELSE IF name \in Nr THEN holds[name] ELSE {})
  /\ due' = due \ {name}
  /\ se' = [se EXCEPT !.sent = @ + 1]
  /\ UNCHANGED <<queue, files, outpkt, flo, lock, fl, sc, new, history, orphan, bounds>>

\* "File doesn't exist": it counts as sent and nothing else is done.
FileGone ==
  LET name == se.list[se.sent + 1].name IN
  /\ se.at = "talk" /\ se.sent < Len(se.list)
  /\ name \in Nr \ there
  /\ se' = [se EXCEPT !.sent = @ + 1, !.gone = @ \union {se.sent + 1}, !.done = @ \union {se.sent + 1}]
  /\ UNCHANGED <<queue, files, outpkt, flo, lock, fl, sc, new, delivered, due, history, orphan, bounds>>

\* The next entry of the acknowledged name: all of them get its disposition.
Same(i) == {j \in i..Len(se.list) : se.list[j].name = se.list[se.got + 1].name}
NextSame(i) == IF Same(i) = {} THEN Len(se.list) + 1 ELSE First(Same(i))

\* execute_disposition: first the line is marked ...
Mark(i, done) ==
  LET l == se.list[i].line IN
  /\ flo' = IF l \in DOMAIN flo THEN [flo EXCEPT ![l].sent = TRUE] ELSE flo
  /\ se' = [se EXCEPT !.at = "cut", !.turn = i, !.done = done]
  /\ UNCHANGED <<queue, files, outpkt, lock, fl, sc, new, delivered, due, history, orphan, bounds>>

\* An acknowledgement makes the first entry of its name Got, whichever was sent.
ReceiveGot ==
  /\ se.at = "talk" /\ se.got < se.sent /\ se.got + 1 \notin se.gone
  /\ Mark(NextSame(1), se.done \union {NextSame(1)})

\* The same name is on the list once more.
MarkAgain == se.at = "got" /\ se.turn <= Len(se.list) /\ Mark(se.turn, se.done)

\* What was not sent is not answered, and a name that came before may not be: its file is
\* truncated when it is sent again.
Unanswered ==
  /\ se.at = "talk" /\ se.got < se.sent
  /\ se.got + 1 \in se.gone \/ NextSame(1) # se.got + 1
  /\ se' = [se EXCEPT !.got = @ + 1]
  /\ UNCHANGED <<queue, files, outpkt, flo, lock, fl, sc, new, delivered, due, history, orphan, bounds>>

\* ... then the archive truncated, fopen "w" creates it if need be, or the packet removed.
Dispose ==
  LET name == se.list[se.turn].name IN
  /\ se.at = "cut"
  /\ IF name \in Nr
       THEN Emptied(name, there \union {name}) /\ age' = [age EXCEPT ![name] = 0]
       ELSE UNCHANGED <<files, orphan>>
  /\ outpkt' = IF name = Packet THEN {} ELSE outpkt
  /\ se' = [se EXCEPT !.at = "got", !.turn = NextSame(@ + 1)]
  /\ UNCHANGED <<queue, flo, lock, fl, sc, new, delivered, due, history, bounds>>

\* Mutant: the lines that remain are not counted.
FloRemoved == <<>>

\* The disposition of the .flo: it is removed when no line is left to send.
FloLeft == IF \A i \in DOMAIN flo : flo[i].sent THEN <<>> ELSE flo

FloTurn ==
  /\ se.at = "got" /\ se.turn > Len(se.list)
  /\ flo' = FloLeft
  /\ se' = [se EXCEPT !.at = "talk", !.got = @ + 1, !.turn = 1]
  /\ UNCHANGED <<queue, files, outpkt, lock, fl, sc, new, delivered, due, history, orphan, bounds>>

\* No entry is pending: binkp_clear_filelist looks at the .flo once more.
EndSession ==
  /\ se.at = "talk" /\ 1..Len(se.list) \subseteq se.done
  /\ flo' = FloLeft
  /\ lock' = IF lock = "ftncico" THEN "free" ELSE lock
  /\ se' = NoSession
  /\ UNCHANGED <<queue, files, outpkt, fl, sc, new, delivered, due, history, orphan, bounds>>

\* All is answered, and an entry whose name came before is pending for ever.  binkp_expired is
\* not asked while the line takes output: the end comes from the other side, if it comes, and
\* the .flo is not looked at.
HangUp ==
  /\ Closes
  /\ se.at = "talk" /\ se.got = Len(se.list) /\ ~(1..Len(se.list) \subseteq se.done)
  /\ lock' = IF lock = "ftncico" THEN "free" ELSE lock
  /\ se' = NoSession
  /\ UNCHANGED <<queue, files, outpkt, flo, fl, sc, new, delivered, due, history, orphan, bounds>>

\* The connection is lost, or the other side ends the session.
Cut ==
  /\ se.at = "talk"
  /\ Fault
  /\ lock' = IF lock = "ftncico" THEN "free" ELSE lock
  /\ se' = NoSession
  /\ UNCHANGED <<queue, files, outpkt, flo, fl, sc, new, delivered, due, history, orphan>>

(***************************************************************************)
(* scanout looks at every archive, and removes what is too old.            *)
(***************************************************************************)

\* A truncated archive goes with its day or after six days, any after toss_days.
ScanLook(n) ==
  /\ sc.at = "idle" /\ n \in there
  /\ \/ holds[n] = {} /\ sc' = [at |-> "empty", nr |-> n, saw |-> {}]
     \/ age[n] = 2 /\ holds[n] # {} /\ sc' = [at |-> "held", nr |-> n, saw |-> holds[n]]
  /\ UNCHANGED <<queue, files, outpkt, flo, lock, fl, se, new, delivered, due, history, orphan, bounds>>

\* What came into the archive since it was looked at goes with it.
ScanUnlink ==
  /\ sc.at # "idle"
  /\ Emptied(sc.nr, there \ {sc.nr})
  /\ purged' = purged \union (holds[sc.nr] \intersect sc.saw)
  /\ robbed' = robbed \union (holds[sc.nr] \ sc.saw)
  /\ sc' = [at |-> "idle"]
  /\ UNCHANGED <<queue, age, outpkt, flo, lock, fl, se, new, delivered, due, spoilt, bounds>>

(***************************************************************************)
(* Kills, and time.  The next one that wants the lock of a dead process    *)
(* removes it.                                                             *)
(***************************************************************************)

\* The archive is in the outbound, and not attached.  A directory that cannot be read ends the
\* flush the same way.
KillFlush ==
  /\ fl.at # "idle"
  /\ Fault
  /\ orphan' = IF fl.at = "packed" /\ fl.attach THEN orphan \union {fl.nr} ELSE orphan
  /\ lock' = IF lock = "ftnfido" THEN "free" ELSE lock
  /\ fl' = NoFlush
  /\ UNCHANGED <<queue, files, outpkt, flo, se, sc, new, delivered, due, history>>

\* The archive is marked as sent, and not truncated.
KillSession ==
  LET name == se.list[se.turn].name IN
  /\ se.at # "idle"
  /\ Fault
  /\ orphan' = IF se.at = "cut" /\ name \in there THEN orphan \union {name} ELSE orphan
  /\ lock' = IF lock = "ftncico" THEN "free" ELSE lock
  /\ se' = NoSession
  /\ UNCHANGED <<queue, files, outpkt, flo, fl, sc, new, delivered, due, history>>

WeekPasses ==
  /\ fl.at = "idle" /\ se.at = "idle" /\ sc.at = "idle"
  /\ weeks < MaxWeeks /\ weeks' = weeks + 1
  /\ age' = [n \in Nr |-> IF n \in there /\ age[n] < 2 THEN age[n] + 1 ELSE age[n]]
  /\ UNCHANGED <<queue, there, holds, outpkt, flo, lock, fl, se, sc, new, delivered, due, history, orphan, faults>>

Idle == queue = {} /\ new = {} /\ outpkt = {} /\ flo = <<>> /\ UNCHANGED vars

Flush ==
  \/ \E m \in Mail : Pack(m)
  \/ Unpack \/ AppendPacket \/ DropPacket \/ (\E f \in File : UnAttach(f)) \/ Attach \/ EndFlush \/ LeaveNode
FlushFails ==
  \/ NoArchiver \/ (\E m \in Mail : PackFails(m)) \/ AttachFails
  \/ (\E lost \in SUBSET (queue \intersect Net) : AppendFails(lost)) \/ OpenFails \/ FileFails
Talk == Transfer \/ FileGone \/ ReceiveGot \/ MarkAgain \/ Unanswered \/ Dispose \/ FloTurn \/ EndSession \/ HangUp

Next ==
  \/ (\E x \in new : AddMail(x)) \/ BeginFlush \/ Flush \/ FlushFails
  \/ BeginSession \/ Talk \/ Cut
  \/ (\E n \in Nr : ScanLook(n)) \/ ScanUnlink
  \/ KillFlush \/ KillSession \/ WeekPasses
  \/ Idle

\* A process that runs goes on.  ftnfido and the calls come again and again, and
\* find the node unlocked some time.
Fairness == WF_vars(Flush) /\ WF_vars(Talk) /\ WF_vars(ScanUnlink) /\ SF_vars(BeginFlush) /\ SF_vars(BeginSession)

Spec == Init /\ [][Next]_vars /\ Fairness

(***************************************************************************)
(* Properties                                                              *)
(***************************************************************************)

\* Mail that was queued is in the queue, in the outbound or at the other side,
\* whoever is killed; scanout alone removes some, the archives that are over
\* toss_days old (purged) and what came into an archive between its look at the
\* age and the unlink (robbed), and a full disk takes netmail while it is appended (spoilt).
NothingLost ==
  \A m \in (Mail \union Net) \ new :
    m \in queue \union outpkt \union (UNION {holds[n] : n \in there}) \union delivered \union purged \union robbed \union spoilt

Listed(name) == Open(name) # {}

\* While nobody works at the node what waits in its outbound will be sent: an
\* archive with mail has a line that is not marked, unless ftnfido was killed
\* before attach or a session between the mark and the truncation, or attach could not
\* open the .flo (orphan); and a file that was queued is listed or in the queue still.
Attached ==
  lock = "free" =>
    /\ \A n \in there : holds[n] # {} => Listed(n) \/ n \in orphan
    /\ \A f \in due : f \in queue \/ Listed(f) \/ f \in orphan

\* Everything that was queued arrives at last, also when an archive that is listed twice keeps
\* a session from its end and the other side ends it; mail in an archive that no line names
\* (orphan) and what scanout or a full disk takes apart.
Delivered ==
  <>[](\A m \in (Mail \union Net) \ new :
         m \in delivered \union purged \union robbed \union spoilt \union UNION {holds[n] : n \in orphan \ File})

\* What the comment at lib/attach.c:50 asks for, "Check if we attach a file with the
\* same name": un_attach leaves ARCmail out, and TLC refutes it.
ListedOnce ==
  \A i \in DOMAIN flo : Cardinality(Open(flo[i].name)) <= 1

\* scanout removes no mail that is younger than toss_days: TLC refutes it, the names
\* are used again while scanout looks at them.
NotRobbed == robbed = {}

\* Every archive with mail is listed: a kill leaves one that is not.
NoOrphan == orphan = {}

\* A session that has sent everything ends by itself: TLC refutes it, the second entry of a
\* name is pending for ever.
NoHang ==
  se.at = "talk" /\ se.got = Len(se.list) => 1..Len(se.list) \subseteq se.done

=============================================================================
