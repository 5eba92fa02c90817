------------------------------- MODULE Binkp -------------------------------
(***************************************************************************)
(* File transfer of two ftncico processes over binkp 1.0 or 1.1: the state *)
(* machines file_transfer, binkp_receiver and binkp_transmitter of         *)
(* ftncico/binkp.c with the message queue, the file list and the partial   *)
(* files of ftncico/bopenfile.c.  A file is a number, in the order in which*)
(* create_filelist finds it, and its contents a sequence of blocks.  One   *)
(* pass through a case of file_transfer's switch is one action; a receiver *)
(* call and the poll before it are one, since nothing else can look at the *)
(* process in between.  The record bp[p] is the struct bp of process p with*)
(* the statics cursend, tosend and bll.                                    *)
(***************************************************************************)
EXTENDS Integers, Sequences, FiniteSets

CONSTANTS
  File,        \* the files that can be sent, numbered in the order of the lists
  Owner,       \* [File -> Party]: who sends it
  Size,        \* [File -> Nat]: its length in blocks
  Reply,       \* the files sent only in answer to Request, and kept afterwards
  Request,     \* the file request (.req), or NoFile
  Start,       \* [File -> Nat]: the blocks an earlier session left in tmp/
  Minors,      \* the versions binkp 1.x both sides may settle on
  BatchLimit,  \* batches after which no file is listed (20 in the code)
  Window,      \* bound: frames on their way after which there is no output room
  MaxSessions, \* bound: sessions, the first and the retries
  CanCut,      \* bound: the connection may break
  CanDie,      \* bound: a process may be killed
  CanStall,    \* bound: the line may take nothing for five minutes
  CanRefuse,   \* bound: files may be locked, unreadable, or too big for the disk
  CanFill,     \* bound: the disk may fill up while a file is written or moved
  CanReplace   \* bound: a file may be replaced by a new version between sessions

Party == {"org", "ans"}
Peer(p) == IF p = "org" THEN "ans" ELSE "org"

NoFile == 0
Closed == -1    \* a FILE that was closed but whose pointer was kept

ASSUME FilesNumbered == File \subseteq Nat \ {0} /\ IsFiniteSet(File)
ASSUME FilesKnown == /\ Owner \in [File -> Party]
                     /\ Size \in [File -> Nat]
                     /\ Start \in [File -> Nat]
                     /\ \A f \in File : Start[f] <= Size[f]
                     /\ Reply \subseteq File
                     /\ Request \in File \union {NoFile}
ASSUME LimitsKnown == /\ Minors \subseteq 0..1
                      /\ BatchLimit \in Nat \ {0}
                      /\ Window \in Nat \ {0}
                      /\ MaxSessions \in Nat \ {0}
                      /\ {CanCut, CanDie, CanStall, CanRefuse, CanFill, CanReplace} \subseteq BOOLEAN

VARIABLES
  bp,        \* per process: its session
  wire,      \* per process: the frames it sent that are not yet read
  line,      \* the connection is up
  outbound,  \* the files that wait in the outbound of their owner
  version,   \* which version of a file its owner has
  tmp,       \* the blocks of a file in the receiver's tmp/ directory
  delivered, \* what was moved to the inbound under the file's name, in order
  sessions,  \* sessions started
  mixed      \* history: data of one file, or version, were added to another

vars == <<bp, wire, line, outbound, version, tmp, delivered, sessions, mixed>>

disk == <<outbound, version, tmp, delivered>>
world == <<line, version, sessions>>

FileState == {"Absent", "NoState", "Sending", "IsSent", "Got", "Skipped"}
Queued == [cmd : {"GET", "GOT", "SKIP"}, file : File, offs : Nat]
Frame ==
  Queued \union [cmd : {"FILE", "DATA"}, file : File, offs : Nat]
         \union [cmd : {"NUL", "EOB", "BSY"}, file : {NoFile}, offs : {0}]
Block == File \X {1, 2} \X Nat

Session ==
  [Minor : 0..1, FtState : {"Switch", "Transmit", "Messages", "Done"}, rc : {"none", "ok", "failed"},
   RxState : {"RxWaitF", "RxReceD", "RxEOB"}, TxState : {"TxGNF", "TxTryR", "TxWLA"},
   local_EOB : BOOLEAN, remote_EOB : BOOLEAN, messages : 0..3, batchnr : 0..BatchLimit,
   queue : Seq(Queued),
   rxfp : File \union {NoFile, Closed}, rname : File \union {NoFile}, rxbytes : Nat, rxpos : Nat,
   freqname : BOOLEAN,
   txfp : File \union {NoFile}, txpos : Nat, cursend : File \union {NoFile},
   tosend : BOOLEAN, state : [File -> FileState], offset : [File -> Nat]]

TypeOK ==
  /\ bp \in [Party -> Session]
  /\ wire \in [Party -> Seq(Frame)]
  /\ line \in BOOLEAN
  /\ outbound \subseteq File
  /\ version \in [File -> {1, 2}]
  /\ tmp \in [File -> Seq(Block)]
  /\ delivered \in [File -> Seq(Seq(Block))]
  /\ sessions \in 1..MaxSessions
  /\ mixed \in BOOLEAN

\* The contents of the first n blocks of a file.
Blocks(f, v, n) == [i \in 1..n |-> <<f, v, i>>]

NoList == [f \in File |-> "Absent"]

\* binkp() clears the struct; the handshake leaves file_transfer to start.
NewSession(minor) ==
  [Minor |-> minor, FtState |-> "Switch", rc |-> "none", RxState |-> "RxWaitF", TxState |-> "TxGNF",
   local_EOB |-> FALSE, remote_EOB |-> FALSE, messages |-> 0, batchnr |-> 0, queue |-> <<>>,
   rxfp |-> NoFile, rname |-> NoFile, rxbytes |-> 0, rxpos |-> 0, freqname |-> FALSE,
   txfp |-> NoFile, txpos |-> 0, cursend |-> NoFile,
   tosend |-> FALSE, state |-> NoList, offset |-> [f \in File |-> 0]]

Init ==
  /\ \E minor \in Minors : bp = [p \in Party |-> NewSession(minor)]
  /\ wire = [p \in Party |-> <<>>]
  /\ line = TRUE
  /\ outbound = File \ Reply
  /\ version = [f \in File |-> 1]
  /\ tmp = [f \in File |-> Blocks(f, 1, Start[f])]
  /\ delivered = [f \in File |-> <<>>]
  /\ sessions = 1
  /\ mixed = FALSE

(***************************************************************************)
(* Frames and the steps the state machines share                           *)
(***************************************************************************)

Done(p) == bp[p].FtState = "Done"
Both(s) == s.local_EOB /\ s.remote_EOB

\* What p sends is lost when the connection is gone.
Sent(w, p, frame) ==
  IF line /\ ~Done(Peer(p)) THEN [w EXCEPT ![p] = Append(@, frame)] ELSE w

\* binkp_send_frame counts the commands; three stands for any higher number.
Bump(n) == IF n < 3 THEN n + 1 ELSE 3
SentCommand(s, cmd) ==
  [s EXCEPT !.messages = Bump(@), !.local_EOB = @ \/ cmd = "EOB"]

\* The next frame of the peer is there, and the frame is read off the wire.
Arrives(p) == bp[p].FtState = "Switch" /\ wire[Peer(p)] # <<>>
Incoming(p) == Head(wire[Peer(p)])
Rest(p) == [wire EXCEPT ![Peer(p)] = Tail(@)]

\* binkp_poll_frame counts a command and notes the EOB.
Polled(p) ==
  LET s == bp[p]
      cmd == Incoming(p).cmd
  IN IF cmd = "DATA" THEN s
     ELSE [s EXCEPT !.messages = Bump(@), !.remote_EOB = @ \/ cmd = "EOB"]

\* After the receiver returned Ok the transmitter has its turn when both sides
\* are through, otherwise the line is polled again.
Received(s) == [s EXCEPT !.FtState = IF Both(s) THEN "Transmit" ELSE "Switch"]

Ended(s, rc) == [s EXCEPT !.FtState = "Done", !.rc = rc]

\* binkp_pendingfiles
Pending(s) == {f \in File : s.state[f] \notin {"Absent", "Got", "Skipped"}}

\* binkp_clear_filelist: the entries of the list are freed.
ListCleared(s) == [s EXCEPT !.tosend = FALSE, !.state = NoList]

\* Mutant: the next batch goes on counting the messages of the last one.
NextBatchCounting(s) ==
  [ListCleared(s) EXCEPT
     !.batchnr = IF @ < BatchLimit THEN @ + 1 ELSE @,
     !.local_EOB = FALSE, !.remote_EOB = FALSE,
     !.TxState = "TxGNF", !.RxState = "RxWaitF"]

NextBatch(s) ==
  [ListCleared(s) EXCEPT
     !.batchnr = IF @ < BatchLimit THEN @ + 1 ELSE @,
     !.local_EOB = FALSE, !.remote_EOB = FALSE, !.messages = 0,
     !.TxState = "TxGNF", !.RxState = "RxWaitF"]

(***************************************************************************)
(* binkp_receiver                                                          *)
(***************************************************************************)

\* Mutant: M_EOB goes to the transmitter like an answer, which does not know it.
QueueMessageEOB(p) ==
  /\ Arrives(p)
  /\ Incoming(p).cmd \in {"GET", "GOT", "SKIP", "EOB"}
  /\ bp' = [bp EXCEPT ![p] = Received([Polled(p) EXCEPT !.queue = Append(@, Incoming(p))])]
  /\ wire' = Rest(p)
  /\ UNCHANGED <<disk, line, sessions, mixed>>

\* M_GET, M_GOT and M_SKIP wait in the queue for the transmitter.
QueueMessage(p) ==
  /\ Arrives(p)
  /\ Incoming(p).cmd \in {"GET", "GOT", "SKIP"}
  /\ bp' = [bp EXCEPT ![p] = Received([Polled(p) EXCEPT !.queue = Append(@, Incoming(p))])]
  /\ wire' = Rest(p)
  /\ UNCHANGED <<disk, line, sessions, mixed>>

\* M_NUL in any state, and data in RxWaitF, which is ignored.
Ignore(p) ==
  /\ Arrives(p)
  /\ \/ Incoming(p).cmd = "NUL"
     \/ Incoming(p).cmd = "DATA" /\ bp[p].RxState = "RxWaitF"
  /\ bp' = [bp EXCEPT ![p] = Received(Polled(p))]
  /\ wire' = Rest(p)
  /\ UNCHANGED <<disk, line, sessions, mixed>>

\* M_EOB ends a 1.0 transfer.  In 1.1 it starts the next batch, once both sides
\* sent it and something happened in this one.
ReceiveEOB(p) ==
  LET s == Polled(p) IN
  /\ Arrives(p)
  /\ Incoming(p).cmd = "EOB"
  /\ s.RxState = "RxWaitF"
  /\ bp' = [bp EXCEPT ![p] =
       Received(CASE s.Minor = 0 -> [s EXCEPT !.RxState = "RxEOB"]
                  [] s.Minor # 0 /\ Both(s) /\ s.messages = 3 /\ Pending(s) = {} -> NextBatch(s)
                  [] OTHER -> s)]
  /\ wire' = Rest(p)
  /\ UNCHANGED <<disk, line, sessions, mixed>>

\* The session after M_FILE was read: a file that was being received is closed.
\* An offset equal to the rxbytes of the last file opened means: go on with the
\* FILE that is open.  Otherwise the file is opened for append.
Announced(p) ==
  LET f == Incoming(p).file
      s == IF bp[p].RxState = "RxReceD" THEN [Polled(p) EXCEPT !.rxfp = NoFile] ELSE Polled(p)
      known == [s EXCEPT !.rname = f, !.rxpos = Incoming(p).offs]
  IN IF Incoming(p).offs # 0 /\ Incoming(p).offs = s.rxbytes
     THEN known
     ELSE [known EXCEPT !.rxfp = f, !.rxbytes = Len(tmp[f]), !.freqname = @ \/ f = Request]

Answer(p, s, cmd, offs) ==
  /\ bp' = [bp EXCEPT ![p] = Received(SentCommand([s EXCEPT !.RxState = "RxWaitF"], cmd))]
  /\ wire' = Sent(Rest(p), p, [cmd |-> cmd, file |-> s.rname, offs |-> offs])

\* What is in tmp/ is not the beginning of the file as its owner has it now.
Stale(f) == \E i \in DOMAIN tmp[f] : tmp[f][i] # <<f, version[f], i>>

\* Mutant: the size on disk is compared one off.
AlreadyHereAlmost(s) == s.rxbytes + 1 >= Size[s.rname]

\* Mutant: a partial file is not asked for from its end.
PartlyHereNever(s) == FALSE

AlreadyHere(s) == s.rxbytes = Size[s.rname]
PartlyHere(s) == s.rxbytes \in 1..Size[s.rname] - 1 /\ s.rxpos = 0

\* M_FILE is answered with M_GOT because the size on disk is the one announced,
\* with M_GET because part of the file is there, with M_SKIP because it cannot
\* be written, or its data are awaited.
AcceptFile(p) ==
  /\ Arrives(p)
  /\ Incoming(p).cmd = "FILE"
  /\ bp[p].RxState \in {"RxWaitF", "RxReceD"}
  /\ Announced(p).rxfp # NoFile
  /\ \E refused \in {FALSE, CanRefuse} :
       LET s == IF refused THEN [Announced(p) EXCEPT !.rxfp = NoFile] ELSE Announced(p) IN
       \/ AlreadyHere(s) /\ Answer(p, [s EXCEPT !.rxfp = NoFile], "GOT", 0)
       \/ PartlyHere(s) /\ Answer(p, s, "GET", s.rxbytes)
       \/ /\ ~AlreadyHere(s) /\ ~PartlyHere(s) /\ refused
          /\ Answer(p, s, "SKIP", 0)
       \/ /\ ~AlreadyHere(s) /\ ~PartlyHere(s) /\ ~refused
          /\ bp' = [bp EXCEPT ![p] = Received([s EXCEPT !.RxState = "RxReceD"])]
          /\ wire' = Rest(p)
  /\ mixed' = (mixed \/ Announced(p).rxfp # Incoming(p).file \/ Stale(Incoming(p).file))
  /\ UNCHANGED <<disk, line, sessions>>

\* Less than the free space the setup asks for: M_BSY, and the transfer fails.
LowDiskspace(p) ==
  /\ CanRefuse
  /\ Arrives(p)
  /\ Incoming(p).cmd = "FILE"
  /\ bp[p].RxState \in {"RxWaitF", "RxReceD"}
  /\ bp' = [bp EXCEPT ![p] = Ended(Polled(p), "failed")]
  /\ wire' = Sent(Rest(p), p, [cmd |-> "BSY", file |-> NoFile, offs |-> 0])
  /\ UNCHANGED <<disk, line, sessions, mixed>>

\* The files in tmp/ after the block on the wire was appended to the open one.  A
\* write through a closed FILE changes none.
Written(p) ==
  LET m == Incoming(p) IN
  [g \in File |-> IF g = bp[p].rxfp THEN Append(tmp[g], <<m.file, version[m.file], m.offs>>) ELSE tmp[g]]

\* What is left of the files t when stdio could not write all it holds of the
\* open one: at least what was there when it was opened.
Unflushed(p, t) ==
  LET g == bp[p].rxfp IN
  {t} \union (IF g \in File THEN {[t EXCEPT ![g] = SubSeq(@, 1, n)] : n \in bp[p].rxbytes..Len(t[g])}
                           ELSE {})

\* Mutant: the file is complete one block too early.
WriteDataEarly(p) ==
  LET s == [bp[p] EXCEPT !.rxpos = @ + 1]
      g == s.rxfp
  IN
  /\ Arrives(p)
  /\ Incoming(p).cmd = "DATA"
  /\ bp[p].RxState = "RxReceD"
  /\ \/ /\ s.rxpos + 1 < Size[s.rname]
        /\ bp' = [bp EXCEPT ![p] = Received(s)]
        /\ wire' = Rest(p)
        /\ tmp' = Written(p)
        /\ UNCHANGED delivered
     \/ /\ s.rxpos + 1 >= Size[s.rname]
        /\ Answer(p, [s EXCEPT !.rxfp = Closed], "GOT", 0)
        /\ tmp' = [f \in File |-> IF f = g THEN <<>> ELSE tmp[f]]
        /\ delivered' = [f \in File |-> IF f = g THEN Append(delivered[f], Written(p)[f]) ELSE delivered[f]]
  /\ UNCHANGED <<outbound, world, mixed>>

\* A data frame is appended to the open file; the one that brings rxpos to the
\* announced size is answered with M_GOT and then the file moves to the inbound.
WriteData(p) ==
  LET s == [bp[p] EXCEPT !.rxpos = @ + 1]
      g == s.rxfp
  IN
  /\ Arrives(p)
  /\ Incoming(p).cmd = "DATA"
  /\ bp[p].RxState = "RxReceD"
  /\ \/ /\ s.rxpos # Size[s.rname]
        /\ bp' = [bp EXCEPT ![p] = Received(s)]
        /\ wire' = Rest(p)
        /\ tmp' = Written(p)
        /\ UNCHANGED delivered
     \/ /\ s.rxpos = Size[s.rname]
        /\ Answer(p, [s EXCEPT !.rxfp = Closed], "GOT", 0)
        /\ tmp' = [f \in File |-> IF f = g THEN <<>> ELSE tmp[f]]
        /\ delivered' = [f \in File |-> IF f = g THEN Append(delivered[f], Written(p)[f]) ELSE delivered[f]]
  /\ UNCHANGED <<outbound, world, mixed>>

\* bclosefile fails after M_GOT was sent, in fclose or in the move.  Its result is
\* not looked at.
CloseFails(p) ==
  LET s == [bp[p] EXCEPT !.rxpos = @ + 1] IN
  /\ CanFill
  /\ Arrives(p)
  /\ Incoming(p).cmd = "DATA"
  /\ s.RxState = "RxReceD"
  /\ s.rxpos = Size[s.rname]
  /\ s.rxfp \in File
  /\ Answer(p, [s EXCEPT !.rxfp = Closed], "GOT", 0)
  /\ tmp' \in Unflushed(p, Written(p))
  /\ UNCHANGED <<outbound, delivered, world, mixed>>

\* fwrite fails on a full disk, or on a FILE that is closed.
WriteFails(p) ==
  /\ Arrives(p)
  /\ Incoming(p).cmd = "DATA"
  /\ bp[p].RxState = "RxReceD"
  /\ CanFill \/ bp[p].rxfp = Closed
  /\ bp' = [bp EXCEPT ![p] = Ended(@, "failed")]
  /\ wire' = Rest(p)
  /\ tmp' \in Unflushed(p, tmp)
  /\ UNCHANGED <<outbound, delivered, world, mixed>>

\* Frames that RxReceD and RxEOB do not expect, and M_BSY, end the transfer.
ReceiveUnexpected(p) ==
  /\ Arrives(p)
  /\ \/ Incoming(p).cmd = "BSY"
     \/ Incoming(p).cmd = "EOB" /\ bp[p].RxState # "RxWaitF"
     \/ Incoming(p).cmd \in {"FILE", "DATA"} /\ bp[p].RxState = "RxEOB"
  /\ bp' = [bp EXCEPT ![p] = Ended(Polled(p), "failed")]
  /\ wire' = Rest(p)
  /\ UNCHANGED <<disk, line, sessions, mixed>>

\* M_FILE asks to go on with a FILE that was never opened or is closed: fseek on
\* it ends the process, or may fail on the closed one, see AcceptFile.
SeekClosedFile(p) ==
  /\ Arrives(p)
  /\ Incoming(p).cmd = "FILE"
  /\ bp[p].RxState \in {"RxWaitF", "RxReceD"}
  /\ Announced(p).rxfp \notin File
  /\ bp' = [bp EXCEPT ![p] = Ended(Polled(p), "failed")]
  /\ wire' = Rest(p)
  /\ UNCHANGED <<disk, line, sessions, mixed>>

Receive(p) ==
  \/ QueueMessage(p)
  \/ Ignore(p)
  \/ ReceiveEOB(p)
  \/ AcceptFile(p)
  \/ LowDiskspace(p)
  \/ WriteData(p)
  \/ CloseFails(p)
  \/ WriteFails(p)
  \/ ReceiveUnexpected(p)
  \/ SeekClosedFile(p)

(***************************************************************************)
(* binkp_transmitter                                                       *)
(***************************************************************************)

\* binkp_poll_frame meets the end of the connection after the last frame.
HungUp(p) == wire[Peer(p)] = <<>> /\ (~line \/ Done(Peer(p)))

Room(p) == Len(wire[p]) < Window

\* The transmitter goes on where it returned Continue or where the receiver left
\* both sides at the end; after an idle poll it needs room for output.
Turn(p) ==
  \/ bp[p].FtState = "Transmit"
  \/ bp[p].FtState = "Switch" /\ ~HungUp(p) /\ Room(p)

Transmits(p, s) == bp' = [bp EXCEPT ![p] = s]

\* The files of the request that arrived are added to the list, if it is complete.
Answers(p) ==
  IF bp[p].freqname /\ delivered[Request] # <<>> THEN {f \in Reply : Owner[f] = p} ELSE {}

Listed(p) ==
  IF bp[p].batchnr < BatchLimit
  THEN {f \in outbound : Owner[f] = p} \union Answers(p)
  ELSE {}

\* No list yet: create_filelist, the requested files, and M_NUL TRF.
MakeList(p) ==
  LET s == [bp[p] EXCEPT
              !.FtState = "Transmit", !.tosend = TRUE, !.cursend = NoFile, !.freqname = FALSE,
              !.state = [f \in File |-> IF f \in Listed(p) THEN "NoState" ELSE "Absent"],
              !.offset = [f \in File |-> 0]]
      announce == bp[p].batchnr = 0 \/ \E f \in Listed(p) : Size[f] > 0
  IN
  /\ Turn(p)
  /\ bp[p].TxState = "TxGNF"
  /\ ~bp[p].tosend
  /\ Transmits(p, IF announce THEN SentCommand(s, "NUL") ELSE s)
  /\ wire' = IF announce THEN Sent(wire, p, [cmd |-> "NUL", file |-> NoFile, offs |-> 0]) ELSE wire
  /\ UNCHANGED <<disk, line, sessions, mixed>>

Unsent(p) == {f \in File : bp[p].state[f] = "NoState"}
Chooses(p, f) ==
  /\ Turn(p)
  /\ bp[p].TxState = "TxGNF"
  /\ bp[p].tosend
  /\ f \in Unsent(p)
  /\ \A g \in Unsent(p) : f <= g

\* The first file that has no state is announced at the offset asked for.
SendFile(p) ==
  \E f \in File :
    LET s == bp[p] IN
    /\ Chooses(p, f)
    /\ f \in outbound \union Reply
    /\ Transmits(p, SentCommand(
         [s EXCEPT !.FtState = "Transmit", !.TxState = "TxTryR", !.state[f] = "Sending",
                   !.cursend = f, !.txfp = f, !.txpos = s.offset[f]], "FILE"))
    /\ wire' = Sent(wire, p, [cmd |-> "FILE", file |-> f, offs |-> s.offset[f]])
    /\ UNCHANGED <<disk, line, sessions, mixed>>

\* A file that is gone counts as Got, one that cannot be locked as Skipped.
PassFile(p) ==
  \E f \in File :
    /\ Chooses(p, f)
    /\ \E st \in {"Got", "Skipped"} :
         /\ st = "Got" => f \notin outbound \union Reply
         /\ st = "Skipped" => CanRefuse /\ f \in outbound \union Reply
         /\ Transmits(p, [bp[p] EXCEPT !.FtState = "Switch", !.txfp = NoFile, !.state[f] = st])
    /\ UNCHANGED <<disk, wire, line, sessions, mixed>>

SendEOB(p) ==
  /\ Turn(p)
  /\ bp[p].TxState = "TxGNF"
  /\ bp[p].tosend
  /\ Unsent(p) = {}
  /\ Transmits(p, SentCommand([bp[p] EXCEPT !.FtState = "Transmit", !.TxState = "TxWLA"], "EOB"))
  /\ wire' = Sent(wire, p, [cmd |-> "EOB", file |-> NoFile, offs |-> 0])
  /\ UNCHANGED <<disk, line, sessions, mixed>>

\* A block of the current file is sent.  The end of the file shows in the read
\* of the last block when that is short, and otherwise in one more read.
SendBlock(p) ==
  LET s == bp[p]
      f == s.cursend
      last == s.txpos >= Size[f]
  IN
  /\ Turn(p)
  /\ s.TxState = "TxTryR"
  /\ s.queue = <<>>
  /\ \E eof \in BOOLEAN :
       /\ last => eof
       /\ eof => s.txpos + 1 >= Size[f]
       /\ Transmits(p,
            LET sent == [s EXCEPT !.FtState = "Switch", !.txpos = IF last THEN @ ELSE @ + 1] IN
            IF eof THEN [sent EXCEPT !.txfp = NoFile, !.state[f] = "IsSent",
                                     !.cursend = NoFile, !.TxState = "TxGNF"]
                   ELSE sent)
  /\ wire' = IF last THEN wire ELSE Sent(wire, p, [cmd |-> "DATA", file |-> f, offs |-> s.txpos + 1])
  /\ UNCHANGED <<disk, line, sessions, mixed>>

\* The file cannot be read: it is skipped and the transfer fails.
ReadFails(p) ==
  /\ CanRefuse
  /\ Turn(p)
  /\ bp[p].TxState = "TxTryR"
  /\ bp[p].queue = <<>>
  /\ Transmits(p, Ended([bp[p] EXCEPT !.state[bp[p].cursend] = "Skipped"], "failed"))
  /\ UNCHANGED <<disk, wire, line, sessions, mixed>>

\* binkp_process_messages handles the whole queue before the transmitter goes on.
Message(p) == Head(bp[p].queue)
Processes(p, cmd) ==
  /\ bp[p].queue # <<>>
  /\ Message(p).cmd = cmd
  /\ \/ bp[p].FtState = "Messages"
     \/ Turn(p) /\ bp[p].TxState \in {"TxTryR", "TxWLA"}
Processed(s) ==
  [s EXCEPT !.queue = Tail(@), !.FtState = IF Len(s.queue) = 1 THEN "Transmit" ELSE "Messages"]

InList(p, f) == bp[p].state[f] # "Absent"

\* The file is sent again from the offset, whatever is being sent now.  Other
\* offsets are not asked for by this receiver.
ProcessGet(p) ==
  LET m == Message(p)
      s == Processed(bp[p])
  IN
  /\ Processes(p, "GET")
  /\ Transmits(p, IF InList(p, m.file) /\ m.offs < Size[m.file]
                  THEN [s EXCEPT !.state[m.file] = "NoState", !.offset[m.file] = m.offs, !.TxState = "TxGNF"]
                  ELSE s)
  /\ UNCHANGED <<disk, wire, line, sessions, mixed>>

\* A file that is being sent is closed: the one that is open, whichever it is.
StopsSending(s, f) ==
  IF s.state[f] = "Sending" THEN [s EXCEPT !.txfp = NoFile, !.cursend = NoFile, !.TxState = "TxGNF"] ELSE s

ClosesNothing(p) == bp[p].state[Message(p).file] = "Sending" /\ bp[p].txfp = NoFile

\* Mutant: the disposition is forgotten.
ProcessGotKeeps(p) ==
  LET f == Message(p).file
      s == Processed(bp[p])
  IN
  /\ Processes(p, "GOT")
  /\ ~ClosesNothing(p)
  /\ Transmits(p, IF InList(p, f) THEN [StopsSending(s, f) EXCEPT !.state[f] = "Got"] ELSE s)
  /\ UNCHANGED <<disk, wire, line, sessions, mixed>>

\* The remote has the file: it is removed from the outbound.
ProcessGot(p) ==
  LET f == Message(p).file
      s == Processed(bp[p])
  IN
  /\ Processes(p, "GOT")
  /\ ~ClosesNothing(p)
  /\ Transmits(p, IF InList(p, f) THEN [StopsSending(s, f) EXCEPT !.state[f] = "Got"] ELSE s)
  /\ outbound' = IF InList(p, f) THEN outbound \ {f} ELSE outbound
  /\ UNCHANGED <<wire, tmp, delivered, world, mixed>>

\* The remote does not want the file in this session.
ProcessSkip(p) ==
  LET f == Message(p).file
      s == Processed(bp[p])
  IN
  /\ Processes(p, "SKIP")
  /\ ~ClosesNothing(p)
  /\ Transmits(p, IF InList(p, f) THEN [StopsSending(s, f) EXCEPT !.state[f] = "Skipped"] ELSE s)
  /\ UNCHANGED <<disk, wire, line, sessions, mixed>>

\* fclose(NULL) for a file whose state is still Sending ends the process.
CloseNoFile(p) ==
  /\ Processes(p, "GOT") \/ Processes(p, "SKIP")
  /\ ClosesNothing(p)
  /\ Transmits(p, Ended(bp[p], "failed"))
  /\ UNCHANGED <<disk, wire, line, sessions, mixed>>

\* A 1.0 transfer is over with the M_EOB of the peer, a 1.1 batch with both.
OldOver(s) == s.Minor = 0 /\ s.RxState = "RxEOB"

\* Mutant: the M_EOB of the peer is not awaited.
BatchOverHasty(s) == s.Minor # 0 /\ s.local_EOB

BatchOver(s) == s.Minor # 0 /\ Both(s)

\* TxWLA with an empty queue: wait, end the transfer, or start the next batch.
WaitAcks(p) ==
  LET s == [bp[p] EXCEPT !.FtState = "Switch"]
      over == OldOver(s) \/ BatchOver(s)
      empty == OldOver(s) \/ s.messages < 3
  IN
  /\ Turn(p)
  /\ s.TxState = "TxWLA"
  /\ s.queue = <<>>
  /\ \/ /\ Pending(s) # {} \/ (s.Minor = 0 /\ ~over)
        /\ Transmits(p, s)
     \/ /\ Pending(s) = {} /\ over /\ empty
        /\ Transmits(p, Ended(ListCleared(s), "ok"))
     \/ /\ Pending(s) = {} /\ over /\ ~empty
        /\ Transmits(p, NextBatch(s))
     \/ /\ Pending(s) = {} /\ s.Minor # 0 /\ ~over
        /\ Transmits(p, ListCleared(s))
  /\ UNCHANGED <<disk, wire, line, sessions, mixed>>

Transmit(p) ==
  \/ MakeList(p)
  \/ SendFile(p)
  \/ PassFile(p)
  \/ SendEOB(p)
  \/ SendBlock(p)
  \/ ReadFails(p)
  \/ ProcessGet(p)
  \/ ProcessGot(p)
  \/ ProcessSkip(p)
  \/ CloseNoFile(p)
  \/ WaitAcks(p)

(***************************************************************************)
(* The end of a session, and what comes from outside                       *)
(***************************************************************************)

Fails(p) ==
  /\ bp' = [bp EXCEPT ![p] = Ended(@, "failed")]
  /\ UNCHANGED <<disk, wire, line, sessions, mixed>>

\* The poll meets the end of the connection.  Where connections break, a write may
\* meet it first, and what is not read yet is lost.
HangUp(p) ==
  /\ \/ bp[p].FtState = "Switch" /\ HungUp(p)
     \/ CanCut /\ ~Done(p) /\ (~line \/ Done(Peer(p)))
  /\ Fails(p)

\* The timer is looked at only when the line gives nothing and takes nothing.
Timeout(p) ==
  /\ CanStall
  /\ bp[p].FtState = "Switch"
  /\ ~HungUp(p)
  /\ ~Room(p)
  /\ Fails(p)

\* The connection breaks, and with it goes what the peer has not received.
Cut ==
  /\ CanCut
  /\ line
  /\ \E p \in Party : ~Done(p)
  /\ line' = FALSE
  /\ \E n \in [Party -> 0..Window] :
       wire' = [p \in Party |-> SubSeq(wire[p], 1, IF n[p] < Len(wire[p]) THEN n[p] ELSE Len(wire[p]))]
  /\ UNCHANGED <<bp, disk, sessions, mixed>>

\* A process is killed: what stdio holds of the open file may be lost.
Killed(p) ==
  /\ CanDie
  /\ ~Done(p)
  /\ bp' = [bp EXCEPT ![p] = Ended(@, "failed")]
  /\ tmp' \in Unflushed(p, tmp)
  /\ UNCHANGED <<wire, outbound, delivered, world, mixed>>

\* A process is killed after it wrote the last block, before the file moved: M_GOT
\* may be on its way already.
KilledBeforeMove(p) ==
  /\ CanDie
  /\ Arrives(p)
  /\ Incoming(p).cmd = "DATA"
  /\ bp[p].RxState = "RxReceD"
  /\ bp[p].rxpos + 1 = Size[bp[p].rname]
  /\ bp' = [bp EXCEPT ![p] = Ended(@, "failed")]
  /\ tmp' \in Unflushed(p, Written(p))
  /\ wire' \in {Rest(p), Sent(Rest(p), p, [cmd |-> "GOT", file |-> bp[p].rname, offs |-> 0])}
  /\ UNCHANGED <<outbound, delivered, world, mixed>>

AllDone == \A p \in Party : Done(p)

\* ftntask starts another call after a session that failed.
Retry ==
  /\ AllDone
  /\ \E p \in Party : bp[p].rc = "failed"
  /\ sessions < MaxSessions
  /\ sessions' = sessions + 1
  /\ bp' = [p \in Party |-> NewSession(bp[p].Minor)]
  /\ wire' = [p \in Party |-> <<>>]
  /\ line' = TRUE
  /\ UNCHANGED <<disk, mixed>>

\* Between two sessions a file that waits is replaced under the same name.
Replace(f) ==
  /\ CanReplace
  /\ AllDone
  /\ f \in outbound
  /\ version[f] = 1
  /\ version' = [version EXCEPT ![f] = 2]
  /\ UNCHANGED <<bp, wire, line, outbound, tmp, delivered, sessions, mixed>>

Next ==
  \/ \E p \in Party : \/ Receive(p) \/ Transmit(p) \/ HangUp(p) \/ Timeout(p)
                      \/ Killed(p) \/ KilledBeforeMove(p)
  \/ Cut
  \/ Retry
  \/ \E f \in File : Replace(f)

\* file_transfer loops: it polls again and again, so a frame that arrived is read
\* however often the transmitter had a turn in between.
Fairness ==
  \A p \in Party : SF_vars(Receive(p)) /\ WF_vars(Transmit(p)) /\ WF_vars(HangUp(p) \/ Timeout(p))

Spec == Init /\ [][Next]_vars /\ Fairness

(***************************************************************************)
(* Properties                                                              *)
(***************************************************************************)

IsWhole(f, contents) == \E v \in {1, 2} : contents = Blocks(f, v, Size[f])

\* A file leaves the outbound only after the other side has all of it, in the
\* inbound or at least in tmp/, unless data of two files were mixed: the
\* disposition of filelist.c is executed for what M_GOT tells the sender.
KeptUntilReceived ==
  \A f \in File \ (Reply \union outbound) :
    \/ mixed
    \/ IsWhole(f, tmp[f])
    \/ \E i \in DOMAIN delivered[f] : IsWhole(f, delivered[f][i])

\* What the receiver moves to the inbound is the file that was sent, block for
\* block, however often its transfer was broken off and resumed.
DeliveredIsWhole ==
  \A f \in File : \A i \in DOMAIN delivered[f] : mixed \/ IsWhole(f, delivered[f][i])

\* As long as one file per direction is partial and its owner does not replace it,
\* no data are added to another file than their own.
NeverMixed == ~mixed

\* A session that ends well left no file of that side behind.
OkSentAll ==
  \A p \in Party : bp[p].rc = "ok" => \A f \in outbound : Owner[f] # p

\* Nothing is sent twice: a file arrives again only in another session.
NotTwice == \A f \in File : Len(delivered[f]) <= sessions

\* Without a fault both sides see the same end of the session.
SameEnd == AllDone => bp["org"].rc = bp["ans"].rc

\* A session that ends, ends well for both: nobody left a file behind, nobody saw another end.
EndsAgree == OkSentAll /\ SameEnd

\* Through a broken connection and the next call nothing is lost, mixed or sent twice.
RetrySound == KeptUntilReceived /\ NeverMixed /\ NotTwice

\* Every session comes to its end on both sides.
Ends == <>AllDone

\* Data are awaited for the file that is open: "Else the file is already open".
OpenFileIsAnnounced == \A p \in Party : bp[p].RxState = "RxReceD" => bp[p].rxfp = bp[p].rname

(***************************************************************************)
(* The exchange this implements as long as nothing is mixed                *)
(***************************************************************************)

WholeCopies(f) == Cardinality({i \in DOMAIN delivered[f] : IsWhole(f, delivered[f][i])})

Exchange == INSTANCE FileExchange WITH
  File <- File \ Reply, kept <- outbound, copies <- [f \in File \ Reply |-> WholeCopies(f)]

\* Every step of a session delivers a file, releases one, or changes neither.
ExchangesFiles == Exchange!Safe

\* And without a fault every file is delivered and released.
ExchangesAllFiles == Exchange!Spec

=============================================================================
