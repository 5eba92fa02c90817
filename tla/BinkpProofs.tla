----------------------------- MODULE BinkpProofs -----------------------------
(***************************************************************************)
(* Binkp for any files, sizes, partial files, faults and number of         *)
(* sessions.  First the types: TypeOK is not inductive, since a frame or a *)
(* block gets the name of the file that is being received or sent, and     *)
(* that there is one follows from the state of the receiver and of the     *)
(* transmitter.  Then the talk of the two processes: who sends which file  *)
(* (Owned), that blocks come in order (Streams) and that a file is under   *)
(* way in one form at a time (Singles).  Then what is in tmp/ and in the   *)
(* inbound, as long as nothing was mixed (Contents), and that what was     *)
(* acknowledged is there (Acknowledged).  Then that this is the exchange   *)
(* of FileExchange.  Last when nothing is mixed (Apart), and that no file  *)
(* arrives twice in a session (Once).                                      *)
(***************************************************************************)
EXTENDS Binkp, SequenceTheorems, FiniteSetTheorems, TLAPS

\* Whoever awaits data knows the name, and whoever sends data has a file.
Named(s) ==
  /\ s.RxState = "RxReceD" => s.rname \in File
  /\ s.TxState = "TxTryR" => s.cursend \in File

\* A session of the right type.
Good(s) == s \in Session /\ Named(s)

IInv == TypeOK /\ \A p \in Party : Named(bp[p])


(***************************************************************************)
(* What the steps that the state machines share make of a session          *)
(***************************************************************************)

LEMMA NewSessionGood == ASSUME NEW minor \in 0..1 PROVE Good(NewSession(minor))
<1>1. /\ <<>> \in Seq(Queued) /\ 0 \in Nat /\ 0 \in 0..3 /\ 0 \in 0..BatchLimit
  BY LimitsKnown
<1> QED
  BY <1>1, ZenonT(60) DEF NewSession, NoList, Session, Named, FileState, Good, NoFile

LEMMA BumpTyped == ASSUME NEW n \in 0..3 PROVE Bump(n) \in 0..3
BY DEF Bump

LEMMA SentCommandGood ==
  ASSUME NEW s, Good(s), NEW cmd PROVE Good(SentCommand(s, cmd))
<1>1. s.messages \in 0..3
  BY DEF Good, Session
<1>2. Bump(s.messages) \in 0..3
  BY <1>1, BumpTyped
<1>3. (s.local_EOB \/ cmd = "EOB") \in BOOLEAN
  OBVIOUS
<1>4. SentCommand(s, cmd) \in Session
  BY <1>2, <1>3, ZenonT(60) DEF SentCommand, Session, Good
<1>5. Named(SentCommand(s, cmd))
  BY <1>2, <1>3 DEF SentCommand, Session, Named, Good
<1> QED
  BY <1>4, <1>5 DEF Good

LEMMA ReceivedGood == ASSUME NEW s, Good(s) PROVE Good(Received(s))
<1>1. Received(s) \in Session
  BY ZenonT(60) DEF Received, Session, Good
<1>2. Named(Received(s))
  BY DEF Received, Session, Named, Good
<1> QED
  BY <1>1, <1>2 DEF Good

LEMMA EndedGood ==
  ASSUME NEW s, Good(s), NEW rc \in {"ok", "failed"} PROVE Good(Ended(s, rc))
<1>1. Ended(s, rc) \in Session
  BY ZenonT(60) DEF Ended, Session, Good
<1>2. Named(Ended(s, rc))
  BY DEF Ended, Session, Named, Good
<1> QED
  BY <1>1, <1>2 DEF Good

LEMMA ListClearedGood == ASSUME NEW s, Good(s) PROVE Good(ListCleared(s))
<1>1. ListCleared(s) \in Session
  BY ZenonT(60) DEF ListCleared, NoList, FileState, Session, Good
<1>2. Named(ListCleared(s))
  BY DEF ListCleared, NoList, FileState, Session, Named, Good
<1> QED
  BY <1>1, <1>2 DEF Good

LEMMA NextBatchGood == ASSUME NEW s, Good(s) PROVE Good(NextBatch(s))
<1> DEFINE cleared == ListCleared(s)
           next == IF cleared.batchnr < BatchLimit THEN cleared.batchnr + 1 ELSE cleared.batchnr
<1>1. cleared \in Session
  BY ListClearedGood DEF Good
<1>2. NextBatch(s) = [cleared EXCEPT !.batchnr = next, !.local_EOB = FALSE, !.remote_EOB = FALSE,
                                     !.messages = 0, !.TxState = "TxGNF", !.RxState = "RxWaitF"]
  BY Zenon DEF NextBatch
<1>3. next \in 0..BatchLimit
  <2>1. cleared.batchnr \in 0..BatchLimit
    BY <1>1, ZenonT(20) DEF Session
  <2> HIDE DEF cleared
  <2> QED
    BY <2>1, LimitsKnown
<1>4. 0 \in 0..3
  OBVIOUS
<1> HIDE DEF cleared, next
<1>5. [cleared EXCEPT !.batchnr = next, !.local_EOB = FALSE, !.remote_EOB = FALSE,
                      !.messages = 0, !.TxState = "TxGNF", !.RxState = "RxWaitF"] \in Session
  BY <1>1, <1>3, <1>4, ZenonT(60) DEF Session
<1>6. Named(NextBatch(s))
  BY <1>1, <1>2, <1>3, <1>4 DEF Session, Named
<1> QED
  BY <1>2, <1>5, <1>6 DEF Good

LEMMA ProcessedGood ==
  ASSUME NEW s, Good(s), s.queue # <<>>
  PROVE  Good(Processed(s)) /\ Head(s.queue) \in Queued
<1>1. s.queue \in Seq(Queued)
  BY ZenonT(20) DEF Session, Good
<1>2. Head(s.queue) \in Queued /\ Tail(s.queue) \in Seq(Queued)
  BY <1>1
<1>3. Processed(s) \in Session
  BY <1>2, ZenonT(60) DEF Processed, Session, Good
<1>4. Named(Processed(s))
  BY <1>2 DEF Processed, Session, Named, Good
<1> QED
  BY <1>2, <1>3, <1>4 DEF Good

(***************************************************************************)
(* Frames and the line                                                     *)
(***************************************************************************)

LEMMA PeerTyped == \A p \in Party : Peer(p) \in Party
BY DEF Party, Peer

LEMMA FrameTyped ==
  ASSUME NEW frame \in Frame
  PROVE  /\ frame.cmd \in {"GET", "GOT", "SKIP"} => frame \in Queued
         /\ frame.cmd \in {"FILE", "DATA", "GET", "GOT", "SKIP"} => frame.file \in File /\ frame.offs \in Nat
BY DEF Frame, Queued

LEMMA FramesTyped ==
  /\ \A cmd \in {"GET", "GOT", "SKIP", "FILE", "DATA"}, f \in File, n \in Nat :
       [cmd |-> cmd, file |-> f, offs |-> n] \in Frame
  /\ \A cmd \in {"NUL", "EOB", "BSY"} : [cmd |-> cmd, file |-> NoFile, offs |-> 0] \in Frame
BY DEF Frame, Queued

LEMMA SentTyped ==
  ASSUME NEW w \in [Party -> Seq(Frame)], NEW p \in Party, NEW frame \in Frame
  PROVE  Sent(w, p, frame) \in [Party -> Seq(Frame)]
BY DEF Sent

LEMMA ArrivesTyped ==
  ASSUME IInv, NEW p \in Party, Arrives(p)
  PROVE  /\ Incoming(p) \in Frame
         /\ Rest(p) \in [Party -> Seq(Frame)]
<1>1. wire \in [Party -> Seq(Frame)] /\ wire[Peer(p)] \in Seq(Frame) /\ wire[Peer(p)] # <<>>
  BY PeerTyped DEF IInv, TypeOK, Arrives
<1>2. Head(wire[Peer(p)]) \in Frame /\ Tail(wire[Peer(p)]) \in Seq(Frame)
  BY <1>1
<1> QED
  BY <1>1, <1>2 DEF Incoming, Rest

LEMMA BpGood == ASSUME IInv, NEW p \in Party PROVE Good(bp[p])
BY DEF IInv, TypeOK, Good

LEMMA CountedGood ==
  ASSUME NEW s, Good(s), NEW cmd
  PROVE  Good([s EXCEPT !.messages = Bump(@), !.remote_EOB = @ \/ cmd = "EOB"])
<1>1. s.messages \in 0..3
  BY DEF Good, Session
<1>2. Bump(s.messages) \in 0..3
  BY <1>1, BumpTyped
<1>3. (s.remote_EOB \/ cmd = "EOB") \in BOOLEAN
  OBVIOUS
<1>4. [s EXCEPT !.messages = Bump(@), !.remote_EOB = @ \/ cmd = "EOB"] \in Session
  BY <1>2, <1>3, ZenonT(60) DEF Session, Good
<1>5. Named([s EXCEPT !.messages = Bump(@), !.remote_EOB = @ \/ cmd = "EOB"])
  BY <1>2, <1>3 DEF Session, Named, Good
<1> QED
  BY <1>4, <1>5 DEF Good

LEMMA PolledGood == ASSUME IInv, NEW p \in Party PROVE Good(Polled(p))
<1>1. Good(bp[p])
  BY BpGood
<1> QED
  BY <1>1, CountedGood, Zenon DEF Polled

\* The session of one process is replaced by another of the right type.
LEMMA BpUpdate ==
  ASSUME IInv, NEW p \in Party, NEW s, Good(s), bp' = [bp EXCEPT ![p] = s]
  PROVE  bp' \in [Party -> Session] /\ \A q \in Party : Named(bp'[q])
BY ZenonT(60) DEF IInv, TypeOK, Good

\* The types of all but the sessions and the line.
RestOK ==
  /\ line \in BOOLEAN
  /\ outbound \subseteq File
  /\ version \in [File -> {1, 2}]
  /\ tmp \in [File -> Seq(Block)]
  /\ delivered \in [File -> Seq(Seq(Block))]
  /\ sessions \in 1..MaxSessions
  /\ mixed \in BOOLEAN

LEMMA RestSame == ASSUME IInv, UNCHANGED <<disk, line, sessions, mixed>> PROVE RestOK'
BY DEF IInv, TypeOK, RestOK, disk

\* What an action of one process has to show.
LEMMA Step ==
  ASSUME IInv, NEW p \in Party, NEW s, Good(s), bp' = [bp EXCEPT ![p] = s],
         wire' \in [Party -> Seq(Frame)], RestOK'
  PROVE  IInv'
BY BpUpdate, Zenon DEF IInv, TypeOK, RestOK

(***************************************************************************)
(* binkp_receiver                                                          *)
(***************************************************************************)

LEMMA QueueGood ==
  ASSUME NEW s, Good(s), NEW m \in Queued PROVE Good([s EXCEPT !.queue = Append(@, m)])
<1>1. s.queue \in Seq(Queued)
  BY ZenonT(20) DEF Good, Session
<1>2. Append(s.queue, m) \in Seq(Queued)
  BY <1>1
<1>3. [s EXCEPT !.queue = Append(@, m)] \in Session
  BY <1>2, ZenonT(60) DEF Session, Good
<1>4. Named([s EXCEPT !.queue = Append(@, m)])
  BY <1>2 DEF Session, Named, Good
<1> QED
  BY <1>3, <1>4 DEF Good

LEMMA QueueMessageTyped == ASSUME IInv, NEW p \in Party, QueueMessage(p) PROVE IInv'
<1> DEFINE s == [Polled(p) EXCEPT !.queue = Append(@, Incoming(p))]
<1>1. Arrives(p) /\ Incoming(p) \in Queued
  BY ArrivesTyped, FrameTyped DEF QueueMessage
<1>2. Good(Received(s))
  BY <1>1, PolledGood, QueueGood, ReceivedGood, Zenon
<1>3. bp' = [bp EXCEPT ![p] = Received(s)] /\ wire' = Rest(p) /\ UNCHANGED <<disk, line, sessions, mixed>>
  BY Zenon DEF QueueMessage
<1> QED
  BY <1>1, <1>2, <1>3, ArrivesTyped, RestSame, Step, Zenon

LEMMA IgnoreTyped == ASSUME IInv, NEW p \in Party, Ignore(p) PROVE IInv'
<1>1. Good(Received(Polled(p)))
  BY PolledGood, ReceivedGood, Zenon
<1> QED
  BY <1>1, ArrivesTyped, RestSame, Step, Zenon DEF Ignore

LEMMA InRxEOBGood == ASSUME NEW s, Good(s) PROVE Good([s EXCEPT !.RxState = "RxEOB"])
<1>1. [s EXCEPT !.RxState = "RxEOB"] \in Session
  BY ZenonT(60) DEF Session, Good
<1>2. Named([s EXCEPT !.RxState = "RxEOB"])
  BY DEF Session, Named, Good
<1> QED
  BY <1>1, <1>2 DEF Good

LEMMA ReceiveEOBTyped == ASSUME IInv, NEW p \in Party, ReceiveEOB(p) PROVE IInv'
<1>1. Good(Polled(p))
  BY PolledGood
<1>2. PICK s \in {[Polled(p) EXCEPT !.RxState = "RxEOB"], NextBatch(Polled(p)), Polled(p)} :
        bp' = [bp EXCEPT ![p] = Received(s)]
  BY Zenon DEF ReceiveEOB
<1>3. Good(Received(s))
  BY <1>1, InRxEOBGood, NextBatchGood, ReceivedGood, Zenon
<1> QED
  BY <1>2, <1>3, ArrivesTyped, RestSame, Step, Zenon DEF ReceiveEOB

LEMMA ClosedGood ==
  ASSUME NEW s, Good(s), NEW g \in File \union {NoFile, Closed} PROVE Good([s EXCEPT !.rxfp = g])
<1>1. [s EXCEPT !.rxfp = g] \in Session
  BY ZenonT(60) DEF Session, Good
<1>2. Named([s EXCEPT !.rxfp = g])
  BY DEF Session, Named, Good
<1> QED
  BY <1>1, <1>2 DEF Good

LEMMA ClosedKeepsName ==
  ASSUME NEW s, Good(s), s.rname \in File, NEW g \in {NoFile, Closed}
  PROVE  Good([s EXCEPT !.rxfp = g]) /\ [s EXCEPT !.rxfp = g].rname \in File
<1>1. Good([s EXCEPT !.rxfp = g])
  BY ClosedGood, Zenon
<1>2. [s EXCEPT !.rxfp = g].rname \in File
  BY ZenonT(60) DEF Good, Session
<1> QED
  BY <1>1, <1>2

LEMMA OpenedGood ==
  ASSUME NEW s, Good(s), NEW f \in File, NEW n \in Nat, NEW fr \in BOOLEAN
  PROVE  Good([s EXCEPT !.rxfp = f, !.rxbytes = n, !.freqname = fr])
<1>1. [s EXCEPT !.rxfp = f, !.rxbytes = n, !.freqname = fr] \in Session
  BY ZenonT(60) DEF Session, Good
<1>2. Named([s EXCEPT !.rxfp = f, !.rxbytes = n, !.freqname = fr])
  BY DEF Session, Named, Good
<1> QED
  BY <1>1, <1>2 DEF Good

LEMMA KnownGood ==
  ASSUME NEW s, Good(s), NEW f \in File, NEW n \in Nat
  PROVE  Good([s EXCEPT !.rname = f, !.rxpos = n])
<1>1. [s EXCEPT !.rname = f, !.rxpos = n] \in Session
  BY ZenonT(60) DEF Session, Good
<1>2. Named([s EXCEPT !.rname = f, !.rxpos = n])
  BY DEF Session, Named, Good
<1> QED
  BY <1>1, <1>2 DEF Good

LEMMA AnnouncedGood ==
  ASSUME IInv, NEW p \in Party, Arrives(p), Incoming(p).cmd = "FILE"
  PROVE  Good(Announced(p)) /\ Announced(p).rname \in File
<1> DEFINE f == Incoming(p).file
           s == IF bp[p].RxState = "RxReceD" THEN [Polled(p) EXCEPT !.rxfp = NoFile] ELSE Polled(p)
           known == [s EXCEPT !.rname = f, !.rxpos = Incoming(p).offs]
           opened == [known EXCEPT !.rxfp = f, !.rxbytes = Len(tmp[f]), !.freqname = @ \/ f = Request]
<1>1. f \in File /\ Incoming(p).offs \in Nat
  BY ArrivesTyped, FrameTyped
<1>2. Good(s)
  BY PolledGood, ClosedGood, Zenon
<1>3. Good(known)
  BY <1>1, <1>2, KnownGood, Zenon
<1>4. Len(tmp[f]) \in Nat /\ (known.freqname \/ f = Request) \in BOOLEAN
  BY <1>1 DEF IInv, TypeOK
<1>5. Good(opened)
  BY <1>1, <1>3, <1>4, OpenedGood, Zenon
<1>6. Announced(p) \in {known, opened}
  BY Zenon DEF Announced
<1>7. known.rname \in File /\ opened.rname \in File
  <2>1. s \in Session
    BY <1>2, Zenon DEF Good
  <2> HIDE DEF s, f
  <2> QED
    BY <1>1, <2>1, ZenonT(60) DEF Session
<1> QED
  BY <1>3, <1>5, <1>6, <1>7, Zenon

LEMMA WaitFileGood == ASSUME NEW s, Good(s) PROVE Good([s EXCEPT !.RxState = "RxWaitF"])
<1>1. [s EXCEPT !.RxState = "RxWaitF"] \in Session
  BY ZenonT(60) DEF Session, Good
<1>2. Named([s EXCEPT !.RxState = "RxWaitF"])
  BY DEF Session, Named, Good
<1> QED
  BY <1>1, <1>2 DEF Good

LEMMA AnswerTyped ==
  ASSUME IInv, NEW p \in Party, Arrives(p), NEW s, Good(s), s.rname \in File,
         NEW cmd \in {"GET", "GOT", "SKIP"}, NEW offs \in Nat, Answer(p, s, cmd, offs), RestOK'
  PROVE  IInv'
<1> DEFINE t == Received(SentCommand([s EXCEPT !.RxState = "RxWaitF"], cmd))
<1>1. Good(t)
  BY WaitFileGood, SentCommandGood, ReceivedGood, Zenon
<1>2. [cmd |-> cmd, file |-> s.rname, offs |-> offs] \in Frame
  BY FramesTyped
<1>3. wire' \in [Party -> Seq(Frame)]
  BY <1>2, ArrivesTyped, SentTyped, Zenon DEF Answer
<1> QED
  BY <1>1, <1>3, Step, Zenon DEF Answer

LEMMA AwaitDataGood ==
  ASSUME NEW s, Good(s), s.rname \in File PROVE Good([s EXCEPT !.RxState = "RxReceD"])
BY ZenonT(60) DEF Session, Named, Good

LEMMA AcceptFileTyped == ASSUME IInv, NEW p \in Party, AcceptFile(p) PROVE IInv'
<1>1. Arrives(p) /\ Incoming(p).cmd = "FILE"
  BY DEF AcceptFile
<1>2. RestOK'
  BY DEF AcceptFile, IInv, TypeOK, RestOK, disk
<1>3. PICK refused \in {FALSE, CanRefuse} :
        LET s == IF refused THEN [Announced(p) EXCEPT !.rxfp = NoFile] ELSE Announced(p) IN
        \/ Answer(p, [s EXCEPT !.rxfp = NoFile], "GOT", 0)
        \/ Answer(p, s, "GET", s.rxbytes)
        \/ Answer(p, s, "SKIP", 0)
        \/ bp' = [bp EXCEPT ![p] = Received([s EXCEPT !.RxState = "RxReceD"])] /\ wire' = Rest(p)
  BY Zenon DEF AcceptFile
<1> DEFINE s == IF refused THEN [Announced(p) EXCEPT !.rxfp = NoFile] ELSE Announced(p)
           c == [s EXCEPT !.rxfp = NoFile]
<1>4. /\ Good(s) /\ s.rname \in File
      /\ Good(c) /\ c.rname \in File
  BY <1>1, ClosedKeepsName, AnnouncedGood, Zenon
<1>5. s.rxbytes \in Nat /\ 0 \in Nat
  BY <1>4, ZenonT(60) DEF Good, Session
<1> HIDE DEF s, c
<1>6. CASE bp' = [bp EXCEPT ![p] = Received([s EXCEPT !.RxState = "RxReceD"])] /\ wire' = Rest(p)
  <2>1. Good(Received([s EXCEPT !.RxState = "RxReceD"]))
    BY <1>4, AwaitDataGood, ReceivedGood, Zenon
  <2> QED
    BY <1>1, <1>2, <1>6, <2>1, ArrivesTyped, Step, Zenon
<1>7. \/ Answer(p, c, "GOT", 0)
      \/ Answer(p, s, "GET", s.rxbytes)
      \/ Answer(p, s, "SKIP", 0)
      \/ bp' = [bp EXCEPT ![p] = Received([s EXCEPT !.RxState = "RxReceD"])] /\ wire' = Rest(p)
  BY <1>3, Zenon DEF s, c
<1> QED
  BY <1>1, <1>2, <1>4, <1>5, <1>6, <1>7, AnswerTyped, Zenon

LEMMA LowDiskspaceTyped == ASSUME IInv, NEW p \in Party, LowDiskspace(p) PROVE IInv'
<1>1. Good(Ended(Polled(p), "failed"))
  BY PolledGood, EndedGood, Zenon
<1>2. wire' \in [Party -> Seq(Frame)]
  BY ArrivesTyped, SentTyped, FramesTyped, Zenon DEF LowDiskspace
<1> QED
  BY <1>1, <1>2, RestSame, Step, Zenon DEF LowDiskspace

LEMMA ReceiveUnexpectedTyped == ASSUME IInv, NEW p \in Party, ReceiveUnexpected(p) PROVE IInv'
<1>1. Good(Ended(Polled(p), "failed"))
  BY PolledGood, EndedGood, Zenon
<1> QED
  BY <1>1, ArrivesTyped, RestSame, Step, Zenon DEF ReceiveUnexpected

LEMMA SeekClosedFileTyped == ASSUME IInv, NEW p \in Party, SeekClosedFile(p) PROVE IInv'
<1>1. Good(Ended(Polled(p), "failed"))
  BY PolledGood, EndedGood, Zenon
<1> QED
  BY <1>1, ArrivesTyped, RestSame, Step, Zenon DEF SeekClosedFile

LEMMA WrittenTyped ==
  ASSUME IInv, NEW p \in Party, Arrives(p), Incoming(p).cmd = "DATA"
  PROVE  Written(p) \in [File -> Seq(Block)]
<1> DEFINE m == Incoming(p)
           b == <<m.file, version[m.file], m.offs>>
<1>1. m.file \in File /\ m.offs \in Nat
  BY ArrivesTyped, FrameTyped
<1>2. b \in Block
  BY <1>1 DEF Block, IInv, TypeOK
<1> HIDE DEF b
<1>3. \A g \in File : tmp[g] \in Seq(Block) /\ Append(tmp[g], b) \in Seq(Block)
  BY <1>2 DEF IInv, TypeOK
<1>4. Written(p) = [g \in File |-> IF g = bp[p].rxfp THEN Append(tmp[g], b) ELSE tmp[g]]
  BY Zenon DEF Written, b
<1> QED
  BY <1>3, <1>4

LEMMA UnflushedTyped ==
  ASSUME IInv, NEW p \in Party, NEW t \in [File -> Seq(Block)], NEW u \in Unflushed(p, t)
  PROVE  u \in [File -> Seq(Block)]
<1>1. bp[p].rxbytes \in Nat
  BY BpGood, ZenonT(60) DEF Good, Session
<1>2. CASE u = t
  BY <1>2
<1>3. CASE bp[p].rxfp \in File /\ u # t
  <2> DEFINE g == bp[p].rxfp
  <2>1. PICK n \in bp[p].rxbytes..Len(t[g]) : u = [t EXCEPT ![g] = SubSeq(@, 1, n)]
    BY <1>3, Zenon DEF Unflushed
  <2>2. t[g] \in Seq(Block)
    BY <1>3
  <2>3. SubSeq(t[g], 1, n) \in Seq(Block)
    BY <1>1, <2>1, <2>2
  <2> QED
    BY <2>1, <2>3
<1> QED
  BY <1>2, <1>3, Zenon DEF Unflushed

LEMMA AdvancedGood ==
  ASSUME NEW s, Good(s), s.RxState = "RxReceD"
  PROVE  /\ Good([s EXCEPT !.rxpos = @ + 1])
         /\ [s EXCEPT !.rxpos = @ + 1].rname \in File
         /\ Good([[s EXCEPT !.rxpos = @ + 1] EXCEPT !.rxfp = Closed])
         /\ [[s EXCEPT !.rxpos = @ + 1] EXCEPT !.rxfp = Closed].rname \in File
<1>1. s \in Session /\ s.rname \in File
  BY Zenon DEF Good, Named
<1>2. s.rxpos \in Nat
  BY <1>1, ZenonT(20) DEF Session
<1>3. s.rxpos + 1 \in Nat
  BY <1>2
<1> DEFINE n == [s EXCEPT !.rxpos = @ + 1]
<1>4. n.rname \in File
  BY <1>1, ZenonT(60) DEF Session
<1>5. Good(n)
  BY <1>1, <1>3, ZenonT(60) DEF Good, Session, Named
<1> QED
  BY <1>4, <1>5, ClosedKeepsName, Zenon

LEMMA DeliveredTyped ==
  ASSUME IInv, NEW p \in Party, Arrives(p), Incoming(p).cmd = "DATA", NEW g
  PROVE  /\ [f \in File |-> IF f = g THEN <<>> ELSE tmp[f]] \in [File -> Seq(Block)]
         /\ [f \in File |-> IF f = g THEN Append(delivered[f], Written(p)[f]) ELSE delivered[f]]
              \in [File -> Seq(Seq(Block))]
BY WrittenTyped DEF IInv, TypeOK

LEMMA WriteDataTyped == ASSUME IInv, NEW p \in Party, WriteData(p) PROVE IInv'
<1> DEFINE s == [bp[p] EXCEPT !.rxpos = @ + 1]
           c == [s EXCEPT !.rxfp = Closed]
           g == s.rxfp
<1>1. Arrives(p) /\ Incoming(p).cmd = "DATA" /\ bp[p].RxState = "RxReceD"
      /\ UNCHANGED <<outbound, world, mixed>>
  BY DEF WriteData
<1>2. /\ Good(s) /\ s.rname \in File
      /\ Good(c) /\ c.rname \in File
  BY <1>1, BpGood, AdvancedGood, Zenon
<1>3. CASE /\ bp' = [bp EXCEPT ![p] = Received(s)]
           /\ wire' = Rest(p)
           /\ tmp' = Written(p)
           /\ UNCHANGED delivered
  <2>1. RestOK'
    BY <1>1, <1>3, WrittenTyped DEF IInv, TypeOK, RestOK, world
  <2>2. Good(Received(s))
    BY <1>2, ReceivedGood, Zenon
  <2> QED
    BY <1>1, <1>3, <2>1, <2>2, ArrivesTyped, Step, Zenon
<1>4. CASE /\ Answer(p, c, "GOT", 0)
           /\ tmp' = [f \in File |-> IF f = g THEN <<>> ELSE tmp[f]]
           /\ delivered' = [f \in File |-> IF f = g THEN Append(delivered[f], Written(p)[f]) ELSE delivered[f]]
  <2> HIDE DEF c, g
  <2>1. RestOK'
    BY <1>1, <1>4, DeliveredTyped DEF IInv, TypeOK, RestOK, world
  <2>2. 0 \in Nat
    OBVIOUS
  <2> QED
    BY <1>1, <1>2, <1>4, <2>1, <2>2, AnswerTyped, Zenon
<1> QED
  BY <1>3, <1>4, Zenon DEF WriteData

LEMMA CloseFailsTyped == ASSUME IInv, NEW p \in Party, CloseFails(p) PROVE IInv'
<1> DEFINE s == [bp[p] EXCEPT !.rxpos = @ + 1]
           c == [s EXCEPT !.rxfp = Closed]
<1>1. /\ Arrives(p) /\ Incoming(p).cmd = "DATA" /\ Answer(p, c, "GOT", 0)
      /\ tmp' \in Unflushed(p, Written(p)) /\ UNCHANGED <<outbound, delivered, world, mixed>>
  BY Zenon DEF CloseFails
<1>2. bp[p].RxState = "RxReceD"
  <2>1. s.RxState = "RxReceD"
    BY Zenon DEF CloseFails
  <2>2. bp[p] \in Session
    BY BpGood, Zenon DEF Good
  <2> QED
    BY <2>1, <2>2, ZenonT(60) DEF Session
<1>3. Good(c) /\ c.rname \in File /\ 0 \in Nat
  BY <1>2, BpGood, AdvancedGood, Zenon
<1>4. tmp' \in [File -> Seq(Block)]
  BY <1>1, WrittenTyped, UnflushedTyped, Zenon
<1>5. RestOK'
  BY <1>1, <1>4 DEF IInv, TypeOK, RestOK, world
<1> HIDE DEF c
<1> QED
  BY <1>1, <1>3, <1>5, AnswerTyped, Zenon

LEMMA WriteFailsTyped == ASSUME IInv, NEW p \in Party, WriteFails(p) PROVE IInv'
<1>1. Good(Ended(bp[p], "failed"))
  BY BpGood, EndedGood, Zenon
<1>2. tmp' \in [File -> Seq(Block)]
  BY UnflushedTyped, Zenon DEF WriteFails, IInv, TypeOK
<1>3. RestOK'
  BY <1>2 DEF WriteFails, IInv, TypeOK, RestOK, world
<1> QED
  BY <1>1, <1>3, ArrivesTyped, Step, Zenon DEF WriteFails

LEMMA ReceiveTyped == ASSUME IInv, NEW p \in Party, Receive(p) PROVE IInv'
BY QueueMessageTyped, IgnoreTyped, ReceiveEOBTyped, AcceptFileTyped, LowDiskspaceTyped, WriteDataTyped,
   CloseFailsTyped, WriteFailsTyped, ReceiveUnexpectedTyped, SeekClosedFileTyped, Zenon DEF Receive

(***************************************************************************)
(* binkp_transmitter                                                       *)
(***************************************************************************)

LEMMA TransmitsTyped ==
  ASSUME IInv, NEW p \in Party, NEW s, Good(s), Transmits(p, s),
         UNCHANGED <<disk, wire, line, sessions, mixed>>
  PROVE  IInv'
<1>1. wire' \in [Party -> Seq(Frame)]
  BY DEF IInv, TypeOK
<1> QED
  BY <1>1, RestSame, Step, Zenon DEF Transmits

LEMMA StateTyped ==
  ASSUME NEW s, Good(s), NEW f \in File, NEW st \in FileState
  PROVE  [s.state EXCEPT ![f] = st] \in [File -> FileState]
<1>1. s.state \in [File -> FileState]
  BY ZenonT(20) DEF Good, Session
<1> QED
  BY <1>1

LEMMA TransmitGood ==
  ASSUME NEW s, Good(s)
  PROVE  Good([s EXCEPT !.FtState = "Transmit"]) /\ Good([s EXCEPT !.FtState = "Switch"])
<1>1. [s EXCEPT !.FtState = "Transmit"] \in Session
  BY ZenonT(60) DEF Session, Good
<1>2. Named([s EXCEPT !.FtState = "Transmit"])
  BY DEF Session, Named, Good
<1>3. [s EXCEPT !.FtState = "Switch"] \in Session
  BY ZenonT(60) DEF Session, Good
<1>4. Named([s EXCEPT !.FtState = "Switch"])
  BY DEF Session, Named, Good
<1> QED
  BY <1>1, <1>2, <1>3, <1>4 DEF Good

LEMMA ListMadeGood ==
  ASSUME NEW s, Good(s), NEW l \in [File -> FileState], NEW o \in [File -> Nat], s.TxState = "TxGNF"
  PROVE  Good([s EXCEPT !.FtState = "Transmit", !.tosend = TRUE, !.cursend = NoFile, !.freqname = FALSE,
                        !.state = l, !.offset = o])
<1>1. [s EXCEPT !.FtState = "Transmit", !.tosend = TRUE, !.cursend = NoFile, !.freqname = FALSE, !.state = l,
      !.offset = o] \in Session
  BY ZenonT(60) DEF Session, Good
<1>2. Named([s EXCEPT !.FtState = "Transmit", !.tosend = TRUE, !.cursend = NoFile, !.freqname = FALSE,
      !.state = l, !.offset = o])
  BY DEF Session, Named, Good
<1> QED
  BY <1>1, <1>2 DEF Good

LEMMA MakeListTyped == ASSUME IInv, NEW p \in Party, MakeList(p) PROVE IInv'
<1> DEFINE l == [f \in File |-> IF f \in Listed(p) THEN "NoState" ELSE "Absent"]
           o == [f \in File |-> 0]
           s == [bp[p] EXCEPT
                   !.FtState = "Transmit", !.tosend = TRUE, !.cursend = NoFile, !.freqname = FALSE,
                   !.state = l, !.offset = o]
           nul == [cmd |-> "NUL", file |-> NoFile, offs |-> 0]
<1>1. l \in [File -> FileState] /\ o \in [File -> Nat]
  BY DEF FileState
<1>2. Good(s)
  <2> HIDE DEF l, o
  <2> QED
    BY <1>1, BpGood, ListMadeGood, Zenon DEF MakeList
<1>3. Good(SentCommand(s, "NUL"))
  BY <1>2, SentCommandGood, Zenon
<1>4. Sent(wire, p, nul) \in [Party -> Seq(Frame)] /\ wire \in [Party -> Seq(Frame)]
  BY SentTyped, FramesTyped, Zenon DEF IInv, TypeOK
<1>5. PICK t \in {s, SentCommand(s, "NUL")} : bp' = [bp EXCEPT ![p] = t]
  BY Zenon DEF MakeList, Transmits
<1>6. wire' \in {wire, Sent(wire, p, nul)} /\ UNCHANGED <<disk, line, sessions, mixed>>
  BY Zenon DEF MakeList
<1> HIDE DEF s, nul
<1> QED
  BY <1>2, <1>3, <1>4, <1>5, <1>6, RestSame, Step, Zenon

LEMMA SendingGood ==
  ASSUME NEW s, Good(s), NEW f \in File, NEW n \in Nat
  PROVE  Good([s EXCEPT !.FtState = "Transmit", !.TxState = "TxTryR", !.state[f] = "Sending",
                        !.cursend = f, !.txfp = f, !.txpos = n])
<1> DEFINE l == [s.state EXCEPT ![f] = "Sending"]
<1>1. l \in [File -> FileState]
  BY StateTyped DEF FileState
<1> HIDE DEF l
<1>2. Good([s EXCEPT !.FtState = "Transmit", !.TxState = "TxTryR", !.state = l,
                     !.cursend = f, !.txfp = f, !.txpos = n])
  <2>1. [s EXCEPT !.FtState = "Transmit", !.TxState = "TxTryR", !.state = l, !.cursend = f, !.txfp = f,
        !.txpos = n] \in Session
    BY <1>1, ZenonT(60) DEF Session, Good
  <2>2. Named([s EXCEPT !.FtState = "Transmit", !.TxState = "TxTryR", !.state = l, !.cursend = f, !.txfp = f,
        !.txpos = n])
    BY <1>1 DEF Session, Named, Good
  <2> QED
    BY <2>1, <2>2 DEF Good
<1> QED
  BY <1>2 DEF l

LEMMA SendFileTyped == ASSUME IInv, NEW p \in Party, SendFile(p) PROVE IInv'
<1> DEFINE sending(f) ==
             [bp[p] EXCEPT !.FtState = "Transmit", !.TxState = "TxTryR", !.state[f] = "Sending",
                           !.cursend = f, !.txfp = f, !.txpos = bp[p].offset[f]]
           frame(f) == [cmd |-> "FILE", file |-> f, offs |-> bp[p].offset[f]]
<1>1. PICK f \in File :
        /\ Transmits(p, SentCommand(sending(f), "FILE"))
        /\ wire' = Sent(wire, p, frame(f))
        /\ UNCHANGED <<disk, line, sessions, mixed>>
  BY Zenon DEF SendFile
<1>2. bp[p].offset[f] \in Nat
  <2>1. bp[p].offset \in [File -> Nat]
    BY BpGood, ZenonT(20) DEF Good, Session
  <2> QED
    BY <2>1
<1>3. Good(SentCommand(sending(f), "FILE"))
  BY <1>2, BpGood, SendingGood, SentCommandGood, Zenon
<1>4. wire' \in [Party -> Seq(Frame)]
  BY <1>1, <1>2, SentTyped, FramesTyped, Zenon DEF IInv, TypeOK
<1> HIDE DEF sending, frame
<1> QED
  BY <1>1, <1>3, <1>4, RestSame, Step, Zenon DEF Transmits

LEMMA PassedGood ==
  ASSUME NEW s, Good(s), NEW f \in File, NEW st \in {"Got", "Skipped"}
  PROVE  Good([s EXCEPT !.FtState = "Switch", !.txfp = NoFile, !.state[f] = st])
<1> DEFINE l == [s.state EXCEPT ![f] = st]
<1>1. l \in [File -> FileState]
  BY StateTyped DEF FileState
<1> HIDE DEF l
<1>2. Good([s EXCEPT !.FtState = "Switch", !.txfp = NoFile, !.state = l])
  <2>1. [s EXCEPT !.FtState = "Switch", !.txfp = NoFile, !.state = l] \in Session
    BY <1>1, ZenonT(60) DEF Session, Good
  <2>2. Named([s EXCEPT !.FtState = "Switch", !.txfp = NoFile, !.state = l])
    BY <1>1 DEF Session, Named, Good
  <2> QED
    BY <2>1, <2>2 DEF Good
<1> QED
  BY <1>2 DEF l

LEMMA PassFileTyped == ASSUME IInv, NEW p \in Party, PassFile(p) PROVE IInv'
<1>1. PICK f \in File, st \in {"Got", "Skipped"} :
        Transmits(p, [bp[p] EXCEPT !.FtState = "Switch", !.txfp = NoFile, !.state[f] = st])
  BY Zenon DEF PassFile
<1>2. UNCHANGED <<disk, wire, line, sessions, mixed>>
  BY Zenon DEF PassFile
<1>3. Good([bp[p] EXCEPT !.FtState = "Switch", !.txfp = NoFile, !.state[f] = st])
  BY BpGood, PassedGood, Zenon
<1> QED
  BY <1>1, <1>2, <1>3, TransmitsTyped, Zenon

LEMMA AllSentGood ==
  ASSUME NEW s, Good(s) PROVE Good([s EXCEPT !.FtState = "Transmit", !.TxState = "TxWLA"])
<1>1. [s EXCEPT !.FtState = "Transmit", !.TxState = "TxWLA"] \in Session
  BY ZenonT(60) DEF Session, Good
<1>2. Named([s EXCEPT !.FtState = "Transmit", !.TxState = "TxWLA"])
  BY DEF Session, Named, Good
<1> QED
  BY <1>1, <1>2 DEF Good

LEMMA SendEOBTyped == ASSUME IInv, NEW p \in Party, SendEOB(p) PROVE IInv'
<1>1. Good(SentCommand([bp[p] EXCEPT !.FtState = "Transmit", !.TxState = "TxWLA"], "EOB"))
  BY BpGood, AllSentGood, SentCommandGood, Zenon
<1>2. wire' \in [Party -> Seq(Frame)]
  BY SentTyped, FramesTyped, Zenon DEF SendEOB, IInv, TypeOK
<1> QED
  BY <1>1, <1>2, RestSame, Step, Zenon DEF SendEOB, Transmits

LEMMA BlockSentGood ==
  ASSUME NEW s, Good(s), NEW n \in Nat
  PROVE  Good([s EXCEPT !.FtState = "Switch", !.txpos = n])
<1>1. [s EXCEPT !.FtState = "Switch", !.txpos = n] \in Session
  BY ZenonT(60) DEF Session, Good
<1>2. Named([s EXCEPT !.FtState = "Switch", !.txpos = n])
  BY DEF Session, Named, Good
<1> QED
  BY <1>1, <1>2 DEF Good

LEMMA AllReadGood ==
  ASSUME NEW s, Good(s), NEW f \in File
  PROVE  Good([s EXCEPT !.txfp = NoFile, !.state[f] = "IsSent", !.cursend = NoFile, !.TxState = "TxGNF"])
<1> DEFINE l == [s.state EXCEPT ![f] = "IsSent"]
<1>1. l \in [File -> FileState]
  BY StateTyped DEF FileState
<1> HIDE DEF l
<1>2. Good([s EXCEPT !.txfp = NoFile, !.state = l, !.cursend = NoFile, !.TxState = "TxGNF"])
  <2>1. [s EXCEPT !.txfp = NoFile, !.state = l, !.cursend = NoFile, !.TxState = "TxGNF"] \in Session
    BY <1>1, ZenonT(60) DEF Session, Good
  <2>2. Named([s EXCEPT !.txfp = NoFile, !.state = l, !.cursend = NoFile, !.TxState = "TxGNF"])
    BY <1>1 DEF Session, Named, Good
  <2> QED
    BY <2>1, <2>2 DEF Good
<1> QED
  BY <1>2 DEF l

LEMMA SendBlockTyped == ASSUME IInv, NEW p \in Party, SendBlock(p) PROVE IInv'
<1> DEFINE s == bp[p]
           f == s.cursend
           last == s.txpos >= Size[f]
           n == IF last THEN s.txpos ELSE s.txpos + 1
           sent == [s EXCEPT !.FtState = "Switch", !.txpos = IF last THEN @ ELSE @ + 1]
           read == [sent EXCEPT !.txfp = NoFile, !.state[f] = "IsSent", !.cursend = NoFile, !.TxState = "TxGNF"]
           data == [cmd |-> "DATA", file |-> f, offs |-> s.txpos + 1]
<1>1. Good(s)
  BY BpGood
<1>2. f \in File /\ s.txpos \in Nat
  BY <1>1, ZenonT(20) DEF SendBlock, Good, Session, Named
<1>3. n \in Nat /\ s.txpos + 1 \in Nat
  BY <1>2
<1>4. sent = [s EXCEPT !.FtState = "Switch", !.txpos = n]
  OBVIOUS
<1>5. wire' \in {wire, Sent(wire, p, data)} /\ UNCHANGED <<disk, line, sessions, mixed>>
  BY Zenon DEF SendBlock
<1>6. PICK t \in {sent, read} : Transmits(p, t)
  BY Zenon DEF SendBlock
<1>7. data \in Frame
  BY <1>2, <1>3, FramesTyped, Zenon
<1> HIDE DEF n, data
<1>8. Good(sent)
  <2> HIDE DEF sent
  <2> QED
    BY <1>1, <1>3, <1>4, BlockSentGood, Zenon
<1> HIDE DEF sent
<1>9. Good(read)
  BY <1>2, <1>8, AllReadGood, Zenon
<1>10. wire' \in [Party -> Seq(Frame)]
  <2>1. wire \in [Party -> Seq(Frame)]
    BY DEF IInv, TypeOK
  <2>2. Sent(wire, p, data) \in [Party -> Seq(Frame)]
    BY <1>7, <2>1, SentTyped, Zenon
  <2> QED
    BY <1>5, <2>1, <2>2, Zenon
<1> HIDE DEF read
<1> QED
  BY <1>5, <1>6, <1>8, <1>9, <1>10, RestSame, Step, Zenon DEF Transmits

LEMMA DisposedGood ==
  ASSUME NEW s, Good(s), NEW f \in File, NEW st \in {"Got", "Skipped"}
  PROVE  Good([s EXCEPT !.state[f] = st])
<1> DEFINE l == [s.state EXCEPT ![f] = st]
<1>1. l \in [File -> FileState]
  BY StateTyped DEF FileState
<1> HIDE DEF l
<1>2. Good([s EXCEPT !.state = l])
  <2>1. [s EXCEPT !.state = l] \in Session
    BY <1>1, ZenonT(60) DEF Session, Good
  <2>2. Named([s EXCEPT !.state = l])
    BY <1>1 DEF Session, Named, Good
  <2> QED
    BY <2>1, <2>2 DEF Good
<1> QED
  BY <1>2 DEF l

LEMMA ReadFailsTyped == ASSUME IInv, NEW p \in Party, ReadFails(p) PROVE IInv'
<1>1. bp[p].cursend \in File
  BY BpGood, Zenon DEF ReadFails, Good, Named
<1>2. Good(Ended([bp[p] EXCEPT !.state[bp[p].cursend] = "Skipped"], "failed"))
  BY <1>1, BpGood, DisposedGood, EndedGood, Zenon
<1> QED
  BY <1>2, TransmitsTyped, Zenon DEF ReadFails

LEMMA MessageTyped ==
  ASSUME IInv, NEW p \in Party, NEW cmd, Processes(p, cmd)
  PROVE  Good(Processed(bp[p])) /\ Message(p).file \in File /\ Message(p).offs \in Nat
<1>1. Good(bp[p]) /\ bp[p].queue # <<>>
  BY BpGood, Zenon DEF Processes
<1>2. Message(p) \in Queued
  BY <1>1, ProcessedGood, Zenon DEF Message
<1>3. Message(p).file \in File /\ Message(p).offs \in Nat
  BY <1>2, Zenon DEF Queued
<1> QED
  BY <1>1, <1>3, ProcessedGood, Zenon

LEMMA AskedAgainGood ==
  ASSUME NEW s, Good(s), NEW f \in File, NEW n \in Nat
  PROVE  Good([s EXCEPT !.state[f] = "NoState", !.offset[f] = n, !.TxState = "TxGNF"])
<1> DEFINE l == [s.state EXCEPT ![f] = "NoState"]
           o == [s.offset EXCEPT ![f] = n]
<1>1. l \in [File -> FileState]
  BY StateTyped DEF FileState
<1>2. o \in [File -> Nat]
  <2>1. s.offset \in [File -> Nat]
    BY ZenonT(20) DEF Good, Session
  <2> QED
    BY <2>1
<1> HIDE DEF l, o
<1>3. Good([s EXCEPT !.state = l, !.offset = o, !.TxState = "TxGNF"])
  <2>1. [s EXCEPT !.state = l, !.offset = o, !.TxState = "TxGNF"] \in Session
    BY <1>1, <1>2, ZenonT(60) DEF Session, Good
  <2>2. Named([s EXCEPT !.state = l, !.offset = o, !.TxState = "TxGNF"])
    BY <1>1, <1>2 DEF Session, Named, Good
  <2> QED
    BY <2>1, <2>2 DEF Good
<1> QED
  BY <1>3 DEF l, o

LEMMA ProcessGetTyped == ASSUME IInv, NEW p \in Party, ProcessGet(p) PROVE IInv'
<1> DEFINE m == Message(p)
           s == Processed(bp[p])
           again == [s EXCEPT !.state[m.file] = "NoState", !.offset[m.file] = m.offs, !.TxState = "TxGNF"]
<1>1. Good(s) /\ m.file \in File /\ m.offs \in Nat
  BY MessageTyped, Zenon DEF ProcessGet
<1>2. PICK t \in {s, again} : Transmits(p, t)
  BY Zenon DEF ProcessGet
<1>3. Good(again)
  BY <1>1, AskedAgainGood, Zenon
<1> HIDE DEF s, again
<1> QED
  BY <1>1, <1>2, <1>3, TransmitsTyped, Zenon DEF ProcessGet

LEMMA StopsSendingGood ==
  ASSUME NEW s, Good(s), NEW f PROVE Good(StopsSending(s, f))
<1>1. Good([s EXCEPT !.txfp = NoFile, !.cursend = NoFile, !.TxState = "TxGNF"])
  <2>1. [s EXCEPT !.txfp = NoFile, !.cursend = NoFile, !.TxState = "TxGNF"] \in Session
    BY ZenonT(60) DEF Session, Good
  <2>2. Named([s EXCEPT !.txfp = NoFile, !.cursend = NoFile, !.TxState = "TxGNF"])
    BY DEF Session, Named, Good
  <2> QED
    BY <2>1, <2>2 DEF Good
<1> QED
  BY <1>1, Zenon DEF StopsSending

LEMMA ProcessGotTyped == ASSUME IInv, NEW p \in Party, ProcessGot(p) PROVE IInv'
<1> DEFINE f == Message(p).file
           s == Processed(bp[p])
           got == [StopsSending(s, f) EXCEPT !.state[f] = "Got"]
<1>1. Good(s) /\ f \in File
  BY MessageTyped, Zenon DEF ProcessGot
<1>2. PICK t \in {s, got} : Transmits(p, t)
  BY Zenon DEF ProcessGot
<1>3. Good(got)
  BY <1>1, StopsSendingGood, DisposedGood, Zenon
<1>4. outbound' \in {outbound, outbound \ {f}} /\ UNCHANGED <<wire, tmp, delivered, world, mixed>>
  BY Zenon DEF ProcessGot
<1>5. RestOK' /\ wire' \in [Party -> Seq(Frame)]
  BY <1>4 DEF IInv, TypeOK, RestOK, world
<1> HIDE DEF s, got
<1> QED
  BY <1>1, <1>2, <1>3, <1>5, Step, Zenon DEF Transmits

LEMMA ProcessSkipTyped == ASSUME IInv, NEW p \in Party, ProcessSkip(p) PROVE IInv'
<1> DEFINE f == Message(p).file
           s == Processed(bp[p])
           skipped == [StopsSending(s, f) EXCEPT !.state[f] = "Skipped"]
<1>1. Good(s) /\ f \in File
  BY MessageTyped, Zenon DEF ProcessSkip
<1>2. PICK t \in {s, skipped} : Transmits(p, t)
  BY Zenon DEF ProcessSkip
<1>3. Good(skipped)
  BY <1>1, StopsSendingGood, DisposedGood, Zenon
<1> HIDE DEF s, skipped
<1> QED
  BY <1>1, <1>2, <1>3, TransmitsTyped, Zenon DEF ProcessSkip

LEMMA CloseNoFileTyped == ASSUME IInv, NEW p \in Party, CloseNoFile(p) PROVE IInv'
<1>1. Good(Ended(bp[p], "failed"))
  BY BpGood, EndedGood, Zenon
<1> QED
  BY <1>1, TransmitsTyped, Zenon DEF CloseNoFile

LEMMA WaitAcksTyped == ASSUME IInv, NEW p \in Party, WaitAcks(p) PROVE IInv'
<1> DEFINE s == [bp[p] EXCEPT !.FtState = "Switch"]
<1>1. Good(s)
  BY BpGood, TransmitGood, Zenon
<1>2. PICK t \in {s, Ended(ListCleared(s), "ok"), NextBatch(s), ListCleared(s)} : Transmits(p, t)
  BY Zenon DEF WaitAcks
<1> HIDE DEF s
<1>3. Good(t)
  BY <1>1, ListClearedGood, EndedGood, NextBatchGood, Zenon
<1> QED
  BY <1>2, <1>3, TransmitsTyped, Zenon DEF WaitAcks

LEMMA TransmitTyped == ASSUME IInv, NEW p \in Party, Transmit(p) PROVE IInv'
BY MakeListTyped, SendFileTyped, PassFileTyped, SendEOBTyped, SendBlockTyped, ReadFailsTyped, ProcessGetTyped,
   ProcessGotTyped, ProcessSkipTyped, CloseNoFileTyped, WaitAcksTyped, Zenon DEF Transmit

(***************************************************************************)
(* The end of a session, and what comes from outside                       *)
(***************************************************************************)

LEMMA FailsTyped == ASSUME IInv, NEW p \in Party, Fails(p) PROVE IInv'
<1>1. Good(Ended(bp[p], "failed")) /\ bp' = [bp EXCEPT ![p] = Ended(bp[p], "failed")]
  BY BpGood, EndedGood, Zenon DEF Fails
<1> QED
  BY <1>1, TransmitsTyped, Zenon DEF Fails, Transmits

LEMMA CutTyped == ASSUME IInv, Cut PROVE IInv'
<1>1. PICK n \in [Party -> 0..Window] :
        wire' = [p \in Party |-> SubSeq(wire[p], 1, IF n[p] < Len(wire[p]) THEN n[p] ELSE Len(wire[p]))]
  BY DEF Cut
<1>2. ASSUME NEW p \in Party
      PROVE  SubSeq(wire[p], 1, IF n[p] < Len(wire[p]) THEN n[p] ELSE Len(wire[p])) \in Seq(Frame)
  <2>1. wire[p] \in Seq(Frame) /\ n[p] \in Nat
    BY DEF IInv, TypeOK
  <2> DEFINE k == IF n[p] < Len(wire[p]) THEN n[p] ELSE Len(wire[p])
  <2>2. k \in 0..Len(wire[p])
    BY <2>1
  <2> HIDE DEF k
  <2>3. SubSeq(wire[p], 1, k) \in Seq(Frame)
    BY <2>1, <2>2
  <2> QED
    BY <2>3 DEF k
<1>3. wire' \in [Party -> Seq(Frame)]
  BY <1>1, <1>2, Zenon
<1>4. line' \in BOOLEAN /\ UNCHANGED <<bp, disk, sessions, mixed>>
  BY DEF Cut
<1> QED
  BY <1>3, <1>4 DEF IInv, TypeOK, disk

LEMMA KilledTyped == ASSUME IInv, NEW p \in Party, Killed(p) PROVE IInv'
<1>1. Good(Ended(bp[p], "failed"))
  BY BpGood, EndedGood, Zenon
<1>2. tmp' \in [File -> Seq(Block)]
  BY UnflushedTyped, Zenon DEF Killed, IInv, TypeOK
<1>3. RestOK' /\ wire' \in [Party -> Seq(Frame)]
  BY <1>2 DEF Killed, IInv, TypeOK, RestOK, world
<1> QED
  BY <1>1, <1>3, Step, Zenon DEF Killed

LEMMA KilledBeforeMoveTyped == ASSUME IInv, NEW p \in Party, KilledBeforeMove(p) PROVE IInv'
<1> DEFINE got == [cmd |-> "GOT", file |-> bp[p].rname, offs |-> 0]
<1>1. Arrives(p) /\ Incoming(p).cmd = "DATA" /\ bp[p].RxState = "RxReceD"
  BY DEF KilledBeforeMove
<1>2. Good(Ended(bp[p], "failed")) /\ bp' = [bp EXCEPT ![p] = Ended(bp[p], "failed")]
  BY BpGood, EndedGood, Zenon DEF KilledBeforeMove
<1>3. tmp' \in [File -> Seq(Block)]
  BY <1>1, UnflushedTyped, WrittenTyped, Zenon DEF KilledBeforeMove
<1>4. RestOK'
  BY <1>3 DEF KilledBeforeMove, IInv, TypeOK, RestOK, world
<1>5. got \in Frame
  <2>1. bp[p].rname \in File /\ 0 \in Nat
    BY <1>1, BpGood, Zenon DEF Good, Named
  <2> QED
    BY <2>1, FramesTyped, Zenon
<1>6. wire' \in {Rest(p), Sent(Rest(p), p, got)}
  BY Zenon DEF KilledBeforeMove
<1> HIDE DEF got
<1>7. wire' \in [Party -> Seq(Frame)]
  <2>1. Rest(p) \in [Party -> Seq(Frame)]
    BY <1>1, ArrivesTyped, Zenon
  <2>2. Sent(Rest(p), p, got) \in [Party -> Seq(Frame)]
    BY <1>5, <2>1, SentTyped, Zenon
  <2> QED
    BY <1>6, <2>1, <2>2, Zenon
<1> QED
  BY <1>2, <1>4, <1>7, Step, Zenon

LEMMA RetryTyped == ASSUME IInv, Retry PROVE IInv'
<1>1. \A p \in Party : Good(NewSession(bp[p].Minor))
  <2>1. \A p \in Party : bp[p].Minor \in 0..1
    BY BpGood, ZenonT(20) DEF Good, Session
  <2> QED
    BY <2>1, NewSessionGood, Zenon
<1>2. bp' = [p \in Party |-> NewSession(bp[p].Minor)]
  BY DEF Retry
<1>3. bp' \in [Party -> Session] /\ \A p \in Party : Named(bp'[p])
  BY <1>1, <1>2, Zenon DEF Good
<1>4. wire' \in [Party -> Seq(Frame)] /\ line' \in BOOLEAN
  BY DEF Retry
<1>5. sessions' \in 1..MaxSessions
  BY LimitsKnown DEF Retry, IInv, TypeOK
<1>6. UNCHANGED <<disk, mixed>>
  BY DEF Retry
<1>7. /\ outbound' \subseteq File
      /\ version' \in [File -> {1, 2}]
      /\ tmp' \in [File -> Seq(Block)]
      /\ delivered' \in [File -> Seq(Seq(Block))]
      /\ mixed' \in BOOLEAN
  BY <1>6 DEF IInv, TypeOK, disk
<1> QED
  BY <1>3, <1>4, <1>5, <1>7, Zenon DEF IInv, TypeOK

LEMMA ReplaceTyped == ASSUME IInv, NEW f \in File, Replace(f) PROVE IInv'
BY DEF Replace, IInv, TypeOK

LEMMA UnchangedTyped == ASSUME IInv, UNCHANGED vars PROVE IInv'
BY DEF vars, IInv, TypeOK

(***************************************************************************)
(* The theorem                                                             *)
(***************************************************************************)

LEMMA InitTyped == Init => IInv
<1> SUFFICES ASSUME Init PROVE IInv
  OBVIOUS
<1>1. PICK minor \in Minors : bp = [p \in Party |-> NewSession(minor)]
  BY DEF Init
<1>2. Good(NewSession(minor))
  BY NewSessionGood, LimitsKnown
<1>3. bp \in [Party -> Session] /\ \A p \in Party : Named(bp[p])
  BY <1>1, <1>2, Zenon DEF Good
<1>4. ASSUME NEW f \in File PROVE Blocks(f, 1, Start[f]) \in Seq(Block)
  <2>1. Start[f] \in Nat /\ \A i \in 1..Start[f] : <<f, 1, i>> \in Block
    <3>1. Start[f] \in Nat
      BY FilesKnown, Zenon
    <3>2. \A i \in 1..Start[f] : i \in Nat
      BY <3>1
    <3>3. \A i \in Nat : <<f, 1, i>> \in File \X {1, 2} \X Nat
      BY Zenon
    <3> QED
      BY <3>1, <3>2, <3>3, Zenon DEF Block
  <2>2. Blocks(f, 1, Start[f]) \in [1..Start[f] -> Block]
    BY <2>1, Zenon DEF Blocks
  <2>3. [1..Start[f] -> Block] \in {[1..n -> Block] : n \in Nat}
    BY <2>1, Zenon
  <2> HIDE DEF Blocks
  <2>4. Blocks(f, 1, Start[f]) \in UNION {[1..n -> Block] : n \in Nat}
    BY <2>2, <2>3, Zenon
  <2> QED
    BY <2>4, SeqDef, Zenon
<1>5. tmp \in [File -> Seq(Block)]
  BY <1>4 DEF Init
<1>6. wire \in [Party -> Seq(Frame)] /\ delivered \in [File -> Seq(Seq(Block))]
  <2>1. <<>> \in Seq(Frame) /\ <<>> \in Seq(Seq(Block))
    OBVIOUS
  <2> QED
    BY <2>1, Zenon DEF Init
<1>7. line \in BOOLEAN /\ outbound \subseteq File /\ version \in [File -> {1, 2}] /\ mixed \in BOOLEAN
  BY Zenon DEF Init
<1>8. sessions \in 1..MaxSessions
  BY LimitsKnown DEF Init
<1> QED
  BY <1>3, <1>5, <1>6, <1>7, <1>8, Zenon DEF IInv, TypeOK

LEMMA NextTyped == IInv /\ [Next]_vars => IInv'
<1> SUFFICES ASSUME IInv, [Next]_vars PROVE IInv'
  OBVIOUS
<1>1. CASE \E p \in Party : HangUp(p) \/ Timeout(p)
  BY <1>1, FailsTyped, Zenon DEF HangUp, Timeout
<1>2. CASE \E p \in Party : Receive(p) \/ Transmit(p) \/ Killed(p) \/ KilledBeforeMove(p)
  BY <1>2, ReceiveTyped, TransmitTyped, KilledTyped, KilledBeforeMoveTyped, Zenon
<1>3. CASE Cut \/ Retry \/ (\E f \in File : Replace(f)) \/ UNCHANGED vars
  BY <1>3, CutTyped, RetryTyped, ReplaceTyped, UnchangedTyped, Zenon
<1> QED
  BY <1>1, <1>2, <1>3, Zenon DEF Next

\* Every variable keeps its type, whatever the files, faults and retries are: the
\* fields of struct bp, the frames, the partial files and what was delivered.
THEOREM TypeCorrect == Spec => []TypeOK
<1>1. IInv => TypeOK
  BY DEF IInv
<1> QED
  BY <1>1, InitTyped, NextTyped, PTL DEF Spec

(***************************************************************************)
(* What a sequence of frames says of a file: how often it is named by      *)
(* frames of some commands, and at which offset.                           *)
(***************************************************************************)
Answering == {"GET", "GOT", "SKIP"}

\* The frames of some commands that name a file, and how many there are.
Marks(w, cmds, f) == {i \in 1..Len(w) : w[i].cmd \in cmds /\ w[i].file = f}
Count(w, cmds, f) == Cardinality(Marks(w, cmds, f))
Marked(m, cmds, f) == m.cmd \in cmds /\ m.file = f

\* A frame that gives an offset in the file gives n.
Fits(w, cmd, f, n) == \A i \in 1..Len(w) : Marked(w[i], {cmd}, f) /\ w[i].offs > 0 => w[i].offs = n

LEMMA CountType ==
  ASSUME NEW S, NEW w \in Seq(S), NEW cmds, NEW f
  PROVE  IsFiniteSet(Marks(w, cmds, f)) /\ Count(w, cmds, f) \in Nat
<1>1. Len(w) \in Nat
  BY LenProperties
<1>2. IsFiniteSet(1..Len(w)) /\ Marks(w, cmds, f) \in SUBSET (1..Len(w))
  BY <1>1, FS_Interval DEF Marks
<1> QED
  BY <1>2, FS_Subset, FS_CardinalityType DEF Count

LEMMA CountNone ==
  ASSUME NEW S, NEW w \in Seq(S), NEW cmds, NEW f
  PROVE  Count(w, cmds, f) = 0 <=> \A i \in 1..Len(w) : ~Marked(w[i], cmds, f)
<1>1. Count(w, cmds, f) = 0 <=> Marks(w, cmds, f) = {}
  BY CountType, FS_EmptySet DEF Count
<1> QED
  BY <1>1 DEF Marks, Marked

LEMMA CountAppend ==
  ASSUME NEW S, NEW w \in Seq(S), NEW m \in S, NEW cmds, NEW f
  PROVE  Count(Append(w, m), cmds, f) = Count(w, cmds, f) + (IF Marked(m, cmds, f) THEN 1 ELSE 0)
<1>1. /\ Len(w) \in Nat /\ Len(Append(w, m)) = Len(w) + 1
      /\ \A i \in 1..Len(w) : Append(w, m)[i] = w[i]
      /\ Append(w, m)[Len(w) + 1] = m
  BY LenProperties, AppendProperties
<1>2. IsFiniteSet(Marks(w, cmds, f)) /\ Count(w, cmds, f) \in Nat
  BY CountType
<1>3. CASE Marked(m, cmds, f)
  <2>1. Marks(Append(w, m), cmds, f) = Marks(w, cmds, f) \union {Len(w) + 1}
    BY <1>1, <1>3 DEF Marks, Marked
  <2>2. Len(w) + 1 \notin Marks(w, cmds, f)
    BY <1>1 DEF Marks
  <2> QED
    BY <1>2, <1>3, <2>1, <2>2, FS_AddElement DEF Count
<1>4. CASE ~Marked(m, cmds, f)
  <2>1. Marks(Append(w, m), cmds, f) = Marks(w, cmds, f)
    BY <1>1, <1>4 DEF Marks, Marked
  <2> QED
    BY <1>2, <1>4, <2>1 DEF Count
<1> QED
  BY <1>3, <1>4

LEMMA CountTail ==
  ASSUME NEW S, NEW w \in Seq(S), w # <<>>, NEW cmds, NEW f
  PROVE  Count(w, cmds, f) = Count(Tail(w), cmds, f) + (IF Marked(Head(w), cmds, f) THEN 1 ELSE 0)
<1> DEFINE A == Marks(w, cmds, f) \ {1}
           B == Marks(Tail(w), cmds, f)
           g == [i \in A |-> i - 1]
<1>1. /\ Len(w) \in Nat /\ Len(w) # 0 /\ Len(Tail(w)) = Len(w) - 1 /\ Tail(w) \in Seq(S)
      /\ \A i \in 1..Len(Tail(w)) : Tail(w)[i] = w[i + 1]
      /\ Head(w) = w[1]
  BY EmptySeq, LenProperties, HeadTailProperties
<1>2. IsFiniteSet(Marks(w, cmds, f)) /\ Count(w, cmds, f) \in Nat
  BY CountType
<1>3. IsFiniteSet(A) /\ IsFiniteSet(B)
      /\ Cardinality(A) = IF 1 \in Marks(w, cmds, f) THEN Count(w, cmds, f) - 1 ELSE Count(w, cmds, f)
  BY <1>1, <1>2, CountType, FS_RemoveElement DEF Count
<1>4. \A i \in A : i - 1 \in B /\ i \in Int
  BY <1>1 DEF Marks
<1>5. \A j \in B : j + 1 \in A /\ j \in Int
  BY <1>1 DEF Marks
<1> HIDE DEF A, B
<1>6. g \in [A -> B] /\ (\A i, j \in A : g[i] = g[j] => i = j) /\ \A j \in B : g[j + 1] = j
  BY <1>4, <1>5
<1> HIDE DEF g
<1>7. g \in Bijection(A, B)
  BY <1>5, <1>6 DEF Bijection, Injection, Surjection, IsInjective
<1>8. Cardinality(B) = Cardinality(A)
  BY <1>3, <1>7, FS_Bijection DEF ExistsBijection
<1>9. 1 \in Marks(w, cmds, f) <=> Marked(Head(w), cmds, f)
  BY <1>1 DEF Marks, Marked
<1> QED
  BY <1>2, <1>3, <1>8, <1>9 DEF B, Count

LEMMA CountPrefix ==
  ASSUME NEW S, NEW w \in Seq(S), NEW n \in 0..Len(w), NEW cmds, NEW f
  PROVE  Count(SubSeq(w, 1, n), cmds, f) <= Count(w, cmds, f)
<1>1. Len(w) \in Nat /\ n \in Nat /\ n <= Len(w)
  BY LenProperties
<1>2. /\ Len(SubSeq(w, 1, n)) = n
      /\ \A i \in 1..n : SubSeq(w, 1, n)[i] = w[i]
  BY <1>1
<1>3. Marks(SubSeq(w, 1, n), cmds, f) \in SUBSET Marks(w, cmds, f)
  BY <1>1, <1>2 DEF Marks
<1> QED
  BY <1>3, CountType, FS_Subset DEF Count

LEMMA FitsAppend ==
  ASSUME NEW S, NEW w \in Seq(S), NEW m \in S, NEW cmd, NEW f, NEW n, Fits(w, cmd, f, n),
         Marked(m, {cmd}, f) /\ m.offs > 0 => m.offs = n
  PROVE  Fits(Append(w, m), cmd, f, n)
<1>1. /\ Len(w) \in Nat /\ Len(Append(w, m)) = Len(w) + 1
      /\ \A i \in 1..Len(w) : Append(w, m)[i] = w[i]
      /\ Append(w, m)[Len(w) + 1] = m
  BY LenProperties, AppendProperties
<1>2. \A i \in 1..(Len(w) + 1) : i \in 1..Len(w) \/ i = Len(w) + 1
  BY <1>1
<1> QED
  BY <1>1, <1>2 DEF Fits

LEMMA FitsTail ==
  ASSUME NEW S, NEW w \in Seq(S), w # <<>>, NEW cmd, NEW f, NEW n, Fits(w, cmd, f, n)
  PROVE  Fits(Tail(w), cmd, f, n) /\ (Marked(Head(w), {cmd}, f) /\ Head(w).offs > 0 => Head(w).offs = n)
<1>1. /\ Len(w) \in Nat /\ Len(w) # 0 /\ Len(Tail(w)) = Len(w) - 1
      /\ \A i \in 1..Len(Tail(w)) : Tail(w)[i] = w[i + 1]
      /\ Head(w) = w[1]
  BY EmptySeq, LenProperties, HeadTailProperties
<1>2. \A i \in 1..(Len(w) - 1) : i + 1 \in 1..Len(w)
  BY <1>1
<1>3. 1 \in 1..Len(w)
  BY <1>1
<1> QED
  BY <1>1, <1>2, <1>3 DEF Fits

LEMMA FitsPrefix ==
  ASSUME NEW S, NEW w \in Seq(S), NEW k \in 0..Len(w), NEW cmd, NEW f, NEW n, Fits(w, cmd, f, n)
  PROVE  Fits(SubSeq(w, 1, k), cmd, f, n)
<1>1. Len(w) \in Nat /\ k \in Nat /\ k <= Len(w)
  BY LenProperties
<1>2. /\ Len(SubSeq(w, 1, k)) = k
      /\ \A i \in 1..k : SubSeq(w, 1, k)[i] = w[i]
      /\ \A i \in 1..k : i \in 1..Len(w)
  BY <1>1
<1> QED
  BY <1>2 DEF Fits

LEMMA FitsNone ==
  ASSUME NEW S, NEW w \in Seq(S), NEW cmds, NEW cmd \in cmds, NEW f, NEW n, Count(w, cmds, f) = 0
  PROVE  Fits(w, cmd, f, n)
BY CountNone DEF Fits, Marked

(***************************************************************************)
(* The stream of a wire.  A frame announces a file at an offset or carries *)
(* its next block; P is the place of the stream before the first frame and *)
(* after each.  It begins where the receiver is and ends where the sender  *)
(* is, if these are somewhere.                                             *)
(***************************************************************************)
Place == (File \union {NoFile}) \X Nat
Streaming(m) == m.cmd \in {"FILE", "DATA"}
Placed(m) == <<m.file, m.offs>>

Track(w, P) ==
  \A i \in 1..Len(w) :
    /\ Streaming(w[i]) => P[i] = Placed(w[i])
    /\ ~Streaming(w[i]) => P[i] = P[i - 1]
    /\ w[i].cmd = "DATA" => P[i - 1] = <<w[i].file, w[i].offs - 1>>

Flows(w, in, out) ==
  \E P \in [0..Len(w) -> Place] : Track(w, P) /\ (\A x \in in : P[0] = x) /\ (\A x \in out : P[Len(w)] = x)

LEMMA FlowsLess ==
  ASSUME NEW w, NEW in, NEW out, Flows(w, in, out), NEW a \in SUBSET in, NEW b \in SUBSET out
  PROVE  Flows(w, a, b)
BY Zenon DEF Flows

LEMMA FlowsEmpty == ASSUME NEW x \in Place PROVE Flows(<<>>, {x}, {x}) /\ Flows(<<>>, {}, {})
<1> DEFINE P == [i \in 0..0 |-> x]
<1>1. Len(<<>>) = 0 /\ 0 \in 0..0
  OBVIOUS
<1>2. P \in [0..0 -> Place] /\ P[0] = x
  BY <1>1
<1>3. Track(<<>>, P)
  BY <1>1 DEF Track
<1> QED
  BY <1>1, <1>2, <1>3 DEF Flows

LEMMA PlacedTyped == ASSUME NEW m \in Frame, Streaming(m) PROVE Placed(m) \in Place /\ m.offs \in Nat
<1>1. m.file \in File /\ m.offs \in Nat
  BY FrameTyped DEF Streaming
<1> QED
  BY <1>1 DEF Placed, Place

LEMMA FlowsAppend ==
  ASSUME NEW w \in Seq(Frame), NEW m \in Frame, NEW in, NEW out, Flows(w, in, out),
         m.cmd = "DATA" => <<m.file, m.offs - 1>> \in out
  PROVE  Flows(Append(w, m), in, IF Streaming(m) THEN {Placed(m)} ELSE out)
<1> DEFINE n == Len(w)
           v == Append(w, m)
<1>1. /\ n \in Nat /\ Len(v) = n + 1
      /\ \A i \in 1..n : v[i] = w[i]
      /\ v[n + 1] = m
  BY LenProperties, AppendProperties
<1>2. PICK P \in [0..n -> Place] : Track(w, P) /\ (\A x \in in : P[0] = x) /\ (\A x \in out : P[n] = x)
  BY DEF Flows
<1> DEFINE Q == [i \in 0..(n + 1) |-> IF i = n + 1 THEN (IF Streaming(m) THEN Placed(m) ELSE P[n]) ELSE P[i]]
<1> HIDE DEF n, v
<1>3. /\ \A i \in 0..n : i \in 0..(n + 1) /\ Q[i] = P[i]
      /\ Q[n + 1] = IF Streaming(m) THEN Placed(m) ELSE P[n]
  BY <1>1
<1>4. Q \in [0..(n + 1) -> Place]
  <2>1. (IF Streaming(m) THEN Placed(m) ELSE P[n]) \in Place
    BY <1>1, PlacedTyped
  <2>2. \A i \in 0..(n + 1) : i # n + 1 => i \in 0..n
    BY <1>1
  <2> QED
    BY <2>1, <2>2
<1> HIDE DEF Q
<1>5. Track(v, Q)
  <2> SUFFICES ASSUME NEW i \in 1..(n + 1)
               PROVE  /\ Streaming(v[i]) => Q[i] = Placed(v[i])
                      /\ ~Streaming(v[i]) => Q[i] = Q[i - 1]
                      /\ v[i].cmd = "DATA" => Q[i - 1] = <<v[i].file, v[i].offs - 1>>
    BY <1>1 DEF Track
  <2>1. CASE i = n + 1
    <3>1. i - 1 = n /\ v[i] = m /\ Q[n] = P[n]
      BY <1>1, <1>3, <2>1
    <3>2. m.cmd = "DATA" => P[n] = <<m.file, m.offs - 1>>
      BY <1>2
    <3> QED
      BY <1>3, <2>1, <3>1, <3>2
  <2>2. CASE i # n + 1
    <3>1. i \in 1..n /\ i \in 0..n /\ i - 1 \in 0..n
      BY <1>1, <2>2
    <3>2. v[i] = w[i] /\ Q[i] = P[i] /\ Q[i - 1] = P[i - 1]
      BY <1>1, <1>3, <3>1
    <3>3. /\ Streaming(w[i]) => P[i] = Placed(w[i])
          /\ ~Streaming(w[i]) => P[i] = P[i - 1]
          /\ w[i].cmd = "DATA" => P[i - 1] = <<w[i].file, w[i].offs - 1>>
      BY <1>2, <3>1 DEF Track, n
    <3> QED
      BY <3>2, <3>3
  <2> QED
    BY <2>1, <2>2
<1>6. 0 \in 0..n
  BY <1>1
<1>7. (\A x \in in : Q[0] = x) /\ \A x \in (IF Streaming(m) THEN {Placed(m)} ELSE out) : Q[n + 1] = x
  BY <1>2, <1>3, <1>6
<1> QED
  BY <1>1, <1>4, <1>5, <1>7 DEF Flows, v

LEMMA FlowsTail ==
  ASSUME NEW w \in Seq(Frame), w # <<>>, NEW in, NEW out, Flows(w, in, out)
  PROVE  LET m == Head(w) IN
         /\ Flows(Tail(w), IF Streaming(m) THEN {Placed(m)} ELSE in, out)
         /\ m.cmd = "DATA" => \A x \in in : x = <<m.file, m.offs - 1>>
<1> DEFINE n == Len(w)
           m == Head(w)
           v == Tail(w)
<1>1. /\ n \in Nat /\ n # 0 /\ Len(v) = n - 1
      /\ \A i \in 1..(n - 1) : v[i] = w[i + 1]
      /\ m = w[1]
  BY EmptySeq, LenProperties, HeadTailProperties
<1>2. PICK P \in [0..n -> Place] : Track(w, P) /\ (\A x \in in : P[0] = x) /\ (\A x \in out : P[n] = x)
  BY DEF Flows
<1> DEFINE Q == [i \in 0..(n - 1) |-> P[i + 1]]
<1> HIDE DEF n, v, m
<1>3. \A i \in 0..(n - 1) : i + 1 \in 1..n /\ i + 1 \in 0..n /\ Q[i] = P[i + 1]
  BY <1>1
<1>4. Q \in [0..(n - 1) -> Place]
  BY <1>3
<1> HIDE DEF Q
<1>5. Track(v, Q)
  <2> SUFFICES ASSUME NEW i \in 1..(n - 1)
               PROVE  /\ Streaming(v[i]) => Q[i] = Placed(v[i])
                      /\ ~Streaming(v[i]) => Q[i] = Q[i - 1]
                      /\ v[i].cmd = "DATA" => Q[i - 1] = <<v[i].file, v[i].offs - 1>>
    BY <1>1 DEF Track
  <2>1. i \in 0..(n - 1) /\ i - 1 \in 0..(n - 1) /\ i + 1 \in 1..n /\ (i - 1) + 1 = i /\ (i + 1) - 1 = i
    BY <1>1
  <2>2. v[i] = w[i + 1] /\ Q[i] = P[i + 1] /\ Q[i - 1] = P[i]
    BY <1>1, <1>3, <2>1
  <2>3. /\ Streaming(w[i + 1]) => P[i + 1] = Placed(w[i + 1])
        /\ ~Streaming(w[i + 1]) => P[i + 1] = P[(i + 1) - 1]
        /\ w[i + 1].cmd = "DATA" => P[(i + 1) - 1] = <<w[i + 1].file, w[i + 1].offs - 1>>
    BY <1>2, <2>1 DEF Track, n
  <2> QED
    BY <2>1, <2>2, <2>3
<1>6. 1 \in 1..n /\ 0 \in 0..(n - 1) /\ n - 1 \in 0..(n - 1) /\ (n - 1) + 1 = n
  BY <1>1
<1>7. /\ Streaming(m) => P[1] = Placed(m)
      /\ ~Streaming(m) => P[1] = P[0]
      /\ m.cmd = "DATA" => P[0] = <<m.file, m.offs - 1>>
  <2>1. /\ Streaming(w[1]) => P[1] = Placed(w[1])
        /\ ~Streaming(w[1]) => P[1] = P[1 - 1]
        /\ w[1].cmd = "DATA" => P[1 - 1] = <<w[1].file, w[1].offs - 1>>
    BY <1>2, <1>6 DEF Track, n
  <2> QED
    BY <1>1, <2>1
<1>8. Q[0] = P[1] /\ Q[n - 1] = P[n]
  BY <1>3, <1>6
<1>9. /\ \A x \in (IF Streaming(m) THEN {Placed(m)} ELSE in) : Q[0] = x
      /\ \A x \in out : Q[n - 1] = x
      /\ m.cmd = "DATA" => \A x \in in : x = <<m.file, m.offs - 1>>
  BY <1>2, <1>7, <1>8
<1> QED
  BY <1>1, <1>4, <1>5, <1>9 DEF Flows, m, v

LEMMA FlowsPrefix ==
  ASSUME NEW w \in Seq(Frame), NEW k \in 0..Len(w), NEW in, NEW out, Flows(w, in, out)
  PROVE  Flows(SubSeq(w, 1, k), in, {})
<1> DEFINE n == Len(w)
           v == SubSeq(w, 1, k)
<1>0. n \in Nat /\ k \in Nat /\ k <= n
  BY LenProperties
<1>1. /\ Len(v) = k
      /\ \A i \in 1..k : v[i] = w[i]
  BY <1>0
<1>2. PICK P \in [0..n -> Place] : Track(w, P) /\ (\A x \in in : P[0] = x)
  BY DEF Flows
<1> DEFINE Q == [i \in 0..k |-> P[i]]
<1> HIDE DEF n, v
<1>3. \A i \in 0..k : i \in 0..n /\ Q[i] = P[i]
  BY <1>0
<1>4. Q \in [0..k -> Place]
  BY <1>3
<1> HIDE DEF Q
<1>5. Track(v, Q)
  <2> SUFFICES ASSUME NEW i \in 1..k
               PROVE  /\ Streaming(v[i]) => Q[i] = Placed(v[i])
                      /\ ~Streaming(v[i]) => Q[i] = Q[i - 1]
                      /\ v[i].cmd = "DATA" => Q[i - 1] = <<v[i].file, v[i].offs - 1>>
    BY <1>1 DEF Track
  <2>1. i \in 0..k /\ i - 1 \in 0..k /\ i \in 1..n
    BY <1>0
  <2>2. v[i] = w[i] /\ Q[i] = P[i] /\ Q[i - 1] = P[i - 1]
    BY <1>1, <1>3, <2>1
  <2>3. /\ Streaming(w[i]) => P[i] = Placed(w[i])
        /\ ~Streaming(w[i]) => P[i] = P[i - 1]
        /\ w[i].cmd = "DATA" => P[i - 1] = <<w[i].file, w[i].offs - 1>>
    BY <1>2, <2>1 DEF Track, n
  <2> QED
    BY <2>2, <2>3
<1>6. 0 \in 0..k
  BY <1>0
<1>7. \A x \in in : Q[0] = x
  BY <1>2, <1>3, <1>6
<1> QED
  BY <1>1, <1>4, <1>5, <1>7 DEF Flows, v

(***************************************************************************)
(* What the steps of a session leave alone.                                *)
(***************************************************************************)
KeepRx(s, t) ==
  /\ t.RxState = s.RxState /\ t.rname = s.rname /\ t.rxfp = s.rxfp /\ t.rxpos = s.rxpos
  /\ t.rxbytes = s.rxbytes
KeepTx(s, t) ==
  /\ t.TxState = s.TxState /\ t.cursend = s.cursend /\ t.txpos = s.txpos
  /\ t.tosend = s.tosend /\ t.state = s.state /\ t.offset = s.offset
Keep(s, t) == KeepRx(s, t) /\ KeepTx(s, t) /\ t.queue = s.queue
KeepOpen(s, t) == t.rname = s.rname /\ t.rxfp = s.rxfp /\ t.rxbytes = s.rxbytes
Over(s) == s.FtState = "Done"

LEMMA KeepTrans ==
  ASSUME NEW s, NEW t, NEW u
  PROVE  /\ KeepRx(s, t) /\ KeepRx(t, u) => KeepRx(s, u)
         /\ KeepTx(s, t) /\ KeepTx(t, u) => KeepTx(s, u)
         /\ Keep(s, t) /\ Keep(t, u) => Keep(s, u)
         /\ Keep(s, s)
BY Zenon DEF KeepRx, KeepTx, Keep

LEMMA ReceivedView == ASSUME NEW s, Good(s) PROVE Keep(s, Received(s)) /\ ~Over(Received(s))
<1>1. s \in Session
  BY DEF Good
<1> QED
  BY <1>1 DEF Received, Session, Keep, KeepRx, KeepTx, Over

LEMMA SentCommandView ==
  ASSUME NEW s, Good(s), NEW cmd
  PROVE  Keep(s, SentCommand(s, cmd)) /\ SentCommand(s, cmd).FtState = s.FtState
<1>1. s \in Session
  BY DEF Good
<1> QED
  BY <1>1 DEF SentCommand, Session, Keep, KeepRx, KeepTx

LEMMA PolledView ==
  ASSUME IInv, NEW p \in Party
  PROVE  Keep(bp[p], Polled(p)) /\ Polled(p).FtState = bp[p].FtState /\ Polled(p).rxbytes = bp[p].rxbytes
<1>1. bp[p] \in Session
  BY BpGood DEF Good
<1> QED
  BY <1>1 DEF Polled, Session, Keep, KeepRx, KeepTx

LEMMA EndedView == ASSUME NEW s, Good(s), NEW rc PROVE Over(Ended(s, rc))
<1>1. s \in Session
  BY DEF Good
<1> QED
  BY <1>1 DEF Ended, Session, Over

LEMMA ListClearedView ==
  ASSUME NEW s, Good(s)
  PROVE  LET t == ListCleared(s) IN
         /\ KeepRx(s, t) /\ t.queue = s.queue /\ t.FtState = s.FtState
         /\ t.TxState = s.TxState /\ t.cursend = s.cursend /\ t.txpos = s.txpos
         /\ \A f \in File : t.state[f] = "Absent"
<1>1. s \in Session
  BY DEF Good
<1> QED
  BY <1>1 DEF ListCleared, NoList, Session, KeepRx

LEMMA NextBatchView ==
  ASSUME NEW s, Good(s)
  PROVE  LET t == NextBatch(s) IN
         /\ t.queue = s.queue /\ t.FtState = s.FtState /\ t.TxState = "TxGNF" /\ t.RxState = "RxWaitF"
         /\ t.rname = s.rname /\ t.rxfp = s.rxfp /\ t.rxbytes = s.rxbytes
         /\ \A f \in File : t.state[f] = "Absent"
<1> DEFINE c == ListCleared(s)
<1>1. c \in Session
  BY ListClearedGood DEF Good
<1>2. /\ KeepRx(s, c) /\ c.queue = s.queue /\ c.FtState = s.FtState
      /\ \A f \in File : c.state[f] = "Absent"
  BY ListClearedView
<1>3. PICK n : NextBatch(s) = [c EXCEPT !.batchnr = n, !.local_EOB = FALSE, !.remote_EOB = FALSE,
                                  !.messages = 0, !.TxState = "TxGNF", !.RxState = "RxWaitF"]
  BY Zenon DEF NextBatch
<1> HIDE DEF c
<1> QED
  BY <1>1, <1>2, <1>3 DEF Session, KeepRx

LEMMA ProcessedView ==
  ASSUME NEW s, Good(s)
  PROVE  LET t == Processed(s) IN
         KeepRx(s, t) /\ KeepTx(s, t) /\ t.queue = Tail(s.queue) /\ ~Over(t)
<1>1. s \in Session
  BY DEF Good
<1> QED
  BY <1>1 DEF Processed, Session, KeepRx, KeepTx, Over

(***************************************************************************)
(* What is delivered is whole.  A file is under way in one form at a time: *)
(* announced, being received, answered, or with its answer in the queue of *)
(* its owner (Singles).  The offset that an answer or an announcement      *)
(* carries is the length of what the receiver has (Contents), and blocks   *)
(* come in the order of the file, from where the receiver is (Streams).    *)
(***************************************************************************)
Await(s) == ~Over(s) /\ s.RxState = "RxReceD"

\* A process lists its own files and receives the other's.
Mine(p, s) ==
  ~Over(s) =>
    /\ \A f \in File : s.state[f] # "Absent" => s.tosend /\ Owner[f] = p
    /\ s.TxState = "TxTryR" => s.tosend /\ Owner[s.cursend] = p
    /\ s.rname \in File => Owner[s.rname] = Peer(p)
    /\ s.rxfp \in File => Owner[s.rxfp] = Peer(p)
Announces(p, w) == \A i \in 1..Len(w) : w[i].cmd = "FILE" => Owner[w[i].file] = p
Owned == \A p \in Party : Mine(p, bp[p]) /\ Announces(p, wire[p])

\* Where the receiver s is, and where the sender s is when its frames reach t.
In(s) == IF Await(s) THEN {<<s.rname, s.rxpos>>} ELSE {}
Out(up, s, t) == IF up /\ ~Over(t) /\ ~Over(s) /\ s.TxState = "TxTryR" THEN {<<s.cursend, s.txpos>>} ELSE {}
Streams == \A p \in Party : Flows(wire[p], In(bp[Peer(p)]), Out(line, bp[p], bp[Peer(p)]))

\* In how many forms a file is under way, on the wire w of its owner s, at its
\* receiver t, on the wire v of that, and in the owner's queue.
Posted(w, f) == Count(w, {"FILE"}, f)
Replies(v, f) == Count(v, Answering, f)
Waiting(s, f) == IF Over(s) THEN 0 ELSE Count(s.queue, Answering, f)
Coming(t, f) == IF Await(t) /\ t.rname = f THEN 1 ELSE 0
Load(f, w, v, s, t) == Posted(w, f) + Replies(v, f) + Waiting(s, f) + Coming(t, f)
Single(f, w, v, s, t) ==
  /\ Load(f, w, v, s, t) <= 1
  /\ Load(f, w, v, s, t) # 0 => Over(s) \/ s.state[f] \in {"Sending", "IsSent"}
Singles == \A f \in File : LET o == Owner[f] IN Single(f, wire[o], wire[Peer(o)], bp[o], bp[Peer(o)])

Talk == Owned /\ Streams /\ Singles

\* What is awaited is the continuation of what is there.
Holds(s, t, v) ==
  Await(s) => /\ s.rxfp = s.rname /\ s.rxpos < Size[s.rname]
              /\ t[s.rname] = Blocks(s.rname, v[s.rname], s.rxpos)

\* The offsets under way for a file of which n blocks are there.
Fit(f, w, v, s, t, n) ==
  ~Over(t) =>
    /\ Fits(w, "FILE", f, n) /\ Fits(v, "GET", f, n)
    /\ ~Over(s) => /\ Fits(s.queue, "GET", f, n)
                   /\ s.state[f] = "NoState" /\ s.offset[f] > 0 => s.offset[f] = n

Lengths == \A f \in File : Len(tmp[f]) <= Size[f]
Held == \A p \in Party : Holds(bp[p], tmp, version)
Fitting == \A f \in File : LET o == Owner[f] IN Fit(f, wire[o], wire[Peer(o)], bp[o], bp[Peer(o)], Len(tmp[f]))
WholeOnes == \A f \in File : \A i \in DOMAIN delivered[f] : IsWhole(f, delivered[f][i])
Contents == Lengths /\ Held /\ Fitting /\ WholeOnes

WInv == IInv /\ Talk /\ (~mixed => Contents)

LEMMA Peers == \A p \in Party : Peer(p) \in Party /\ Peer(p) # p /\ Peer(Peer(p)) = p /\ \A q \in Party : q = p \/ q = Peer(p)
BY DEF Party, Peer

LEMMA WireTyped == ASSUME IInv, NEW p \in Party PROVE wire[p] \in Seq(Frame)
BY DEF IInv, TypeOK

LEMMA QueueTyped == ASSUME NEW s, Good(s) PROVE s.queue \in Seq(Queued)
BY ZenonT(20) DEF Good, Session

LEMMA LiveView == \A p \in Party : Done(p) <=> Over(bp[p])
BY DEF Done, Over

LEMMA ArrivesLive == ASSUME IInv, NEW p \in Party, Arrives(p) PROVE ~Over(bp[p]) /\ wire[Peer(p)] # <<>>
BY DEF Arrives, Over

LEMMA TurnLive == ASSUME NEW p \in Party, Turn(p) PROVE ~Over(bp[p])
BY DEF Turn, Over

(***************************************************************************)
(* The streams after a step of p                                           *)
(***************************************************************************)

\* p read a frame.
LEMMA StreamConsumed ==
  ASSUME IInv, Streams, NEW p \in Party, Arrives(p), wire'[Peer(p)] = Tail(wire[Peer(p)]), bp'[Peer(p)] = bp[Peer(p)],
         line' = line,
         In(bp'[p]) \subseteq IF Streaming(Incoming(p)) THEN {Placed(Incoming(p))} ELSE In(bp[p])
  PROVE  Flows(wire'[Peer(p)], In(bp'[p]), Out(line', bp'[Peer(p)], bp'[p]))
<1> DEFINE q == Peer(p)
           w == wire[q]
           m == Incoming(p)
           in == IF Streaming(m) THEN {Placed(m)} ELSE In(bp[p])
<1>1. q \in Party /\ Peer(q) = p
  BY Peers
<1>2. w \in Seq(Frame) /\ w # <<>> /\ m = Head(w) /\ ~Over(bp[p])
  BY <1>1, WireTyped, ArrivesLive DEF Incoming
<1>3. Flows(w, In(bp[p]), Out(line, bp[q], bp[p]))
  BY <1>1 DEF Streams
<1>4. Flows(Tail(w), in, Out(line, bp[q], bp[p]))
  BY <1>2, <1>3, FlowsTail, ZenonT(60)
<1>5. Out(line', bp'[q], bp'[p]) \subseteq Out(line, bp[q], bp[p])
  BY <1>2 DEF Out
<1> HIDE DEF q, m, in, w
<1>6. Flows(Tail(w), In(bp'[p]), Out(line', bp'[q], bp'[p]))
  BY <1>4, <1>5, FlowsLess DEF in, m
<1> QED
  BY <1>6 DEF w, q

\* p read nothing.
LEMMA StreamLeft ==
  ASSUME IInv, Streams, NEW p \in Party, wire'[Peer(p)] = wire[Peer(p)], bp'[Peer(p)] = bp[Peer(p)], line' = line,
         In(bp'[p]) \subseteq In(bp[p]), Over(bp[p]) => Over(bp'[p])
  PROVE  Flows(wire'[Peer(p)], In(bp'[p]), Out(line', bp'[Peer(p)], bp'[p]))
<1>1. Peer(p) \in Party /\ Peer(Peer(p)) = p
  BY Peers
<1>3. Flows(wire[Peer(p)], In(bp[p]), Out(line, bp[Peer(p)], bp[p]))
  BY <1>1 DEF Streams
<1>5. Out(line', bp'[Peer(p)], bp'[p]) \subseteq Out(line, bp[Peer(p)], bp[p])
  BY DEF Out
<1> QED
  BY <1>3, <1>5, FlowsLess

\* p sent nothing, or a frame that did not reach the wire.
LEMMA StreamKept ==
  ASSUME IInv, Streams, NEW p \in Party, wire'[p] = wire[p], bp'[Peer(p)] = bp[Peer(p)], line' = line,
         Out(line', bp'[p], bp[Peer(p)]) \subseteq Out(line, bp[p], bp[Peer(p)])
  PROVE  Flows(wire'[p], In(bp'[Peer(p)]), Out(line', bp'[p], bp'[Peer(p)]))
<1>3. Flows(wire[p], In(bp[Peer(p)]), Out(line, bp[p], bp[Peer(p)]))
  BY DEF Streams
<1> QED
  BY <1>3, FlowsLess

\* p sent a frame.
LEMMA StreamSent ==
  ASSUME IInv, Streams, NEW p \in Party, NEW m \in Frame, wire'[p] = Append(wire[p], m), bp'[Peer(p)] = bp[Peer(p)],
         m.cmd = "DATA" => <<m.file, m.offs - 1>> \in Out(line, bp[p], bp[Peer(p)]),
         Out(line', bp'[p], bp[Peer(p)]) \subseteq IF Streaming(m) THEN {Placed(m)} ELSE Out(line, bp[p], bp[Peer(p)])
  PROVE  Flows(wire'[p], In(bp'[Peer(p)]), Out(line', bp'[p], bp'[Peer(p)]))
<1> DEFINE out == IF Streaming(m) THEN {Placed(m)} ELSE Out(line, bp[p], bp[Peer(p)])
<1>1. wire[p] \in Seq(Frame)
  BY WireTyped
<1>2. Flows(wire[p], In(bp[Peer(p)]), Out(line, bp[p], bp[Peer(p)]))
  BY DEF Streams
<1>3. Flows(Append(wire[p], m), In(bp[Peer(p)]), out)
  BY <1>1, <1>2, FlowsAppend
<1> QED
  BY <1>3, FlowsLess

\* What a block must be that arrives where it is awaited.
LEMMA BlockAwaited ==
  ASSUME IInv, Streams, NEW p \in Party, Arrives(p), Incoming(p).cmd = "DATA", bp[p].RxState = "RxReceD"
  PROVE  /\ Incoming(p).file = bp[p].rname /\ Incoming(p).offs = bp[p].rxpos + 1
         /\ Placed(Incoming(p)) = <<bp[p].rname, bp[p].rxpos + 1>>
<1> DEFINE q == Peer(p)
           w == wire[q]
           m == Incoming(p)
<1>1. q \in Party /\ Peer(q) = p
  BY Peers
<1>2. w \in Seq(Frame) /\ w # <<>> /\ m = Head(w) /\ ~Over(bp[p])
  BY <1>1, WireTyped, ArrivesLive DEF Incoming
<1>3. Flows(w, In(bp[p]), Out(line, bp[q], bp[p]))
  BY <1>1 DEF Streams
<1>4. \A x \in In(bp[p]) : x = <<m.file, m.offs - 1>>
  BY <1>2, <1>3, FlowsTail
<1>5. In(bp[p]) = {<<bp[p].rname, bp[p].rxpos>>}
  BY <1>2 DEF In, Await
<1>6. m.offs \in Nat /\ bp[p].rxpos \in Nat
  <2>1. m \in Frame
    BY ArrivesTyped
  <2>2. m.offs \in Nat
    BY <2>1, FrameTyped
  <2> QED
    BY <2>2, BpGood, ZenonT(20) DEF Good, Session
<1> HIDE DEF m
<1>7. bp[p].rname = m.file /\ bp[p].rxpos = m.offs - 1
  BY <1>4, <1>5
<1> QED
  BY <1>6, <1>7 DEF m, Placed

(***************************************************************************)
(* What a step of p has to show                                            *)
(***************************************************************************)
LEMMA TalkStep ==
  ASSUME NEW p \in Party,
         Mine(p, bp'[p]), Announces(p, wire'[p]),
         Mine(Peer(p), bp'[Peer(p)]), Announces(Peer(p), wire'[Peer(p)]),
         Flows(wire'[p], In(bp'[Peer(p)]), Out(line', bp'[p], bp'[Peer(p)])),
         Flows(wire'[Peer(p)], In(bp'[p]), Out(line', bp'[Peer(p)], bp'[p])),
         \A f \in File : Owner[f] = p => Single(f, wire'[p], wire'[Peer(p)], bp'[p], bp'[Peer(p)]),
         \A f \in File : Owner[f] = Peer(p) => Single(f, wire'[Peer(p)], wire'[p], bp'[Peer(p)], bp'[p])
  PROVE  Talk'
<1> DEFINE q == Peer(p)
<1>1. q \in Party /\ Peer(q) = p /\ \A r \in Party : r = p \/ r = q
  BY Peers
<1>2. Owned'
  BY <1>1 DEF Owned
<1>3. Streams'
  BY <1>1, Zenon DEF Streams
<1>4. Singles'
  <2> SUFFICES ASSUME NEW f \in File
               PROVE  Single(f, wire'[Owner[f]], wire'[Peer(Owner[f])], bp'[Owner[f]], bp'[Peer(Owner[f])])
    BY Zenon DEF Singles
  <2>1. Owner[f] = p \/ Owner[f] = q
    BY <1>1, FilesKnown
  <2> QED
    BY <1>1, <2>1, Zenon
<1> QED
  BY <1>2, <1>3, <1>4 DEF Talk

LEMMA SingleView ==
  ASSUME Singles, NEW p \in Party, NEW f \in File
  PROVE  /\ Owner[f] = p => Single(f, wire[p], wire[Peer(p)], bp[p], bp[Peer(p)])
         /\ Owner[f] = Peer(p) => Single(f, wire[Peer(p)], wire[p], bp[Peer(p)], bp[p])
<1>1. Peer(Peer(p)) = p
  BY Peers
<1> QED
  BY <1>1, Zenon DEF Singles

(***************************************************************************)
(* Counting the forms of a file                                            *)
(***************************************************************************)
LEMMA LoadType ==
  ASSUME NEW f, NEW w \in Seq(Frame), NEW v \in Seq(Frame), NEW s, Good(s), NEW t
  PROVE  /\ Posted(w, f) \in Nat /\ Replies(v, f) \in Nat /\ Waiting(s, f) \in Nat /\ Coming(t, f) \in {0, 1}
         /\ Load(f, w, v, s, t) \in Nat
<1>1. Posted(w, f) \in Nat /\ Replies(v, f) \in Nat
  BY CountType DEF Posted, Replies
<1>2. Count(s.queue, Answering, f) \in Nat
  BY QueueTyped, CountType
<1>3. Waiting(s, f) \in Nat /\ Coming(t, f) \in {0, 1}
  BY <1>2 DEF Waiting, Coming
<1> QED
  BY <1>1, <1>3 DEF Load

LEMMA SingleLess ==
  ASSUME NEW f, NEW w, NEW v, NEW s, NEW t, NEW w2, NEW v2, NEW s2, NEW t2,
         Single(f, w, v, s, t), Load(f, w, v, s, t) \in Nat, Load(f, w2, v2, s2, t2) \in Nat,
         Load(f, w2, v2, s2, t2) <= Load(f, w, v, s, t),
         Over(s) \/ s.state[f] \in {"Sending", "IsSent"} => Over(s2) \/ s2.state[f] \in {"Sending", "IsSent"}
  PROVE  Single(f, w2, v2, s2, t2)
BY DEF Single

\* What a wire loses at its head and gets at its end.
LEMMA WireCounts ==
  ASSUME NEW w \in Seq(Frame), NEW f
  PROVE  /\ Posted(w, f) \in Nat /\ Replies(w, f) \in Nat
         /\ w # <<>> =>
              /\ Posted(w, f) = Posted(Tail(w), f) + (IF Marked(Head(w), {"FILE"}, f) THEN 1 ELSE 0)
              /\ Replies(w, f) = Replies(Tail(w), f) + (IF Marked(Head(w), Answering, f) THEN 1 ELSE 0)
              /\ Posted(Tail(w), f) \in Nat /\ Replies(Tail(w), f) \in Nat
         /\ \A m \in Frame :
              /\ Posted(Append(w, m), f) = Posted(w, f) + (IF Marked(m, {"FILE"}, f) THEN 1 ELSE 0)
              /\ Replies(Append(w, m), f) = Replies(w, f) + (IF Marked(m, Answering, f) THEN 1 ELSE 0)
<1>1. w # <<>> => Tail(w) \in Seq(Frame)
  BY HeadTailProperties
<1>2. w # <<>> =>
        /\ Posted(Tail(w), f) \in Nat /\ Replies(Tail(w), f) \in Nat
        /\ Posted(w, f) = Posted(Tail(w), f) + (IF Marked(Head(w), {"FILE"}, f) THEN 1 ELSE 0)
        /\ Replies(w, f) = Replies(Tail(w), f) + (IF Marked(Head(w), Answering, f) THEN 1 ELSE 0)
  BY <1>1, CountType, CountTail DEF Posted, Replies
<1>3. Posted(w, f) \in Nat /\ Replies(w, f) \in Nat
  BY CountType DEF Posted, Replies
<1>4. ASSUME NEW m \in Frame
      PROVE  /\ Posted(Append(w, m), f) = Posted(w, f) + (IF Marked(m, {"FILE"}, f) THEN 1 ELSE 0)
             /\ Replies(Append(w, m), f) = Replies(w, f) + (IF Marked(m, Answering, f) THEN 1 ELSE 0)
  BY CountAppend DEF Posted, Replies
<1> QED
  BY <1>2, <1>3, <1>4

LEMMA ReadCounts ==
  ASSUME NEW w \in Seq(Frame), NEW x \in Seq(Frame), x = w \/ (w # <<>> /\ x = Tail(w)), NEW f
  PROVE  Posted(x, f) <= Posted(w, f) /\ Replies(x, f) <= Replies(w, f)
<1>1. Posted(w, f) \in Nat /\ Replies(w, f) \in Nat
  BY WireCounts
<1>2. CASE x = w
  BY <1>1, <1>2
<1>3. CASE w # <<>> /\ x = Tail(w)
  <2>1. /\ Posted(w, f) = Posted(x, f) + (IF Marked(Head(w), {"FILE"}, f) THEN 1 ELSE 0)
        /\ Replies(w, f) = Replies(x, f) + (IF Marked(Head(w), Answering, f) THEN 1 ELSE 0)
        /\ Posted(x, f) \in Nat /\ Replies(x, f) \in Nat
    BY <1>3, WireCounts
  <2> QED
    BY <2>1
<1> QED
  BY <1>2, <1>3

\* Frames that announce nothing, and a wire that lost its head.
LEMMA AnnouncesMore ==
  ASSUME NEW p, NEW w \in Seq(Frame), Announces(p, w), NEW m \in Frame, m.cmd = "FILE" => Owner[m.file] = p
  PROVE  Announces(p, Append(w, m))
<1>1. /\ Len(w) \in Nat /\ Len(Append(w, m)) = Len(w) + 1
      /\ \A i \in 1..Len(w) : Append(w, m)[i] = w[i]
      /\ Append(w, m)[Len(w) + 1] = m
  BY LenProperties, AppendProperties
<1>2. \A i \in 1..(Len(w) + 1) : i \in 1..Len(w) \/ i = Len(w) + 1
  BY <1>1
<1> QED
  BY <1>1, <1>2 DEF Announces

LEMMA AnnouncesLess ==
  ASSUME NEW p, NEW w \in Seq(Frame), Announces(p, w), w # <<>>
  PROVE  Announces(p, Tail(w)) /\ (Head(w).cmd = "FILE" => Owner[Head(w).file] = p)
<1>1. /\ Len(w) \in Nat /\ Len(w) # 0 /\ Len(Tail(w)) = Len(w) - 1
      /\ \A i \in 1..Len(Tail(w)) : Tail(w)[i] = w[i + 1]
      /\ Head(w) = w[1]
  BY EmptySeq, LenProperties, HeadTailProperties
<1>2. \A i \in 1..(Len(w) - 1) : i + 1 \in 1..Len(w)
  BY <1>1
<1>3. 1 \in 1..Len(w)
  BY <1>1
<1> QED
  BY <1>1, <1>2, <1>3 DEF Announces

(***************************************************************************)
(* A step that ends p                                                      *)
(***************************************************************************)
LEMMA StopsTalk ==
  ASSUME IInv, Talk, IInv', NEW p \in Party, bp'[Peer(p)] = bp[Peer(p)], line' = line, Over(bp'[p]),
         \/ wire'[Peer(p)] = wire[Peer(p)]
         \/ wire[Peer(p)] # <<>> /\ wire'[Peer(p)] = Tail(wire[Peer(p)]),
         \/ wire'[p] = wire[p]
         \/ \E m \in Frame : /\ wire'[p] = Append(wire[p], m) /\ ~Streaming(m)
                             /\ m.cmd \in Answering => Await(bp[p]) /\ bp[p].rname = m.file
  PROVE  Talk'
<1> DEFINE q == Peer(p)
<1>1. q \in Party /\ Peer(q) = p
  BY Peers
<1>2. wire[p] \in Seq(Frame) /\ wire[q] \in Seq(Frame) /\ wire'[p] \in Seq(Frame) /\ wire'[q] \in Seq(Frame)
  BY <1>1 DEF IInv, TypeOK
<1>3. Good(bp[p]) /\ Good(bp[q]) /\ Good(bp'[p])
  BY <1>1 DEF IInv, TypeOK, Good
<1>0. /\ wire'[q] = wire[q] \/ (wire[q] # <<>> /\ wire'[q] = Tail(wire[q]))
      /\ \/ wire'[p] = wire[p]
         \/ \E m \in Frame : /\ wire'[p] = Append(wire[p], m) /\ ~Streaming(m)
                             /\ m.cmd \in Answering => Await(bp[p]) /\ bp[p].rname = m.file
  OBVIOUS
<1>4. Mine(p, bp'[p]) /\ Mine(q, bp'[q])
  BY <1>1 DEF Talk, Owned, Mine
<1>5. Announces(p, wire'[p]) /\ Announces(q, wire'[q])
  BY <1>1, <1>2, AnnouncesMore, AnnouncesLess, ZenonT(60) DEF Talk, Owned, Streaming
<1>6. In(bp'[p]) = {} /\ Out(line', bp'[p], bp'[q]) = {} /\ Out(line', bp'[q], bp'[p]) = {}
  BY DEF In, Out, Await
<1>7. Flows(wire[p], In(bp[q]), Out(line, bp[p], bp[q])) /\ Flows(wire[q], In(bp[p]), Out(line, bp[q], bp[p]))
  BY <1>1 DEF Talk, Streams
<1>8. Flows(wire'[p], In(bp'[q]), {})
  <2>1. CASE wire'[p] = wire[p]
    BY <1>7, <2>1, FlowsLess
  <2>2. CASE wire'[p] # wire[p]
    <3>1. PICK m \in Frame : wire'[p] = Append(wire[p], m) /\ ~Streaming(m)
      BY <2>2
    <3>2. m.cmd # "DATA"
      BY <3>1 DEF Streaming
    <3>3. Flows(Append(wire[p], m), In(bp[q]), Out(line, bp[p], bp[q]))
      BY <1>2, <1>7, <3>1, <3>2, FlowsAppend
    <3> QED
      BY <3>1, <3>3, FlowsLess
  <2> QED
    BY <2>1, <2>2
<1>9. Flows(wire'[q], {}, {})
  <2>1. CASE wire'[q] = wire[q]
    BY <1>7, <2>1, FlowsLess
  <2>2. CASE wire[q] # <<>> /\ wire'[q] = Tail(wire[q])
    <3>1. PICK in : Flows(Tail(wire[q]), in, Out(line, bp[q], bp[p]))
      BY <1>2, <1>7, <2>2, FlowsTail
    <3> QED
      BY <2>2, <3>1, FlowsLess
  <2> QED
    BY <2>1, <2>2
<1>10. ASSUME NEW f \in File, Owner[f] = p PROVE Single(f, wire'[p], wire'[q], bp'[p], bp'[q])
  <2>1. Single(f, wire[p], wire[q], bp[p], bp[q])
    BY <1>10, SingleView DEF Talk
  <2>2. Posted(wire'[p], f) = Posted(wire[p], f) /\ Replies(wire'[q], f) <= Replies(wire[q], f)
    <3>1. Replies(wire'[q], f) <= Replies(wire[q], f)
      BY <1>0, <1>2, ReadCounts, Zenon
    <3>2. ASSUME NEW m \in Frame, ~Streaming(m) PROVE Posted(Append(wire[p], m), f) = Posted(wire[p], f)
      <4>1. ~Marked(m, {"FILE"}, f) /\ Posted(wire[p], f) \in Nat
        BY <1>2, <3>2, WireCounts DEF Streaming, Marked
      <4>2. Posted(Append(wire[p], m), f) = Posted(wire[p], f) + (IF Marked(m, {"FILE"}, f) THEN 1 ELSE 0)
        BY <1>2, WireCounts
      <4> QED
        BY <4>1, <4>2
    <3>3. Posted(wire'[p], f) = Posted(wire[p], f)
      <4>1. CASE wire'[p] = wire[p]
        BY <4>1
      <4>2. CASE \E m \in Frame : wire'[p] = Append(wire[p], m) /\ ~Streaming(m)
        BY <3>2, <4>2
      <4> QED
        BY <1>0, <4>1, <4>2, Zenon
    <3> QED
      BY <3>1, <3>3
  <2>3. Waiting(bp'[p], f) = 0 /\ Coming(bp'[q], f) = Coming(bp[q], f)
    BY DEF Waiting
  <2>4. /\ Load(f, wire[p], wire[q], bp[p], bp[q]) \in Nat
        /\ Load(f, wire'[p], wire'[q], bp'[p], bp'[q]) \in Nat
        /\ Posted(wire[p], f) \in Nat /\ Replies(wire[q], f) \in Nat /\ Waiting(bp[p], f) \in Nat
        /\ Replies(wire'[q], f) \in Nat /\ Coming(bp[q], f) \in {0, 1}
    BY <1>2, <1>3, LoadType
  <2>5. Load(f, wire'[p], wire'[q], bp'[p], bp'[q]) <= Load(f, wire[p], wire[q], bp[p], bp[q])
    BY <2>2, <2>3, <2>4 DEF Load
  <2> QED
    BY <2>1, <2>4, <2>5, SingleLess
<1>11. ASSUME NEW f \in File, Owner[f] = q PROVE Single(f, wire'[q], wire'[p], bp'[q], bp'[p])
  <2>1. Single(f, wire[q], wire[p], bp[q], bp[p])
    BY <1>11, SingleView DEF Talk
  <2>2. Posted(wire'[q], f) <= Posted(wire[q], f)
    BY <1>0, <1>2, ReadCounts, Zenon
  <2>3. /\ Waiting(bp'[q], f) = Waiting(bp[q], f) /\ Coming(bp'[p], f) = 0
        /\ Replies(wire'[p], f) <= Replies(wire[p], f) + Coming(bp[p], f)
    <3>1. Coming(bp'[p], f) = 0
      BY DEF Coming, Await
    <3>2. Replies(wire'[p], f) <= Replies(wire[p], f) + Coming(bp[p], f)
      <4>1. Replies(wire[p], f) \in Nat /\ Coming(bp[p], f) \in {0, 1}
        BY <1>2, WireCounts DEF Coming
      <4>2. CASE wire'[p] = wire[p]
        BY <4>1, <4>2
      <4>3. CASE wire'[p] # wire[p]
        <5>1. PICK m \in Frame : wire'[p] = Append(wire[p], m)
                                 /\ (m.cmd \in Answering => Await(bp[p]) /\ bp[p].rname = m.file)
          BY <4>3
        <5>2. Replies(wire'[p], f) = Replies(wire[p], f) + (IF Marked(m, Answering, f) THEN 1 ELSE 0)
          BY <1>2, <5>1, WireCounts
        <5>3. Marked(m, Answering, f) => Coming(bp[p], f) = 1
          BY <5>1 DEF Marked, Coming
        <5> QED
          BY <4>1, <5>2, <5>3
      <4> QED
        BY <4>2, <4>3
    <3> QED
      BY <3>1, <3>2
  <2>4. /\ Load(f, wire[q], wire[p], bp[q], bp[p]) \in Nat
        /\ Load(f, wire'[q], wire'[p], bp'[q], bp'[p]) \in Nat
        /\ Posted(wire[q], f) \in Nat /\ Posted(wire'[q], f) \in Nat /\ Replies(wire[p], f) \in Nat
        /\ Replies(wire'[p], f) \in Nat /\ Waiting(bp[q], f) \in Nat /\ Coming(bp[p], f) \in {0, 1}
    BY <1>2, <1>3, LoadType
  <2>5. Load(f, wire'[q], wire'[p], bp'[q], bp'[p]) <= Load(f, wire[q], wire[p], bp[q], bp[p])
    BY <2>2, <2>3, <2>4 DEF Load
  <2> QED
    BY <2>1, <2>4, <2>5, SingleLess
<1> QED
  BY <1>4, <1>5, <1>6, <1>8, <1>9, <1>10, <1>11, TalkStep

\* What p keeps of its lists and of its files.
LEMMA MineKept ==
  ASSUME NEW p \in Party, NEW s, NEW t, Mine(p, s), ~Over(s), KeepTx(s, t),
         t.rname \in File => t.rname = s.rname \/ Owner[t.rname] = Peer(p),
         t.rxfp \in File => t.rxfp = s.rxfp \/ Owner[t.rxfp] = Peer(p)
  PROVE  Mine(p, t)
BY DEF Mine, KeepTx

LEMMA Sums ==
  ASSUME NEW a \in Nat, NEW b \in Nat, NEW c \in Nat, NEW d \in Nat,
         NEW a2 \in Nat, NEW b2 \in Nat, NEW c2 \in Nat, NEW d2 \in Nat, NEW h \in Nat,
         a = a2 + h, b2 + d2 <= b + d + h, c2 = c
  PROVE  a2 + b2 + c2 + d2 <= a + b + c + d
OBVIOUS

LEMMA NotFiles == NoFile \notin File /\ Closed \notin File
BY FilesNumbered DEF NoFile, Closed

(***************************************************************************)
(* A step in which p reads a frame that is no answer                       *)
(***************************************************************************)
LEMMA ReceiverTalk ==
  ASSUME IInv, Talk, IInv', NEW p \in Party, bp'[Peer(p)] = bp[Peer(p)], line' = line,
         ~Over(bp'[p]), KeepTx(bp[p], bp'[p]), bp'[p].queue = bp[p].queue,
         Arrives(p), wire'[Peer(p)] = Tail(wire[Peer(p)]), NEW m, m = Incoming(p), m.cmd \notin Answering,
         In(bp'[p]) \subseteq IF Streaming(m) THEN {Placed(m)} ELSE In(bp[p]),
         bp'[p].rname = bp[p].rname \/ (m.cmd = "FILE" /\ bp'[p].rname = m.file),
         bp'[p].rxfp \in {bp[p].rxfp, NoFile, Closed} \/ (m.cmd = "FILE" /\ bp'[p].rxfp = m.file),
         Await(bp'[p]) => (m.cmd = "FILE" /\ bp'[p].rname = m.file) \/ (Await(bp[p]) /\ bp'[p].rname = bp[p].rname),
         \/ wire'[p] = wire[p]
         \/ \E a \in Frame :
              /\ wire'[p] = Append(wire[p], a) /\ a.cmd \in Answering /\ ~Await(bp'[p])
              /\ (m.cmd = "FILE" /\ a.file = m.file) \/ (Await(bp[p]) /\ a.file = bp[p].rname)
  PROVE  Talk'
<1> DEFINE q == Peer(p)
<1>1. q \in Party /\ Peer(q) = p
  BY Peers
<1>2. wire[p] \in Seq(Frame) /\ wire[q] \in Seq(Frame) /\ wire'[p] \in Seq(Frame) /\ wire'[q] \in Seq(Frame)
  BY <1>1 DEF IInv, TypeOK
<1>3. Good(bp[p]) /\ Good(bp[q]) /\ Good(bp'[p])
  BY <1>1 DEF IInv, TypeOK, Good
<1>4. wire[q] # <<>> /\ m = Head(wire[q]) /\ ~Over(bp[p])
  BY ArrivesLive DEF Incoming
<1>5. Announces(q, wire'[q]) /\ (m.cmd = "FILE" => Owner[m.file] = q)
  BY <1>1, <1>2, <1>4, AnnouncesLess DEF Talk, Owned
<1>6. Announces(p, wire'[p])
  <2>1. Announces(p, wire[p])
    BY DEF Talk, Owned
  <2>2. ASSUME NEW a \in Frame, a.cmd \in Answering PROVE Announces(p, Append(wire[p], a))
    BY <1>2, <2>1, <2>2, AnnouncesMore DEF Answering
  <2> QED
    BY <2>1, <2>2
<1>7. Mine(p, bp'[p]) /\ Mine(q, bp'[q])
  <2>1. Mine(p, bp[p]) /\ Mine(q, bp[q])
    BY <1>1 DEF Talk, Owned
  <2>2. Mine(p, bp'[p])
    BY <1>4, <1>5, <2>1, MineKept, NotFiles
  <2> QED
    BY <2>1, <2>2
<1>8. Out(line', bp'[p], bp'[q]) = Out(line, bp[p], bp[q])
  BY <1>4 DEF Out, KeepTx
<1>9. Flows(wire'[p], In(bp'[q]), Out(line', bp'[p], bp'[q]))
  <2>1. CASE wire'[p] = wire[p]
    BY <1>8, <2>1, StreamKept DEF Talk
  <2>2. CASE wire'[p] # wire[p]
    <3>1. PICK a \in Frame : wire'[p] = Append(wire[p], a) /\ a.cmd \in Answering
      BY <2>2
    <3>2. ~Streaming(a) /\ a.cmd # "DATA"
      BY <3>1 DEF Streaming, Answering
    <3> QED
      BY <1>8, <3>1, <3>2, StreamSent DEF Talk
  <2> QED
    BY <2>1, <2>2
<1>10. Flows(wire'[q], In(bp'[p]), Out(line', bp'[q], bp'[p]))
  BY StreamConsumed DEF Talk
<1>11. ASSUME NEW f \in File, Owner[f] = p PROVE Single(f, wire'[p], wire'[q], bp'[p], bp'[q])
  <2>1. Single(f, wire[p], wire[q], bp[p], bp[q])
    BY <1>11, SingleView DEF Talk
  <2>2. Posted(wire'[p], f) = Posted(wire[p], f)
    <3>1. Posted(wire[p], f) \in Nat
      BY <1>2, WireCounts
    <3>2. ASSUME NEW a \in Frame, a.cmd \in Answering PROVE Posted(Append(wire[p], a), f) = Posted(wire[p], f)
      <4>1. ~Marked(a, {"FILE"}, f)
        BY <3>2 DEF Answering, Marked
      <4>2. Posted(Append(wire[p], a), f) = Posted(wire[p], f) + (IF Marked(a, {"FILE"}, f) THEN 1 ELSE 0)
        BY <1>2, WireCounts
      <4> QED
        BY <3>1, <4>1, <4>2
    <3> QED
      BY <3>2
  <2>3. Replies(wire'[q], f) <= Replies(wire[q], f)
    BY <1>2, <1>4, ReadCounts
  <2>4. Waiting(bp'[p], f) = Waiting(bp[p], f)
    BY <1>4 DEF Waiting
  <2>5. /\ Load(f, wire[p], wire[q], bp[p], bp[q]) \in Nat
        /\ Load(f, wire'[p], wire'[q], bp'[p], bp'[q]) \in Nat
        /\ Posted(wire[p], f) \in Nat /\ Replies(wire[q], f) \in Nat /\ Waiting(bp[p], f) \in Nat
        /\ Replies(wire'[q], f) \in Nat /\ Coming(bp[q], f) \in {0, 1}
    BY <1>2, <1>3, LoadType
  <2>6. Load(f, wire'[p], wire'[q], bp'[p], bp'[q]) <= Load(f, wire[p], wire[q], bp[p], bp[q])
    BY <2>2, <2>3, <2>4, <2>5 DEF Load
  <2> QED
    BY <1>4, <2>1, <2>5, <2>6, SingleLess DEF KeepTx
<1>12. ASSUME NEW f \in File, Owner[f] = q PROVE Single(f, wire'[q], wire'[p], bp'[q], bp'[p])
  <2> DEFINE here == IF Marked(m, {"FILE"}, f) THEN 1 ELSE 0
  <2>1. Single(f, wire[q], wire[p], bp[q], bp[p])
    BY <1>12, SingleView DEF Talk
  <2>2. Posted(wire[q], f) = Posted(wire'[q], f) + here
    BY <1>2, <1>4, WireCounts
  <2>3. Coming(bp[p], f) \in {0, 1} /\ Coming(bp'[p], f) \in {0, 1} /\ here \in {0, 1} /\ Replies(wire[p], f) \in Nat
    BY <1>2, WireCounts DEF Coming
  <2>4. Replies(wire'[p], f) + Coming(bp'[p], f) <= Replies(wire[p], f) + Coming(bp[p], f) + here
    <3>1. Coming(bp'[p], f) = 1 => here = 1 \/ Coming(bp[p], f) = 1
      BY DEF Coming, Marked
    <3>2. CASE wire'[p] = wire[p]
      <4> HIDE DEF here
      <4> QED
        BY <2>3, <3>1, <3>2
    <3>3. CASE wire'[p] # wire[p]
      <4>1. PICK a \in Frame :
              /\ wire'[p] = Append(wire[p], a) /\ a.cmd \in Answering /\ ~Await(bp'[p])
              /\ (m.cmd = "FILE" /\ a.file = m.file) \/ (Await(bp[p]) /\ a.file = bp[p].rname)
        BY <3>3
      <4>2. Replies(wire'[p], f) = Replies(wire[p], f) + (IF Marked(a, Answering, f) THEN 1 ELSE 0)
        BY <1>2, <4>1, WireCounts
      <4>3. Marked(a, Answering, f) => here = 1 \/ Coming(bp[p], f) = 1
        BY <4>1 DEF Coming, Marked
      <4>4. Coming(bp'[p], f) = 0
        BY <4>1 DEF Coming
      <4> HIDE DEF here
      <4> QED
        BY <2>3, <4>2, <4>3, <4>4
    <3> QED
      BY <3>2, <3>3
  <2>5. /\ Load(f, wire[q], wire[p], bp[q], bp[p]) \in Nat
        /\ Load(f, wire'[q], wire'[p], bp'[q], bp'[p]) \in Nat
        /\ Posted(wire[q], f) \in Nat /\ Replies(wire[p], f) \in Nat /\ Waiting(bp[q], f) \in Nat
        /\ Posted(wire'[q], f) \in Nat /\ Replies(wire'[p], f) \in Nat
    BY <1>2, <1>3, LoadType
  <2>6. Waiting(bp'[q], f) = Waiting(bp[q], f)
    OBVIOUS
  <2> HIDE DEF here
  <2>7. Load(f, wire'[q], wire'[p], bp'[q], bp'[p]) <= Load(f, wire[q], wire[p], bp[q], bp[p])
    <3>1. Load(f, wire[q], wire[p], bp[q], bp[p])
          = Posted(wire[q], f) + Replies(wire[p], f) + Waiting(bp[q], f) + Coming(bp[p], f)
      BY DEF Load
    <3>2. Load(f, wire'[q], wire'[p], bp'[q], bp'[p])
          = Posted(wire'[q], f) + Replies(wire'[p], f) + Waiting(bp'[q], f) + Coming(bp'[p], f)
      BY DEF Load
    <3>3. /\ Posted(wire[q], f) \in Nat /\ Replies(wire[p], f) \in Nat /\ Waiting(bp[q], f) \in Nat
          /\ Posted(wire'[q], f) \in Nat /\ Replies(wire'[p], f) \in Nat /\ Waiting(bp'[q], f) \in Nat
          /\ Coming(bp[p], f) \in Nat /\ Coming(bp'[p], f) \in Nat /\ here \in Nat
      BY <2>3, <2>5, <2>6
    <3>4. Posted(wire'[q], f) + Replies(wire'[p], f) + Waiting(bp'[q], f) + Coming(bp'[p], f)
          <= Posted(wire[q], f) + Replies(wire[p], f) + Waiting(bp[q], f) + Coming(bp[p], f)
      BY <2>2, <2>4, <2>6, <3>3, Sums
    <3> QED
      BY <3>1, <3>2, <3>4
  <2> QED
    BY <2>1, <2>5, <2>7, SingleLess
<1> QED
  BY <1>5, <1>6, <1>7, <1>9, <1>10, <1>11, <1>12, TalkStep

(***************************************************************************)
(* A step in which p reads nothing off the line                            *)
(***************************************************************************)
LEMMA TransmitterTalk ==
  ASSUME IInv, Talk, IInv', NEW p \in Party, bp'[Peer(p)] = bp[Peer(p)], line' = line,
         wire'[Peer(p)] = wire[Peer(p)], ~Over(bp[p]), Mine(p, bp'[p]),
         In(bp'[p]) \subseteq In(bp[p]), bp'[p].rname = bp[p].rname,
         \/ /\ wire'[p] = wire[p]
            /\ Out(line, bp'[p], bp[Peer(p)]) \subseteq Out(line, bp[p], bp[Peer(p)])
         \/ \E m \in Frame :
              /\ wire'[p] = Append(wire[p], m) /\ m.cmd \notin Answering
              /\ m.cmd = "FILE" => Owner[m.file] = p
              /\ m.cmd = "DATA" => <<m.file, m.offs - 1>> \in Out(line, bp[p], bp[Peer(p)])
              /\ Out(line, bp'[p], bp[Peer(p)])
                   \subseteq IF Streaming(m) THEN {Placed(m)} ELSE Out(line, bp[p], bp[Peer(p)]),
         \A f \in File : Owner[f] = p => Single(f, wire'[p], wire[Peer(p)], bp'[p], bp[Peer(p)])
  PROVE  Talk'
<1> DEFINE q == Peer(p)
<1>1. q \in Party /\ Peer(q) = p
  BY Peers
<1>2. wire[p] \in Seq(Frame) /\ wire[q] \in Seq(Frame) /\ wire'[p] \in Seq(Frame)
  BY <1>1 DEF IInv, TypeOK
<1>3. Good(bp[p]) /\ Good(bp[q]) /\ Good(bp'[p])
  BY <1>1 DEF IInv, TypeOK, Good
<1>4. Announces(p, wire'[p]) /\ Announces(q, wire'[q])
  BY <1>1, <1>2, AnnouncesMore DEF Talk, Owned
<1>5. Mine(p, bp'[p]) /\ Mine(q, bp'[q])
  BY <1>1 DEF Talk, Owned
<1>6. Flows(wire'[p], In(bp'[q]), Out(line', bp'[p], bp'[q]))
  <2>1. CASE /\ wire'[p] = wire[p]
             /\ Out(line, bp'[p], bp[Peer(p)]) \subseteq Out(line, bp[p], bp[Peer(p)])
    BY <2>1, StreamKept DEF Talk
  <2>2. CASE \E m \in Frame :
              /\ wire'[p] = Append(wire[p], m)
              /\ m.cmd = "DATA" => <<m.file, m.offs - 1>> \in Out(line, bp[p], bp[Peer(p)])
              /\ Out(line, bp'[p], bp[Peer(p)])
                   \subseteq IF Streaming(m) THEN {Placed(m)} ELSE Out(line, bp[p], bp[Peer(p)])
    BY <2>2, StreamSent DEF Talk
  <2> QED
    BY <2>1, <2>2
<1>7. Flows(wire'[q], In(bp'[p]), Out(line', bp'[q], bp'[p]))
  BY StreamLeft DEF Talk
<1>8. ASSUME NEW f \in File, Owner[f] = q PROVE Single(f, wire'[q], wire'[p], bp'[q], bp'[p])
  <2>1. Single(f, wire[q], wire[p], bp[q], bp[p])
    BY <1>8, SingleView DEF Talk
  <2>2. Replies(wire'[p], f) = Replies(wire[p], f)
    <3>1. Replies(wire[p], f) \in Nat
      BY <1>2, WireCounts
    <3>2. ASSUME NEW m \in Frame, m.cmd \notin Answering PROVE Replies(Append(wire[p], m), f) = Replies(wire[p], f)
      <4>1. ~Marked(m, Answering, f)
        BY <3>2 DEF Marked
      <4>2. Replies(Append(wire[p], m), f) = Replies(wire[p], f) + (IF Marked(m, Answering, f) THEN 1 ELSE 0)
        BY <1>2, WireCounts
      <4> QED
        BY <3>1, <4>1, <4>2
    <3>3. wire'[p] = wire[p] \/ \E m \in Frame : wire'[p] = Append(wire[p], m) /\ m.cmd \notin Answering
      BY Zenon
    <3>4. CASE wire'[p] = wire[p]
      BY <3>4
    <3>5. CASE \E m \in Frame : wire'[p] = Append(wire[p], m) /\ m.cmd \notin Answering
      <4>1. PICK m \in Frame : wire'[p] = Append(wire[p], m) /\ m.cmd \notin Answering
        BY <3>5
      <4> QED
        BY <3>2, <4>1
    <3> QED
      BY <3>3, <3>4, <3>5
  <2>3. Coming(bp'[p], f) <= Coming(bp[p], f)
    <3>1. Await(bp'[p]) => Await(bp[p])
      BY DEF In
    <3> QED
      BY <3>1 DEF Coming
  <2>4. Waiting(bp'[q], f) = Waiting(bp[q], f)
    OBVIOUS
  <2>5. /\ Load(f, wire[q], wire[p], bp[q], bp[p]) \in Nat
        /\ Load(f, wire'[q], wire'[p], bp'[q], bp'[p]) \in Nat
        /\ Posted(wire[q], f) \in Nat /\ Replies(wire[p], f) \in Nat /\ Waiting(bp[q], f) \in Nat
        /\ Coming(bp[p], f) \in {0, 1} /\ Coming(bp'[p], f) \in {0, 1}
    BY <1>2, <1>3, LoadType
  <2>6. Load(f, wire[q], wire[p], bp[q], bp[p])
        = Posted(wire[q], f) + Replies(wire[p], f) + Waiting(bp[q], f) + Coming(bp[p], f)
    BY DEF Load
  <2>7. Load(f, wire'[q], wire'[p], bp'[q], bp'[p])
        = Posted(wire[q], f) + Replies(wire[p], f) + Waiting(bp[q], f) + Coming(bp'[p], f)
    BY <2>2, <2>4 DEF Load
  <2>8. Load(f, wire'[q], wire'[p], bp'[q], bp'[p]) <= Load(f, wire[q], wire[p], bp[q], bp[p])
    BY <2>3, <2>5, <2>6, <2>7
  <2> QED
    BY <2>1, <2>5, <2>8, SingleLess
<1> QED
  BY <1>4, <1>5, <1>6, <1>7, <1>8, TalkStep

\* A file of p whose place in the list allows no form of it.
LEMMA NoLoad ==
  ASSUME IInv, Talk, NEW p \in Party, ~Over(bp[p]), NEW f \in File, Owner[f] = p,
         bp[p].state[f] \notin {"Sending", "IsSent"}
  PROVE  Load(f, wire[p], wire[Peer(p)], bp[p], bp[Peer(p)]) = 0
<1>1. Single(f, wire[p], wire[Peer(p)], bp[p], bp[Peer(p)])
  BY SingleView DEF Talk
<1> QED
  BY <1>1 DEF Single

\* The wires, or the queue and the frame sent, have nothing new of a file of p.
LEMMA LoadSame ==
  ASSUME IInv, NEW p \in Party, ~Over(bp[p]), NEW s, Good(s), ~Over(s), s.queue = bp[p].queue, NEW f \in File,
         NEW w \in Seq(Frame),
         w = wire[p] \/ \E m \in Frame : w = Append(wire[p], m) /\ ~Marked(m, {"FILE"}, f)
  PROVE  Load(f, w, wire[Peer(p)], s, bp[Peer(p)]) = Load(f, wire[p], wire[Peer(p)], bp[p], bp[Peer(p)])
<1>1. wire[p] \in Seq(Frame)
  BY WireTyped
<1>2. Posted(w, f) = Posted(wire[p], f)
  <2>1. Posted(wire[p], f) \in Nat
    BY <1>1, WireCounts
  <2>2. ASSUME NEW m \in Frame, w = Append(wire[p], m), ~Marked(m, {"FILE"}, f) PROVE Posted(w, f) = Posted(wire[p], f)
    <3>1. Posted(w, f) = Posted(wire[p], f) + (IF Marked(m, {"FILE"}, f) THEN 1 ELSE 0)
      BY <1>1, <2>2, WireCounts
    <3> QED
      BY <2>1, <2>2, <3>1
  <2> QED
    BY <2>2
<1>3. Waiting(s, f) = Waiting(bp[p], f)
  BY DEF Waiting
<1> QED
  BY <1>2, <1>3 DEF Load

\* The file stays as it is, or goes on from Sending to IsSent.
LEMMA SingleSame ==
  ASSUME IInv, Talk, NEW p \in Party, ~Over(bp[p]), NEW s, Good(s), ~Over(s), NEW f \in File, Owner[f] = p,
         NEW w \in Seq(Frame),
         Load(f, w, wire[Peer(p)], s, bp[Peer(p)]) = Load(f, wire[p], wire[Peer(p)], bp[p], bp[Peer(p)]),
         \/ s.state[f] = bp[p].state[f]
         \/ s.state[f] = "IsSent"
         \/ bp[p].state[f] \notin {"Sending", "IsSent"}
  PROVE  Single(f, w, wire[Peer(p)], s, bp[Peer(p)])
<1>1. Single(f, wire[p], wire[Peer(p)], bp[p], bp[Peer(p)])
  BY SingleView DEF Talk
<1>2. CASE bp[p].state[f] \notin {"Sending", "IsSent"}
  <2>1. Load(f, wire[p], wire[Peer(p)], bp[p], bp[Peer(p)]) = 0
    BY <1>2, NoLoad
  <2> QED
    BY <2>1 DEF Single
<1> QED
  BY <1>1, <1>2 DEF Single

\* An announcement takes up its file.
LEMMA SingleAnnounced ==
  ASSUME IInv, Talk, NEW p \in Party, ~Over(bp[p]), NEW s, Good(s), ~Over(s), s.queue = bp[p].queue,
         NEW f \in File, Owner[f] = p, bp[p].state[f] \notin {"Sending", "IsSent"}, s.state[f] = "Sending",
         NEW m \in Frame
  PROVE  Single(f, Append(wire[p], m), wire[Peer(p)], s, bp[Peer(p)])
<1> DEFINE q == Peer(p)
<1>1. q \in Party /\ wire[p] \in Seq(Frame) /\ wire[q] \in Seq(Frame) /\ Good(bp[p])
  BY Peers, WireTyped, BpGood
<1>2. Load(f, wire[p], wire[q], bp[p], bp[q]) = 0
  BY NoLoad
<1>3. Posted(wire[p], f) \in Nat /\ Replies(wire[q], f) \in Nat /\ Waiting(bp[p], f) \in Nat /\ Coming(bp[q], f) \in {0, 1}
  BY <1>1, LoadType
<1>4. Posted(wire[p], f) + Replies(wire[q], f) + Waiting(bp[p], f) + Coming(bp[q], f) = 0
  BY <1>2 DEF Load
<1>5. Posted(Append(wire[p], m), f) = Posted(wire[p], f) + (IF Marked(m, {"FILE"}, f) THEN 1 ELSE 0)
  BY <1>1, WireCounts
<1>6. Waiting(s, f) = Waiting(bp[p], f)
  BY DEF Waiting
<1>7. Posted(Append(wire[p], m), f) + Replies(wire[q], f) + Waiting(s, f) + Coming(bp[q], f) <= 1
  BY <1>3, <1>4, <1>5, <1>6
<1>8. Load(f, Append(wire[p], m), wire[q], s, bp[q]) <= 1
  BY <1>7 DEF Load
<1> QED
  BY <1>8 DEF Single

(***************************************************************************)
(* The steps of the transmitter                                            *)
(***************************************************************************)
LEMMA BpView ==
  ASSUME IInv, NEW p \in Party, NEW s, bp' = [bp EXCEPT ![p] = s]
  PROVE  bp'[p] = s /\ bp'[Peer(p)] = bp[Peer(p)]
<1>1. Peer(p) \in Party /\ Peer(p) # p
  BY Peers
<1>2. bp \in [Party -> Session]
  BY DEF IInv, TypeOK
<1> QED
  BY <1>1, <1>2

\* A frame is on the wire, or lost with the connection.
LEMMA SentView ==
  ASSUME IInv, NEW p \in Party, NEW w \in [Party -> Seq(Frame)], NEW m
  PROVE  /\ Sent(w, p, m)[Peer(p)] = w[Peer(p)]
         /\ IF line /\ ~Over(bp[Peer(p)]) THEN Sent(w, p, m)[p] = Append(w[p], m) ELSE Sent(w, p, m)[p] = w[p]
<1>1. Peer(p) \in Party /\ Peer(p) # p
  BY Peers
<1>2. Done(Peer(p)) <=> Over(bp[Peer(p)])
  BY <1>1, LiveView
<1> QED
  BY <1>1, <1>2 DEF Sent

LEMMA InKept == ASSUME NEW s, NEW t, ~Over(s), KeepRx(s, t) PROVE In(t) \subseteq In(s) /\ t.rname = s.rname /\ t.rxfp = s.rxfp
BY DEF In, Await, KeepRx

LEMMA OutNone ==
  ASSUME NEW s, NEW t, s.TxState # "TxTryR" \/ ~line \/ Over(t) PROVE Out(line, s, t) = {}
BY DEF Out

LEMMA MineView == ASSUME Talk, NEW p \in Party PROVE Mine(p, bp[p])
BY DEF Talk, Owned

\* A list was made, or its files are not Mine.
LEMMA MakeListTalk == ASSUME IInv, Talk, NEW p \in Party, MakeList(p) PROVE Talk'
<1> DEFINE q == Peer(p)
           l == [f \in File |-> IF f \in Listed(p) THEN "NoState" ELSE "Absent"]
           o == [f \in File |-> 0]
           s == [bp[p] EXCEPT
                   !.FtState = "Transmit", !.tosend = TRUE, !.cursend = NoFile, !.freqname = FALSE,
                   !.state = l, !.offset = o]
           nul == [cmd |-> "NUL", file |-> NoFile, offs |-> 0]
<1>1. /\ Turn(p) /\ bp[p].TxState = "TxGNF" /\ ~bp[p].tosend /\ line' = line
      /\ bp' = [bp EXCEPT ![p] = s] \/ bp' = [bp EXCEPT ![p] = SentCommand(s, "NUL")]
      /\ wire' = wire \/ wire' = Sent(wire, p, nul)
  BY DEF MakeList, Transmits
<1>2. Good(bp[p]) /\ ~Over(bp[p]) /\ Mine(p, bp[p]) /\ IInv'
  BY <1>1, BpGood, TurnLive, MineView, MakeListTyped
<1>3. \A f \in File : f \in Listed(p) => Owner[f] = p
  BY DEF Listed, Answers
<1>4. /\ s.FtState = "Transmit" /\ s.TxState = "TxGNF" /\ s.tosend /\ KeepRx(bp[p], s) /\ s.queue = bp[p].queue
      /\ s.state = l
  BY <1>1, <1>2 DEF Good, Session, KeepRx
<1>5. Good(s)
  <2>1. l \in [File -> FileState] /\ o \in [File -> Nat]
    BY DEF FileState
  <2> HIDE DEF l, o
  <2> QED
    BY <1>1, <1>2, <2>1, ListMadeGood
<1> HIDE DEF s
<1>6. PICK t : /\ bp' = [bp EXCEPT ![p] = t] /\ Good(t) /\ t.FtState = "Transmit" /\ t.TxState = "TxGNF" /\ t.tosend
               /\ KeepRx(bp[p], t) /\ t.queue = bp[p].queue /\ t.state = l
  <2>1. CASE bp' = [bp EXCEPT ![p] = s]
    BY <1>4, <1>5, <2>1
  <2>2. CASE bp' = [bp EXCEPT ![p] = SentCommand(s, "NUL")]
    <3>1. Keep(s, SentCommand(s, "NUL")) /\ SentCommand(s, "NUL").FtState = "Transmit" /\ Good(SentCommand(s, "NUL"))
      BY <1>4, <1>5, SentCommandView, SentCommandGood
    <3>2. LET t == SentCommand(s, "NUL") IN
          t.TxState = "TxGNF" /\ t.tosend /\ KeepRx(bp[p], t) /\ t.queue = bp[p].queue /\ t.state = l
      BY <1>4, <3>1 DEF Keep, KeepRx, KeepTx
    <3> QED
      BY <2>2, <3>1, <3>2
  <2> QED
    BY <1>1, <2>1, <2>2
<1>7. bp'[p] = t /\ bp'[q] = bp[q] /\ ~Over(t)
  BY <1>6, BpView DEF Over
<1>8. wire'[q] = wire[q] /\ (wire'[p] = wire[p] \/ wire'[p] = Append(wire[p], nul)) /\ wire'[p] \in Seq(Frame)
  <2>1. wire \in [Party -> Seq(Frame)] /\ wire' \in [Party -> Seq(Frame)]
    BY <1>2 DEF IInv, TypeOK
  <2> HIDE DEF nul
  <2>2. LET w == Sent(wire, p, nul) IN w[q] = wire[q] /\ (w[p] = wire[p] \/ w[p] = Append(wire[p], nul))
    BY <2>1, SentView
  <2>3. wire'[q] = wire[q] /\ (wire'[p] = wire[p] \/ wire'[p] = Append(wire[p], nul))
    BY <1>1, <2>2
  <2> QED
    BY <2>1, <2>3
<1>9. nul \in Frame /\ nul.cmd \notin Answering /\ nul.cmd # "FILE" /\ nul.cmd # "DATA" /\ ~Streaming(nul)
  BY FramesTyped DEF Answering, Streaming
<1>10. Mine(p, t)
  BY <1>2, <1>3, <1>6, InKept DEF Mine
<1>11. In(t) \subseteq In(bp[p]) /\ t.rname = bp[p].rname /\ Out(line, t, bp[q]) = {}
  BY <1>2, <1>6, InKept, OutNone
<1>12. ASSUME NEW f \in File, Owner[f] = p PROVE Single(f, wire'[p], wire[q], t, bp[q])
  <2>1. bp[p].state[f] = "Absent"
    BY <1>1, <1>2 DEF Mine
  <2>2. ~Marked(nul, {"FILE"}, f)
    BY DEF Marked
  <2> HIDE DEF nul
  <2>3. Load(f, wire'[p], wire[q], t, bp[q]) = Load(f, wire[p], wire[q], bp[p], bp[q])
    BY <1>2, <1>6, <1>7, <1>8, <1>9, <2>2, LoadSame, SMTT(60)
  <2> QED
    BY <1>2, <1>6, <1>7, <1>8, <1>12, <2>1, <2>3, SingleSame
<1> HIDE DEF nul
<1>13. \/ wire'[p] = wire[p] /\ Out(line, bp'[p], bp[q]) \subseteq Out(line, bp[p], bp[q])
       \/ \E m \in Frame :
            /\ wire'[p] = Append(wire[p], m) /\ m.cmd \notin Answering
            /\ m.cmd = "FILE" => Owner[m.file] = p
            /\ m.cmd = "DATA" => <<m.file, m.offs - 1>> \in Out(line, bp[p], bp[q])
            /\ Out(line, bp'[p], bp[q]) \subseteq IF Streaming(m) THEN {Placed(m)} ELSE Out(line, bp[p], bp[q])
  BY <1>7, <1>8, <1>9, <1>11
<1> QED
  BY <1>1, <1>2, <1>7, <1>8, <1>10, <1>11, <1>12, <1>13, TransmitterTalk

\* A step that sends nothing and takes no message.
LEMMA QuietTalk ==
  ASSUME IInv, Talk, IInv', NEW p \in Party, NEW t, bp' = [bp EXCEPT ![p] = t], Good(t), ~Over(bp[p]), ~Over(t),
         line' = line, wire' = wire, In(t) \subseteq In(bp[p]), t.rname = bp[p].rname, t.queue = bp[p].queue,
         Out(line, t, bp[Peer(p)]) \subseteq Out(line, bp[p], bp[Peer(p)]), Mine(p, t),
         \A f \in File : Owner[f] = p =>
           \/ t.state[f] = bp[p].state[f]
           \/ t.state[f] = "IsSent"
           \/ bp[p].state[f] \notin {"Sending", "IsSent"}
  PROVE  Talk'
<1>1. bp'[p] = t /\ bp'[Peer(p)] = bp[Peer(p)]
  BY BpView
<1>2. wire[p] \in Seq(Frame)
  BY WireTyped
<1>3. ASSUME NEW f \in File, Owner[f] = p PROVE Single(f, wire'[p], wire[Peer(p)], t, bp[Peer(p)])
  <2>1. Load(f, wire[p], wire[Peer(p)], t, bp[Peer(p)]) = Load(f, wire[p], wire[Peer(p)], bp[p], bp[Peer(p)])
    BY <1>2, LoadSame
  <2> QED
    BY <1>2, <1>3, <2>1, SingleSame
<1> QED
  BY <1>1, <1>3, TransmitterTalk

LEMMA PassFileTalk == ASSUME IInv, Talk, NEW p \in Party, PassFile(p) PROVE Talk'
<1>1. PICK f \in File, st \in {"Got", "Skipped"} :
        Chooses(p, f) /\ Transmits(p, [bp[p] EXCEPT !.FtState = "Switch", !.txfp = NoFile, !.state[f] = st])
  BY DEF PassFile
<1> DEFINE t == [bp[p] EXCEPT !.FtState = "Switch", !.txfp = NoFile, !.state[f] = st]
<1>2. wire' = wire /\ line' = line /\ bp' = [bp EXCEPT ![p] = t]
  BY <1>1 DEF PassFile, Transmits
<1>3. Turn(p) /\ bp[p].TxState = "TxGNF" /\ bp[p].tosend /\ bp[p].state[f] = "NoState"
  BY <1>1 DEF Chooses, Unsent
<1>4. Good(bp[p]) /\ ~Over(bp[p]) /\ Mine(p, bp[p]) /\ IInv'
  BY <1>3, BpGood, TurnLive, MineView, PassFileTyped
<1>5. Good(t)
  BY <1>4, PassedGood
<1>6. /\ t.FtState = "Switch" /\ KeepRx(bp[p], t) /\ t.queue = bp[p].queue /\ t.TxState = "TxGNF" /\ t.tosend
      /\ t.state = [bp[p].state EXCEPT ![f] = st]
  BY <1>3, <1>4 DEF Good, Session, KeepRx
<1>7. bp[p].state \in [File -> FileState]
  BY <1>4, ZenonT(20) DEF Good, Session
<1> HIDE DEF t
<1>8. \A g \in File : t.state[g] = bp[p].state[g] \/ (g = f /\ bp[p].state[g] \notin {"Absent", "Sending", "IsSent"})
  BY <1>3, <1>6, <1>7
<1>9. Mine(p, t)
  BY <1>4, <1>6, <1>8, InKept DEF Mine
<1>10. ~Over(t) /\ In(t) \subseteq In(bp[p]) /\ t.rname = bp[p].rname /\ Out(line, t, bp[Peer(p)]) = {}
  BY <1>4, <1>6, InKept, OutNone DEF Over
<1> QED
  BY <1>2, <1>4, <1>5, <1>6, <1>8, <1>9, <1>10, QuietTalk, ZenonT(60)

\* What the frame m makes of the list of p, whose session s becomes t.
Entered(p, s, t, m) ==
  \A f \in File : Owner[f] = p =>
    \/ m.cmd # "FILE" /\ t.state[f] = s.state[f]
    \/ m.cmd # "FILE" /\ t.state[f] = "IsSent"
    \/ m.cmd = "FILE" /\ m.file # f /\ t.state[f] = s.state[f]
    \/ m.cmd = "FILE" /\ t.state[f] = "Sending" /\ s.state[f] \notin {"Sending", "IsSent"}

\* The frame m follows from the place of the sender s, and is that of t.
Follows(p, s, t, m) ==
  /\ m.cmd = "FILE" => Owner[m.file] = p
  /\ m.cmd = "DATA" => s.TxState = "TxTryR" /\ <<m.file, m.offs - 1>> = <<s.cursend, s.txpos>>
  /\ t.TxState = "TxTryR" => Streaming(m) /\ Placed(m) = <<t.cursend, t.txpos>>

\* A step that sends a frame, which may be lost with the connection.
LEMMA SentTalk ==
  ASSUME IInv, Talk, IInv', NEW p \in Party, NEW t, bp' = [bp EXCEPT ![p] = t], Good(t), ~Over(bp[p]), ~Over(t),
         line' = line, NEW m \in Frame, wire' = Sent(wire, p, m), KeepRx(bp[p], t), t.queue = bp[p].queue,
         Mine(p, t), m.cmd \notin Answering, Follows(p, bp[p], t, m), Entered(p, bp[p], t, m)
  PROVE  Talk'
<1> DEFINE q == Peer(p)
<1>1. bp'[p] = t /\ bp'[q] = bp[q]
  BY BpView
<1>2. wire[p] \in Seq(Frame) /\ wire'[p] \in Seq(Frame) /\ wire \in [Party -> Seq(Frame)]
  BY DEF IInv, TypeOK
<1>3. /\ wire'[q] = wire[q]
      /\ IF line /\ ~Over(bp[q]) THEN wire'[p] = Append(wire[p], m) ELSE wire'[p] = wire[p]
  BY <1>2, SentView
<1>4. In(t) \subseteq In(bp[p]) /\ t.rname = bp[p].rname
  BY InKept
<1>0. /\ m.cmd = "FILE" => Owner[m.file] = p
      /\ m.cmd = "DATA" => bp[p].TxState = "TxTryR" /\ <<m.file, m.offs - 1>> = <<bp[p].cursend, bp[p].txpos>>
      /\ t.TxState = "TxTryR" => Streaming(m) /\ Placed(m) = <<t.cursend, t.txpos>>
  BY DEF Follows
<1>5. \/ wire'[p] = wire[p] /\ Out(line, bp'[p], bp[q]) \subseteq Out(line, bp[p], bp[q])
      \/ \E a \in Frame :
           /\ wire'[p] = Append(wire[p], a) /\ a.cmd \notin Answering
           /\ a.cmd = "FILE" => Owner[a.file] = p
           /\ a.cmd = "DATA" => <<a.file, a.offs - 1>> \in Out(line, bp[p], bp[q])
           /\ Out(line, bp'[p], bp[q]) \subseteq IF Streaming(a) THEN {Placed(a)} ELSE Out(line, bp[p], bp[q])
  <2>1. CASE line /\ ~Over(bp[q])
    <3>1. m.cmd = "DATA" => <<m.file, m.offs - 1>> \in Out(line, bp[p], bp[q])
      BY <1>0, <2>1 DEF Out
    <3>2. Out(line, bp'[p], bp[q]) \subseteq IF Streaming(m) THEN {Placed(m)} ELSE Out(line, bp[p], bp[q])
      BY <1>0, <1>1 DEF Out
    <3> QED
      BY <1>0, <1>3, <2>1, <3>1, <3>2
  <2>2. CASE ~(line /\ ~Over(bp[q]))
    <3>1. Out(line, bp'[p], bp[q]) = {}
      BY <2>2, OutNone
    <3> QED
      BY <1>3, <2>2, <3>1
  <2> QED
    BY <2>1, <2>2
<1>6. ASSUME NEW f \in File, Owner[f] = p PROVE Single(f, wire'[p], wire[q], t, bp[q])
  <2>1. wire'[p] = wire[p] \/ wire'[p] = Append(wire[p], m)
    BY <1>3
  <2>2. CASE m.cmd = "FILE" /\ t.state[f] = "Sending" /\ bp[p].state[f] \notin {"Sending", "IsSent"}
    <3>1. CASE wire'[p] = wire[p]
      <4>1. Load(f, wire'[p], wire[q], t, bp[q]) = Load(f, wire[p], wire[q], bp[p], bp[q])
        BY <1>2, <3>1, LoadSame
      <4> QED
        BY <1>2, <1>6, <2>2, <4>1, SingleSame
    <3>2. CASE wire'[p] = Append(wire[p], m)
      BY <1>6, <2>2, <3>2, SingleAnnounced
    <3> QED
      BY <2>1, <3>1, <3>2
  <2>3. CASE (m.cmd # "FILE" \/ m.file # f) /\ (t.state[f] = bp[p].state[f] \/ t.state[f] = "IsSent")
    <3>1. ~Marked(m, {"FILE"}, f)
      BY <2>3 DEF Marked
    <3>2. Load(f, wire'[p], wire[q], t, bp[q]) = Load(f, wire[p], wire[q], bp[p], bp[q])
      BY <1>2, <2>1, <3>1, LoadSame
    <3> QED
      BY <1>2, <1>6, <2>3, <3>2, SingleSame
  <2> QED
    BY <1>6, <2>2, <2>3 DEF Entered
<1> QED
  BY <1>1, <1>3, <1>4, <1>5, <1>6, TransmitterTalk

LEMMA SendFileTalk == ASSUME IInv, Talk, NEW p \in Party, SendFile(p) PROVE Talk'
<1>1. PICK f \in File :
        /\ Chooses(p, f)
        /\ Transmits(p, SentCommand(
             [bp[p] EXCEPT !.FtState = "Transmit", !.TxState = "TxTryR", !.state[f] = "Sending",
                           !.cursend = f, !.txfp = f, !.txpos = bp[p].offset[f]], "FILE"))
        /\ wire' = Sent(wire, p, [cmd |-> "FILE", file |-> f, offs |-> bp[p].offset[f]])
        /\ line' = line
  BY DEF SendFile
<1> DEFINE s == [bp[p] EXCEPT !.FtState = "Transmit", !.TxState = "TxTryR", !.state[f] = "Sending",
                              !.cursend = f, !.txfp = f, !.txpos = bp[p].offset[f]]
           t == SentCommand(s, "FILE")
           m == [cmd |-> "FILE", file |-> f, offs |-> bp[p].offset[f]]
<1>2. Turn(p) /\ bp[p].TxState = "TxGNF" /\ bp[p].tosend /\ bp[p].state[f] = "NoState"
  BY <1>1 DEF Chooses, Unsent
<1>3. Good(bp[p]) /\ ~Over(bp[p]) /\ Mine(p, bp[p]) /\ IInv'
  BY <1>2, BpGood, TurnLive, MineView, SendFileTyped
<1>4. bp[p].state \in [File -> FileState] /\ bp[p].offset[f] \in Nat
  <2>1. bp[p].state \in [File -> FileState] /\ bp[p].offset \in [File -> Nat]
    BY <1>3, ZenonT(20) DEF Good, Session
  <2> QED
    BY <2>1
<1>5. Good(s)
  BY <1>3, <1>4, SendingGood
<1>6. /\ s.FtState = "Transmit" /\ s.TxState = "TxTryR" /\ s.tosend /\ s.cursend = f /\ s.txpos = bp[p].offset[f]
      /\ KeepRx(bp[p], s) /\ s.queue = bp[p].queue
      /\ s.state = [bp[p].state EXCEPT ![f] = "Sending"]
  BY <1>2, <1>3 DEF Good, Session, KeepRx
<1>7. Owner[f] = p
  BY <1>2, <1>3 DEF Mine
<1>8. m \in Frame /\ m.cmd = "FILE" /\ m.file = f /\ Placed(m) = <<f, bp[p].offset[f]>> /\ Streaming(m)
  BY <1>4, FramesTyped DEF Placed, Streaming
<1>9. bp' = [bp EXCEPT ![p] = t] /\ wire' = Sent(wire, p, m) /\ line' = line
  BY <1>1 DEF Transmits
<1> HIDE DEF s, m
<1>10. Good(t) /\ Keep(s, t) /\ t.FtState = "Transmit"
  BY <1>5, <1>6, SentCommandView, SentCommandGood
<1>11. /\ KeepRx(bp[p], t) /\ t.queue = bp[p].queue /\ t.TxState = "TxTryR" /\ t.tosend /\ t.cursend = f
       /\ t.txpos = bp[p].offset[f] /\ t.state = [bp[p].state EXCEPT ![f] = "Sending"] /\ ~Over(t)
  BY <1>6, <1>10, ZenonT(60) DEF Keep, KeepRx, KeepTx, Over
<1> HIDE DEF t
<1>12. \A g \in File : (g # f /\ t.state[g] = bp[p].state[g]) \/ (g = f /\ t.state[g] = "Sending")
  BY <1>4, <1>11
<1>13. Mine(p, t)
  BY <1>3, <1>7, <1>11, <1>12, InKept DEF Mine
<1>14. m.cmd \notin Answering /\ m.cmd # "DATA"
  BY <1>8 DEF Answering
<1>15. Entered(p, bp[p], t, m)
  BY <1>2, <1>8, <1>12 DEF Entered
<1>16. Follows(p, bp[p], t, m)
  BY <1>7, <1>8, <1>11, <1>14 DEF Follows
<1> QED
  BY <1>3, <1>8, <1>9, <1>10, <1>11, <1>13, <1>14, <1>15, <1>16, SentTalk

LEMMA SendEOBTalk == ASSUME IInv, Talk, NEW p \in Party, SendEOB(p) PROVE Talk'
<1> DEFINE s == [bp[p] EXCEPT !.FtState = "Transmit", !.TxState = "TxWLA"]
           t == SentCommand(s, "EOB")
           m == [cmd |-> "EOB", file |-> NoFile, offs |-> 0]
<1>1. Turn(p) /\ bp[p].tosend /\ bp' = [bp EXCEPT ![p] = t] /\ wire' = Sent(wire, p, m) /\ line' = line
  BY DEF SendEOB, Transmits
<1>2. Good(bp[p]) /\ ~Over(bp[p]) /\ Mine(p, bp[p]) /\ IInv'
  BY <1>1, BpGood, TurnLive, MineView, SendEOBTyped
<1>3. Good(s)
  BY <1>2, AllSentGood
<1>4. /\ s.FtState = "Transmit" /\ s.TxState = "TxWLA" /\ s.tosend
      /\ KeepRx(bp[p], s) /\ s.queue = bp[p].queue /\ s.state = bp[p].state
  BY <1>1, <1>2 DEF Good, Session, KeepRx
<1>5. m \in Frame /\ m.cmd = "EOB"
  BY FramesTyped
<1> HIDE DEF s, m
<1>6. Good(t) /\ Keep(s, t) /\ t.FtState = "Transmit"
  BY <1>3, <1>4, SentCommandView, SentCommandGood
<1>7. /\ KeepRx(bp[p], t) /\ t.queue = bp[p].queue /\ t.TxState = "TxWLA" /\ t.tosend
      /\ t.state = bp[p].state /\ ~Over(t)
  BY <1>4, <1>6 DEF Keep, KeepRx, KeepTx, Over
<1> HIDE DEF t
<1>8. Mine(p, t)
  BY <1>2, <1>7, InKept DEF Mine
<1>9. m.cmd \notin Answering
  BY <1>5 DEF Answering
<1>10. Follows(p, bp[p], t, m)
  BY <1>5, <1>7 DEF Follows
<1>11. Entered(p, bp[p], t, m)
  BY <1>5, <1>7 DEF Entered
<1> QED
  BY <1>1, <1>2, <1>5, <1>6, <1>7, <1>8, <1>9, <1>10, <1>11, SentTalk

LEMMA SendBlockTalk == ASSUME IInv, Talk, NEW p \in Party, SendBlock(p) PROVE Talk'
<1> DEFINE s == bp[p]
           f == s.cursend
           last == s.txpos >= Size[f]
           n == IF last THEN s.txpos ELSE s.txpos + 1
           sent == [s EXCEPT !.FtState = "Switch", !.txpos = n]
           read == [sent EXCEPT !.txfp = NoFile, !.state[f] = "IsSent", !.cursend = NoFile, !.TxState = "TxGNF"]
           m == [cmd |-> "DATA", file |-> f, offs |-> s.txpos + 1]
<1>1. /\ Turn(p) /\ s.TxState = "TxTryR" /\ line' = line
      /\ bp' = [bp EXCEPT ![p] = read] \/ bp' = [bp EXCEPT ![p] = sent]
      /\ IF last THEN wire' = wire ELSE wire' = Sent(wire, p, m)
      /\ last => bp' = [bp EXCEPT ![p] = read]
  <2>1. n = IF last THEN s.txpos ELSE s.txpos + 1
    OBVIOUS
  <2> QED
    BY DEF SendBlock, Transmits
<1>2. Good(s) /\ ~Over(s) /\ Mine(p, s) /\ IInv'
  BY <1>1, BpGood, TurnLive, MineView, SendBlockTyped
<1>3. f \in File /\ Owner[f] = p /\ s.tosend /\ s.txpos \in Nat /\ s.state \in [File -> FileState]
  <2>1. s.txpos \in Nat /\ s.state \in [File -> FileState]
    BY <1>2, ZenonT(20) DEF Good, Session
  <2> QED
    BY <1>1, <1>2, <2>1 DEF Good, Named, Mine
<1>4. n \in Nat /\ (~last => n = s.txpos + 1)
  BY <1>3
<1>5. m \in Frame /\ m.cmd = "DATA" /\ m.file = f /\ m.offs - 1 = s.txpos /\ Placed(m) = <<f, s.txpos + 1>> /\ Streaming(m)
  BY <1>3, FramesTyped DEF Placed, Streaming
<1> HIDE DEF n, last, m
<1>6. Good(sent)
  BY <1>2, <1>4, BlockSentGood
<1>7. Good(read)
  BY <1>3, <1>6, AllReadGood
<1>8. /\ sent.FtState = "Switch" /\ KeepRx(s, sent) /\ sent.queue = s.queue /\ sent.TxState = "TxTryR"
      /\ sent.cursend = f /\ sent.txpos = n /\ sent.tosend /\ sent.state = s.state
  BY <1>1, <1>2, <1>3 DEF Good, Session, KeepRx
<1>9. /\ read.FtState = "Switch" /\ KeepRx(s, read) /\ read.queue = s.queue /\ read.TxState = "TxGNF"
      /\ read.tosend /\ read.state = [s.state EXCEPT ![f] = "IsSent"]
  BY <1>1, <1>2, <1>3 DEF Good, Session, KeepRx
<1> HIDE DEF sent, read
<1>10. PICK t : /\ bp' = [bp EXCEPT ![p] = t] /\ Good(t) /\ ~Over(t) /\ KeepRx(s, t) /\ t.queue = s.queue /\ t.tosend
                /\ t.TxState = "TxTryR" => t.cursend = f /\ t.txpos = n /\ ~last
                /\ t.state = s.state \/ t.state = [s.state EXCEPT ![f] = "IsSent"]
  <2>1. CASE bp' = [bp EXCEPT ![p] = read]
    BY <1>7, <1>9, <2>1 DEF Over
  <2>2. CASE bp' = [bp EXCEPT ![p] = sent] /\ ~last
    BY <1>6, <1>8, <2>2 DEF Over
  <2> QED
    BY <1>1, <2>1, <2>2
<1>11. \A g \in File : (t.state[g] = s.state[g]) \/ (g = f /\ t.state[g] = "IsSent")
  BY <1>3, <1>10
<1>12. Mine(p, t)
  BY <1>2, <1>3, <1>10, <1>11, InKept DEF Mine
<1>13. CASE last
  <2>1. wire' = wire /\ t.TxState # "TxTryR"
    BY <1>1, <1>10, <1>13
  <2>2. In(t) \subseteq In(s) /\ t.rname = s.rname /\ Out(line, t, bp[Peer(p)]) = {}
    BY <1>2, <1>10, <2>1, InKept, OutNone
  <2> QED
    BY <1>1, <1>2, <1>10, <1>11, <1>12, <2>1, <2>2, QuietTalk, ZenonT(60)
<1>14. CASE ~last
  <2>1. wire' = Sent(wire, p, m)
    BY <1>1, <1>14
  <2>2. m.cmd \notin Answering /\ m.cmd # "FILE"
    BY <1>5 DEF Answering
  <2>3. <<m.file, m.offs - 1>> = <<s.cursend, s.txpos>>
    BY <1>5
  <2>4. Follows(p, s, t, m)
    <3>1. t.TxState = "TxTryR" => Streaming(m) /\ Placed(m) = <<t.cursend, t.txpos>>
      BY <1>4, <1>5, <1>10, <1>14
    <3> QED
      BY <1>1, <2>2, <2>3, <3>1 DEF Follows
  <2>5. Entered(p, s, t, m)
    BY <1>11, <2>2 DEF Entered
  <2> QED
    BY <1>1, <1>2, <1>5, <1>10, <1>12, <2>1, <2>2, <2>4, <2>5, SentTalk
<1> QED
  BY <1>13, <1>14

LEMMA SwitchView ==
  ASSUME NEW s, Good(s)
  PROVE  LET t == [s EXCEPT !.FtState = "Switch"] IN Good(t) /\ Keep(s, t) /\ ~Over(t)
<1> DEFINE t == [s EXCEPT !.FtState = "Switch"]
<1>1. Good(t)
  BY TransmitGood
<1>2. s \in Session
  BY DEF Good
<1>3. KeepRx(s, t) /\ t.queue = s.queue /\ ~Over(t)
  BY <1>2 DEF Session, KeepRx, Over
<1>4. KeepTx(s, t)
  BY <1>2 DEF Session, KeepTx
<1> QED
  BY <1>1, <1>3, <1>4 DEF Keep

LEMMA NotPending ==
  ASSUME NEW s, Pending(s) = {}, NEW f \in File PROVE s.state[f] \notin {"Sending", "IsSent"}
BY DEF Pending

LEMMA WaitAcksTalk == ASSUME IInv, Talk, NEW p \in Party, WaitAcks(p) PROVE Talk'
<1> DEFINE s == [bp[p] EXCEPT !.FtState = "Switch"]
<1>1. /\ Turn(p) /\ s.TxState = "TxWLA" /\ wire' = wire /\ line' = line
      /\ \/ bp' = [bp EXCEPT ![p] = s]
         \/ Pending(s) = {} /\ bp' = [bp EXCEPT ![p] = Ended(ListCleared(s), "ok")]
         \/ Pending(s) = {} /\ bp' = [bp EXCEPT ![p] = NextBatch(s)]
         \/ Pending(s) = {} /\ bp' = [bp EXCEPT ![p] = ListCleared(s)]
  BY DEF WaitAcks, Transmits
<1>2. Good(bp[p]) /\ ~Over(bp[p]) /\ Mine(p, bp[p]) /\ IInv'
  BY <1>1, BpGood, TurnLive, MineView, WaitAcksTyped
<1>3. Good(s) /\ Keep(bp[p], s) /\ ~Over(s)
  BY <1>2, SwitchView
<1> HIDE DEF s
<1>4. CASE bp' = [bp EXCEPT ![p] = s]
  <2>1. In(s) \subseteq In(bp[p]) /\ s.rname = bp[p].rname /\ s.queue = bp[p].queue /\ s.state = bp[p].state
    BY <1>2, <1>3, InKept DEF Keep, KeepTx
  <2>2. Out(line, s, bp[Peer(p)]) = {}
    BY <1>1, OutNone
  <2>3. Mine(p, s)
    BY <1>2, <1>3, InKept DEF Keep, KeepTx, Mine
  <2> QED
    BY <1>1, <1>2, <1>3, <1>4, <2>1, <2>2, <2>3, QuietTalk
<1>5. CASE Pending(s) = {} /\ bp' = [bp EXCEPT ![p] = Ended(ListCleared(s), "ok")]
  <2>1. Over(Ended(ListCleared(s), "ok"))
    BY <1>3, ListClearedGood, EndedView
  <2>2. bp'[Peer(p)] = bp[Peer(p)] /\ Over(bp'[p])
    BY <1>5, <2>1, BpView
  <2> QED
    BY <1>1, <1>2, <2>2, StopsTalk
<1>6. CASE Pending(s) = {} /\ \E t : /\ bp' = [bp EXCEPT ![p] = t] /\ Good(t) /\ ~Over(t) /\ In(t) \subseteq In(s)
                                     /\ t.rname = s.rname /\ t.rxfp = s.rxfp /\ t.queue = s.queue
                                     /\ t.TxState # "TxTryR" /\ \A f \in File : t.state[f] = "Absent"
  <2>1. PICK t : /\ bp' = [bp EXCEPT ![p] = t] /\ Good(t) /\ ~Over(t) /\ In(t) \subseteq In(s)
                 /\ t.rname = s.rname /\ t.rxfp = s.rxfp /\ t.queue = s.queue
                 /\ t.TxState # "TxTryR" /\ \A f \in File : t.state[f] = "Absent"
    BY <1>6
  <2>2. /\ In(s) \subseteq In(bp[p]) /\ s.rname = bp[p].rname /\ s.rxfp = bp[p].rxfp /\ s.queue = bp[p].queue
        /\ s.state = bp[p].state
    BY <1>2, <1>3, InKept DEF Keep, KeepTx
  <2>3. Mine(p, t) /\ Out(line, t, bp[Peer(p)]) = {}
    BY <1>2, <2>1, <2>2, OutNone DEF Mine
  <2>4. \A f \in File : bp[p].state[f] \notin {"Sending", "IsSent"}
    BY <1>6, <2>2, NotPending
  <2>5. In(t) \subseteq In(bp[p]) /\ t.rname = bp[p].rname /\ t.queue = bp[p].queue
    BY <2>1, <2>2
  <2> QED
    BY <1>1, <1>2, <2>1, <2>3, <2>4, <2>5, QuietTalk
<1>7. CASE Pending(s) = {} /\ bp' = [bp EXCEPT ![p] = NextBatch(s)]
  <2>1. LET t == NextBatch(s) IN
        /\ Good(t) /\ t.queue = s.queue /\ t.FtState = s.FtState /\ t.TxState = "TxGNF" /\ t.RxState = "RxWaitF"
        /\ t.rname = s.rname /\ t.rxfp = s.rxfp /\ \A f \in File : t.state[f] = "Absent"
    BY <1>3, NextBatchView, NextBatchGood
  <2>2. ~Over(NextBatch(s)) /\ In(NextBatch(s)) = {}
    BY <1>3, <2>1 DEF Over, In, Await
  <2> QED
    BY <1>6, <1>7, <2>1, <2>2
<1>8. CASE Pending(s) = {} /\ bp' = [bp EXCEPT ![p] = ListCleared(s)]
  <2>1. LET t == ListCleared(s) IN
        /\ Good(t) /\ KeepRx(s, t) /\ t.queue = s.queue /\ t.FtState = s.FtState /\ t.TxState = s.TxState
        /\ \A f \in File : t.state[f] = "Absent"
    BY <1>3, ListClearedView, ListClearedGood
  <2>2. ~Over(ListCleared(s)) /\ In(ListCleared(s)) \subseteq In(s)
        /\ ListCleared(s).rname = s.rname /\ ListCleared(s).rxfp = s.rxfp
    BY <1>3, <2>1, InKept DEF Over
  <2> QED
    BY <1>1, <1>6, <1>8, <2>1, <2>2
<1> QED
  BY <1>1, <1>4, <1>5, <1>7, <1>8

LEMMA ProcessesView ==
  ASSUME IInv, NEW p \in Party, NEW cmd, cmd \in Answering, Processes(p, cmd)
  PROVE  /\ ~Over(bp[p]) /\ bp[p].queue \in Seq(Queued) /\ bp[p].queue # <<>> /\ Message(p) = Head(bp[p].queue)
         /\ Message(p).cmd = cmd /\ Message(p).file \in File
<1>1. ~Over(bp[p])
  BY TurnLive DEF Processes, Over
<1>2. bp[p].queue \in Seq(Queued)
  BY BpGood, QueueTyped
<1> QED
  BY <1>1, <1>2, MessageTyped DEF Processes, Message

\* The message at the head of the queue is handled: the file it names is under
\* way no more.
LEMMA ProcessTalk ==
  ASSUME IInv, Talk, IInv', NEW p \in Party, NEW cmd, cmd \in Answering, Processes(p, cmd), NEW t,
         bp' = [bp EXCEPT ![p] = t], Good(t), ~Over(t), wire' = wire, line' = line,
         KeepRx(bp[p], t), t.queue = Tail(bp[p].queue), t.tosend = bp[p].tosend,
         \A f \in File : t.state[f] = bp[p].state[f] \/ (f = Message(p).file /\ bp[p].state[f] # "Absent"),
         t.TxState = "TxTryR" => bp[p].TxState = "TxTryR" /\ t.cursend = bp[p].cursend /\ t.txpos = bp[p].txpos
  PROVE  Talk'
<1> DEFINE q == Peer(p)
           m == Message(p)
<1>1. /\ ~Over(bp[p]) /\ bp[p].queue \in Seq(Queued) /\ bp[p].queue # <<>> /\ m = Head(bp[p].queue)
      /\ m.cmd \in Answering /\ m.file \in File
  BY ProcessesView
<1>2. q \in Party /\ wire[p] \in Seq(Frame) /\ wire[q] \in Seq(Frame) /\ Good(bp[p]) /\ Mine(p, bp[p])
  BY Peers, WireTyped, BpGood, MineView
<1>3. bp'[p] = t /\ bp'[q] = bp[q]
  BY BpView
<1>4. In(t) \subseteq In(bp[p]) /\ t.rname = bp[p].rname /\ t.rxfp = bp[p].rxfp
  BY <1>1, InKept
<1>5. Mine(p, t)
  BY <1>1, <1>2, <1>4 DEF Mine
<1>6. Out(line, t, bp[q]) \subseteq Out(line, bp[p], bp[q])
  BY <1>1 DEF Out
<1> HIDE DEF m
<1>7. ASSUME NEW f \in File, Owner[f] = p PROVE Single(f, wire[p], wire[q], t, bp[q])
  <2> DEFINE here == IF m.file = f THEN 1 ELSE 0
  <2>1. Single(f, wire[p], wire[q], bp[p], bp[q])
    BY <1>7, SingleView DEF Talk
  <2>2. Count(bp[p].queue, Answering, f) = Count(Tail(bp[p].queue), Answering, f) + here
    <3>1. Marked(m, Answering, f) <=> m.file = f
      BY <1>1 DEF Marked
    <3>2. Count(bp[p].queue, Answering, f)
          = Count(Tail(bp[p].queue), Answering, f) + (IF Marked(m, Answering, f) THEN 1 ELSE 0)
      BY <1>1, CountTail
    <3> QED
      BY <3>1, <3>2
  <2>3. Waiting(bp[p], f) = Waiting(t, f) + here
    BY <1>1, <2>2 DEF Waiting
  <2>4. /\ Load(f, wire[p], wire[q], bp[p], bp[q]) \in Nat
        /\ Load(f, wire[p], wire[q], t, bp[q]) \in Nat
        /\ Posted(wire[p], f) \in Nat /\ Replies(wire[q], f) \in Nat /\ Waiting(bp[p], f) \in Nat
        /\ Coming(bp[q], f) \in {0, 1} /\ Waiting(t, f) \in Nat
    BY <1>2, LoadType
  <2>5. Load(f, wire[p], wire[q], bp[p], bp[q])
        = Posted(wire[p], f) + Replies(wire[q], f) + Waiting(bp[p], f) + Coming(bp[q], f)
    BY DEF Load
  <2>6. Load(f, wire[p], wire[q], t, bp[q])
        = Posted(wire[p], f) + Replies(wire[q], f) + Waiting(t, f) + Coming(bp[q], f)
    BY DEF Load
  <2>7. here \in Nat
    OBVIOUS
  <2> HIDE DEF here
  <2>8. Load(f, wire[p], wire[q], bp[p], bp[q]) = Load(f, wire[p], wire[q], t, bp[q]) + here
    BY <2>3, <2>4, <2>5, <2>6, <2>7
  <2>9. Load(f, wire[p], wire[q], bp[p], bp[q]) <= 1
    BY <2>1 DEF Single
  <2>10. CASE m.file = f
    <3>1. here = 1
      BY <2>10 DEF here
    <3>2. Load(f, wire[p], wire[q], t, bp[q]) = 0
      BY <2>4, <2>8, <2>9, <3>1
    <3> QED
      BY <3>2 DEF Single
  <2>11. CASE m.file # f
    <3>1. here = 0
      BY <2>11 DEF here
    <3>2. Load(f, wire[p], wire[q], t, bp[q]) = Load(f, wire[p], wire[q], bp[p], bp[q])
      BY <2>4, <2>8, <3>1
    <3>3. t.state[f] = bp[p].state[f]
      BY <2>11 DEF m
    <3> QED
      BY <1>1, <2>1, <3>2, <3>3 DEF Single
  <2> QED
    BY <2>10, <2>11
<1> QED
  BY <1>1, <1>3, <1>4, <1>5, <1>6, <1>7, TransmitterTalk

\* The steps of p that end it.
LEMMA EndTalk ==
  ASSUME IInv, Talk, IInv', NEW p \in Party, NEW s, Good(s), NEW rc, bp' = [bp EXCEPT ![p] = Ended(s, rc)],
         wire' = wire, line' = line
  PROVE  Talk'
<1>1. bp'[Peer(p)] = bp[Peer(p)] /\ Over(bp'[p])
  BY BpView, EndedView
<1> QED
  BY <1>1, StopsTalk

LEMMA ReadFailsTalk == ASSUME IInv, Talk, NEW p \in Party, ReadFails(p) PROVE Talk'
<1> DEFINE s == [bp[p] EXCEPT !.state[bp[p].cursend] = "Skipped"]
<1>1. /\ bp[p].TxState = "TxTryR" /\ bp' = [bp EXCEPT ![p] = Ended(s, "failed")] /\ wire' = wire /\ line' = line
  BY DEF ReadFails, Transmits
<1>2. IInv' /\ Good(bp[p])
  BY ReadFailsTyped, BpGood
<1>3. bp[p].cursend \in File
  BY <1>1, <1>2 DEF Good, Named
<1>4. Good(s)
  BY <1>2, <1>3, DisposedGood
<1> QED
  BY <1>1, <1>2, <1>4, EndTalk

LEMMA CloseNoFileTalk == ASSUME IInv, Talk, NEW p \in Party, CloseNoFile(p) PROVE Talk'
<1>1. bp' = [bp EXCEPT ![p] = Ended(bp[p], "failed")] /\ wire' = wire /\ line' = line
  BY DEF CloseNoFile, Transmits
<1>2. IInv' /\ Good(bp[p])
  BY CloseNoFileTyped, BpGood
<1> QED
  BY <1>1, <1>2, EndTalk

LEMMA StopsSendingView ==
  ASSUME NEW s, Good(s), NEW f \in File
  PROVE  LET t == StopsSending(s, f) IN
         /\ Good(t) /\ KeepRx(s, t) /\ t.queue = s.queue /\ t.tosend = s.tosend /\ t.state = s.state
         /\ t.FtState = s.FtState /\ t.offset = s.offset
         /\ t.TxState = "TxTryR" => s.TxState = "TxTryR" /\ t.cursend = s.cursend /\ t.txpos = s.txpos
<1>1. Good(StopsSending(s, f)) /\ s \in Session
  BY StopsSendingGood DEF Good
<1>2. CASE s.state[f] = "Sending"
  <2> DEFINE t == [s EXCEPT !.txfp = NoFile, !.cursend = NoFile, !.TxState = "TxGNF"]
  <2>1. /\ KeepRx(s, t) /\ t.queue = s.queue /\ t.tosend = s.tosend /\ t.state = s.state
        /\ t.FtState = s.FtState /\ t.offset = s.offset /\ t.TxState = "TxGNF"
    BY <1>1 DEF Session, KeepRx
  <2>2. StopsSending(s, f) = t
    BY <1>2 DEF StopsSending
  <2> HIDE DEF t
  <2> QED
    BY <1>1, <2>1, <2>2
<1>3. CASE s.state[f] # "Sending"
  <2>1. StopsSending(s, f) = s
    BY <1>3 DEF StopsSending
  <2> QED
    BY <1>1, <2>1 DEF KeepRx
<1> QED
  BY <1>2, <1>3

LEMMA DisposedView ==
  ASSUME NEW s, Good(s), NEW f \in File, NEW st \in {"Got", "Skipped"}
  PROVE  LET t == [s EXCEPT !.state[f] = st] IN
         /\ Good(t) /\ KeepRx(s, t) /\ t.queue = s.queue /\ t.tosend = s.tosend
         /\ \A g \in File : t.state[g] = IF g = f THEN st ELSE s.state[g]
         /\ t.FtState = s.FtState /\ t.TxState = s.TxState /\ t.cursend = s.cursend /\ t.txpos = s.txpos
         /\ t.offset = s.offset
<1> DEFINE t == [s EXCEPT !.state[f] = st]
<1>1. Good(t) /\ s \in Session
  BY DisposedGood DEF Good
<1>2. s.state \in [File -> FileState]
  BY <1>1, ZenonT(20) DEF Session
<1>3. t.state = [s.state EXCEPT ![f] = st]
  BY <1>1 DEF Session
<1>4. \A g \in File : t.state[g] = IF g = f THEN st ELSE s.state[g]
  <2> HIDE DEF t
  <2> QED
    BY <1>2, <1>3
<1>5. /\ KeepRx(s, t) /\ t.queue = s.queue /\ t.tosend = s.tosend
      /\ t.FtState = s.FtState /\ t.TxState = s.TxState /\ t.cursend = s.cursend /\ t.txpos = s.txpos
      /\ t.offset = s.offset
  BY <1>1 DEF Session, KeepRx
<1> HIDE DEF t
<1> QED
  BY <1>1, <1>4, <1>5 DEF t

\* What is the same whether the file is in the list or not.
Processing(p, t) ==
  /\ Good(t) /\ ~Over(t) /\ KeepRx(bp[p], t) /\ t.queue = Tail(bp[p].queue) /\ t.tosend = bp[p].tosend
  /\ \A f \in File : t.state[f] = bp[p].state[f] \/ (f = Message(p).file /\ bp[p].state[f] # "Absent")
  /\ t.TxState = "TxTryR" => bp[p].TxState = "TxTryR" /\ t.cursend = bp[p].cursend /\ t.txpos = bp[p].txpos

LEMMA ProcessedProcessing ==
  ASSUME IInv, NEW p \in Party, NEW cmd \in Answering, Processes(p, cmd)
  PROVE  Processing(p, Processed(bp[p])) /\ Processed(bp[p]).state = bp[p].state
<1>1. Good(bp[p]) /\ Good(Processed(bp[p]))
  BY BpGood, MessageTyped
<1>2. LET t == Processed(bp[p]) IN KeepRx(bp[p], t) /\ KeepTx(bp[p], t) /\ t.queue = Tail(bp[p].queue) /\ ~Over(t)
  BY <1>1, ProcessedView
<1> QED
  BY <1>1, <1>2 DEF Processing, KeepTx

LEMMA DisposedProcessing ==
  ASSUME IInv, NEW p \in Party, NEW cmd \in Answering, Processes(p, cmd), InList(p, Message(p).file),
         NEW st \in {"Got", "Skipped"}
  PROVE  LET t == [StopsSending(Processed(bp[p]), Message(p).file) EXCEPT !.state[Message(p).file] = st] IN
         /\ Processing(p, t)
         /\ \A g \in File : t.state[g] = IF g = Message(p).file THEN st ELSE bp[p].state[g]
         /\ t.offset = bp[p].offset
<1> DEFINE f == Message(p).file
           s == Processed(bp[p])
           u == StopsSending(s, f)
           t == [u EXCEPT !.state[f] = st]
<1>1. f \in File /\ bp[p].state[f] # "Absent"
  BY ProcessesView DEF InList
<1>2. Processing(p, s) /\ s.state = bp[p].state
  BY ProcessedProcessing
<1>3. Good(bp[p]) /\ Good(s) /\ ~Over(s) /\ KeepRx(bp[p], s) /\ s.queue = Tail(bp[p].queue) /\ s.tosend = bp[p].tosend
      /\ (s.TxState = "TxTryR" => bp[p].TxState = "TxTryR" /\ s.cursend = bp[p].cursend /\ s.txpos = bp[p].txpos)
  BY <1>2, BpGood DEF Processing
<1>7. s.offset = bp[p].offset
  BY <1>3, ProcessedView DEF KeepTx
<1> HIDE DEF f, s
<1>4. /\ Good(u) /\ KeepRx(s, u) /\ u.queue = s.queue /\ u.tosend = s.tosend /\ u.state = s.state
      /\ u.FtState = s.FtState /\ u.offset = s.offset
      /\ u.TxState = "TxTryR" => s.TxState = "TxTryR" /\ u.cursend = s.cursend /\ u.txpos = s.txpos
  BY <1>1, <1>3, StopsSendingView
<1> HIDE DEF u
<1>5. /\ Good(t) /\ KeepRx(u, t) /\ t.queue = u.queue /\ t.tosend = u.tosend
      /\ \A g \in File : t.state[g] = IF g = f THEN st ELSE u.state[g]
      /\ t.FtState = u.FtState /\ t.TxState = u.TxState /\ t.cursend = u.cursend /\ t.txpos = u.txpos
      /\ t.offset = u.offset
  BY <1>1, <1>4, DisposedView, ZenonT(60)
<1> HIDE DEF t
<1>6. Processing(p, t)
  <2>1. KeepRx(bp[p], t)
    BY <1>3, <1>4, <1>5 DEF KeepRx
  <2>2. ~Over(t)
    BY <1>3, <1>4, <1>5 DEF Over
  <2>3. \A g \in File : t.state[g] = bp[p].state[g] \/ (g = Message(p).file /\ bp[p].state[g] # "Absent")
    BY <1>1, <1>2, <1>4, <1>5 DEF f
  <2> QED
    BY <1>3, <1>4, <1>5, <2>1, <2>2, <2>3 DEF Processing
<1>8. (\A g \in File : t.state[g] = IF g = f THEN st ELSE bp[p].state[g]) /\ t.offset = bp[p].offset
  BY <1>2, <1>4, <1>5, <1>7
<1> QED
  BY <1>6, <1>8 DEF t, u, s, f

LEMMA ProcessingTalk ==
  ASSUME IInv, Talk, IInv', NEW p \in Party, NEW cmd \in Answering, Processes(p, cmd), NEW t,
         bp' = [bp EXCEPT ![p] = t], Processing(p, t), wire' = wire, line' = line
  PROVE  Talk'
BY ProcessTalk DEF Processing

LEMMA ProcessGotView ==
  ASSUME IInv, NEW p \in Party, ProcessGot(p)
  PROVE  /\ "GOT" \in Answering /\ Processes(p, "GOT")
         /\ \E t : bp' = [bp EXCEPT ![p] = t] /\ Processing(p, t) /\ t.offset = bp[p].offset
                   /\ \A g \in File : t.state[g] \in {bp[p].state[g], "Got"}
<1> DEFINE f == Message(p).file
           s == Processed(bp[p])
           t == [StopsSending(s, f) EXCEPT !.state[f] = "Got"]
<1>1. Processes(p, "GOT") /\ bp' = [bp EXCEPT ![p] = IF InList(p, f) THEN t ELSE s]
  BY DEF ProcessGot, Transmits
<1>2. "GOT" \in Answering
  BY DEF Answering
<1>3. CASE InList(p, f)
  <2>1. Processing(p, t) /\ t.offset = bp[p].offset /\ \A g \in File : t.state[g] = IF g = f THEN "Got" ELSE bp[p].state[g]
    BY <1>1, <1>2, <1>3, DisposedProcessing
  <2>2. bp' = [bp EXCEPT ![p] = t]
    BY <1>1, <1>3
  <2> HIDE DEF t
  <2> QED
    BY <1>1, <1>2, <2>1, <2>2, ZenonT(60)
<1>4. CASE ~InList(p, f)
  <2>1. Processing(p, s) /\ s.state = bp[p].state
    BY <1>1, <1>2, ProcessedProcessing
  <2>2. s.offset = bp[p].offset
    BY BpGood, ProcessedView DEF KeepTx
  <2>3. bp' = [bp EXCEPT ![p] = s]
    BY <1>1, <1>4
  <2> HIDE DEF s
  <2> QED
    BY <1>1, <1>2, <2>1, <2>2, <2>3
<1> QED
  BY <1>3, <1>4

LEMMA ProcessSkipView ==
  ASSUME IInv, NEW p \in Party, ProcessSkip(p)
  PROVE  /\ "SKIP" \in Answering /\ Processes(p, "SKIP")
         /\ \E t : bp' = [bp EXCEPT ![p] = t] /\ Processing(p, t) /\ t.offset = bp[p].offset
                   /\ \A g \in File : t.state[g] \in {bp[p].state[g], "Skipped"}
<1> DEFINE f == Message(p).file
           s == Processed(bp[p])
           t == [StopsSending(s, f) EXCEPT !.state[f] = "Skipped"]
<1>1. Processes(p, "SKIP") /\ bp' = [bp EXCEPT ![p] = IF InList(p, f) THEN t ELSE s]
  BY DEF ProcessSkip, Transmits
<1>2. "SKIP" \in Answering
  BY DEF Answering
<1>3. CASE InList(p, f)
  <2>1. Processing(p, t) /\ t.offset = bp[p].offset
        /\ \A g \in File : t.state[g] = IF g = f THEN "Skipped" ELSE bp[p].state[g]
    BY <1>1, <1>2, <1>3, DisposedProcessing
  <2>2. bp' = [bp EXCEPT ![p] = t]
    BY <1>1, <1>3
  <2> HIDE DEF t
  <2> QED
    BY <1>1, <1>2, <2>1, <2>2, ZenonT(60)
<1>4. CASE ~InList(p, f)
  <2>1. Processing(p, s) /\ s.state = bp[p].state
    BY <1>1, <1>2, ProcessedProcessing
  <2>2. s.offset = bp[p].offset
    BY BpGood, ProcessedView DEF KeepTx
  <2>3. bp' = [bp EXCEPT ![p] = s]
    BY <1>1, <1>4
  <2> HIDE DEF s
  <2> QED
    BY <1>1, <1>2, <2>1, <2>2, <2>3
<1> QED
  BY <1>3, <1>4

\* The file asked for again is to be sent from the offset asked for.
LEMMA ProcessGetView ==
  ASSUME IInv, NEW p \in Party, ProcessGet(p)
  PROVE  /\ "GET" \in Answering /\ Processes(p, "GET")
         /\ \E t : bp' = [bp EXCEPT ![p] = t] /\ Processing(p, t)
                   /\ \A g \in File :
                        \/ t.state[g] = bp[p].state[g] /\ t.offset[g] = bp[p].offset[g]
                        \/ g = Message(p).file /\ t.offset[g] = Message(p).offs /\ t.offset[g] < Size[g]
<1> DEFINE m == Message(p)
           s == Processed(bp[p])
           t == [s EXCEPT !.state[m.file] = "NoState", !.offset[m.file] = m.offs, !.TxState = "TxGNF"]
<1>1. Processes(p, "GET") /\ bp' = [bp EXCEPT ![p] = IF InList(p, m.file) /\ m.offs < Size[m.file] THEN t ELSE s]
  BY DEF ProcessGet, Transmits
<1>2. "GET" \in Answering /\ m.file \in File /\ m.offs \in Nat
  BY <1>1, MessageTyped DEF Answering
<1>3. Processing(p, s) /\ s.state = bp[p].state
  BY <1>1, <1>2, ProcessedProcessing
<1>4. s.offset = bp[p].offset /\ Good(s) /\ Good(bp[p])
  BY <1>3, BpGood, ProcessedView DEF KeepTx, Processing
<1>5. CASE InList(p, m.file) /\ m.offs < Size[m.file]
  <2>1. Good(t)
    BY <1>2, <1>4, AskedAgainGood
  <2>2. s \in Session /\ s.state \in [File -> FileState] /\ s.offset \in [File -> Nat]
    BY <1>4, ZenonT(20) DEF Good, Session
  <2> HIDE DEF m, s
  <2>3. KeepRx(s, t) /\ t.queue = s.queue /\ t.tosend = s.tosend /\ t.FtState = s.FtState /\ t.TxState = "TxGNF"
    BY <2>2 DEF Session, KeepRx
  <2>4. t.state = [s.state EXCEPT ![m.file] = "NoState"]
    BY <2>2 DEF Session
  <2>5. t.offset = [s.offset EXCEPT ![m.file] = m.offs]
    BY <2>2 DEF Session
  <2>6. bp' = [bp EXCEPT ![p] = t]
    BY <1>1, <1>5 DEF m, s
  <2> HIDE DEF t
  <2>7. \A g \in File : (t.state[g] = s.state[g] /\ t.offset[g] = s.offset[g]) \/ (g = m.file /\ t.offset[g] = m.offs /\ m.offs < Size[m.file])
    BY <1>5, <2>2, <2>4, <2>5
  <2>8. Processing(p, t)
    <3>1. /\ ~Over(s) /\ KeepRx(bp[p], s) /\ s.queue = Tail(bp[p].queue) /\ s.tosend = bp[p].tosend
      BY <1>3 DEF Processing
    <3>2. KeepRx(bp[p], t) /\ ~Over(t)
      BY <2>3, <3>1 DEF KeepRx, Over
    <3>3. bp[p].state[m.file] # "Absent"
      BY <1>5 DEF InList
    <3>4. \A g \in File : t.state[g] = bp[p].state[g] \/ (g = Message(p).file /\ bp[p].state[g] # "Absent")
      BY <1>3, <2>2, <2>4, <3>3 DEF m
    <3> QED
      BY <2>1, <2>3, <3>1, <3>2, <3>4 DEF Processing
  <2>9. \A g \in File :
          \/ t.state[g] = bp[p].state[g] /\ t.offset[g] = bp[p].offset[g]
          \/ g = Message(p).file /\ t.offset[g] = Message(p).offs /\ t.offset[g] < Size[g]
    BY <1>3, <1>4, <2>7 DEF m
  <2> QED
    BY <1>1, <1>2, <2>6, <2>8, <2>9
<1>6. CASE ~(InList(p, m.file) /\ m.offs < Size[m.file])
  <2>1. bp' = [bp EXCEPT ![p] = s]
    BY <1>1, <1>6
  <2> HIDE DEF s
  <2> QED
    BY <1>1, <1>2, <1>3, <1>4, <2>1
<1> QED
  BY <1>5, <1>6

LEMMA ProcessActionsTalk ==
  ASSUME IInv, Talk, NEW p \in Party, ProcessGet(p) \/ ProcessGot(p) \/ ProcessSkip(p)
  PROVE  Talk'
<1>1. CASE ProcessGet(p)
  <2>1. IInv' /\ wire' = wire /\ line' = line
    BY <1>1, ProcessGetTyped DEF ProcessGet
  <2> QED
    BY <1>1, <2>1, ProcessGetView, ProcessingTalk
<1>2. CASE ProcessGot(p)
  <2>1. IInv' /\ wire' = wire /\ line' = line
    BY <1>2, ProcessGotTyped DEF ProcessGot, world
  <2> QED
    BY <1>2, <2>1, ProcessGotView, ProcessingTalk
<1>3. CASE ProcessSkip(p)
  <2>1. IInv' /\ wire' = wire /\ line' = line
    BY <1>3, ProcessSkipTyped DEF ProcessSkip
  <2> QED
    BY <1>3, <2>1, ProcessSkipView, ProcessingTalk
<1> QED
  BY <1>1, <1>2, <1>3

LEMMA TransmitTalk == ASSUME IInv, Talk, NEW p \in Party, Transmit(p) PROVE Talk'
BY MakeListTalk, SendFileTalk, PassFileTalk, SendEOBTalk, SendBlockTalk, ReadFailsTalk, ProcessActionsTalk,
   CloseNoFileTalk, WaitAcksTalk, Zenon DEF Transmit

(***************************************************************************)
(* The steps of the receiver                                               *)
(***************************************************************************)
LEMMA RestView ==
  ASSUME IInv, NEW p \in Party, Arrives(p)
  PROVE  /\ Rest(p) \in [Party -> Seq(Frame)]
         /\ Rest(p)[Peer(p)] = Tail(wire[Peer(p)]) /\ Rest(p)[p] = wire[p]
         /\ wire[Peer(p)] # <<>> /\ Incoming(p) = Head(wire[Peer(p)]) /\ Incoming(p) \in Frame /\ ~Over(bp[p])
<1>1. Peer(p) \in Party /\ Peer(p) # p
  BY Peers
<1>2. wire \in [Party -> Seq(Frame)]
  BY DEF IInv, TypeOK
<1>3. Rest(p)[Peer(p)] = Tail(wire[Peer(p)]) /\ Rest(p)[p] = wire[p]
  BY <1>1, <1>2 DEF Rest
<1> QED
  BY <1>3, ArrivesTyped, ArrivesLive DEF Incoming

\* An answer, or what is sent after a frame was read.
LEMMA SentRestView ==
  ASSUME IInv, NEW p \in Party, Arrives(p), NEW m
  PROVE  LET w == Sent(Rest(p), p, m) IN
         w[Peer(p)] = Tail(wire[Peer(p)]) /\ (w[p] = wire[p] \/ w[p] = Append(wire[p], m))
BY RestView, SentView

LEMMA QueueMessageView ==
  ASSUME IInv, NEW p \in Party, QueueMessage(p)
  PROVE  \E t : /\ bp' = [bp EXCEPT ![p] = t] /\ Good(t) /\ ~Over(t) /\ KeepRx(bp[p], t) /\ KeepTx(bp[p], t)
                /\ t.queue = Append(bp[p].queue, Incoming(p)) /\ Incoming(p) \in Queued
<1> DEFINE m == Incoming(p)
           s == Polled(p)
           u == [s EXCEPT !.queue = Append(@, m)]
           t == Received(u)
<1>1. Arrives(p) /\ m.cmd \in Answering /\ bp' = [bp EXCEPT ![p] = t]
  BY DEF QueueMessage, Answering
<1>2. m \in Queued
  BY <1>1, ArrivesTyped, FrameTyped DEF Answering
<1>3. Good(s) /\ Keep(bp[p], s)
  BY PolledGood, PolledView
<1> HIDE DEF s
<1>4. Good(u)
  BY <1>2, <1>3, QueueGood
<1>5. KeepRx(s, u) /\ KeepTx(s, u) /\ u.queue = Append(s.queue, m)
  BY <1>3 DEF Good, Session, KeepRx, KeepTx
<1> HIDE DEF u, m
<1>6. Good(t) /\ Keep(u, t) /\ ~Over(t)
  BY <1>4, ReceivedGood, ReceivedView
<1>7. KeepRx(bp[p], t) /\ KeepTx(bp[p], t) /\ t.queue = Append(bp[p].queue, m)
  BY <1>3, <1>5, <1>6 DEF Keep, KeepRx, KeepTx
<1> HIDE DEF t
<1> QED
  BY <1>1, <1>2, <1>6, <1>7 DEF m

\* An answer passes from the wire to the queue.
LEMMA QueueMessageTalk == ASSUME IInv, Talk, NEW p \in Party, QueueMessage(p) PROVE Talk'
<1> DEFINE q == Peer(p)
           m == Incoming(p)
<1>1. /\ Arrives(p) /\ m.cmd \in Answering /\ wire' = Rest(p) /\ line' = line
  BY DEF QueueMessage, Answering
<1>2. IInv'
  BY QueueMessageTyped
<1>3. PICK t : /\ bp' = [bp EXCEPT ![p] = t] /\ Good(t) /\ ~Over(t) /\ KeepRx(bp[p], t) /\ KeepTx(bp[p], t)
               /\ t.queue = Append(bp[p].queue, Incoming(p)) /\ Incoming(p) \in Queued
  BY QueueMessageView
<1>4. bp'[p] = t /\ bp'[q] = bp[q]
  BY <1>3, BpView
<1>5. /\ wire'[q] = Tail(wire[q]) /\ wire'[p] = wire[p] /\ wire[q] # <<>> /\ m = Head(wire[q]) /\ ~Over(bp[p])
  BY <1>1, RestView
<1>6. q \in Party /\ Peer(q) = p /\ wire[p] \in Seq(Frame) /\ wire[q] \in Seq(Frame) /\ wire'[q] \in Seq(Frame)
  BY <1>2, Peers DEF IInv, TypeOK
<1>7. Good(bp[p]) /\ Good(bp[q]) /\ Mine(p, bp[p]) /\ Mine(q, bp[q])
  BY <1>6, BpGood, MineView
<1>8. Mine(p, bp'[p]) /\ Mine(q, bp'[q])
  BY <1>3, <1>4, <1>5, <1>7, InKept DEF KeepTx, Mine
<1>9. Announces(p, wire'[p]) /\ Announces(q, wire'[q])
  BY <1>5, <1>6, AnnouncesLess DEF Talk, Owned
<1>10. In(t) \subseteq In(bp[p]) /\ Out(line, t, bp[q]) = Out(line, bp[p], bp[q])
  BY <1>3, <1>5, InKept DEF Out, KeepTx
<1>11. Flows(wire'[p], In(bp'[q]), Out(line', bp'[p], bp'[q]))
  BY <1>1, <1>4, <1>5, <1>10, StreamKept DEF Talk
<1>12. Flows(wire'[q], In(bp'[p]), Out(line', bp'[q], bp'[p]))
  <2>1. ~Streaming(Incoming(p))
    BY <1>1 DEF Streaming, Answering
  <2> QED
    BY <1>1, <1>4, <1>5, <1>10, <2>1, StreamConsumed DEF Talk
<1> HIDE DEF m
<1>13. ASSUME NEW f \in File, Owner[f] = p PROVE Single(f, wire'[p], wire'[q], bp'[p], bp'[q])
  <2> DEFINE here == IF Marked(m, Answering, f) THEN 1 ELSE 0
  <2>1. Single(f, wire[p], wire[q], bp[p], bp[q])
    BY <1>13, SingleView DEF Talk
  <2>2. Replies(wire[q], f) = Replies(wire'[q], f) + here
    BY <1>5, <1>6, WireCounts
  <2>3. Count(t.queue, Answering, f) = Count(bp[p].queue, Answering, f) + here
    BY <1>3, <1>7, QueueTyped, CountAppend DEF m
  <2>4. Waiting(t, f) = Waiting(bp[p], f) + here
    BY <1>3, <1>5, <2>3 DEF Waiting
  <2>5. /\ Load(f, wire[p], wire[q], bp[p], bp[q]) \in Nat
        /\ Load(f, wire[p], wire'[q], t, bp[q]) \in Nat
        /\ Posted(wire[p], f) \in Nat /\ Replies(wire[q], f) \in Nat /\ Waiting(bp[p], f) \in Nat
        /\ Coming(bp[q], f) \in {0, 1} /\ Waiting(t, f) \in Nat /\ Replies(wire'[q], f) \in Nat
    BY <1>3, <1>6, <1>7, LoadType
  <2>6. Load(f, wire[p], wire[q], bp[p], bp[q])
        = Posted(wire[p], f) + Replies(wire[q], f) + Waiting(bp[p], f) + Coming(bp[q], f)
    BY DEF Load
  <2>7. Load(f, wire[p], wire'[q], t, bp[q])
        = Posted(wire[p], f) + Replies(wire'[q], f) + Waiting(t, f) + Coming(bp[q], f)
    BY DEF Load
  <2>8. here \in Nat
    OBVIOUS
  <2> HIDE DEF here
  <2>9. Load(f, wire[p], wire[q], bp[p], bp[q]) = Load(f, wire[p], wire'[q], t, bp[q])
    BY <2>2, <2>4, <2>5, <2>6, <2>7, <2>8
  <2>10. t.state = bp[p].state
    BY <1>3 DEF KeepTx
  <2>11. Single(f, wire[p], wire'[q], t, bp[q])
    BY <1>5, <2>1, <2>9, <2>10 DEF Single
  <2> QED
    BY <1>4, <1>5, <2>11
<1>14. ASSUME NEW f \in File, Owner[f] = q PROVE Single(f, wire'[q], wire'[p], bp'[q], bp'[p])
  <2>1. Single(f, wire[q], wire[p], bp[q], bp[p])
    BY <1>14, SingleView DEF Talk
  <2>2. Posted(wire'[q], f) <= Posted(wire[q], f)
    BY <1>5, <1>6, ReadCounts
  <2>3. Coming(t, f) <= Coming(bp[p], f)
    <3>1. Await(t) => Await(bp[p])
      BY <1>10 DEF In
    <3>2. t.rname = bp[p].rname
      BY <1>3 DEF KeepRx
    <3> QED
      BY <3>1, <3>2 DEF Coming
  <2>4. /\ Load(f, wire[q], wire[p], bp[q], bp[p]) \in Nat
        /\ Load(f, wire'[q], wire[p], bp[q], t) \in Nat
        /\ Posted(wire[q], f) \in Nat /\ Replies(wire[p], f) \in Nat /\ Waiting(bp[q], f) \in Nat
        /\ Coming(bp[p], f) \in {0, 1} /\ Coming(t, f) \in {0, 1} /\ Posted(wire'[q], f) \in Nat
    BY <1>6, <1>7, LoadType
  <2>5. Load(f, wire'[q], wire[p], bp[q], t) <= Load(f, wire[q], wire[p], bp[q], bp[p])
    BY <2>2, <2>3, <2>4 DEF Load
  <2>6. Single(f, wire'[q], wire[p], bp[q], t)
    BY <2>1, <2>4, <2>5, SingleLess
  <2> QED
    BY <1>4, <1>5, <2>6
<1> QED
  BY <1>8, <1>9, <1>11, <1>12, <1>13, <1>14, TalkStep

LEMMA IgnoreView ==
  ASSUME IInv, NEW p \in Party, Ignore(p)
  PROVE  \E t : bp' = [bp EXCEPT ![p] = t] /\ Good(t) /\ ~Over(t) /\ Keep(bp[p], t)
<1>1. bp' = [bp EXCEPT ![p] = Received(Polled(p))]
  BY DEF Ignore
<1>2. Good(Polled(p)) /\ Keep(bp[p], Polled(p))
  BY PolledGood, PolledView
<1>3. Good(Received(Polled(p))) /\ Keep(Polled(p), Received(Polled(p))) /\ ~Over(Received(Polled(p)))
  BY <1>2, ReceivedGood, ReceivedView
<1>4. Keep(bp[p], Received(Polled(p)))
  BY <1>2, <1>3 DEF Keep, KeepRx, KeepTx
<1> QED
  BY <1>1, <1>3, <1>4

LEMMA IgnoreTalk == ASSUME IInv, Talk, NEW p \in Party, Ignore(p) PROVE Talk'
<1> DEFINE m == Incoming(p)
<1>1. /\ Arrives(p) /\ wire' = Rest(p) /\ line' = line
      /\ m.cmd = "NUL" \/ (m.cmd = "DATA" /\ bp[p].RxState = "RxWaitF")
  BY DEF Ignore
<1>2. PICK t : bp' = [bp EXCEPT ![p] = t] /\ Good(t) /\ ~Over(t) /\ Keep(bp[p], t)
  BY IgnoreView
<1>3. IInv' /\ bp'[p] = t /\ bp'[Peer(p)] = bp[Peer(p)]
  BY <1>2, BpView, IgnoreTyped
<1>4. wire'[Peer(p)] = Tail(wire[Peer(p)]) /\ wire'[p] = wire[p] /\ ~Over(bp[p])
  BY <1>1, RestView
<1>5. m.cmd \notin Answering
  BY <1>1 DEF Answering
<1>6. KeepRx(bp[p], t) /\ KeepTx(bp[p], t) /\ t.queue = bp[p].queue
  BY <1>2 DEF Keep
<1>7. In(t) \subseteq In(bp[p]) /\ t.rname = bp[p].rname /\ t.rxfp = bp[p].rxfp
  BY <1>4, <1>6, InKept
<1>8. In(t) \subseteq IF Streaming(m) THEN {Placed(m)} ELSE In(bp[p])
  <2>1. CASE m.cmd = "NUL"
    BY <1>7, <2>1 DEF Streaming
  <2>2. CASE bp[p].RxState = "RxWaitF"
    <3>1. In(t) = {}
      BY <1>6, <2>2 DEF KeepRx, In, Await
    <3> QED
      BY <3>1
  <2> QED
    BY <1>1, <2>1, <2>2
<1>9. Await(t) => Await(bp[p])
  BY <1>7 DEF In
<1> HIDE DEF m
<1> QED
  BY <1>1, <1>2, <1>3, <1>4, <1>5, <1>6, <1>7, <1>8, <1>9, ReceiverTalk DEF m

\* The next batch begins: no file of p is under way, and nothing is awaited.
LEMMA BatchTalk ==
  ASSUME IInv, Talk, IInv', NEW p \in Party, NEW t, bp' = [bp EXCEPT ![p] = t], Good(t), ~Over(t), ~Over(bp[p]),
         \A f \in File : bp[p].state[f] \notin {"Sending", "IsSent"},
         \A f \in File : t.state[f] = "Absent",
         t.queue = bp[p].queue, t.TxState = "TxGNF", t.RxState = "RxWaitF",
         t.rname = bp[p].rname, t.rxfp = bp[p].rxfp,
         Arrives(p), wire' = Rest(p), line' = line
  PROVE  Talk'
<1> DEFINE q == Peer(p)
<1>1. bp'[p] = t /\ bp'[q] = bp[q]
  BY BpView
<1>2. wire'[q] = Tail(wire[q]) /\ wire'[p] = wire[p] /\ wire[q] # <<>>
  BY RestView
<1>3. q \in Party /\ Peer(q) = p /\ wire[p] \in Seq(Frame) /\ wire[q] \in Seq(Frame) /\ wire'[q] \in Seq(Frame)
  BY Peers DEF IInv, TypeOK
<1>4. Good(bp[p]) /\ Good(bp[q]) /\ Mine(p, bp[p]) /\ Mine(q, bp[q])
  BY <1>3, BpGood, MineView
<1>5. Mine(p, bp'[p]) /\ Mine(q, bp'[q])
  BY <1>1, <1>4 DEF Mine
<1>6. Announces(p, wire'[p]) /\ Announces(q, wire'[q])
  BY <1>2, <1>3, AnnouncesLess DEF Talk, Owned
<1>7. In(t) = {} /\ Out(line, t, bp[q]) = {}
  BY OutNone DEF In, Await
<1>8. Flows(wire'[p], In(bp'[q]), Out(line', bp'[p], bp'[q]))
  BY <1>1, <1>2, <1>7, StreamKept DEF Talk
<1>9. Flows(wire'[q], In(bp'[p]), Out(line', bp'[q], bp'[p]))
  BY <1>1, <1>2, <1>7, StreamConsumed DEF Talk
<1>10. ASSUME NEW f \in File, Owner[f] = p PROVE Single(f, wire'[p], wire'[q], bp'[p], bp'[q])
  <2>1. Load(f, wire[p], wire[q], bp[p], bp[q]) = 0
    BY <1>10, NoLoad
  <2>2. Replies(wire'[q], f) <= Replies(wire[q], f)
    BY <1>2, <1>3, ReadCounts
  <2>3. Waiting(t, f) = Waiting(bp[p], f)
    BY DEF Waiting
  <2>4. /\ Posted(wire[p], f) \in Nat /\ Replies(wire[q], f) \in Nat /\ Waiting(bp[p], f) \in Nat
        /\ Coming(bp[q], f) \in {0, 1} /\ Replies(wire'[q], f) \in Nat
    BY <1>3, <1>4, LoadType
  <2>5. Posted(wire[p], f) + Replies(wire[q], f) + Waiting(bp[p], f) + Coming(bp[q], f) = 0
    BY <2>1 DEF Load
  <2>6. Posted(wire[p], f) + Replies(wire'[q], f) + Waiting(t, f) + Coming(bp[q], f) = 0
    BY <2>2, <2>3, <2>4, <2>5
  <2>7. Load(f, wire[p], wire'[q], t, bp[q]) = 0
    BY <2>6 DEF Load
  <2>8. Single(f, wire[p], wire'[q], t, bp[q])
    BY <2>7 DEF Single
  <2> QED
    BY <1>1, <1>2, <2>8
<1>11. ASSUME NEW f \in File, Owner[f] = q PROVE Single(f, wire'[q], wire'[p], bp'[q], bp'[p])
  <2>1. Single(f, wire[q], wire[p], bp[q], bp[p])
    BY <1>11, SingleView DEF Talk
  <2>2. Posted(wire'[q], f) <= Posted(wire[q], f)
    BY <1>2, <1>3, ReadCounts
  <2>3. Coming(t, f) = 0
    BY DEF Coming, Await
  <2>4. /\ Load(f, wire[q], wire[p], bp[q], bp[p]) \in Nat
        /\ Load(f, wire'[q], wire[p], bp[q], t) \in Nat
        /\ Posted(wire[q], f) \in Nat /\ Replies(wire[p], f) \in Nat /\ Waiting(bp[q], f) \in Nat
        /\ Coming(bp[p], f) \in {0, 1} /\ Posted(wire'[q], f) \in Nat
    BY <1>3, <1>4, LoadType
  <2>5. Load(f, wire'[q], wire[p], bp[q], t) <= Load(f, wire[q], wire[p], bp[q], bp[p])
    BY <2>2, <2>3, <2>4 DEF Load
  <2>6. Single(f, wire'[q], wire[p], bp[q], t)
    BY <2>1, <2>4, <2>5, SingleLess
  <2> QED
    BY <1>1, <1>2, <2>6
<1> QED
  BY <1>5, <1>6, <1>8, <1>9, <1>10, <1>11, TalkStep

\* M_EOB leaves the session as it is, but for the receiver's state, or it starts
\* the next batch.
LEMMA ReceiveEOBView ==
  ASSUME IInv, NEW p \in Party, ReceiveEOB(p)
  PROVE  /\ Arrives(p) /\ Incoming(p).cmd = "EOB" /\ wire' = Rest(p) /\ line' = line
         /\ \E t : /\ bp' = [bp EXCEPT ![p] = t] /\ Good(t) /\ ~Over(t) /\ t.RxState # "RxReceD"
                   /\ t.queue = bp[p].queue /\ KeepOpen(bp[p], t)
                   /\ \/ KeepTx(bp[p], t)
                      \/ /\ t.TxState = "TxGNF" /\ t.RxState = "RxWaitF"
                         /\ \A f \in File : t.state[f] = "Absent" /\ bp[p].state[f] \notin {"Sending", "IsSent"}
<1> DEFINE s == Polled(p)
<1>1. /\ Arrives(p) /\ Incoming(p).cmd = "EOB" /\ wire' = Rest(p) /\ line' = line /\ s.RxState = "RxWaitF"
      /\ \/ bp' = [bp EXCEPT ![p] = Received([s EXCEPT !.RxState = "RxEOB"])]
         \/ Pending(s) = {} /\ bp' = [bp EXCEPT ![p] = Received(NextBatch(s))]
         \/ bp' = [bp EXCEPT ![p] = Received(s)]
  BY DEF ReceiveEOB
<1>2. Good(s) /\ Keep(bp[p], s)
  BY PolledGood, PolledView
<1> HIDE DEF s
<1>3. CASE bp' = [bp EXCEPT ![p] = Received([s EXCEPT !.RxState = "RxEOB"])]
  <2> DEFINE u == [s EXCEPT !.RxState = "RxEOB"]
  <2>1. Good(u)
    BY <1>2, InRxEOBGood
  <2>2. u.RxState = "RxEOB" /\ u.queue = s.queue /\ KeepOpen(s, u) /\ KeepTx(s, u)
    BY <1>2 DEF Good, Session, KeepOpen, KeepTx
  <2> HIDE DEF u
  <2>3. Good(Received(u)) /\ Keep(u, Received(u)) /\ ~Over(Received(u))
    BY <2>1, ReceivedGood, ReceivedView
  <2>4. KeepTx(bp[p], Received(u))
    BY <1>2, <2>2, <2>3 DEF Keep, KeepTx
  <2>5. LET t == Received(u) IN
        t.RxState # "RxReceD" /\ t.queue = bp[p].queue /\ KeepOpen(bp[p], t)
    BY <1>2, <2>2, <2>3 DEF Keep, KeepRx, KeepOpen
  <2>6. bp' = [bp EXCEPT ![p] = Received(u)]
    BY <1>3 DEF u
  <2> QED
    BY <1>1, <2>3, <2>4, <2>5, <2>6
<1>4. CASE Pending(s) = {} /\ bp' = [bp EXCEPT ![p] = Received(NextBatch(s))]
  <2> DEFINE u == NextBatch(s)
  <2>1. /\ Good(u) /\ u.queue = s.queue /\ u.TxState = "TxGNF" /\ u.RxState = "RxWaitF"
        /\ KeepOpen(s, u) /\ \A f \in File : u.state[f] = "Absent"
    BY <1>2, NextBatchGood, NextBatchView DEF KeepOpen
  <2> HIDE DEF u
  <2>2. Good(Received(u)) /\ Keep(u, Received(u)) /\ ~Over(Received(u))
    BY <2>1, ReceivedGood, ReceivedView
  <2>3. LET t == Received(u) IN
        /\ t.RxState = "RxWaitF" /\ t.TxState = "TxGNF" /\ t.queue = bp[p].queue /\ KeepOpen(bp[p], t)
        /\ \A f \in File : t.state[f] = "Absent"
    BY <1>2, <2>1, <2>2 DEF Keep, KeepRx, KeepTx, KeepOpen
  <2>4. \A f \in File : bp[p].state[f] \notin {"Sending", "IsSent"}
    BY <1>2, <1>4, NotPending DEF Keep, KeepTx
  <2>5. bp' = [bp EXCEPT ![p] = Received(u)]
    BY <1>4 DEF u
  <2> QED
    BY <1>1, <2>2, <2>3, <2>4, <2>5
<1>5. CASE bp' = [bp EXCEPT ![p] = Received(s)]
  <2>1. Good(Received(s)) /\ Keep(s, Received(s)) /\ ~Over(Received(s))
    BY <1>2, ReceivedGood, ReceivedView
  <2>2. KeepTx(bp[p], Received(s))
    BY <1>2, <2>1 DEF Keep, KeepTx
  <2>3. LET t == Received(s) IN
        t.RxState # "RxReceD" /\ t.queue = bp[p].queue /\ KeepOpen(bp[p], t)
    BY <1>1, <1>2, <2>1 DEF Keep, KeepRx, KeepOpen
  <2> QED
    BY <1>1, <1>5, <2>1, <2>2, <2>3
<1> QED
  BY <1>1, <1>3, <1>4, <1>5

LEMMA ReceiveEOBTalk == ASSUME IInv, Talk, NEW p \in Party, ReceiveEOB(p) PROVE Talk'
<1> DEFINE m == Incoming(p)
<1>1. Arrives(p) /\ m.cmd = "EOB" /\ wire' = Rest(p) /\ line' = line /\ IInv'
  BY ReceiveEOBView, ReceiveEOBTyped
<1>2. PICK t : /\ bp' = [bp EXCEPT ![p] = t] /\ Good(t) /\ ~Over(t) /\ t.RxState # "RxReceD"
               /\ t.queue = bp[p].queue /\ t.rname = bp[p].rname /\ t.rxfp = bp[p].rxfp
               /\ \/ KeepTx(bp[p], t)
                  \/ /\ t.TxState = "TxGNF" /\ t.RxState = "RxWaitF"
                     /\ \A f \in File : t.state[f] = "Absent" /\ bp[p].state[f] \notin {"Sending", "IsSent"}
  BY ReceiveEOBView DEF KeepOpen
<1>3. bp'[p] = t /\ bp'[Peer(p)] = bp[Peer(p)]
  BY <1>2, BpView
<1>4. wire'[Peer(p)] = Tail(wire[Peer(p)]) /\ wire'[p] = wire[p] /\ ~Over(bp[p])
  BY <1>1, RestView
<1>5. m.cmd \notin Answering /\ In(t) = {} /\ ~Await(t)
  BY <1>1, <1>2 DEF Answering, In, Await
<1>6. In(t) \subseteq IF Streaming(m) THEN {Placed(m)} ELSE In(bp[p])
  BY <1>5
<1> HIDE DEF m
<1>7. CASE KeepTx(bp[p], t)
  BY <1>1, <1>2, <1>3, <1>4, <1>5, <1>6, <1>7, ReceiverTalk DEF m
<1>8. CASE /\ t.TxState = "TxGNF" /\ t.RxState = "RxWaitF"
           /\ \A f \in File : t.state[f] = "Absent" /\ bp[p].state[f] \notin {"Sending", "IsSent"}
  BY <1>1, <1>2, <1>4, <1>8, BatchTalk
<1> QED
  BY <1>2, <1>7, <1>8

LEMMA AnnouncedView ==
  ASSUME IInv, NEW p \in Party, Arrives(p), Incoming(p).cmd = "FILE"
  PROVE  LET a == Announced(p)
             m == Incoming(p)
         IN /\ m.file \in File /\ m.offs \in Nat
            /\ Good(a) /\ KeepTx(bp[p], a) /\ a.queue = bp[p].queue /\ a.rname = m.file /\ a.rxpos = m.offs
            /\ a.rxfp \in {bp[p].rxfp, NoFile, m.file}
            /\ a.rxfp \in {NoFile, m.file} \/ (m.offs # 0 /\ m.offs = bp[p].rxbytes /\ a.rxfp = bp[p].rxfp)
            /\ a.rxbytes = Len(tmp[m.file]) \/ (m.offs # 0 /\ a.rxbytes = m.offs)
<1> DEFINE f == Incoming(p).file
           n == Incoming(p).offs
           s == IF bp[p].RxState = "RxReceD" THEN [Polled(p) EXCEPT !.rxfp = NoFile] ELSE Polled(p)
           known == [s EXCEPT !.rname = f, !.rxpos = n]
           opened == [known EXCEPT !.rxfp = f, !.rxbytes = Len(tmp[f]), !.freqname = @ \/ f = Request]
<1>1. Good(Announced(p)) /\ f \in File /\ n \in Nat
  <2>1. Incoming(p) \in Frame
    BY ArrivesTyped
  <2> QED
    BY <2>1, AnnouncedGood, FrameTyped
<1>2. Good(s) /\ KeepTx(bp[p], s) /\ s.queue = bp[p].queue /\ s.rxfp \in {bp[p].rxfp, NoFile} /\ s.rxbytes = bp[p].rxbytes
  <2>1. Good(Polled(p)) /\ Keep(bp[p], Polled(p)) /\ Polled(p).rxbytes = bp[p].rxbytes
    BY PolledGood, PolledView
  <2>2. CASE bp[p].RxState = "RxReceD"
    <3> DEFINE u == [Polled(p) EXCEPT !.rxfp = NoFile]
    <3>1. Good(u)
      BY <2>1, ClosedGood
    <3>2. Polled(p) \in Session
      BY <2>1 DEF Good
    <3>3. KeepTx(Polled(p), u) /\ u.queue = Polled(p).queue /\ u.rxfp = NoFile /\ u.rxbytes = Polled(p).rxbytes
      BY <3>2 DEF Session, KeepTx
    <3>4. s = u
      BY <2>2
    <3> HIDE DEF u, s
    <3>5. KeepTx(bp[p], u)
      BY <2>1, <3>3 DEF Keep, KeepTx
    <3> QED
      BY <2>1, <3>1, <3>3, <3>4, <3>5 DEF Keep
  <2>3. CASE bp[p].RxState # "RxReceD"
    <3>1. s = Polled(p)
      BY <2>3
    <3> HIDE DEF s
    <3> QED
      BY <2>1, <3>1 DEF Keep, KeepRx
  <2> QED
    BY <2>2, <2>3
<1>3. Announced(p) = IF n # 0 /\ n = s.rxbytes THEN known ELSE opened
  BY DEF Announced
<1> HIDE DEF f, n, s
<1>4. /\ KeepTx(bp[p], known) /\ known.queue = bp[p].queue /\ known.rname = f /\ known.rxpos = n
      /\ known.rxfp = s.rxfp /\ known.rxbytes = s.rxbytes
  <2>1. s \in Session
    BY <1>2 DEF Good
  <2>2. KeepTx(s, known) /\ known.queue = s.queue /\ known.rname = f /\ known.rxpos = n
        /\ known.rxfp = s.rxfp /\ known.rxbytes = s.rxbytes
    BY <2>1 DEF Session, KeepTx
  <2> HIDE DEF known
  <2> QED
    BY <1>2, <2>2 DEF KeepTx
<1>5. known \in Session
  BY <1>1, <1>2, KnownGood DEF Good
<1> HIDE DEF known
<1>6. /\ KeepTx(bp[p], opened) /\ opened.queue = bp[p].queue /\ opened.rname = f /\ opened.rxpos = n
      /\ opened.rxfp = f /\ opened.rxbytes = Len(tmp[f])
  <2>2. KeepTx(known, opened) /\ opened.queue = known.queue /\ opened.rname = known.rname /\ opened.rxpos = known.rxpos
        /\ opened.rxfp = f /\ opened.rxbytes = Len(tmp[f])
    BY <1>5 DEF Session, KeepTx
  <2> HIDE DEF opened
  <2> QED
    BY <1>4, <2>2 DEF KeepTx
<1> HIDE DEF opened
<1>7. CASE n # 0 /\ n = s.rxbytes
  <2>1. Announced(p) = known
    BY <1>3, <1>7
  <2> QED
    BY <1>1, <1>2, <1>4, <1>7, <2>1 DEF f, n
<1>8. CASE ~(n # 0 /\ n = s.rxbytes)
  <2>1. Announced(p) = opened
    BY <1>3, <1>8
  <2> QED
    BY <1>1, <1>6, <2>1 DEF f, n
<1> QED
  BY <1>7, <1>8

LEMMA WaitFileView ==
  ASSUME NEW s, Good(s), NEW st \in {"RxWaitF", "RxReceD"}, s.rname \in File
  PROVE  LET t == [s EXCEPT !.RxState = st] IN
         /\ Good(t) /\ KeepTx(s, t) /\ t.queue = s.queue /\ t.rname = s.rname /\ t.rxfp = s.rxfp
         /\ t.rxpos = s.rxpos /\ t.rxbytes = s.rxbytes /\ t.RxState = st
<1> DEFINE t == [s EXCEPT !.RxState = st]
<1>1. Good(t)
  BY WaitFileGood, AwaitDataGood
<1>2. s \in Session
  BY DEF Good
<1>3. KeepTx(s, t) /\ t.queue = s.queue /\ t.rname = s.rname /\ t.rxfp = s.rxfp /\ t.rxpos = s.rxpos /\ t.rxbytes = s.rxbytes /\ t.RxState = st
  BY <1>2 DEF Session, KeepTx
<1> QED
  BY <1>1, <1>3

LEMMA AnswerView ==
  ASSUME NEW p \in Party, NEW s, Good(s), s.rname \in File, NEW cmd \in Answering, NEW offs \in Nat,
         Answer(p, s, cmd, offs)
  PROVE  /\ wire' = Sent(Rest(p), p, [cmd |-> cmd, file |-> s.rname, offs |-> offs])
         /\ \E t : /\ bp' = [bp EXCEPT ![p] = t] /\ Good(t) /\ ~Over(t) /\ KeepTx(s, t) /\ t.queue = s.queue
                   /\ t.rname = s.rname /\ t.rxfp = s.rxfp /\ t.rxbytes = s.rxbytes /\ t.RxState = "RxWaitF"
<1> DEFINE u == [s EXCEPT !.RxState = "RxWaitF"]
           v == SentCommand(u, cmd)
           t == Received(v)
<1>1. wire' = Sent(Rest(p), p, [cmd |-> cmd, file |-> s.rname, offs |-> offs]) /\ bp' = [bp EXCEPT ![p] = t]
  BY DEF Answer
<1>2. Good(u) /\ KeepTx(s, u) /\ u.queue = s.queue /\ u.rname = s.rname /\ u.rxfp = s.rxfp /\ u.rxbytes = s.rxbytes
      /\ u.RxState = "RxWaitF"
  BY WaitFileView
<1> HIDE DEF u
<1>3. Good(v) /\ Keep(u, v)
  BY <1>2, SentCommandGood, SentCommandView
<1> HIDE DEF v
<1>4. Good(t) /\ Keep(v, t) /\ ~Over(t)
  BY <1>3, ReceivedGood, ReceivedView
<1> HIDE DEF t
<1>5. KeepTx(s, t)
  BY <1>2, <1>3, <1>4 DEF Keep, KeepTx
<1>6. t.queue = s.queue /\ t.rname = s.rname /\ t.rxfp = s.rxfp /\ t.rxbytes = s.rxbytes /\ t.RxState = "RxWaitF"
  BY <1>2, <1>3, <1>4 DEF Keep, KeepRx
<1> QED
  BY <1>1, <1>4, <1>5, <1>6

\* The FILE that stays open in session t, after the announcement a.
Opens(a, t) == t.rxfp \in {a.rxfp, NoFile} /\ t.rxbytes = a.rxbytes /\ (AlreadyHere(a) => t.rxfp = NoFile)

\* M_FILE is answered, or its data are awaited from the offset it names.
LEMMA AcceptFileView ==
  ASSUME IInv, NEW p \in Party, AcceptFile(p)
  PROVE  LET m == Incoming(p)
             a == Announced(p)
         IN /\ Arrives(p) /\ m.cmd = "FILE" /\ m.file \in File /\ m.offs \in Nat /\ line' = line
            /\ a.rname = m.file /\ a.rxpos = m.offs
            /\ \E t : /\ bp' = [bp EXCEPT ![p] = t] /\ Good(t) /\ ~Over(t) /\ KeepTx(bp[p], t)
                      /\ t.queue = bp[p].queue /\ t.rname = m.file /\ t.rxfp \in {bp[p].rxfp, NoFile, m.file} /\ Opens(a, t)
                      /\ \/ /\ t.RxState = "RxWaitF"
                            /\ \E r \in Frame : /\ wire' = Sent(Rest(p), p, r) /\ r.cmd \in Answering
                                                /\ r.file = m.file /\ (r.cmd = "GET" => r.offs = a.rxbytes)
                                                /\ (r.cmd = "GOT" => AlreadyHere(a))
                         \/ /\ t.RxState = "RxReceD" /\ t.rxpos = m.offs /\ t.rxfp = a.rxfp /\ wire' = Rest(p)
                            /\ ~AlreadyHere(a) /\ ~PartlyHere(a)
<1> DEFINE m == Incoming(p)
           a == Announced(p)
<1>1. Arrives(p) /\ m.cmd = "FILE" /\ line' = line
  BY DEF AcceptFile
<1>2. /\ m.file \in File /\ m.offs \in Nat
      /\ Good(a) /\ KeepTx(bp[p], a) /\ a.queue = bp[p].queue /\ a.rname = m.file /\ a.rxpos = m.offs
      /\ a.rxfp \in {bp[p].rxfp, NoFile, m.file}
  BY <1>1, AnnouncedView
<1> DEFINE c == [a EXCEPT !.rxfp = NoFile]
           cc == [c EXCEPT !.rxfp = NoFile]
<1>3. \/ (AlreadyHere(a) /\ Answer(p, c, "GOT", 0)) \/ (AlreadyHere(c) /\ Answer(p, cc, "GOT", 0))
      \/ (PartlyHere(a) /\ Answer(p, a, "GET", a.rxbytes)) \/ Answer(p, c, "GET", c.rxbytes)
      \/ (~AlreadyHere(a) /\ Answer(p, a, "SKIP", 0)) \/ Answer(p, c, "SKIP", 0)
      \/ /\ ~AlreadyHere(a) /\ ~PartlyHere(a)
         /\ bp' = [bp EXCEPT ![p] = Received([a EXCEPT !.RxState = "RxReceD"])] /\ wire' = Rest(p)
  <2>1. PICK refused \in {FALSE, CanRefuse} :
          LET s == IF refused THEN c ELSE a IN
          \/ AlreadyHere(s) /\ Answer(p, [s EXCEPT !.rxfp = NoFile], "GOT", 0)
          \/ PartlyHere(s) /\ Answer(p, s, "GET", s.rxbytes)
          \/ ~AlreadyHere(s) /\ Answer(p, s, "SKIP", 0)
          \/ /\ ~AlreadyHere(s) /\ ~PartlyHere(s) /\ ~refused
             /\ bp' = [bp EXCEPT ![p] = Received([s EXCEPT !.RxState = "RxReceD"])]
             /\ wire' = Rest(p)
    BY Zenon DEF AcceptFile
  <2> HIDE DEF a, c
  <2>2. CASE refused
    BY <2>1, <2>2 DEF c
  <2>3. CASE ~refused
    BY <2>1, <2>3 DEF c
  <2> QED
    BY <2>2, <2>3
<1> HIDE DEF a, m
<1>4. /\ Good(c) /\ KeepTx(bp[p], c) /\ c.queue = bp[p].queue /\ c.rname = m.file /\ c.rxfp = NoFile
      /\ c.rxbytes = a.rxbytes /\ c = cc /\ a.rxbytes \in Nat
  <2>1. a \in Session
    BY <1>2 DEF Good
  <2>2. KeepTx(a, c) /\ c.queue = a.queue /\ c.rname = a.rname /\ c.rxfp = NoFile /\ c.rxbytes = a.rxbytes /\ c = cc
    BY <2>1 DEF Session, KeepTx
  <2>3. Good(c)
    BY <1>2, ClosedGood
  <2>4. a.rxbytes \in Nat
    BY <2>1, ZenonT(20) DEF Session
  <2> HIDE DEF c, cc
  <2> QED
    BY <1>2, <2>2, <2>3, <2>4 DEF KeepTx
<1> HIDE DEF c, cc
<1> DEFINE Tx(t) == KeepTx(bp[p], t) /\ t.queue = bp[p].queue /\ t.rname = m.file /\ t.rxfp \in {bp[p].rxfp, NoFile, m.file}
           Went(t) ==
             \/ /\ t.RxState = "RxWaitF"
                /\ \E r \in Frame : /\ wire' = Sent(Rest(p), p, r) /\ r.cmd \in Answering
                                    /\ r.file = m.file /\ (r.cmd = "GET" => r.offs = a.rxbytes)
                                    /\ (r.cmd = "GOT" => AlreadyHere(a))
             \/ /\ t.RxState = "RxReceD" /\ t.rxpos = m.offs /\ t.rxfp = a.rxfp /\ wire' = Rest(p)
                /\ ~AlreadyHere(a) /\ ~PartlyHere(a)
<1>5. ASSUME NEW s, Good(s), Tx(s), Opens(a, s), NEW cmd \in Answering, NEW offs \in Nat, cmd = "GET" => offs = a.rxbytes,
             cmd = "GOT" => AlreadyHere(a), Answer(p, s, cmd, offs)
      PROVE  \E t : bp' = [bp EXCEPT ![p] = t] /\ Good(t) /\ ~Over(t) /\ Tx(t) /\ Opens(a, t) /\ Went(t)
  <2> DEFINE r == [cmd |-> cmd, file |-> s.rname, offs |-> offs]
  <2>1. s.rname \in File
    BY <1>2, <1>5
  <2>2. wire' = Sent(Rest(p), p, r)
    BY <1>5, <2>1, AnswerView
  <2>3. PICK t : /\ bp' = [bp EXCEPT ![p] = t] /\ Good(t) /\ ~Over(t) /\ KeepTx(s, t) /\ t.queue = s.queue
                 /\ t.rname = s.rname /\ t.rxfp = s.rxfp /\ t.rxbytes = s.rxbytes /\ t.RxState = "RxWaitF"
    BY <1>5, <2>1, AnswerView
  <2>4. r \in Frame /\ r.cmd = cmd /\ r.file = m.file /\ r.offs = offs
    BY <1>5, <2>1, FramesTyped DEF Answering
  <2> HIDE DEF r
  <2>5. Tx(t)
    BY <1>5, <2>3 DEF KeepTx
  <2>6. r.cmd \in Answering /\ (r.cmd = "GET" => r.offs = a.rxbytes) /\ (r.cmd = "GOT" => AlreadyHere(a))
    BY <1>5, <2>4
  <2>7. Went(t) /\ Opens(a, t)
    <3>1. Opens(a, t)
      BY <1>5, <2>3 DEF Opens
    <3> QED
      BY <2>2, <2>3, <2>4, <2>6, <3>1
  <2> QED
    BY <2>3, <2>5, <2>7
<1>6. Tx(a) /\ Tx(c) /\ Opens(a, c) /\ (~AlreadyHere(a) => Opens(a, a)) /\ (PartlyHere(a) => ~AlreadyHere(a))
  <2>1. Tx(a) /\ Tx(c)
    BY <1>2, <1>4
  <2>2. Opens(a, c) /\ (~AlreadyHere(a) => Opens(a, a))
    BY <1>4 DEF Opens
  <2>3. Size[a.rname] \in Nat
    BY <1>2, FilesKnown
  <2>4. PartlyHere(a) => ~AlreadyHere(a)
    BY <1>4, <2>3 DEF PartlyHere, AlreadyHere
  <2> QED
    BY <2>1, <2>2, <2>4
<1>7. "GOT" \in Answering /\ "GET" \in Answering /\ "SKIP" \in Answering /\ 0 \in Nat
  BY DEF Answering
<1>8. \E t : bp' = [bp EXCEPT ![p] = t] /\ Good(t) /\ ~Over(t) /\ Tx(t) /\ Opens(a, t) /\ Went(t)
  <2>1. CASE (AlreadyHere(a) /\ Answer(p, c, "GOT", 0)) \/ (AlreadyHere(c) /\ Answer(p, cc, "GOT", 0))
    <3>1. Answer(p, c, "GOT", 0) /\ AlreadyHere(a)
      BY <1>2, <1>4, <2>1 DEF AlreadyHere
    <3> HIDE DEF Tx, Went
    <3> QED
      BY <1>4, <1>5, <1>6, <1>7, <3>1
  <2>2. CASE (PartlyHere(a) /\ Answer(p, a, "GET", a.rxbytes)) \/ Answer(p, c, "GET", c.rxbytes)
    <3> HIDE DEF Tx, Went
    <3>1. CASE PartlyHere(a) /\ Answer(p, a, "GET", a.rxbytes)
      BY <1>2, <1>4, <1>5, <1>6, <1>7, <3>1
    <3>2. CASE Answer(p, c, "GET", c.rxbytes)
      <4>1. Answer(p, c, "GET", a.rxbytes)
        BY <1>4, <3>2
      <4> QED
        BY <1>4, <1>5, <1>6, <1>7, <4>1
    <3> QED
      BY <2>2, <3>1, <3>2
  <2>3. CASE (~AlreadyHere(a) /\ Answer(p, a, "SKIP", 0)) \/ Answer(p, c, "SKIP", 0)
    <3> HIDE DEF Tx, Went
    <3> QED
      BY <1>2, <1>4, <1>5, <1>6, <1>7, <2>3
  <2>4. CASE /\ ~AlreadyHere(a) /\ ~PartlyHere(a)
             /\ bp' = [bp EXCEPT ![p] = Received([a EXCEPT !.RxState = "RxReceD"])] /\ wire' = Rest(p)
    <3> DEFINE u == [a EXCEPT !.RxState = "RxReceD"]
               t == Received(u)
    <3>1. Good(u) /\ KeepTx(a, u) /\ u.queue = a.queue /\ u.rname = a.rname /\ u.rxfp = a.rxfp
          /\ u.rxpos = a.rxpos /\ u.rxbytes = a.rxbytes /\ u.RxState = "RxReceD"
      BY <1>2, WaitFileView
    <3>2. bp' = [bp EXCEPT ![p] = t]
      BY <2>4
    <3> HIDE DEF u
    <3>3. Good(t) /\ Keep(u, t) /\ ~Over(t)
      BY <3>1, ReceivedGood, ReceivedView
    <3> HIDE DEF t
    <3>4. t.queue = a.queue /\ t.rname = a.rname /\ t.rxfp = a.rxfp /\ t.rxpos = a.rxpos /\ t.RxState = "RxReceD"
          /\ t.rxbytes = a.rxbytes
      BY <3>1, <3>3 DEF Keep, KeepRx
    <3>5. KeepTx(bp[p], t)
      BY <1>2, <3>1, <3>3 DEF Keep, KeepTx
    <3>6. Tx(t)
      BY <1>2, <3>4, <3>5
    <3>7. Went(t)
      BY <1>2, <2>4, <3>4
    <3>8. Opens(a, t)
      BY <2>4, <3>4 DEF Opens
    <3> HIDE DEF Tx, Went
    <3> QED
      BY <3>2, <3>3, <3>6, <3>7, <3>8
  <2> QED
    BY <1>3, <2>1, <2>2, <2>3, <2>4
<1>9. a.rname = m.file /\ a.rxpos = m.offs
  BY <1>2
<1> QED
  BY <1>1, <1>2, <1>8, <1>9 DEF a, m

LEMMA AcceptFileTalk == ASSUME IInv, Talk, NEW p \in Party, AcceptFile(p) PROVE Talk'
<1> DEFINE m == Incoming(p)
           a == Announced(p)
<1>1. Arrives(p) /\ m.cmd = "FILE" /\ m.file \in File /\ line' = line /\ IInv'
  BY AcceptFileView, AcceptFileTyped
<1>2. PICK t : /\ bp' = [bp EXCEPT ![p] = t] /\ Good(t) /\ ~Over(t) /\ KeepTx(bp[p], t)
               /\ t.queue = bp[p].queue /\ t.rname = m.file /\ t.rxfp \in {bp[p].rxfp, NoFile, m.file}
               /\ \/ /\ t.RxState = "RxWaitF"
                     /\ \E r \in Frame : wire' = Sent(Rest(p), p, r) /\ r.cmd \in Answering /\ r.file = m.file
                  \/ t.RxState = "RxReceD" /\ t.rxpos = m.offs /\ wire' = Rest(p)
  <2> HIDE DEF a
  <2> QED
    BY AcceptFileView DEF a
<1>3. bp'[p] = t /\ bp'[Peer(p)] = bp[Peer(p)]
  BY <1>2, BpView
<1>4. ~Over(bp[p])
  BY <1>1, RestView
<1>5. m.cmd \notin Answering /\ Streaming(m) /\ Placed(m) = <<m.file, m.offs>>
  BY <1>1 DEF Answering, Streaming, Placed
<1>6. In(t) \subseteq IF Streaming(m) THEN {Placed(m)} ELSE In(bp[p])
  BY <1>2, <1>5 DEF In, Await
<1>7. /\ wire'[Peer(p)] = Tail(wire[Peer(p)])
      /\ \/ wire'[p] = wire[p]
         \/ \E r \in Frame :
              /\ wire'[p] = Append(wire[p], r) /\ r.cmd \in Answering /\ ~Await(t)
              /\ (m.cmd = "FILE" /\ r.file = m.file) \/ (Await(bp[p]) /\ r.file = bp[p].rname)
  <2>1. CASE t.RxState = "RxReceD" /\ wire' = Rest(p)
    BY <1>1, <2>1, RestView
  <2>2. CASE t.RxState = "RxWaitF" /\ \E r \in Frame : wire' = Sent(Rest(p), p, r) /\ r.cmd \in Answering /\ r.file = m.file
    <3>1. PICK r \in Frame : wire' = Sent(Rest(p), p, r) /\ r.cmd \in Answering /\ r.file = m.file
      BY <2>2
    <3>2. ~Await(t)
      BY <2>2 DEF Await
    <3>3. wire'[Peer(p)] = Tail(wire[Peer(p)]) /\ (wire'[p] = wire[p] \/ wire'[p] = Append(wire[p], r))
      BY <1>1, <3>1, SentRestView
    <3> QED
      BY <1>1, <3>1, <3>2, <3>3
  <2> QED
    BY <1>2, <2>1, <2>2
<1> HIDE DEF m
<1> QED
  BY <1>1, <1>2, <1>3, <1>4, <1>5, <1>6, <1>7, ReceiverTalk DEF m

LEMMA AdvancedView ==
  ASSUME NEW s, Good(s), s.RxState = "RxReceD", NEW g \in File \union {NoFile, Closed}
  PROVE  LET t == [s EXCEPT !.rxpos = @ + 1]
             c == [t EXCEPT !.rxfp = Closed]
         IN /\ Good(t) /\ KeepTx(s, t) /\ t.queue = s.queue /\ t.rname = s.rname /\ t.rxfp = s.rxfp
            /\ t.RxState = "RxReceD" /\ t.rxpos = s.rxpos + 1 /\ t.rxbytes = s.rxbytes
            /\ Good(c) /\ KeepTx(s, c) /\ c.queue = s.queue /\ c.rname = s.rname /\ c.rxfp = Closed /\ c.rxbytes = s.rxbytes
            /\ s.rname \in File
<1> DEFINE t == [s EXCEPT !.rxpos = @ + 1]
           c == [t EXCEPT !.rxfp = Closed]
<1>1. s \in Session /\ Good(t) /\ Good(c) /\ s.rname \in File
  BY AdvancedGood DEF Good, Named
<1>2. /\ KeepTx(s, t) /\ t.queue = s.queue /\ t.rname = s.rname /\ t.rxfp = s.rxfp
      /\ t.RxState = "RxReceD" /\ t.rxpos = s.rxpos + 1 /\ t.rxbytes = s.rxbytes
  BY <1>1 DEF Session, KeepTx
<1>3. KeepTx(s, c) /\ c.queue = s.queue /\ c.rname = s.rname /\ c.rxfp = Closed /\ c.rxbytes = s.rxbytes
  BY <1>1 DEF Session, KeepTx
<1> HIDE DEF t, c
<1> QED
  BY <1>1, <1>2, <1>3 DEF t, c

\* A step of the receiver p that leaves it in session t; in it a block is added
\* to the open file, or the last block, and the file is answered.
Continues(p, t) ==
  /\ t.RxState = "RxReceD" /\ t.rxfp = bp[p].rxfp /\ t.rxpos = bp[p].rxpos + 1 /\ t.rxpos # Size[t.rname]
  /\ wire' = Rest(p)
Completes(p, t) ==
  /\ t.RxState = "RxWaitF" /\ t.rxfp = Closed
  /\ wire' = Sent(Rest(p), p, [cmd |-> "GOT", file |-> bp[p].rname, offs |-> 0])
Takes(p, t) ==
  /\ bp' = [bp EXCEPT ![p] = t] /\ Good(t) /\ ~Over(t) /\ KeepTx(bp[p], t) /\ t.queue = bp[p].queue
  /\ t.rname = bp[p].rname /\ t.rxbytes = bp[p].rxbytes

LEMMA AnswersLast ==
  ASSUME IInv, NEW p \in Party, bp[p].RxState = "RxReceD",
         Answer(p, [[bp[p] EXCEPT !.rxpos = @ + 1] EXCEPT !.rxfp = Closed], "GOT", 0)
  PROVE  \E t : Takes(p, t) /\ Completes(p, t)
<1> DEFINE c == [[bp[p] EXCEPT !.rxpos = @ + 1] EXCEPT !.rxfp = Closed]
<1>1. Good(bp[p]) /\ Closed \in File \union {NoFile, Closed}
  BY BpGood
<1>2. Good(c) /\ KeepTx(bp[p], c) /\ c.queue = bp[p].queue /\ c.rname = bp[p].rname /\ c.rxfp = Closed /\ c.rxbytes = bp[p].rxbytes
      /\ c.rname \in File
  BY <1>1, AdvancedView
<1>3. "GOT" \in Answering /\ 0 \in Nat
  BY DEF Answering
<1>4. Answer(p, c, "GOT", 0)
  OBVIOUS
<1> HIDE DEF c
<1>5. wire' = Sent(Rest(p), p, [cmd |-> "GOT", file |-> bp[p].rname, offs |-> 0])
  BY <1>2, <1>3, <1>4, AnswerView
<1>6. PICK t : /\ bp' = [bp EXCEPT ![p] = t] /\ Good(t) /\ ~Over(t) /\ KeepTx(c, t) /\ t.queue = c.queue
               /\ t.rname = c.rname /\ t.rxfp = c.rxfp /\ t.rxbytes = c.rxbytes /\ t.RxState = "RxWaitF"
  BY <1>2, <1>3, <1>4, AnswerView
<1>7. KeepTx(bp[p], t)
  BY <1>2, <1>6 DEF KeepTx
<1> QED
  BY <1>2, <1>5, <1>6, <1>7 DEF Takes, Completes

LEMMA WriteDataView ==
  ASSUME IInv, NEW p \in Party, WriteData(p)
  PROVE  /\ Arrives(p) /\ Incoming(p).cmd = "DATA" /\ bp[p].RxState = "RxReceD" /\ line' = line
         /\ \E t : /\ Takes(p, t)
                   /\ \/ Continues(p, t) /\ tmp' = Written(p) /\ delivered' = delivered
                      \/ /\ Completes(p, t) /\ bp[p].rxpos + 1 = Size[bp[p].rname]
                         /\ tmp' = [f \in File |-> IF f = bp[p].rxfp THEN <<>> ELSE tmp[f]]
                         /\ delivered' = [f \in File |-> IF f = bp[p].rxfp THEN Append(delivered[f], Written(p)[f])
                                                         ELSE delivered[f]]
<1> DEFINE s == [bp[p] EXCEPT !.rxpos = @ + 1]
           c == [s EXCEPT !.rxfp = Closed]
<1>1. Arrives(p) /\ Incoming(p).cmd = "DATA" /\ bp[p].RxState = "RxReceD" /\ line' = line
  BY DEF WriteData, world
<1>2. Good(bp[p]) /\ Closed \in File \union {NoFile, Closed}
  BY BpGood
<1>3. /\ Good(s) /\ KeepTx(bp[p], s) /\ s.queue = bp[p].queue /\ s.rname = bp[p].rname /\ s.rxfp = bp[p].rxfp
      /\ s.RxState = "RxReceD" /\ s.rxpos = bp[p].rxpos + 1 /\ s.rxbytes = bp[p].rxbytes
  BY <1>1, <1>2, AdvancedView
<1>4. \/ /\ s.rxpos # Size[s.rname] /\ bp' = [bp EXCEPT ![p] = Received(s)] /\ wire' = Rest(p)
         /\ tmp' = Written(p) /\ delivered' = delivered
      \/ /\ s.rxpos = Size[s.rname] /\ Answer(p, c, "GOT", 0)
         /\ tmp' = [f \in File |-> IF f = s.rxfp THEN <<>> ELSE tmp[f]]
         /\ delivered' = [f \in File |-> IF f = s.rxfp THEN Append(delivered[f], Written(p)[f]) ELSE delivered[f]]
  BY DEF WriteData
<1>5. CASE /\ s.rxpos # Size[s.rname] /\ bp' = [bp EXCEPT ![p] = Received(s)] /\ wire' = Rest(p)
           /\ tmp' = Written(p) /\ delivered' = delivered
  <2> HIDE DEF s
  <2> DEFINE t == Received(s)
  <2>1. Good(t) /\ Keep(s, t) /\ ~Over(t)
    BY <1>3, ReceivedGood, ReceivedView
  <2>0. bp' = [bp EXCEPT ![p] = t]
    BY <1>5
  <2> HIDE DEF t
  <2>2. Takes(p, t)
    BY <1>3, <2>0, <2>1 DEF Takes, Keep, KeepTx, KeepRx
  <2>3. Continues(p, t)
    BY <1>3, <1>5, <2>1 DEF Continues, Keep, KeepRx
  <2> QED
    BY <1>1, <1>5, <2>2, <2>3
<1>6. CASE /\ s.rxpos = Size[s.rname] /\ Answer(p, c, "GOT", 0)
           /\ tmp' = [f \in File |-> IF f = s.rxfp THEN <<>> ELSE tmp[f]]
           /\ delivered' = [f \in File |-> IF f = s.rxfp THEN Append(delivered[f], Written(p)[f]) ELSE delivered[f]]
  <2>1. PICK t : Takes(p, t) /\ Completes(p, t)
    BY <1>1, <1>6, AnswersLast
  <2> HIDE DEF s
  <2> QED
    BY <1>1, <1>3, <1>6, <2>1
<1> QED
  BY <1>4, <1>5, <1>6

\* The talk of a step that takes a block.
LEMMA TakesTalk ==
  ASSUME IInv, Talk, IInv', NEW p \in Party, Arrives(p), Incoming(p).cmd = "DATA", bp[p].RxState = "RxReceD",
         line' = line, NEW t, Takes(p, t), Continues(p, t) \/ Completes(p, t)
  PROVE  Talk'
<1> DEFINE m == Incoming(p)
           r == [cmd |-> "GOT", file |-> bp[p].rname, offs |-> 0]
<1>1. bp'[p] = t /\ bp'[Peer(p)] = bp[Peer(p)]
  BY BpView DEF Takes
<1>2. ~Over(bp[p]) /\ bp[p].rname \in File
  BY RestView, BpGood DEF Good, Named
<1>3. Await(bp[p])
  BY <1>2 DEF Await
<1>4. m.cmd \notin Answering /\ Streaming(m) /\ Placed(m) = <<bp[p].rname, bp[p].rxpos + 1>>
  BY BlockAwaited DEF Talk, Answering, Streaming
<1>5. r \in Frame /\ r.cmd \in Answering /\ r.file = bp[p].rname
  BY <1>2, FramesTyped DEF Answering
<1> HIDE DEF r
<1>6. In(t) \subseteq {Placed(m)}
  <2>1. CASE Continues(p, t)
    BY <1>4, <2>1 DEF In, Takes, Continues
  <2>2. CASE Completes(p, t)
    BY <2>2 DEF In, Await, Completes
  <2> QED
    BY <2>1, <2>2
<1>7. /\ wire'[Peer(p)] = Tail(wire[Peer(p)])
      /\ \/ wire'[p] = wire[p]
         \/ \E a \in Frame :
              /\ wire'[p] = Append(wire[p], a) /\ a.cmd \in Answering /\ ~Await(t)
              /\ (m.cmd = "FILE" /\ a.file = m.file) \/ (Await(bp[p]) /\ a.file = bp[p].rname)
  <2>1. CASE Continues(p, t)
    BY <2>1, RestView DEF Continues
  <2>2. CASE Completes(p, t)
    <3>1. wire' = Sent(Rest(p), p, r) /\ ~Await(t)
      BY <2>2 DEF Completes, Await, r
    <3>2. wire'[Peer(p)] = Tail(wire[Peer(p)]) /\ (wire'[p] = wire[p] \/ wire'[p] = Append(wire[p], r))
      BY <3>1, SentRestView
    <3> QED
      BY <1>3, <1>5, <3>1, <3>2
  <2> QED
    BY <2>1, <2>2
<1>8. t.rxfp \in {bp[p].rxfp, NoFile, Closed} /\ t.rname = bp[p].rname
  BY DEF Takes, Continues, Completes
<1>9. In(t) \subseteq IF Streaming(m) THEN {Placed(m)} ELSE In(bp[p])
  BY <1>4, <1>6
<1>10. Good(t) /\ ~Over(t) /\ KeepTx(bp[p], t) /\ t.queue = bp[p].queue
  BY DEF Takes
<1> HIDE DEF m
<1> QED
  BY <1>1, <1>2, <1>3, <1>4, <1>7, <1>8, <1>9, <1>10, ReceiverTalk DEF m

LEMMA WriteDataTalk == ASSUME IInv, Talk, NEW p \in Party, WriteData(p) PROVE Talk'
<1>1. PICK t : Takes(p, t) /\ (Continues(p, t) \/ Completes(p, t))
  BY WriteDataView
<1>2. Arrives(p) /\ Incoming(p).cmd = "DATA" /\ bp[p].RxState = "RxReceD" /\ line' = line /\ IInv'
  BY WriteDataView, WriteDataTyped
<1> QED
  BY <1>1, <1>2, TakesTalk

LEMMA CloseFailsView ==
  ASSUME IInv, NEW p \in Party, CloseFails(p)
  PROVE  /\ Arrives(p) /\ Incoming(p).cmd = "DATA" /\ bp[p].RxState = "RxReceD" /\ line' = line
         /\ \E t : Takes(p, t) /\ Completes(p, t)
<1> DEFINE s == [bp[p] EXCEPT !.rxpos = @ + 1]
<1>1. Arrives(p) /\ Incoming(p).cmd = "DATA" /\ s.RxState = "RxReceD" /\ line' = line
      /\ Answer(p, [s EXCEPT !.rxfp = Closed], "GOT", 0)
  BY DEF CloseFails, world
<1>2. bp[p].RxState = "RxReceD"
  BY <1>1, BpGood DEF Good, Session
<1> QED
  BY <1>1, <1>2, AnswersLast

LEMMA CloseFailsTalk == ASSUME IInv, Talk, NEW p \in Party, CloseFails(p) PROVE Talk'
<1>1. PICK t : Takes(p, t) /\ Completes(p, t)
  BY CloseFailsView
<1>2. Arrives(p) /\ Incoming(p).cmd = "DATA" /\ bp[p].RxState = "RxReceD" /\ line' = line /\ IInv'
  BY CloseFailsView, CloseFailsTyped
<1> QED
  BY <1>1, <1>2, TakesTalk

(***************************************************************************)
(* The steps that end a process, and those from outside                    *)
(***************************************************************************)

\* p ends, and may have read a frame and sent one that is no part of a stream.
LEMMA StopTalk ==
  ASSUME IInv, Talk, IInv', NEW p \in Party, NEW s, Good(s), NEW rc, bp' = [bp EXCEPT ![p] = Ended(s, rc)], line' = line,
         \/ wire' = wire
         \/ Arrives(p) /\ wire' = Rest(p)
         \/ Arrives(p) /\ \E m \in Frame : /\ wire' = Sent(Rest(p), p, m) /\ ~Streaming(m)
                                           /\ m.cmd \in Answering => Await(bp[p]) /\ bp[p].rname = m.file
  PROVE  Talk'
<1>1. bp'[Peer(p)] = bp[Peer(p)] /\ Over(bp'[p])
  BY BpView, EndedView
<1>2. CASE wire' = wire
  BY <1>1, <1>2, StopsTalk
<1>3. CASE Arrives(p) /\ wire' = Rest(p)
  <2>1. wire'[p] = wire[p] /\ wire'[Peer(p)] = Tail(wire[Peer(p)]) /\ wire[Peer(p)] # <<>>
    BY <1>3, RestView
  <2> QED
    BY <1>1, <2>1, StopsTalk
<1>4. CASE Arrives(p) /\ \E m \in Frame : /\ wire' = Sent(Rest(p), p, m) /\ ~Streaming(m)
                                          /\ m.cmd \in Answering => Await(bp[p]) /\ bp[p].rname = m.file
  <2>1. PICK m \in Frame : /\ wire' = Sent(Rest(p), p, m) /\ ~Streaming(m)
                           /\ m.cmd \in Answering => Await(bp[p]) /\ bp[p].rname = m.file
    BY <1>4
  <2>2. wire'[Peer(p)] = Tail(wire[Peer(p)]) /\ (wire'[p] = wire[p] \/ wire'[p] = Append(wire[p], m))
    BY <1>4, <2>1, SentRestView
  <2>3. wire[Peer(p)] # <<>>
    BY <1>4, RestView
  <2>4. \/ wire'[p] = wire[p]
        \/ \E a \in Frame : /\ wire'[p] = Append(wire[p], a) /\ ~Streaming(a)
                            /\ a.cmd \in Answering => Await(bp[p]) /\ bp[p].rname = a.file
    BY <2>1, <2>2
  <2> QED
    BY <1>1, <2>2, <2>3, <2>4, StopsTalk
<1> QED
  BY <1>2, <1>3, <1>4

LEMMA ReceiverStopsTalk ==
  ASSUME IInv, Talk, NEW p \in Party, LowDiskspace(p) \/ WriteFails(p) \/ ReceiveUnexpected(p) \/ SeekClosedFile(p)
  PROVE  Talk'
<1>1. Good(bp[p]) /\ Good(Polled(p))
  BY BpGood, PolledGood
<1>2. CASE LowDiskspace(p)
  <2> DEFINE m == [cmd |-> "BSY", file |-> NoFile, offs |-> 0]
  <2>1. m \in Frame /\ ~Streaming(m) /\ m.cmd \notin Answering
    BY FramesTyped DEF Streaming, Answering
  <2>2. /\ Arrives(p) /\ bp' = [bp EXCEPT ![p] = Ended(Polled(p), "failed")] /\ wire' = Sent(Rest(p), p, m) /\ line' = line
    BY <1>2 DEF LowDiskspace
  <2>3. IInv'
    BY <1>2, LowDiskspaceTyped
  <2> HIDE DEF m
  <2>4. \E a \in Frame : /\ wire' = Sent(Rest(p), p, a) /\ ~Streaming(a)
                         /\ a.cmd \in Answering => Await(bp[p]) /\ bp[p].rname = a.file
    BY <2>1, <2>2
  <2> QED
    BY <1>1, <2>2, <2>3, <2>4, StopTalk
<1>3. CASE WriteFails(p)
  <2>1. Arrives(p) /\ bp' = [bp EXCEPT ![p] = Ended(bp[p], "failed")] /\ wire' = Rest(p) /\ line' = line
    BY <1>3 DEF WriteFails, world
  <2>2. IInv'
    BY <1>3, WriteFailsTyped
  <2> QED
    BY <1>1, <2>1, <2>2, StopTalk
<1>4. CASE ReceiveUnexpected(p)
  <2>1. Arrives(p) /\ bp' = [bp EXCEPT ![p] = Ended(Polled(p), "failed")] /\ wire' = Rest(p) /\ line' = line
    BY <1>4 DEF ReceiveUnexpected
  <2>2. IInv'
    BY <1>4, ReceiveUnexpectedTyped
  <2> QED
    BY <1>1, <2>1, <2>2, StopTalk
<1>5. CASE SeekClosedFile(p)
  <2>1. Arrives(p) /\ bp' = [bp EXCEPT ![p] = Ended(Polled(p), "failed")] /\ wire' = Rest(p) /\ line' = line
    BY <1>5 DEF SeekClosedFile
  <2>2. IInv'
    BY <1>5, SeekClosedFileTyped
  <2> QED
    BY <1>1, <2>1, <2>2, StopTalk
<1> QED
  BY <1>2, <1>3, <1>4, <1>5

LEMMA ReceiveTalk == ASSUME IInv, Talk, NEW p \in Party, Receive(p) PROVE Talk'
BY QueueMessageTalk, IgnoreTalk, ReceiveEOBTalk, AcceptFileTalk, WriteDataTalk, CloseFailsTalk, ReceiverStopsTalk,
   Zenon DEF Receive

LEMMA FailsTalk == ASSUME IInv, Talk, NEW p \in Party, Fails(p) PROVE Talk'
<1>1. bp' = [bp EXCEPT ![p] = Ended(bp[p], "failed")] /\ wire' = wire /\ line' = line
  BY DEF Fails
<1>2. IInv' /\ Good(bp[p])
  BY FailsTyped, BpGood
<1> QED
  BY <1>1, <1>2, StopTalk

LEMMA KilledTalk == ASSUME IInv, Talk, NEW p \in Party, Killed(p) PROVE Talk'
<1>1. bp' = [bp EXCEPT ![p] = Ended(bp[p], "failed")] /\ wire' = wire /\ line' = line
  BY DEF Killed, world
<1>2. IInv' /\ Good(bp[p])
  BY KilledTyped, BpGood
<1> QED
  BY <1>1, <1>2, StopTalk

LEMMA KilledBeforeMoveTalk == ASSUME IInv, Talk, NEW p \in Party, KilledBeforeMove(p) PROVE Talk'
<1> DEFINE m == [cmd |-> "GOT", file |-> bp[p].rname, offs |-> 0]
<1>1. /\ Arrives(p) /\ bp[p].RxState = "RxReceD" /\ bp' = [bp EXCEPT ![p] = Ended(bp[p], "failed")] /\ line' = line
      /\ wire' = Rest(p) \/ wire' = Sent(Rest(p), p, m)
  BY DEF KilledBeforeMove, world
<1>2. IInv' /\ Good(bp[p])
  BY KilledBeforeMoveTyped, BpGood
<1>3. bp[p].rname \in File /\ Await(bp[p])
  BY <1>1, <1>2, RestView DEF Good, Named, Await
<1>4. m \in Frame /\ ~Streaming(m) /\ (m.cmd \in Answering => Await(bp[p]) /\ bp[p].rname = m.file)
  BY <1>3, FramesTyped DEF Streaming
<1> HIDE DEF m
<1>5. CASE wire' = Rest(p)
  BY <1>1, <1>2, <1>5, StopTalk
<1>6. CASE wire' = Sent(Rest(p), p, m)
  <2>1. \E a \in Frame : /\ wire' = Sent(Rest(p), p, a) /\ ~Streaming(a)
                         /\ a.cmd \in Answering => Await(bp[p]) /\ bp[p].rname = a.file
    BY <1>4, <1>6
  <2> QED
    BY <1>1, <1>2, <2>1, StopTalk
<1> QED
  BY <1>1, <1>5, <1>6

\* What the peer did not receive is gone, at the end of each wire.
LEMMA CutTalk == ASSUME IInv, Talk, Cut PROVE Talk'
<1>1. PICK n \in [Party -> 0..Window] :
        wire' = [p \in Party |-> SubSeq(wire[p], 1, IF n[p] < Len(wire[p]) THEN n[p] ELSE Len(wire[p]))]
  BY DEF Cut
<1>2. bp' = bp /\ line' = FALSE
  BY DEF Cut
<1> DEFINE k(p) == IF n[p] < Len(wire[p]) THEN n[p] ELSE Len(wire[p])
<1>3. ASSUME NEW p \in Party
      PROVE  wire[p] \in Seq(Frame) /\ k(p) \in 0..Len(wire[p]) /\ wire'[p] = SubSeq(wire[p], 1, k(p))
  <2>1. wire[p] \in Seq(Frame)
    BY WireTyped
  <2>2. Len(wire[p]) \in Nat
    BY <2>1, LenProperties
  <2>3. n[p] \in Nat
    BY <1>1, LimitsKnown
  <2> QED
    BY <1>1, <2>1, <2>2, <2>3
<1> HIDE DEF k
<1>4. ASSUME NEW p \in Party, NEW f \in File
      PROVE  /\ Posted(wire'[p], f) <= Posted(wire[p], f) /\ Replies(wire'[p], f) <= Replies(wire[p], f)
             /\ Posted(wire'[p], f) \in Nat /\ Replies(wire'[p], f) \in Nat
             /\ Posted(wire[p], f) \in Nat /\ Replies(wire[p], f) \in Nat
  <2>1. wire'[p] \in Seq(Frame)
    BY CutTyped DEF IInv, TypeOK
  <2> QED
    BY <1>3, <2>1, CountPrefix, WireCounts DEF Posted, Replies
<1>5. Owned'
  <2> SUFFICES ASSUME NEW p \in Party PROVE Mine(p, bp[p]) /\ Announces(p, wire'[p])
    BY <1>2, Zenon DEF Owned
  <2>1. Mine(p, bp[p]) /\ Announces(p, wire[p])
    BY DEF Talk, Owned
  <2>2. /\ Len(wire'[p]) = k(p)
        /\ \A i \in 1..k(p) : wire'[p][i] = wire[p][i] /\ i \in 1..Len(wire[p])
    BY <1>3, SubSeqProperties
  <2>3. Announces(p, wire'[p])
    BY <2>1, <2>2 DEF Announces
  <2> QED
    BY <2>1, <2>3
<1>6. Streams'
  <2> SUFFICES ASSUME NEW p \in Party PROVE Flows(wire'[p], In(bp[Peer(p)]), Out(line', bp[p], bp[Peer(p)]))
    BY <1>2, Zenon DEF Streams
  <2>1. Flows(wire[p], In(bp[Peer(p)]), Out(line, bp[p], bp[Peer(p)]))
    BY DEF Talk, Streams
  <2>2. Flows(SubSeq(wire[p], 1, k(p)), In(bp[Peer(p)]), {})
    BY <1>3, <2>1, FlowsPrefix
  <2>3. Out(line', bp[p], bp[Peer(p)]) = {}
    BY <1>2 DEF Out
  <2> QED
    BY <1>3, <2>2, <2>3
<1>7. Singles'
  <2> SUFFICES ASSUME NEW f \in File
               PROVE  Single(f, wire'[Owner[f]], wire'[Peer(Owner[f])], bp[Owner[f]], bp[Peer(Owner[f])])
    BY <1>2, Zenon DEF Singles
  <2> DEFINE p == Owner[f]
             q == Peer(Owner[f])
  <2>1. p \in Party /\ q \in Party
    BY Peers, FilesKnown
  <2> HIDE DEF p, q
  <2>2. Single(f, wire[p], wire[q], bp[p], bp[q])
    BY DEF Talk, Singles, p, q
  <2>3. /\ wire[p] \in Seq(Frame) /\ wire[q] \in Seq(Frame) /\ wire'[p] \in Seq(Frame) /\ wire'[q] \in Seq(Frame)
        /\ Good(bp[p])
    BY <2>1, CutTyped, BpGood DEF IInv, TypeOK
  <2>4. /\ Load(f, wire[p], wire[q], bp[p], bp[q]) \in Nat
        /\ Load(f, wire'[p], wire'[q], bp[p], bp[q]) \in Nat
        /\ Waiting(bp[p], f) \in Nat /\ Coming(bp[q], f) \in {0, 1}
    BY <2>3, LoadType
  <2>5. Load(f, wire'[p], wire'[q], bp[p], bp[q]) <= Load(f, wire[p], wire[q], bp[p], bp[q])
    <3>1. Load(f, wire'[p], wire'[q], bp[p], bp[q])
          = Posted(wire'[p], f) + Replies(wire'[q], f) + Waiting(bp[p], f) + Coming(bp[q], f)
      BY DEF Load
    <3>2. Load(f, wire[p], wire[q], bp[p], bp[q])
          = Posted(wire[p], f) + Replies(wire[q], f) + Waiting(bp[p], f) + Coming(bp[q], f)
      BY DEF Load
    <3>3. /\ Posted(wire'[p], f) <= Posted(wire[p], f) /\ Posted(wire'[p], f) \in Nat /\ Posted(wire[p], f) \in Nat
          /\ Replies(wire'[q], f) <= Replies(wire[q], f) /\ Replies(wire'[q], f) \in Nat /\ Replies(wire[q], f) \in Nat
      BY <1>4, <2>1
    <3> QED
      BY <2>4, <3>1, <3>2, <3>3
  <2>6. Single(f, wire'[p], wire'[q], bp[p], bp[q])
    BY <2>2, <2>4, <2>5, SingleLess
  <2> QED
    BY <2>6 DEF p, q
<1> QED
  BY <1>5, <1>6, <1>7 DEF Talk

LEMMA NewSessionView ==
  ASSUME NEW minor
  PROVE  LET s == NewSession(minor) IN
         /\ s.RxState = "RxWaitF" /\ s.TxState = "TxGNF" /\ s.queue = <<>> /\ s.rname = NoFile /\ s.rxfp = NoFile
         /\ \A f \in File : s.state[f] = "Absent"
BY DEF NewSession, NoList

\* A session that begins on empty wires, the first or another call.
Fresh == \A p \in Party : wire[p] = <<>> /\ \E minor : bp[p] = NewSession(minor)

LEMMA NewSessionTalk == Fresh => Talk
<1> SUFFICES ASSUME Fresh PROVE Talk
  OBVIOUS
<1>1. ASSUME NEW p \in Party
      PROVE  /\ wire[p] = <<>> /\ bp[p].RxState = "RxWaitF" /\ bp[p].TxState = "TxGNF" /\ bp[p].queue = <<>>
             /\ bp[p].rname = NoFile /\ bp[p].rxfp = NoFile /\ \A f \in File : bp[p].state[f] = "Absent"
  BY NewSessionView DEF Fresh
<1>2. Owned
  <2> SUFFICES ASSUME NEW p \in Party PROVE Mine(p, bp[p]) /\ Announces(p, wire[p])
    BY DEF Owned
  <2>1. Mine(p, bp[p])
    BY <1>1, NotFiles DEF Mine
  <2>2. Announces(p, <<>>)
    BY DEF Announces
  <2> QED
    BY <1>1, <2>1, <2>2
<1>3. Streams
  <2> SUFFICES ASSUME NEW p \in Party PROVE Flows(wire[p], In(bp[Peer(p)]), Out(line, bp[p], bp[Peer(p)]))
    BY DEF Streams
  <2>1. In(bp[Peer(p)]) = {}
    BY <1>1, Peers DEF In, Await
  <2>2. Out(line, bp[p], bp[Peer(p)]) = {}
    BY <1>1 DEF Out
  <2>3. <<NoFile, 0>> \in Place
    BY DEF Place
  <2>4. Flows(<<>>, {}, {})
    BY <2>3, FlowsEmpty
  <2> QED
    BY <1>1, <2>1, <2>2, <2>4
<1>4. Singles
  <2> SUFFICES ASSUME NEW f \in File
               PROVE  Single(f, wire[Owner[f]], wire[Peer(Owner[f])], bp[Owner[f]], bp[Peer(Owner[f])])
    BY DEF Singles
  <2> DEFINE p == Owner[f]
             q == Peer(Owner[f])
  <2>1. p \in Party /\ q \in Party
    BY Peers, FilesKnown
  <2> HIDE DEF p, q
  <2>2. wire[p] = <<>> /\ wire[q] = <<>> /\ bp[p].queue = <<>> /\ ~Await(bp[q])
    BY <1>1, <2>1 DEF Await
  <2>3. \A cmds : Count(<<>>, cmds, f) = 0
    BY FS_EmptySet DEF Count, Marks
  <2>4. Posted(wire[p], f) = 0 /\ Replies(wire[q], f) = 0 /\ Waiting(bp[p], f) = 0 /\ Coming(bp[q], f) = 0
    BY <2>2, <2>3 DEF Posted, Replies, Waiting, Coming
  <2>5. Load(f, wire[p], wire[q], bp[p], bp[q]) = 0
    BY <2>4 DEF Load
  <2> QED
    BY <2>5 DEF Single, p, q
<1> QED
  BY <1>2, <1>3, <1>4 DEF Talk

LEMMA RetryTalk == Retry => Talk'
<1>1. Retry => Fresh'
  BY DEF Retry, Fresh
<1> QED
  BY <1>1, NewSessionTalk, PTL

LEMMA SameTalk == ASSUME Talk, bp' = bp, wire' = wire, line' = line PROVE Talk'
BY DEF Talk, Owned, Streams, Singles

LEMMA InitTalk == Init => Talk
<1>1. Init => Fresh
  BY DEF Init, Fresh
<1> QED
  BY <1>1, NewSessionTalk

LEMMA NextTalk == ASSUME IInv, Talk, [Next]_vars PROVE Talk'
<1>1. CASE \E p \in Party : HangUp(p) \/ Timeout(p)
  BY <1>1, FailsTalk, Zenon DEF HangUp, Timeout
<1>2. CASE \E p \in Party : Receive(p) \/ Transmit(p) \/ Killed(p) \/ KilledBeforeMove(p)
  BY <1>2, ReceiveTalk, TransmitTalk, KilledTalk, KilledBeforeMoveTalk, Zenon
<1>3. CASE Cut \/ Retry
  BY <1>3, CutTalk, RetryTalk, Zenon
<1>4. CASE (\E f \in File : Replace(f)) \/ UNCHANGED vars
  <2>1. bp' = bp /\ wire' = wire /\ line' = line
    BY <1>4 DEF Replace, vars
  <2> QED
    BY <2>1, SameTalk
<1> QED
  BY <1>1, <1>2, <1>3, <1>4, Zenon DEF Next

(***************************************************************************)
(* What is there of the files                                              *)
(***************************************************************************)
LEMMA FitView ==
  ASSUME Contents, NEW p \in Party, NEW f \in File
  PROVE  /\ Owner[f] = p => Fit(f, wire[p], wire[Peer(p)], bp[p], bp[Peer(p)], Len(tmp[f]))
         /\ Owner[f] = Peer(p) => Fit(f, wire[Peer(p)], wire[p], bp[Peer(p)], bp[p], Len(tmp[f]))
<1>1. Peer(Peer(p)) = p
  BY Peers
<1> QED
  BY <1>1, Zenon DEF Contents, Fitting

LEMMA ContentsStep ==
  ASSUME NEW p \in Party, Lengths', WholeOnes',
         Holds(bp'[p], tmp', version'), Holds(bp'[Peer(p)], tmp', version'),
         \A f \in File : Owner[f] = p => Fit(f, wire'[p], wire'[Peer(p)], bp'[p], bp'[Peer(p)], Len(tmp'[f])),
         \A f \in File : Owner[f] = Peer(p) => Fit(f, wire'[Peer(p)], wire'[p], bp'[Peer(p)], bp'[p], Len(tmp'[f]))
  PROVE  Contents'
<1> DEFINE q == Peer(p)
<1>1. q \in Party /\ Peer(q) = p /\ \A r \in Party : r = p \/ r = q
  BY Peers
<1>2. Held'
  BY <1>1, Zenon DEF Held
<1>3. Fitting'
  <2> SUFFICES ASSUME NEW f \in File
               PROVE  Fit(f, wire'[Owner[f]], wire'[Peer(Owner[f])], bp'[Owner[f]], bp'[Peer(Owner[f])], Len(tmp'[f]))
    BY Zenon DEF Fitting
  <2>1. Owner[f] = p \/ Owner[f] = q
    BY <1>1, FilesKnown
  <2> QED
    BY <1>1, <2>1, Zenon
<1> QED
  BY <1>2, <1>3 DEF Contents

\* A step that changes no file.
LEMMA SameFiles ==
  ASSUME Contents, NEW p \in Party, tmp' = tmp, delivered' = delivered, version' = version, bp'[Peer(p)] = bp[Peer(p)],
         Await(bp'[p]) => Await(bp[p]) /\ KeepRx(bp[p], bp'[p]),
         \A f \in File : Owner[f] = p => Fit(f, wire'[p], wire'[Peer(p)], bp'[p], bp[Peer(p)], Len(tmp[f])),
         \A f \in File : Owner[f] = Peer(p) => Fit(f, wire'[Peer(p)], wire'[p], bp[Peer(p)], bp'[p], Len(tmp[f]))
  PROVE  Contents'
<1>1. Lengths' /\ WholeOnes'
  BY DEF Contents, Lengths, WholeOnes
<1>2. Peer(p) \in Party
  BY Peers
<1>3. Holds(bp'[p], tmp', version')
  BY DEF Contents, Held, Holds, KeepRx
<1>4. Holds(bp'[Peer(p)], tmp', version')
  BY <1>2 DEF Contents, Held
<1> QED
  BY <1>1, <1>3, <1>4, ContentsStep

LEMMA FitsLess ==
  ASSUME NEW S, NEW w \in Seq(S), NEW x, x = w \/ (w # <<>> /\ x = Tail(w)), NEW cmd, NEW f, NEW n, Fits(w, cmd, f, n)
  PROVE  Fits(x, cmd, f, n)
BY FitsTail

\* A file of p: what p sent or handled of it is as long as what the peer has.
LEMMA OwnFit ==
  ASSUME IInv, Contents, NEW p \in Party, NEW f \in File, Owner[f] = p, NEW w, NEW v, NEW s,
         \/ w = wire[p]
         \/ \E m \in Frame : /\ w = Append(wire[p], m)
                             /\ Marked(m, {"FILE"}, f) =>
                                  ~Over(bp[p]) /\ bp[p].state[f] = "NoState" /\ m.offs = bp[p].offset[f],
         v = wire[Peer(p)] \/ (wire[Peer(p)] # <<>> /\ v = Tail(wire[Peer(p)])),
         ~Over(s) =>
           /\ ~Over(bp[p])
           /\ \/ s.queue = bp[p].queue
              \/ bp[p].queue # <<>> /\ s.queue = Tail(bp[p].queue)
              \/ /\ wire[Peer(p)] # <<>> /\ Head(wire[Peer(p)]) \in Queued
                 /\ s.queue = Append(bp[p].queue, Head(wire[Peer(p)]))
           /\ s.state[f] = "NoState" /\ s.offset[f] > 0 =>
                \/ bp[p].state[f] = "NoState" /\ s.offset[f] = bp[p].offset[f]
                \/ /\ bp[p].queue # <<>> /\ Marked(Head(bp[p].queue), {"GET"}, f)
                   /\ s.offset[f] = Head(bp[p].queue).offs
  PROVE  Fit(f, w, v, s, bp[Peer(p)], Len(tmp[f]))
<1> DEFINE q == Peer(p)
           n == Len(tmp[f])
<1>1. wire[p] \in Seq(Frame) /\ wire[q] \in Seq(Frame) /\ bp[p].queue \in Seq(Queued)
  BY Peers, WireTyped, BpGood, QueueTyped
<1> SUFFICES ASSUME ~Over(bp[q])
             PROVE  /\ Fits(w, "FILE", f, n) /\ Fits(v, "GET", f, n)
                    /\ ~Over(s) => /\ Fits(s.queue, "GET", f, n)
                                   /\ s.state[f] = "NoState" /\ s.offset[f] > 0 => s.offset[f] = n
  BY DEF Fit
<1> HIDE DEF n
<1>2. /\ Fits(wire[p], "FILE", f, n) /\ Fits(wire[q], "GET", f, n)
      /\ ~Over(bp[p]) => /\ Fits(bp[p].queue, "GET", f, n)
                         /\ bp[p].state[f] = "NoState" /\ bp[p].offset[f] > 0 => bp[p].offset[f] = n
  BY FitView DEF Fit, n
<1>3. Fits(w, "FILE", f, n)
  <2>1. CASE w = wire[p]
    BY <1>2, <2>1
  <2>2. CASE \E m \in Frame : /\ w = Append(wire[p], m)
                              /\ Marked(m, {"FILE"}, f) =>
                                   ~Over(bp[p]) /\ bp[p].state[f] = "NoState" /\ m.offs = bp[p].offset[f]
    <3>1. PICK m \in Frame : /\ w = Append(wire[p], m)
                             /\ Marked(m, {"FILE"}, f) =>
                                  ~Over(bp[p]) /\ bp[p].state[f] = "NoState" /\ m.offs = bp[p].offset[f]
      BY <2>2
    <3>2. Marked(m, {"FILE"}, f) /\ m.offs > 0 => m.offs = n
      BY <1>2, <3>1
    <3> QED
      BY <1>1, <1>2, <3>1, <3>2, FitsAppend
  <2> QED
    BY <2>1, <2>2
<1>4. Fits(v, "GET", f, n)
  BY <1>1, <1>2, FitsLess
<1>5. ASSUME ~Over(s) PROVE Fits(s.queue, "GET", f, n)
  <2>1. CASE s.queue = bp[p].queue \/ (bp[p].queue # <<>> /\ s.queue = Tail(bp[p].queue))
    BY <1>1, <1>2, <1>5, <2>1, FitsLess
  <2>2. CASE wire[q] # <<>> /\ Head(wire[q]) \in Queued /\ s.queue = Append(bp[p].queue, Head(wire[q]))
    <3>1. Marked(Head(wire[q]), {"GET"}, f) /\ Head(wire[q]).offs > 0 => Head(wire[q]).offs = n
      BY <1>1, <1>2, <2>2, FitsTail
    <3>2. Fits(Append(bp[p].queue, Head(wire[q])), "GET", f, n)
      BY <1>1, <1>2, <1>5, <2>2, <3>1, FitsAppend
    <3> QED
      BY <2>2, <3>2
  <2> QED
    BY <1>5, <2>1, <2>2
<1>6. ASSUME ~Over(s), s.state[f] = "NoState", s.offset[f] > 0 PROVE s.offset[f] = n
  <2>1. CASE bp[p].state[f] = "NoState" /\ s.offset[f] = bp[p].offset[f]
    BY <1>2, <1>6, <2>1
  <2>2. CASE bp[p].queue # <<>> /\ Marked(Head(bp[p].queue), {"GET"}, f) /\ s.offset[f] = Head(bp[p].queue).offs
    <3>1. Fits(bp[p].queue, "GET", f, n)
      BY <1>2, <1>6
    <3>2. Marked(Head(bp[p].queue), {"GET"}, f) /\ Head(bp[p].queue).offs > 0 => Head(bp[p].queue).offs = n
      BY <1>1, <2>2, <3>1, FitsTail
    <3> QED
      BY <1>6, <2>2, <3>2
  <2> QED
    BY <1>6, <2>1, <2>2
<1> QED
  BY <1>3, <1>4, <1>5, <1>6

\* A file of the peer that p does not change.
LEMMA OtherFit ==
  ASSUME IInv, Contents, NEW p \in Party, ~Over(bp[p]), NEW f \in File, Owner[f] = Peer(p), NEW w, NEW v, NEW s,
         w = wire[Peer(p)] \/ (wire[Peer(p)] # <<>> /\ w = Tail(wire[Peer(p)])),
         \/ v = wire[p]
         \/ \E m \in Frame : v = Append(wire[p], m) /\ (Marked(m, {"GET"}, f) => m.offs = Len(tmp[f]))
  PROVE  Fit(f, w, v, bp[Peer(p)], s, Len(tmp[f]))
<1> DEFINE q == Peer(p)
           n == Len(tmp[f])
<1>1. wire[p] \in Seq(Frame) /\ wire[q] \in Seq(Frame)
  BY Peers, WireTyped
<1>2. Fit(f, wire[q], wire[p], bp[q], bp[p], n)
  BY FitView
<1> HIDE DEF n
<1>3. Fits(wire[q], "FILE", f, n) /\ Fits(wire[p], "GET", f, n)
  BY <1>2 DEF Fit
<1>4. Fits(w, "FILE", f, n)
  BY <1>1, <1>3, FitsLess
<1>5. Fits(v, "GET", f, n)
  <2>1. CASE v = wire[p]
    BY <1>3, <2>1
  <2>2. CASE \E m \in Frame : v = Append(wire[p], m) /\ (Marked(m, {"GET"}, f) => m.offs = Len(tmp[f]))
    <3>1. PICK m \in Frame : v = Append(wire[p], m) /\ (Marked(m, {"GET"}, f) => m.offs = Len(tmp[f]))
      BY <2>2
    <3>2. Marked(m, {"GET"}, f) /\ m.offs > 0 => m.offs = n
      BY <3>1 DEF n
    <3> QED
      BY <1>1, <1>3, <3>1, <3>2, FitsAppend
  <2> QED
    BY <2>1, <2>2
<1>6. Fit(f, w, v, bp[q], s, n)
  BY <1>2, <1>4, <1>5 DEF Fit
<1> QED
  BY <1>6 DEF n

\* The file that p receives: nothing else is under way that names it, so it may change.
LEMMA FreeFit ==
  ASSUME IInv, Talk, NEW p \in Party, Await(bp[p]), NEW f \in File, Owner[f] = Peer(p), bp[p].rname = f,
         NEW w, NEW v, NEW s, NEW n,
         w = wire[Peer(p)] \/ (wire[Peer(p)] # <<>> /\ w = Tail(wire[Peer(p)])),
         v = wire[p] \/ \E m \in Frame : v = Append(wire[p], m) /\ m.cmd # "GET"
  PROVE  Fit(f, w, v, bp[Peer(p)], s, n)
<1> DEFINE q == Peer(p)
<1>1. wire[p] \in Seq(Frame) /\ wire[q] \in Seq(Frame) /\ Good(bp[q]) /\ bp[q].queue \in Seq(Queued)
  BY Peers, WireTyped, BpGood, QueueTyped
<1>2. Single(f, wire[q], wire[p], bp[q], bp[p])
  BY SingleView DEF Talk
<1>3. Coming(bp[p], f) = 1
  BY DEF Coming
<1>4. Posted(wire[q], f) \in Nat /\ Replies(wire[p], f) \in Nat /\ Waiting(bp[q], f) \in Nat
  BY <1>1, LoadType
<1>5. Posted(wire[q], f) + Replies(wire[p], f) + Waiting(bp[q], f) + Coming(bp[p], f) <= 1
  BY <1>2 DEF Single, Load
<1>6. Posted(wire[q], f) = 0 /\ Replies(wire[p], f) = 0 /\ Waiting(bp[q], f) = 0
  BY <1>3, <1>4, <1>5
<1>7. Over(bp[q]) \/ bp[q].state[f] \in {"Sending", "IsSent"}
  <2>1. Load(f, wire[q], wire[p], bp[q], bp[p]) # 0
    BY <1>3, <1>6 DEF Load
  <2> QED
    BY <1>2, <2>1 DEF Single
<1>8. Fits(wire[q], "FILE", f, n) /\ Fits(wire[p], "GET", f, n)
  BY <1>1, <1>6, FitsNone DEF Posted, Replies, Answering
<1>9. ASSUME ~Over(bp[q]) PROVE Fits(bp[q].queue, "GET", f, n)
  <2>1. Count(bp[q].queue, Answering, f) = 0
    BY <1>6, <1>9 DEF Waiting
  <2> QED
    BY <1>1, <2>1, FitsNone DEF Answering
<1>10. Fits(w, "FILE", f, n)
  BY <1>1, <1>8, FitsLess
<1>11. Fits(v, "GET", f, n)
  <2>1. CASE v = wire[p]
    BY <1>8, <2>1
  <2>2. CASE \E m \in Frame : v = Append(wire[p], m) /\ m.cmd # "GET"
    <3>1. PICK m \in Frame : v = Append(wire[p], m) /\ m.cmd # "GET"
      BY <2>2
    <3>2. ~Marked(m, {"GET"}, f)
      BY <3>1 DEF Marked
    <3> QED
      BY <1>1, <1>8, <3>1, <3>2, FitsAppend
  <2> QED
    BY <2>1, <2>2
<1> QED
  BY <1>7, <1>9, <1>10, <1>11 DEF Fit

\* What a step of p that opens no file does to its list and its queue, when its
\* session becomes t, and what it may send.
Lists(p, t) ==
  /\ \/ t.queue = bp[p].queue
     \/ bp[p].queue # <<>> /\ t.queue = Tail(bp[p].queue)
     \/ /\ wire[Peer(p)] # <<>> /\ Head(wire[Peer(p)]) \in Queued
        /\ t.queue = Append(bp[p].queue, Head(wire[Peer(p)]))
  /\ \A f \in File : t.state[f] = "NoState" /\ t.offset[f] > 0 =>
       \/ bp[p].state[f] = "NoState" /\ t.offset[f] = bp[p].offset[f]
       \/ /\ bp[p].queue # <<>> /\ Marked(Head(bp[p].queue), {"GET"}, f)
          /\ t.offset[f] = Head(bp[p].queue).offs /\ t.offset[f] < Size[f]
Says(p, m) ==
  m.cmd \notin {"GET", "SKIP"} /\ (m.cmd = "FILE" => bp[p].state[m.file] = "NoState" /\ m.offs = bp[p].offset[m.file])

\* A step of p that opens no file and changes none.
Calm(p, t) ==
  /\ ~Over(bp[p]) /\ bp'[p] = t /\ bp'[Peer(p)] = bp[Peer(p)]
  /\ tmp' = tmp /\ delivered' = delivered /\ version' = version
  /\ Await(t) => Await(bp[p]) /\ KeepRx(bp[p], t)
  /\ ~Over(t) => Lists(p, t) /\ KeepOpen(bp[p], t)
  /\ wire'[Peer(p)] = wire[Peer(p)] \/ (wire[Peer(p)] # <<>> /\ wire'[Peer(p)] = Tail(wire[Peer(p)]))
  /\ wire'[p] = wire[p] \/ \E m \in Frame : wire'[p] = Append(wire[p], m) /\ Says(p, m)

LEMMA CalmContents == ASSUME IInv, Contents, NEW p \in Party, NEW t, Calm(p, t) PROVE Contents'
<1> USE DEF Calm
<1> DEFINE q == Peer(p)
<1>1. ASSUME NEW f \in File, Owner[f] = p
      PROVE  Fit(f, wire'[p], wire'[q], t, bp[q], Len(tmp[f]))
  <2>1. \/ wire'[p] = wire[p]
        \/ \E m \in Frame : /\ wire'[p] = Append(wire[p], m)
                            /\ Marked(m, {"FILE"}, f) =>
                                 ~Over(bp[p]) /\ bp[p].state[f] = "NoState" /\ m.offs = bp[p].offset[f]
    BY DEF Says, Marked
  <2>2. ~Over(t) =>
           /\ ~Over(bp[p])
           /\ \/ t.queue = bp[p].queue
              \/ bp[p].queue # <<>> /\ t.queue = Tail(bp[p].queue)
              \/ /\ wire[Peer(p)] # <<>> /\ Head(wire[Peer(p)]) \in Queued
                 /\ t.queue = Append(bp[p].queue, Head(wire[Peer(p)]))
           /\ t.state[f] = "NoState" /\ t.offset[f] > 0 =>
                \/ bp[p].state[f] = "NoState" /\ t.offset[f] = bp[p].offset[f]
                \/ /\ bp[p].queue # <<>> /\ Marked(Head(bp[p].queue), {"GET"}, f)
                   /\ t.offset[f] = Head(bp[p].queue).offs
    BY Zenon DEF Lists
  <2> QED
    BY <1>1, <2>1, <2>2, OwnFit
<1>2. ASSUME NEW f \in File, Owner[f] = q
      PROVE  Fit(f, wire'[q], wire'[p], bp[q], t, Len(tmp[f]))
  <2>1. \/ wire'[p] = wire[p]
        \/ \E m \in Frame : wire'[p] = Append(wire[p], m) /\ (Marked(m, {"GET"}, f) => m.offs = Len(tmp[f]))
    BY DEF Says, Marked
  <2> QED
    BY <1>2, <2>1, OtherFit
<1>3. \A f \in File : Owner[f] = p => Fit(f, wire'[p], wire'[Peer(p)], bp'[p], bp[Peer(p)], Len(tmp[f]))
  BY <1>1
<1>4. \A f \in File : Owner[f] = Peer(p) => Fit(f, wire'[Peer(p)], wire'[p], bp[Peer(p)], bp'[p], Len(tmp[f]))
  BY <1>2
<1>5. Await(bp'[p]) => Await(bp[p]) /\ KeepRx(bp[p], bp'[p])
  OBVIOUS
<1> QED
  BY <1>3, <1>4, <1>5, SameFiles

\* A step of p that ends it, and changes no file.
LEMMA StopCalm ==
  ASSUME IInv, NEW p \in Party, ~Over(bp[p]), NEW s, NEW rc, bp' = [bp EXCEPT ![p] = Ended(s, rc)], Good(s),
         tmp' = tmp, delivered' = delivered, version' = version,
         \/ wire' = wire
         \/ Arrives(p) /\ wire' = Rest(p)
         \/ Arrives(p) /\ \E m \in Frame : wire' = Sent(Rest(p), p, m) /\ Says(p, m)
  PROVE  \E t : Calm(p, t)
<1>1. bp'[p] = Ended(s, rc) /\ bp'[Peer(p)] = bp[Peer(p)] /\ Over(Ended(s, rc))
  BY BpView, EndedView
<1>2. ~Await(Ended(s, rc))
  BY <1>1 DEF Await
<1>3. /\ wire'[Peer(p)] = wire[Peer(p)] \/ (wire[Peer(p)] # <<>> /\ wire'[Peer(p)] = Tail(wire[Peer(p)]))
      /\ wire'[p] = wire[p] \/ \E m \in Frame : wire'[p] = Append(wire[p], m) /\ Says(p, m)
  <2>1. CASE wire' = wire
    BY <2>1
  <2>2. CASE Arrives(p) /\ wire' = Rest(p)
    BY <2>2, RestView
  <2>3. CASE Arrives(p) /\ \E m \in Frame : wire' = Sent(Rest(p), p, m) /\ Says(p, m)
    <3>1. PICK m \in Frame : wire' = Sent(Rest(p), p, m) /\ Says(p, m)
      BY <2>3
    <3>2. wire'[Peer(p)] = Tail(wire[Peer(p)]) /\ (wire'[p] = wire[p] \/ wire'[p] = Append(wire[p], m))
      BY <2>3, <3>1, SentRestView
    <3>3. wire[Peer(p)] # <<>>
      BY <2>3, RestView
    <3> QED
      BY <3>1, <3>2, <3>3
  <2> QED
    BY <2>1, <2>2, <2>3
<1>4. Calm(p, Ended(s, rc))
  BY <1>1, <1>2, <1>3, Zenon DEF Calm
<1> QED
  BY <1>4

\* A step of the transmitter, without a frame or with one, which may be lost.
LEMMA SentCalm ==
  ASSUME IInv, NEW p \in Party, ~Over(bp[p]), NEW t, bp' = [bp EXCEPT ![p] = t],
         tmp' = tmp, delivered' = delivered, version' = version,
         KeepRx(bp[p], t) \/ (~Await(t) /\ KeepOpen(bp[p], t)), Lists(p, t),
         wire' = wire \/ \E m \in Frame : wire' = Sent(wire, p, m) /\ Says(p, m)
  PROVE  \E u : Calm(p, u)
<1>1. bp'[p] = t /\ bp'[Peer(p)] = bp[Peer(p)]
  BY BpView
<1>2. (Await(t) => Await(bp[p]) /\ KeepRx(bp[p], t)) /\ KeepOpen(bp[p], t)
  BY DEF Await, KeepRx, KeepOpen
<1>3. /\ wire'[Peer(p)] = wire[Peer(p)]
      /\ wire'[p] = wire[p] \/ \E m \in Frame : wire'[p] = Append(wire[p], m) /\ Says(p, m)
  <2>1. CASE wire' = wire
    BY <2>1
  <2>2. CASE \E m \in Frame : wire' = Sent(wire, p, m) /\ Says(p, m)
    <3>1. PICK m \in Frame : wire' = Sent(wire, p, m) /\ Says(p, m)
      BY <2>2
    <3>2. wire \in [Party -> Seq(Frame)]
      BY DEF IInv, TypeOK
    <3>3. wire'[Peer(p)] = wire[Peer(p)] /\ (wire'[p] = wire[p] \/ wire'[p] = Append(wire[p], m))
      BY <3>1, <3>2, SentView
    <3> QED
      BY <3>1, <3>3
  <2> QED
    BY <2>1, <2>2
<1>4. Calm(p, t)
  BY <1>1, <1>2, <1>3, Zenon DEF Calm
<1> QED
  BY <1>4

LEMMA ListsKept ==
  ASSUME NEW p, NEW t, t.queue = bp[p].queue,
         \A f \in File : t.state[f] = "NoState" => bp[p].state[f] = "NoState" /\ t.offset[f] = bp[p].offset[f]
  PROVE  Lists(p, t)
BY DEF Lists

LEMMA MakeListCalm == ASSUME IInv, NEW p \in Party, MakeList(p) PROVE \E t : Calm(p, t)
<1> DEFINE l == [f \in File |-> IF f \in Listed(p) THEN "NoState" ELSE "Absent"]
           o == [f \in File |-> 0]
           s == [bp[p] EXCEPT
                   !.FtState = "Transmit", !.tosend = TRUE, !.cursend = NoFile, !.freqname = FALSE,
                   !.state = l, !.offset = o]
           nul == [cmd |-> "NUL", file |-> NoFile, offs |-> 0]
<1>1. /\ Turn(p) /\ tmp' = tmp /\ delivered' = delivered /\ version' = version
      /\ bp' = [bp EXCEPT ![p] = s] \/ bp' = [bp EXCEPT ![p] = SentCommand(s, "NUL")]
      /\ wire' = wire \/ wire' = Sent(wire, p, nul)
      /\ bp[p].TxState = "TxGNF"
  BY DEF MakeList, Transmits, disk
<1>2. Good(bp[p]) /\ ~Over(bp[p])
  BY <1>1, BpGood, TurnLive
<1>3. KeepRx(bp[p], s) /\ s.queue = bp[p].queue /\ s.offset = o
  BY <1>2 DEF Good, Session, KeepRx
<1>4. Good(s)
  <2>1. l \in [File -> FileState] /\ o \in [File -> Nat]
    BY DEF FileState
  <2> HIDE DEF l, o
  <2> QED
    BY <1>1, <1>2, <2>1, ListMadeGood
<1>5. nul \in Frame /\ Says(p, nul)
  BY FramesTyped DEF Says
<1> HIDE DEF s, nul
<1>6. PICK t : bp' = [bp EXCEPT ![p] = t] /\ KeepRx(bp[p], t) /\ t.queue = bp[p].queue /\ t.offset = o
  <2>1. CASE bp' = [bp EXCEPT ![p] = s]
    BY <1>3, <2>1
  <2>2. CASE bp' = [bp EXCEPT ![p] = SentCommand(s, "NUL")]
    <3>1. Keep(s, SentCommand(s, "NUL"))
      BY <1>4, SentCommandView
    <3>2. LET t == SentCommand(s, "NUL") IN KeepRx(bp[p], t) /\ t.queue = bp[p].queue /\ t.offset = o
      BY <1>3, <3>1 DEF Keep, KeepRx, KeepTx
    <3> HIDE DEF o
    <3> QED
      BY <2>2, <3>2
  <2> QED
    BY <1>1, <2>1, <2>2
<1>7. Lists(p, t)
  BY <1>6 DEF Lists
<1>8. wire' = wire \/ \E m \in Frame : wire' = Sent(wire, p, m) /\ Says(p, m)
  BY <1>1, <1>5
<1> HIDE DEF o
<1> QED
  BY <1>1, <1>2, <1>6, <1>7, <1>8, SentCalm

LEMMA SendFileCalm == ASSUME IInv, NEW p \in Party, SendFile(p) PROVE \E t : Calm(p, t)
<1>1. PICK f \in File :
        /\ Chooses(p, f)
        /\ Transmits(p, SentCommand(
             [bp[p] EXCEPT !.FtState = "Transmit", !.TxState = "TxTryR", !.state[f] = "Sending",
                           !.cursend = f, !.txfp = f, !.txpos = bp[p].offset[f]], "FILE"))
        /\ wire' = Sent(wire, p, [cmd |-> "FILE", file |-> f, offs |-> bp[p].offset[f]])
        /\ tmp' = tmp /\ delivered' = delivered /\ version' = version
  BY DEF SendFile, disk
<1> DEFINE s == [bp[p] EXCEPT !.FtState = "Transmit", !.TxState = "TxTryR", !.state[f] = "Sending",
                              !.cursend = f, !.txfp = f, !.txpos = bp[p].offset[f]]
           t == SentCommand(s, "FILE")
           m == [cmd |-> "FILE", file |-> f, offs |-> bp[p].offset[f]]
<1>2. Turn(p) /\ bp[p].state[f] = "NoState" /\ bp[p].TxState = "TxGNF" /\ bp[p].tosend
  BY <1>1 DEF Chooses, Unsent
<1>3. Good(bp[p]) /\ ~Over(bp[p])
  BY <1>2, BpGood, TurnLive
<1>4. bp[p].state \in [File -> FileState] /\ bp[p].offset[f] \in Nat
  <2>1. bp[p].state \in [File -> FileState] /\ bp[p].offset \in [File -> Nat]
    BY <1>3, ZenonT(20) DEF Good, Session
  <2> QED
    BY <2>1
<1>5. Good(s)
  BY <1>2, <1>3, <1>4, SendingGood
<1>6. /\ KeepRx(bp[p], s) /\ s.queue = bp[p].queue /\ s.offset = bp[p].offset
      /\ s.state = [bp[p].state EXCEPT ![f] = "Sending"]
  BY <1>3 DEF Good, Session, KeepRx
<1>7. m \in Frame /\ m.cmd = "FILE" /\ m.file = f /\ m.offs = bp[p].offset[f]
  BY <1>4, FramesTyped
<1>8. bp' = [bp EXCEPT ![p] = t] /\ wire' = Sent(wire, p, m)
  BY <1>1 DEF Transmits
<1> HIDE DEF s, m
<1>9. Keep(s, t)
  BY <1>5, SentCommandView
<1>10. /\ KeepRx(bp[p], t) /\ t.queue = bp[p].queue /\ t.offset = bp[p].offset
       /\ t.state = [bp[p].state EXCEPT ![f] = "Sending"]
  BY <1>6, <1>9 DEF Keep, KeepRx, KeepTx
<1> HIDE DEF t
<1>11. \A g \in File : t.state[g] = "NoState" => bp[p].state[g] = "NoState"
  BY <1>4, <1>10
<1>12. Lists(p, t)
  BY <1>10, <1>11, ListsKept
<1>13. Says(p, m)
  BY <1>2, <1>7 DEF Says
<1> QED
  BY <1>1, <1>3, <1>7, <1>8, <1>10, <1>12, <1>13, SentCalm

LEMMA PassFileCalm == ASSUME IInv, NEW p \in Party, PassFile(p) PROVE \E t : Calm(p, t)
<1>1. PICK f \in File, st \in {"Got", "Skipped"} :
        Chooses(p, f) /\ Transmits(p, [bp[p] EXCEPT !.FtState = "Switch", !.txfp = NoFile, !.state[f] = st])
  BY DEF PassFile
<1> DEFINE t == [bp[p] EXCEPT !.FtState = "Switch", !.txfp = NoFile, !.state[f] = st]
<1>2. wire' = wire /\ bp' = [bp EXCEPT ![p] = t] /\ tmp' = tmp /\ delivered' = delivered /\ version' = version
  BY <1>1 DEF PassFile, Transmits, disk
<1>3. Turn(p)
  BY <1>1 DEF Chooses
<1>4. Good(bp[p]) /\ ~Over(bp[p])
  BY <1>3, BpGood, TurnLive
<1>6. /\ KeepRx(bp[p], t) /\ t.queue = bp[p].queue /\ t.offset = bp[p].offset
      /\ t.state = [bp[p].state EXCEPT ![f] = st]
  BY <1>4 DEF Good, Session, KeepRx
<1>7. bp[p].state \in [File -> FileState]
  BY <1>4, ZenonT(20) DEF Good, Session
<1> HIDE DEF t
<1>8. \A g \in File : t.state[g] = "NoState" => bp[p].state[g] = "NoState"
  BY <1>6, <1>7
<1>9. Lists(p, t)
  BY <1>6, <1>8, ListsKept
<1> QED
  BY <1>2, <1>4, <1>6, <1>9, SentCalm

LEMMA SendEOBCalm == ASSUME IInv, NEW p \in Party, SendEOB(p) PROVE \E t : Calm(p, t)
<1> DEFINE s == [bp[p] EXCEPT !.FtState = "Transmit", !.TxState = "TxWLA"]
           t == SentCommand(s, "EOB")
           m == [cmd |-> "EOB", file |-> NoFile, offs |-> 0]
<1>1. /\ Turn(p) /\ bp[p].tosend /\ bp' = [bp EXCEPT ![p] = t] /\ wire' = Sent(wire, p, m)
      /\ tmp' = tmp /\ delivered' = delivered /\ version' = version
  BY DEF SendEOB, Transmits, disk
<1>2. Good(bp[p]) /\ ~Over(bp[p])
  BY <1>1, BpGood, TurnLive
<1>3. Good(s)
  BY <1>1, <1>2, AllSentGood
<1>4. KeepRx(bp[p], s) /\ s.queue = bp[p].queue /\ s.state = bp[p].state /\ s.offset = bp[p].offset
  BY <1>2 DEF Good, Session, KeepRx
<1>5. m \in Frame /\ Says(p, m)
  BY FramesTyped DEF Says
<1> HIDE DEF s, m
<1>6. Keep(s, t)
  BY <1>3, SentCommandView
<1>7. KeepRx(bp[p], t) /\ t.queue = bp[p].queue /\ t.state = bp[p].state /\ t.offset = bp[p].offset
  BY <1>4, <1>6 DEF Keep, KeepRx, KeepTx
<1> HIDE DEF t
<1>8. Lists(p, t)
  BY <1>7, ListsKept
<1> QED
  BY <1>1, <1>2, <1>5, <1>7, <1>8, SentCalm

LEMMA SendBlockCalm == ASSUME IInv, NEW p \in Party, SendBlock(p) PROVE \E t : Calm(p, t)
<1> DEFINE s == bp[p]
           f == s.cursend
           last == s.txpos >= Size[f]
           n == IF last THEN s.txpos ELSE s.txpos + 1
           sent == [s EXCEPT !.FtState = "Switch", !.txpos = n]
           read == [sent EXCEPT !.txfp = NoFile, !.state[f] = "IsSent", !.cursend = NoFile, !.TxState = "TxGNF"]
           m == [cmd |-> "DATA", file |-> f, offs |-> s.txpos + 1]
<1>1. /\ Turn(p) /\ s.TxState = "TxTryR" /\ tmp' = tmp /\ delivered' = delivered /\ version' = version
      /\ bp' = [bp EXCEPT ![p] = read] \/ bp' = [bp EXCEPT ![p] = sent]
      /\ wire' = wire \/ wire' = Sent(wire, p, m)
  <2>1. n = IF last THEN s.txpos ELSE s.txpos + 1
    OBVIOUS
  <2> QED
    BY DEF SendBlock, Transmits, disk
<1>2. Good(s) /\ ~Over(s)
  BY <1>1, BpGood, TurnLive
<1>3. f \in File /\ s.txpos \in Nat /\ s.state \in [File -> FileState]
  <2>1. s.txpos \in Nat /\ s.state \in [File -> FileState]
    BY <1>2, ZenonT(20) DEF Good, Session
  <2> QED
    BY <1>1, <1>2, <2>1 DEF Good, Named
<1>4. m \in Frame /\ Says(p, m)
  BY <1>3, FramesTyped DEF Says
<1> HIDE DEF n, last, m
<1>5. KeepRx(s, sent) /\ sent.queue = s.queue /\ sent.state = s.state /\ sent.offset = s.offset
  BY <1>2 DEF Good, Session, KeepRx
<1>6. KeepRx(s, read) /\ read.queue = s.queue /\ read.state = [s.state EXCEPT ![f] = "IsSent"] /\ read.offset = s.offset
  BY <1>2 DEF Good, Session, KeepRx
<1> HIDE DEF sent, read
<1>7. PICK t : /\ bp' = [bp EXCEPT ![p] = t] /\ KeepRx(s, t) /\ t.queue = s.queue /\ t.offset = s.offset
               /\ t.state = s.state \/ t.state = [s.state EXCEPT ![f] = "IsSent"]
  BY <1>1, <1>5, <1>6
<1>8. \A g \in File : t.state[g] = "NoState" => s.state[g] = "NoState"
  BY <1>3, <1>7
<1>9. Lists(p, t)
  BY <1>7, <1>8, ListsKept
<1> QED
  BY <1>1, <1>2, <1>4, <1>7, <1>9, SentCalm

LEMMA ReadFailsCalm == ASSUME IInv, NEW p \in Party, ReadFails(p) PROVE \E t : Calm(p, t)
<1> DEFINE s == [bp[p] EXCEPT !.state[bp[p].cursend] = "Skipped"]
<1>1. /\ Turn(p) /\ bp[p].TxState = "TxTryR" /\ bp' = [bp EXCEPT ![p] = Ended(s, "failed")] /\ wire' = wire
      /\ tmp' = tmp /\ delivered' = delivered /\ version' = version
  BY DEF ReadFails, Transmits, disk
<1>2. Good(bp[p]) /\ ~Over(bp[p])
  BY <1>1, BpGood, TurnLive
<1>3. bp[p].cursend \in File
  BY <1>1, <1>2 DEF Good, Named
<1>4. Good(s)
  BY <1>2, <1>3, DisposedGood
<1> HIDE DEF s
<1> QED
  BY <1>1, <1>2, <1>4, StopCalm

LEMMA CloseNoFileCalm == ASSUME IInv, NEW p \in Party, CloseNoFile(p) PROVE \E t : Calm(p, t)
<1>1. /\ bp' = [bp EXCEPT ![p] = Ended(bp[p], "failed")] /\ wire' = wire
      /\ tmp' = tmp /\ delivered' = delivered /\ version' = version
      /\ Processes(p, "GOT") \/ Processes(p, "SKIP")
  BY DEF CloseNoFile, Transmits, disk
<1>2. Good(bp[p]) /\ ~Over(bp[p])
  BY <1>1, BpGood, ProcessesView DEF Answering
<1> QED
  BY <1>1, <1>2, StopCalm

LEMMA ListsAbsent ==
  ASSUME NEW p, NEW t, t.queue = bp[p].queue, \A f \in File : t.state[f] = "Absent"
  PROVE  Lists(p, t)
BY DEF Lists

LEMMA WaitAcksCalm == ASSUME IInv, NEW p \in Party, WaitAcks(p) PROVE \E t : Calm(p, t)
<1> DEFINE s == [bp[p] EXCEPT !.FtState = "Switch"]
<1>1. /\ Turn(p) /\ wire' = wire /\ tmp' = tmp /\ delivered' = delivered /\ version' = version
      /\ \/ bp' = [bp EXCEPT ![p] = s]
         \/ bp' = [bp EXCEPT ![p] = Ended(ListCleared(s), "ok")]
         \/ bp' = [bp EXCEPT ![p] = NextBatch(s)]
         \/ bp' = [bp EXCEPT ![p] = ListCleared(s)]
  BY DEF WaitAcks, Transmits, disk
<1>2. Good(bp[p]) /\ ~Over(bp[p])
  BY <1>1, BpGood, TurnLive
<1>3. Good(s) /\ Keep(bp[p], s)
  BY <1>2, SwitchView
<1> HIDE DEF s
<1>4. CASE bp' = [bp EXCEPT ![p] = s]
  <2>1. Lists(p, s)
    BY <1>3, ListsKept DEF Keep, KeepTx
  <2> QED
    BY <1>1, <1>2, <1>3, <1>4, <2>1, SentCalm DEF Keep
<1>5. CASE bp' = [bp EXCEPT ![p] = Ended(ListCleared(s), "ok")]
  <2>1. Good(ListCleared(s))
    BY <1>3, ListClearedGood
  <2> QED
    BY <1>1, <1>2, <1>5, <2>1, StopCalm
<1>6. CASE bp' = [bp EXCEPT ![p] = NextBatch(s)]
  <2> DEFINE t == NextBatch(s)
  <2>1. t.queue = bp[p].queue /\ t.RxState = "RxWaitF" /\ KeepOpen(bp[p], t) /\ \A f \in File : t.state[f] = "Absent"
    BY <1>3, NextBatchView DEF Keep, KeepRx, KeepOpen
  <2>2. ~Await(t) /\ KeepOpen(bp[p], t) /\ Lists(p, t)
    BY <2>1, ListsAbsent DEF Await
  <2> HIDE DEF t
  <2>3. bp' = [bp EXCEPT ![p] = t]
    BY <1>6 DEF t
  <2> QED
    BY <1>1, <1>2, <2>2, <2>3, SentCalm
<1>7. CASE bp' = [bp EXCEPT ![p] = ListCleared(s)]
  <2> DEFINE t == ListCleared(s)
  <2>1. t.queue = bp[p].queue /\ KeepRx(s, t) /\ \A f \in File : t.state[f] = "Absent"
    BY <1>3, ListClearedView DEF Keep
  <2>2. KeepRx(bp[p], t)
    BY <1>3, <2>1 DEF Keep, KeepRx
  <2>3. Lists(p, t)
    BY <2>1, ListsAbsent
  <2> HIDE DEF t
  <2>4. bp' = [bp EXCEPT ![p] = t]
    BY <1>7 DEF t
  <2> QED
    BY <1>1, <1>2, <2>2, <2>3, <2>4, SentCalm
<1> QED
  BY <1>1, <1>4, <1>5, <1>6, <1>7

\* The answer cmd alone sets the place from which a listed file is sent.
Relisted(p, t, cmd) ==
  \A g \in File : t.state[g] = "NoState" =>
    \/ bp[p].state[g] = "NoState" /\ t.offset[g] = bp[p].offset[g]
    \/ cmd = "GET" /\ g = Message(p).file /\ t.offset[g] = Message(p).offs /\ t.offset[g] < Size[g]

\* A message is handled: only M_GET sets the place to send a file from.
LEMMA ProcessingCalm ==
  ASSUME IInv, NEW p \in Party, NEW cmd \in Answering, Processes(p, cmd), NEW t,
         bp' = [bp EXCEPT ![p] = t], Processing(p, t), wire' = wire,
         tmp' = tmp, delivered' = delivered, version' = version,
         Relisted(p, t, cmd)
  PROVE  \E u : Calm(p, u)
<1>1. /\ ~Over(bp[p]) /\ bp[p].queue # <<>> /\ Message(p) = Head(bp[p].queue) /\ Message(p).cmd = cmd
  BY ProcessesView
<1>2. KeepRx(bp[p], t) /\ t.queue = Tail(bp[p].queue)
  BY DEF Processing
<1>3. \A g \in File : cmd = "GET" /\ g = Message(p).file => Marked(Head(bp[p].queue), {"GET"}, g)
  BY <1>1 DEF Marked
<1>4. Lists(p, t)
  BY <1>1, <1>2, <1>3 DEF Lists, Relisted
<1> QED
  BY <1>1, <1>2, <1>4, SentCalm

LEMMA ProcessActionsCalm ==
  ASSUME IInv, NEW p \in Party, ProcessGet(p) \/ ProcessGot(p) \/ ProcessSkip(p)
  PROVE  \E u : Calm(p, u)
<1>1. CASE ProcessGet(p)
  <2>1. wire' = wire /\ tmp' = tmp /\ delivered' = delivered /\ version' = version
    BY <1>1 DEF ProcessGet, disk
  <2>2. PICK c \in Answering : c = "GET" /\ Processes(p, c)
    BY <1>1, ProcessGetView
  <2>3. PICK t : /\ bp' = [bp EXCEPT ![p] = t] /\ Processing(p, t)
                 /\ \A g \in File :
                      \/ t.state[g] = bp[p].state[g] /\ t.offset[g] = bp[p].offset[g]
                      \/ g = Message(p).file /\ t.offset[g] = Message(p).offs /\ t.offset[g] < Size[g]
    BY <1>1, ProcessGetView
  <2>4. Relisted(p, t, c)
    BY <2>2, <2>3 DEF Relisted
  <2> QED
    BY <2>1, <2>2, <2>3, <2>4, ProcessingCalm
<1>2. CASE ProcessGot(p)
  <2>1. wire' = wire /\ tmp' = tmp /\ delivered' = delivered /\ version' = version
    BY <1>2 DEF ProcessGot, world
  <2>2. PICK c \in Answering : c = "GOT" /\ Processes(p, c)
    BY <1>2, ProcessGotView
  <2>3. PICK t : bp' = [bp EXCEPT ![p] = t] /\ Processing(p, t) /\ t.offset = bp[p].offset
                 /\ \A g \in File : t.state[g] \in {bp[p].state[g], "Got"}
    BY <1>2, ProcessGotView
  <2>4. Relisted(p, t, c)
    BY <2>2, <2>3 DEF Relisted
  <2> QED
    BY <2>1, <2>2, <2>3, <2>4, ProcessingCalm
<1>3. CASE ProcessSkip(p)
  <2>1. wire' = wire /\ tmp' = tmp /\ delivered' = delivered /\ version' = version
    BY <1>3 DEF ProcessSkip, disk
  <2>2. PICK c \in Answering : c = "SKIP" /\ Processes(p, c)
    BY <1>3, ProcessSkipView
  <2>3. PICK t : bp' = [bp EXCEPT ![p] = t] /\ Processing(p, t) /\ t.offset = bp[p].offset
                 /\ \A g \in File : t.state[g] \in {bp[p].state[g], "Skipped"}
    BY <1>3, ProcessSkipView
  <2>4. Relisted(p, t, c)
    BY <2>2, <2>3 DEF Relisted
  <2> QED
    BY <2>1, <2>2, <2>3, <2>4, ProcessingCalm
<1> QED
  BY <1>1, <1>2, <1>3

LEMMA TransmitCalm == ASSUME IInv, NEW p \in Party, Transmit(p) PROVE \E t : Calm(p, t)
BY MakeListCalm, SendFileCalm, PassFileCalm, SendEOBCalm, SendBlockCalm, ReadFailsCalm,
   ProcessActionsCalm, CloseNoFileCalm, WaitAcksCalm, Zenon DEF Transmit

(***************************************************************************)
(* The receiver                                                            *)
(***************************************************************************)

\* A frame is read that concerns no file in tmp/.
LEMMA ReadCalm ==
  ASSUME IInv, NEW p \in Party, Arrives(p), NEW t, bp' = [bp EXCEPT ![p] = t], wire' = Rest(p),
         tmp' = tmp, delivered' = delivered, version' = version,
         KeepRx(bp[p], t) \/ (~Await(t) /\ KeepOpen(bp[p], t)), Lists(p, t)
  PROVE  \E u : Calm(p, u)
<1>1. bp'[p] = t /\ bp'[Peer(p)] = bp[Peer(p)]
  BY BpView
<1>2. wire'[p] = wire[p] /\ wire'[Peer(p)] = Tail(wire[Peer(p)]) /\ wire[Peer(p)] # <<>> /\ ~Over(bp[p])
  BY RestView
<1>3. (Await(t) => Await(bp[p]) /\ KeepRx(bp[p], t)) /\ KeepOpen(bp[p], t)
  BY <1>2 DEF Await, KeepRx, KeepOpen
<1>4. Calm(p, t)
  BY <1>1, <1>2, <1>3, Zenon DEF Calm
<1> QED
  BY <1>4

LEMMA ReceiverQuietCalm ==
  ASSUME IInv, NEW p \in Party, QueueMessage(p) \/ Ignore(p) \/ ReceiveEOB(p)
  PROVE  \E u : Calm(p, u)
<1>1. CASE QueueMessage(p)
  <2>1. Arrives(p) /\ wire' = Rest(p) /\ tmp' = tmp /\ delivered' = delivered /\ version' = version
    BY <1>1 DEF QueueMessage, disk
  <2>2. PICK t : /\ bp' = [bp EXCEPT ![p] = t] /\ KeepRx(bp[p], t) /\ KeepTx(bp[p], t)
                 /\ t.queue = Append(bp[p].queue, Incoming(p)) /\ Incoming(p) \in Queued
    BY <1>1, QueueMessageView
  <2>3. wire[Peer(p)] # <<>> /\ Incoming(p) = Head(wire[Peer(p)])
    BY <2>1, RestView
  <2>4. Lists(p, t)
    BY <2>2, <2>3 DEF Lists, KeepTx
  <2> QED
    BY <2>1, <2>2, <2>4, ReadCalm
<1>2. CASE Ignore(p)
  <2>1. Arrives(p) /\ wire' = Rest(p) /\ tmp' = tmp /\ delivered' = delivered /\ version' = version
    BY <1>2 DEF Ignore, disk
  <2>2. PICK t : bp' = [bp EXCEPT ![p] = t] /\ Keep(bp[p], t)
    BY <1>2, IgnoreView
  <2>3. Lists(p, t)
    BY <2>2, ListsKept DEF Keep, KeepTx
  <2> QED
    BY <2>1, <2>2, <2>3, ReadCalm DEF Keep
<1>3. CASE ReceiveEOB(p)
  <2>1. Arrives(p) /\ wire' = Rest(p) /\ tmp' = tmp /\ delivered' = delivered /\ version' = version
    BY <1>3 DEF ReceiveEOB, disk
  <2>2. PICK t : /\ bp' = [bp EXCEPT ![p] = t] /\ t.RxState # "RxReceD" /\ t.queue = bp[p].queue
                 /\ KeepOpen(bp[p], t)
                 /\ \/ KeepTx(bp[p], t)
                    \/ \A f \in File : t.state[f] = "Absent"
    BY <1>3, ReceiveEOBView
  <2>3. Lists(p, t)
    BY <2>2, ListsKept, ListsAbsent DEF KeepTx
  <2>4. ~Await(t)
    BY <2>2 DEF Await
  <2> QED
    BY <2>1, <2>2, <2>3, <2>4, ReadCalm
<1> QED
  BY <1>1, <1>2, <1>3

LEMMA ReceiverStopsCalm ==
  ASSUME IInv, NEW p \in Party, LowDiskspace(p) \/ ReceiveUnexpected(p) \/ SeekClosedFile(p)
  PROVE  \E u : Calm(p, u)
<1>1. Arrives(p) /\ Good(Polled(p)) /\ bp' = [bp EXCEPT ![p] = Ended(Polled(p), "failed")]
      /\ tmp' = tmp /\ delivered' = delivered /\ version' = version
  BY PolledGood DEF LowDiskspace, ReceiveUnexpected, SeekClosedFile, disk
<1>2. ~Over(bp[p])
  BY <1>1, RestView
<1>3. CASE LowDiskspace(p)
  <2> DEFINE m == [cmd |-> "BSY", file |-> NoFile, offs |-> 0]
  <2>1. m \in Frame /\ Says(p, m)
    BY FramesTyped DEF Says
  <2>2. wire' = Sent(Rest(p), p, m)
    BY <1>3 DEF LowDiskspace
  <2> HIDE DEF m
  <2> QED
    BY <1>1, <1>2, <2>1, <2>2, StopCalm
<1>4. CASE ReceiveUnexpected(p) \/ SeekClosedFile(p)
  <2>1. wire' = Rest(p)
    BY <1>4 DEF ReceiveUnexpected, SeekClosedFile
  <2> QED
    BY <1>1, <1>2, <2>1, StopCalm
<1> QED
  BY <1>3, <1>4

LEMMA FailsCalm == ASSUME IInv, NEW p \in Party, ~Over(bp[p]), Fails(p) PROVE \E t : Calm(p, t)
<1>1. /\ bp' = [bp EXCEPT ![p] = Ended(bp[p], "failed")] /\ wire' = wire
      /\ tmp' = tmp /\ delivered' = delivered /\ version' = version
  BY DEF Fails, disk
<1>2. Good(bp[p])
  BY BpGood
<1> QED
  BY <1>1, <1>2, StopCalm

\* A partial file with the right blocks in it, all of the version that is sent.
LEMMA FreshBlocks ==
  ASSUME IInv, NEW f \in File, ~Stale(f)
  PROVE  tmp[f] = Blocks(f, version[f], Len(tmp[f]))
<1>1. tmp[f] \in Seq(Block)
  BY DEF IInv, TypeOK
<1>2. Len(tmp[f]) \in Nat /\ DOMAIN tmp[f] = 1..Len(tmp[f]) /\ tmp[f] = [i \in 1..Len(tmp[f]) |-> tmp[f][i]]
  BY <1>1, LenProperties
<1>3. \A i \in 1..Len(tmp[f]) : tmp[f][i] = <<f, version[f], i>>
  BY <1>2 DEF Stale
<1> QED
  BY <1>2, <1>3 DEF Blocks

\* What AcceptFile found is as long as it says, and where it awaits data they
\* continue what is there.
LEMMA AcceptFileFits ==
  ASSUME IInv, Talk, Contents, NEW p \in Party, AcceptFile(p), ~mixed'
  PROVE  LET m == Incoming(p)
             a == Announced(p)
         IN /\ Owner[m.file] = Peer(p) /\ a.rxfp = m.file /\ a.rxbytes = Len(tmp[m.file])
            /\ ~AlreadyHere(a) /\ ~PartlyHere(a) =>
                 /\ m.offs = Len(tmp[m.file]) /\ m.offs < Size[m.file]
                 /\ tmp[m.file] = Blocks(m.file, version[m.file], m.offs)
<1> DEFINE m == Incoming(p)
           a == Announced(p)
           f == m.file
           n == Len(tmp[f])
           q == Peer(p)
<1>1. Arrives(p) /\ m.cmd = "FILE" /\ f \in File /\ m.offs \in Nat /\ a.rname = f /\ a.rxpos = m.offs
  BY AcceptFileView
<1>2. a.rxfp = f /\ ~Stale(f)
  BY DEF AcceptFile
<1>3. a.rxbytes = Len(tmp[f]) \/ (m.offs # 0 /\ a.rxbytes = m.offs)
  BY <1>1, AnnouncedView
<1>4. /\ wire[q] \in Seq(Frame) /\ wire[q] # <<>> /\ m = Head(wire[q]) /\ ~Over(bp[p])
      /\ q \in Party /\ Peer(q) = p
  BY <1>1, Peers, WireTyped, RestView
<1>5. Owner[f] = q
  <2>1. Announces(q, wire[q])
    BY <1>4 DEF Talk, Owned
  <2>2. Head(wire[q]).cmd = "FILE" => Owner[Head(wire[q]).file] = q
    BY <1>4, <2>1, AnnouncesLess
  <2> QED
    BY <1>1, <1>4, <2>2
<1>6. n \in Nat /\ n <= Size[f] /\ Size[f] \in Nat
  <2>1. tmp[f] \in Seq(Block)
    BY <1>1 DEF IInv, TypeOK
  <2> QED
    BY <1>1, <2>1, LenProperties, FilesKnown DEF Contents, Lengths
<1>7. m.offs > 0 => m.offs = n
  <2>1. Fit(f, wire[q], wire[p], bp[q], bp[p], n)
    BY <1>1, <1>5, FitView
  <2>2. Fits(wire[q], "FILE", f, n)
    BY <1>4, <2>1 DEF Fit
  <2>3. Marked(m, {"FILE"}, f)
    BY <1>1 DEF Marked
  <2> HIDE DEF f, n
  <2> QED
    BY <1>4, <2>2, <2>3, FitsTail
<1>8. tmp[f] = Blocks(f, version[f], n)
  BY <1>1, <1>2, FreshBlocks
<1> HIDE DEF m, a, n, f
<1>9. a.rxbytes = n
  <2>1. a.rxbytes = n \/ (m.offs # 0 /\ a.rxbytes = m.offs)
    BY <1>3 DEF n
  <2> QED
    BY <1>1, <1>7, <2>1
<1>10. ASSUME ~AlreadyHere(a), ~PartlyHere(a) PROVE m.offs = n /\ m.offs < Size[f]
  <2>1. n # Size[f] /\ ~(n \in 1..Size[f] - 1 /\ m.offs = 0)
    BY <1>1, <1>9, <1>10 DEF AlreadyHere, PartlyHere
  <2> QED
    BY <1>1, <1>6, <1>7, <2>1
<1>11. /\ Owner[m.file] = Peer(p) /\ a.rxfp = m.file /\ a.rxbytes = Len(tmp[m.file])
       /\ ~AlreadyHere(a) /\ ~PartlyHere(a) =>
            /\ m.offs = Len(tmp[m.file]) /\ m.offs < Size[m.file]
            /\ tmp[m.file] = Blocks(m.file, version[m.file], m.offs)
  BY <1>2, <1>5, <1>8, <1>9, <1>10 DEF f, n
<1> QED
  BY <1>11 DEF m, a

LEMMA AcceptFileContents ==
  ASSUME IInv, Talk, Contents, NEW p \in Party, AcceptFile(p), ~mixed' PROVE Contents'
<1> DEFINE m == Incoming(p)
           a == Announced(p)
           q == Peer(p)
<1>1. /\ Owner[m.file] = q /\ a.rxfp = m.file /\ a.rxbytes = Len(tmp[m.file])
      /\ ~AlreadyHere(a) /\ ~PartlyHere(a) =>
           /\ m.offs = Len(tmp[m.file]) /\ m.offs < Size[m.file]
           /\ tmp[m.file] = Blocks(m.file, version[m.file], m.offs)
  BY AcceptFileFits
<1>2. Arrives(p) /\ m.cmd = "FILE" /\ m.file \in File
  BY AcceptFileView
<1>3. tmp' = tmp /\ delivered' = delivered /\ version' = version
  BY DEF AcceptFile, disk
<1> HIDE DEF a
<1>4. PICK t : /\ bp' = [bp EXCEPT ![p] = t] /\ KeepTx(bp[p], t) /\ t.queue = bp[p].queue /\ t.rname = m.file
               /\ \/ /\ t.RxState = "RxWaitF"
                     /\ \E r \in Frame : /\ wire' = Sent(Rest(p), p, r) /\ r.cmd \in Answering
                                         /\ r.file = m.file /\ (r.cmd = "GET" => r.offs = a.rxbytes)
                  \/ /\ t.RxState = "RxReceD" /\ t.rxpos = m.offs /\ t.rxfp = a.rxfp /\ wire' = Rest(p)
                     /\ ~AlreadyHere(a) /\ ~PartlyHere(a)
  BY AcceptFileView DEF a
<1> HIDE DEF m
<1>5. bp'[p] = t /\ bp'[q] = bp[q]
  BY <1>4, BpView
<1>6. /\ Rest(p)[q] = Tail(wire[q]) /\ Rest(p)[p] = wire[p] /\ wire[q] # <<>> /\ ~Over(bp[p])
  BY <1>2, RestView
<1>7. /\ wire'[q] = Tail(wire[q])
      /\ \/ wire'[p] = wire[p]
         \/ \E r \in Frame : /\ wire'[p] = Append(wire[p], r) /\ r.cmd \in Answering
                             /\ r.file = m.file /\ (r.cmd = "GET" => r.offs = a.rxbytes)
  <2>1. CASE wire' = Rest(p)
    BY <1>6, <2>1
  <2>2. CASE \E r \in Frame : /\ wire' = Sent(Rest(p), p, r) /\ r.cmd \in Answering
                              /\ r.file = m.file /\ (r.cmd = "GET" => r.offs = a.rxbytes)
    <3>1. PICK r \in Frame : /\ wire' = Sent(Rest(p), p, r) /\ r.cmd \in Answering
                             /\ r.file = m.file /\ (r.cmd = "GET" => r.offs = a.rxbytes)
      BY <2>2
    <3>2. wire'[q] = Tail(wire[q]) /\ (wire'[p] = wire[p] \/ wire'[p] = Append(wire[p], r))
      BY <1>2, <3>1, SentRestView
    <3> QED
      BY <3>1, <3>2
  <2> QED
    BY <1>4, <2>1, <2>2
<1>8. ASSUME NEW f \in File, Owner[f] = p
      PROVE  Fit(f, wire'[p], wire'[q], t, bp[q], Len(tmp[f]))
  <2>1. \/ wire'[p] = wire[p]
        \/ \E r \in Frame : /\ wire'[p] = Append(wire[p], r)
                            /\ Marked(r, {"FILE"}, f) =>
                                 ~Over(bp[p]) /\ bp[p].state[f] = "NoState" /\ r.offs = bp[p].offset[f]
    BY <1>7 DEF Marked, Answering
  <2>2. t.state = bp[p].state /\ t.offset = bp[p].offset
    BY <1>4 DEF KeepTx
  <2> QED
    BY <1>4, <1>6, <1>7, <1>8, <2>1, <2>2, OwnFit
<1>9. ASSUME NEW f \in File, Owner[f] = q
      PROVE  Fit(f, wire'[q], wire'[p], bp[q], t, Len(tmp[f]))
  <2>1. \/ wire'[p] = wire[p]
        \/ \E r \in Frame : wire'[p] = Append(wire[p], r) /\ (Marked(r, {"GET"}, f) => r.offs = Len(tmp[f]))
    BY <1>1, <1>7 DEF Marked
  <2> QED
    BY <1>6, <1>7, <1>9, <2>1, OtherFit
<1>10. Lengths' /\ WholeOnes'
  BY <1>3 DEF Contents, Lengths, WholeOnes
<1>11. Holds(t, tmp, version)
  BY <1>1, <1>4 DEF Holds, Await
<1>12. Holds(bp[q], tmp, version)
  BY Peers DEF Contents, Held
<1> QED
  BY <1>3, <1>5, <1>8, <1>9, <1>10, <1>11, <1>12, ContentsStep

(***************************************************************************)
(* The steps that change the files in tmp/                                 *)
(***************************************************************************)
LEMMA BlocksView ==
  ASSUME NEW f, NEW v, NEW n \in Nat
  PROVE  Len(Blocks(f, v, n)) = n /\ Append(Blocks(f, v, n), <<f, v, n + 1>>) = Blocks(f, v, n + 1)
<1> DEFINE b == Blocks(f, v, n)
           c == Append(b, <<f, v, n + 1>>)
           S == {<<f, v, i>> : i \in Nat}
<1>1. b \in Seq(S) /\ Len(b) = n
  BY DEF Blocks
<1>2. \A i \in 1..n : b[i] = <<f, v, i>>
  BY DEF Blocks
<1>3. <<f, v, n + 1>> \in S
  OBVIOUS
<1> HIDE DEF b, S
<1>4. c \in Seq(S) /\ Len(c) = n + 1 /\ (\A i \in 1..n : c[i] = b[i]) /\ c[n + 1] = <<f, v, n + 1>>
  BY <1>1, <1>3, AppendProperties
<1>5. c = [i \in 1..(n + 1) |-> c[i]]
  BY <1>4
<1>6. \A i \in 1..(n + 1) : c[i] = <<f, v, i>>
  BY <1>2, <1>4
<1> HIDE DEF c
<1>7. c = Blocks(f, v, n + 1)
  BY <1>5, <1>6 DEF Blocks
<1> QED
  BY <1>1, <1>7 DEF b, c

\* The block that arrives where data are awaited is the next one of the file.
LEMMA WrittenView ==
  ASSUME IInv, Talk, Contents, NEW p \in Party, Arrives(p), Incoming(p).cmd = "DATA", bp[p].RxState = "RxReceD"
  PROVE  LET f == bp[p].rname IN
         /\ f \in File /\ Owner[f] = Peer(p) /\ bp[p].rxfp = f /\ Await(bp[p])
         /\ bp[p].rxpos \in Nat /\ bp[p].rxpos + 1 <= Size[f]
         /\ Written(p) \in [File -> Seq(Block)]
         /\ Written(p)[f] = Blocks(f, version[f], bp[p].rxpos + 1) /\ Len(Written(p)[f]) = bp[p].rxpos + 1
         /\ \A g \in File \ {f} : Written(p)[g] = tmp[g]
<1> DEFINE f == bp[p].rname
           n == bp[p].rxpos
           m == Incoming(p)
<1>1. ~Over(bp[p]) /\ Good(bp[p]) /\ Mine(p, bp[p])
  BY RestView, BpGood, MineView
<1>2. f \in File /\ n \in Nat
  <2>1. f \in File
    BY <1>1 DEF Good, Named
  <2>2. n \in Nat
    BY <1>1, ZenonT(20) DEF Good, Session
  <2> QED
    BY <2>1, <2>2
<1>3. Await(bp[p]) /\ Owner[f] = Peer(p)
  BY <1>1, <1>2 DEF Await, Mine
<1>4. bp[p].rxfp = f /\ n < Size[f] /\ tmp[f] = Blocks(f, version[f], n)
  BY <1>3 DEF Contents, Held, Holds
<1>5. m.file = f /\ m.offs = n + 1
  BY BlockAwaited DEF Talk
<1>6. tmp \in [File -> Seq(Block)]
  BY DEF IInv, TypeOK
<1>7. Size[f] \in Nat
  BY <1>2, FilesKnown
<1>8. Written(p) = [g \in File |-> IF g = f THEN Append(tmp[g], <<f, version[f], n + 1>>) ELSE tmp[g]]
  BY <1>4, <1>5 DEF Written
<1>9. Append(tmp[f], <<f, version[f], n + 1>>) = Blocks(f, version[f], n + 1) /\ Len(Blocks(f, version[f], n + 1)) = n + 1
  <2>1. n + 1 \in Nat
    BY <1>2
  <2> QED
    BY <1>2, <1>4, <2>1, BlocksView
<1>10. <<f, version[f], n + 1>> \in Block
  <2>1. version[f] \in {1, 2}
    BY <1>2 DEF IInv, TypeOK
  <2>2. n + 1 \in Nat
    BY <1>2
  <2> QED
    BY <1>2, <2>1, <2>2 DEF Block
<1> HIDE DEF f, n, m
<1>11. Written(p) \in [File -> Seq(Block)]
  BY <1>6, <1>8, <1>10
<1>12. Written(p)[f] = Blocks(f, version[f], n + 1) /\ Len(Written(p)[f]) = n + 1
  BY <1>2, <1>8, <1>9
<1>13. \A g \in File \ {f} : Written(p)[g] = tmp[g]
  BY <1>8
<1>14. n + 1 <= Size[f]
  BY <1>2, <1>4, <1>7
<1> QED
  BY <1>2, <1>3, <1>4, <1>11, <1>12, <1>13, <1>14 DEF f, n

\* Only the open file may be shorter than it was written.
LEMMA UnflushedView ==
  ASSUME IInv, NEW p \in Party, NEW t \in [File -> Seq(Block)], NEW u \in Unflushed(p, t)
  PROVE  /\ \A f \in File : f # bp[p].rxfp => u[f] = t[f]
         /\ \A f \in File : Len(u[f]) \in Nat /\ Len(u[f]) <= Len(t[f])
<1> DEFINE g == bp[p].rxfp
<1>0. bp[p] \in Session
  BY BpGood DEF Good
<1>1. bp[p].rxbytes \in Nat
  BY <1>0, SMT DEF Session
<1>2. \A f \in File : t[f] \in Seq(Block) /\ Len(t[f]) \in Nat
  <2> SUFFICES ASSUME NEW f \in File PROVE t[f] \in Seq(Block) /\ Len(t[f]) \in Nat
    OBVIOUS
  <2>1. t[f] \in Seq(Block)
    OBVIOUS
  <2> QED
    BY <2>1, LenProperties
<1>3. CASE u = t
  BY <1>2, <1>3
<1>4. CASE g \in File /\ \E n \in bp[p].rxbytes..Len(t[g]) : u = [t EXCEPT ![g] = SubSeq(@, 1, n)]
  <2>1. PICK n \in bp[p].rxbytes..Len(t[g]) : u = [t EXCEPT ![g] = SubSeq(t[g], 1, n)]
    BY <1>4
  <2>2. n \in 0..Len(t[g]) /\ t[g] \in Seq(Block) /\ Len(t[g]) \in Nat
    BY <1>1, <1>2, <1>4, <2>1
  <2>3. Len(SubSeq(t[g], 1, n)) = n
    BY <2>2, SubSeqProperties
  <2>4. u[g] = SubSeq(t[g], 1, n) /\ \A f \in File : f # g => u[f] = t[f]
    BY <1>4, <2>1
  <2>5. Len(u[g]) \in Nat /\ Len(u[g]) <= Len(t[g])
    BY <2>2, <2>3, <2>4
  <2> QED
    BY <1>2, <2>4, <2>5
<1> QED
  BY <1>3, <1>4 DEF Unflushed

\* Data are awaited for files of the peer only.
LEMMA OthersHeld ==
  ASSUME IInv, Talk, Contents, NEW p \in Party, NEW t, \A f \in File : Owner[f] = p => t[f] = tmp[f]
  PROVE  Holds(bp[Peer(p)], t, version)
<1> DEFINE q == Peer(p)
<1>1. q \in Party /\ Peer(q) = p
  BY Peers
<1>2. Holds(bp[q], tmp, version) /\ Mine(q, bp[q]) /\ Good(bp[q])
  BY <1>1, MineView, BpGood DEF Contents, Held
<1>3. Await(bp[q]) => bp[q].rname \in File /\ Owner[bp[q].rname] = p
  BY <1>1, <1>2 DEF Await, Mine, Good, Named
<1> QED
  BY <1>2, <1>3 DEF Holds

LEMMA TakesContents ==
  ASSUME IInv, Talk, Contents, NEW p \in Party, Arrives(p), Incoming(p).cmd = "DATA", bp[p].RxState = "RxReceD",
         NEW t, Takes(p, t), Continues(p, t) \/ Completes(p, t), version' = version,
         \A g \in File : g # bp[p].rname => tmp'[g] = tmp[g],
         Lengths', WholeOnes', Holds(t, tmp', version)
  PROVE  Contents'
<1> DEFINE q == Peer(p)
           f == bp[p].rname
           r == [cmd |-> "GOT", file |-> bp[p].rname, offs |-> 0]
<1>1. f \in File /\ Owner[f] = q /\ Await(bp[p]) /\ q # p
  BY WrittenView, Peers
<1>2. r \in Frame /\ r.cmd # "GET" /\ r.cmd # "FILE"
  BY <1>1, FramesTyped
<1>3. bp'[p] = t /\ bp'[q] = bp[q] /\ t.queue = bp[p].queue /\ t.state = bp[p].state /\ t.offset = bp[p].offset
  BY BpView DEF Takes, KeepTx
<1>4. Rest(p)[q] = Tail(wire[q]) /\ Rest(p)[p] = wire[p] /\ wire[q] # <<>> /\ ~Over(bp[p])
  BY RestView
<1>5. wire'[q] = Tail(wire[q]) /\ (wire'[p] = wire[p] \/ wire'[p] = Append(wire[p], r))
  <2>1. CASE Continues(p, t)
    BY <1>4, <2>1 DEF Continues
  <2>2. CASE Completes(p, t)
    <3>1. wire' = Sent(Rest(p), p, r)
      BY <2>2 DEF Completes
    <3> HIDE DEF r
    <3> QED
      BY <3>1, SentRestView
  <2> QED
    BY <2>1, <2>2
<1> HIDE DEF r, f
<1>6. ASSUME NEW g \in File, Owner[g] = p
      PROVE  Fit(g, wire'[p], wire'[q], t, bp[q], Len(tmp'[g]))
  <2>1. \/ wire'[p] = wire[p]
        \/ \E m \in Frame : /\ wire'[p] = Append(wire[p], m)
                            /\ Marked(m, {"FILE"}, g) =>
                                 ~Over(bp[p]) /\ bp[p].state[g] = "NoState" /\ m.offs = bp[p].offset[g]
    BY <1>2, <1>5 DEF Marked
  <2>2. Fit(g, wire'[p], wire'[q], t, bp[q], Len(tmp[g]))
    BY <1>3, <1>4, <1>5, <1>6, <2>1, OwnFit
  <2>3. g # bp[p].rname
    BY <1>1, <1>6 DEF f
  <2> QED
    BY <2>2, <2>3
<1>7. ASSUME NEW g \in File, Owner[g] = q
      PROVE  Fit(g, wire'[q], wire'[p], bp[q], t, Len(tmp'[g]))
  <2>1. CASE g = bp[p].rname
    <3>1. wire'[p] = wire[p] \/ \E m \in Frame : wire'[p] = Append(wire[p], m) /\ m.cmd # "GET"
      BY <1>2, <1>5
    <3> QED
      BY <1>1, <1>4, <1>5, <1>7, <2>1, <3>1, FreeFit
  <2>2. CASE g # bp[p].rname
    <3>1. \/ wire'[p] = wire[p]
          \/ \E m \in Frame : wire'[p] = Append(wire[p], m) /\ (Marked(m, {"GET"}, g) => m.offs = Len(tmp[g]))
      BY <1>2, <1>5 DEF Marked
    <3>2. Fit(g, wire'[q], wire'[p], bp[q], t, Len(tmp[g]))
      BY <1>4, <1>5, <1>7, <3>1, OtherFit
    <3> QED
      BY <2>2, <3>2
  <2> QED
    BY <2>1, <2>2
<1>8. Holds(bp[q], tmp', version)
  <2>1. \A g \in File : Owner[g] = p => tmp'[g] = tmp[g]
    BY <1>1 DEF f
  <2> QED
    BY <2>1, OthersHeld
<1> QED
  BY <1>3, <1>6, <1>7, <1>8, ContentsStep

LEMMA SizesTyped == ASSUME NEW f \in File PROVE Size[f] \in Nat
BY FilesKnown

\* A file that is complete is delivered whole.
LEMMA DeliveredWhole ==
  ASSUME IInv, WholeOnes, NEW f \in File, NEW c, c \in Seq(Block), IsWhole(f, c),
         delivered' = [g \in File |-> IF g = f THEN Append(delivered[g], c) ELSE delivered[g]]
  PROVE  WholeOnes'
<1>1. delivered[f] \in Seq(Seq(Block))
  BY DEF IInv, TypeOK
<1>2. delivered'[f] = Append(delivered[f], c) /\ \A g \in File : g # f => delivered'[g] = delivered[g]
  OBVIOUS
<1> DEFINE d == delivered[f]
<1>3. /\ Len(d) \in Nat /\ DOMAIN d = 1..Len(d)
  BY <1>1, LenProperties
<1>4. /\ DOMAIN Append(d, c) = 1..(Len(d) + 1)
      /\ \A i \in 1..Len(d) : Append(d, c)[i] = d[i]
      /\ Append(d, c)[Len(d) + 1] = c
  <2>1. d \in Seq(Seq(Block)) /\ c \in Seq(Block)
    BY <1>1
  <2> HIDE DEF d
  <2>2. Append(d, c) \in Seq(Seq(Block)) /\ Len(Append(d, c)) = Len(d) + 1
    BY <2>1, AppendProperties
  <2>3. DOMAIN Append(d, c) = 1..(Len(d) + 1)
    BY <2>2, LenProperties
  <2> QED
    BY <2>1, <2>3, AppendProperties
<1>5. \A i \in DOMAIN d : IsWhole(f, d[i])
  BY DEF WholeOnes
<1> HIDE DEF d
<1>6. \A i \in DOMAIN Append(d, c) : IsWhole(f, Append(d, c)[i])
  <2> SUFFICES ASSUME NEW i \in 1..(Len(d) + 1) PROVE IsWhole(f, Append(d, c)[i])
    BY <1>4
  <2>1. CASE i = Len(d) + 1
    BY <1>4, <2>1
  <2>2. CASE i # Len(d) + 1
    <3>1. i \in 1..Len(d)
      BY <1>3, <2>2
    <3>2. Append(d, c)[i] = d[i] /\ IsWhole(f, d[i])
      BY <1>3, <1>4, <1>5, <3>1
    <3> QED
      BY <3>2
  <2> QED
    BY <2>1, <2>2
<1>7. delivered'[f] = Append(d, c)
  BY <1>2 DEF d
<1>8. ASSUME NEW g \in File, NEW i \in DOMAIN delivered'[g] PROVE IsWhole(g, delivered'[g][i])
  <2>1. CASE g = f
    BY <1>6, <1>7, <1>8, <2>1
  <2>2. CASE g # f
    BY <1>2, <1>8, <2>2 DEF WholeOnes
  <2> QED
    BY <2>1, <2>2
<1>9. \A g \in File : \A i \in DOMAIN delivered'[g] : IsWhole(g, delivered'[g][i])
  BY <1>8
<1> QED
  BY <1>9 DEF WholeOnes, IsWhole

LEMMA WriteDataContents == ASSUME IInv, Talk, Contents, NEW p \in Party, WriteData(p) PROVE Contents'
<1> DEFINE f == bp[p].rname
           n == bp[p].rxpos + 1
<1>1. Arrives(p) /\ Incoming(p).cmd = "DATA" /\ bp[p].RxState = "RxReceD" /\ version' = version
  BY WriteDataView, ZenonT(60) DEF WriteData, world
<1>2. /\ f \in File /\ bp[p].rxfp = f /\ bp[p].rxpos \in Nat /\ n <= Size[f]
      /\ Written(p) \in [File -> Seq(Block)]
      /\ Written(p)[f] = Blocks(f, version[f], n) /\ Len(Written(p)[f]) = n
      /\ \A g \in File : g # f => Written(p)[g] = tmp[g]
  BY <1>1, WrittenView
<1>3. PICK t : /\ Takes(p, t)
               /\ \/ Continues(p, t) /\ tmp' = Written(p) /\ delivered' = delivered
                  \/ /\ Completes(p, t) /\ n = Size[f]
                     /\ tmp' = [g \in File |-> IF g = bp[p].rxfp THEN <<>> ELSE tmp[g]]
                     /\ delivered' = [g \in File |-> IF g = bp[p].rxfp THEN Append(delivered[g], Written(p)[g])
                                                     ELSE delivered[g]]
  BY WriteDataView
<1>4. t.rname = f
  BY <1>3 DEF Takes
<1>5. Lengths /\ WholeOnes
  BY DEF Contents
<1>6. CASE Continues(p, t) /\ tmp' = Written(p) /\ delivered' = delivered
  <2>1. t.rxpos = n /\ n # Size[f] /\ t.rxfp = f
    BY <1>2, <1>4, <1>6 DEF Continues
  <2> HIDE DEF f, n
  <2>2. n < Size[f]
    <3>1. n \in Nat
      BY <1>2 DEF n
    <3> QED
      BY <1>2, <2>1, <3>1, SizesTyped
  <2>3. Holds(t, tmp', version)
    BY <1>2, <1>4, <1>6, <2>1, <2>2 DEF Holds
  <2>4. Lengths'
    BY <1>2, <1>5, <1>6 DEF Lengths
  <2>5. WholeOnes'
    BY <1>5, <1>6 DEF WholeOnes
  <2>6. \A g \in File : g # bp[p].rname => tmp'[g] = tmp[g]
    BY <1>2, <1>6 DEF f
  <2> QED
    BY <1>1, <1>3, <1>6, <2>3, <2>4, <2>5, <2>6, TakesContents
<1>7. CASE /\ Completes(p, t) /\ n = Size[f]
           /\ tmp' = [g \in File |-> IF g = bp[p].rxfp THEN <<>> ELSE tmp[g]]
           /\ delivered' = [g \in File |-> IF g = bp[p].rxfp THEN Append(delivered[g], Written(p)[g]) ELSE delivered[g]]
  <2> HIDE DEF f, n
  <2>1. ~Await(t)
    BY <1>7 DEF Completes, Await
  <2>2. Holds(t, tmp', version)
    BY <2>1 DEF Holds
  <2>3. tmp'[f] = <<>> /\ \A g \in File : g # f => tmp'[g] = tmp[g]
    BY <1>2, <1>7
  <2>4. Lengths'
    <3>1. Len(<<>>) = 0 /\ 0 <= Size[f]
      BY <1>2, SizesTyped
    <3> QED
      BY <1>5, <2>3, <3>1 DEF Lengths
  <2>5. IsWhole(f, Written(p)[f])
    <3>1. version[f] \in {1, 2}
      BY <1>2 DEF IInv, TypeOK
    <3> QED
      BY <1>2, <1>7, <3>1 DEF IsWhole
  <2>6. delivered' = [g \in File |-> IF g = f THEN Append(delivered[g], Written(p)[f]) ELSE delivered[g]]
    BY <1>2, <1>7
  <2>7. WholeOnes'
    BY <1>2, <1>5, <2>5, <2>6, DeliveredWhole
  <2>8. \A g \in File : g # bp[p].rname => tmp'[g] = tmp[g]
    BY <2>3 DEF f
  <2> QED
    BY <1>1, <1>3, <1>7, <2>2, <2>4, <2>7, <2>8, TakesContents
<1> QED
  BY <1>3, <1>6, <1>7, ZenonT(60)

\* Files that are no longer than they were before, or than they were written.
LEMMA UnflushedLengths ==
  ASSUME IInv, Lengths, NEW p \in Party, NEW t \in [File -> Seq(Block)], \A f \in File : Len(t[f]) <= Size[f],
         tmp' \in Unflushed(p, t)
  PROVE  Lengths'
<1>1. \A f \in File : Len(tmp'[f]) \in Nat /\ Len(tmp'[f]) <= Len(t[f])
  BY UnflushedView
<1>2. \A f \in File : Len(t[f]) \in Nat /\ Size[f] \in Nat
  <2> SUFFICES ASSUME NEW f \in File PROVE Len(t[f]) \in Nat /\ Size[f] \in Nat
    OBVIOUS
  <2>1. t[f] \in Seq(Block)
    OBVIOUS
  <2> QED
    BY <2>1, LenProperties, SizesTyped
<1>3. \A f \in File : Len(tmp'[f]) <= Size[f]
  BY <1>1, <1>2
<1> QED
  BY <1>3 DEF Lengths

LEMMA CloseFailsContents == ASSUME IInv, Talk, Contents, NEW p \in Party, CloseFails(p) PROVE Contents'
<1> DEFINE f == bp[p].rname
<1>1. /\ Arrives(p) /\ Incoming(p).cmd = "DATA" /\ bp[p].RxState = "RxReceD" /\ version' = version
      /\ delivered' = delivered /\ tmp' \in Unflushed(p, Written(p))
  BY CloseFailsView DEF CloseFails, world
<1>2. /\ f \in File /\ bp[p].rxfp = f /\ bp[p].rxpos \in Nat /\ bp[p].rxpos + 1 <= Size[f]
      /\ Written(p) \in [File -> Seq(Block)]
      /\ Len(Written(p)[f]) = bp[p].rxpos + 1
      /\ \A g \in File : g # f => Written(p)[g] = tmp[g]
  BY <1>1, WrittenView
<1>3. PICK t : Takes(p, t) /\ Completes(p, t)
  BY CloseFailsView
<1>4. Holds(t, tmp', version)
  BY <1>3 DEF Completes, Holds, Await
<1>5. Lengths /\ WholeOnes
  BY DEF Contents
<1> HIDE DEF f
<1>6. \A g \in File : Len(Written(p)[g]) <= Size[g]
  BY <1>2, <1>5 DEF Lengths
<1>7. Lengths'
  BY <1>1, <1>2, <1>5, <1>6, UnflushedLengths
<1>8. WholeOnes'
  BY <1>1, <1>5 DEF WholeOnes
<1>9. \A g \in File : g # bp[p].rname => tmp'[g] = tmp[g]
  <2>1. \A g \in File : g # bp[p].rxfp => tmp'[g] = Written(p)[g]
    BY <1>1, <1>2, UnflushedView
  <2> QED
    BY <1>2, <2>1 DEF f
<1> QED
  BY <1>1, <1>3, <1>4, <1>7, <1>8, <1>9, TakesContents, SMTT(60)

\* A step that ends p, and may leave less of the file it had open.
LEMMA StopFiles ==
  ASSUME IInv, Talk, Contents, NEW p \in Party, ~Over(bp[p]), NEW rc, bp' = [bp EXCEPT ![p] = Ended(bp[p], rc)],
         version' = version, delivered' = delivered, Lengths',
         \A f \in File : Owner[f] = p => tmp'[f] = tmp[f],
         wire'[Peer(p)] = wire[Peer(p)] \/ (wire[Peer(p)] # <<>> /\ wire'[Peer(p)] = Tail(wire[Peer(p)])),
         wire'[p] = wire[p] \/ \E m \in Frame : wire'[p] = Append(wire[p], m) /\ m.cmd # "FILE"
  PROVE  Contents'
<1> DEFINE q == Peer(p)
           t == Ended(bp[p], rc)
<1>1. bp'[p] = t /\ bp'[q] = bp[q] /\ Over(t)
  BY BpView, BpGood, EndedView
<1> HIDE DEF t
<1>2. ASSUME NEW f \in File, Owner[f] = p
      PROVE  Fit(f, wire'[p], wire'[q], t, bp[q], Len(tmp'[f]))
  <2>1. \/ wire'[p] = wire[p]
        \/ \E m \in Frame : /\ wire'[p] = Append(wire[p], m)
                            /\ Marked(m, {"FILE"}, f) =>
                                 ~Over(bp[p]) /\ bp[p].state[f] = "NoState" /\ m.offs = bp[p].offset[f]
    BY DEF Marked
  <2>2. Fit(f, wire'[p], wire'[q], t, bp[q], Len(tmp[f]))
    BY <1>1, <1>2, <2>1, OwnFit
  <2> QED
    BY <1>2, <2>2
<1>3. \A f \in File : Owner[f] = q => Fit(f, wire'[q], wire'[p], bp[q], t, Len(tmp'[f]))
  BY <1>1 DEF Fit
<1>4. WholeOnes'
  BY DEF Contents, WholeOnes
<1>5. Holds(t, tmp', version)
  BY <1>1 DEF Holds, Await
<1>6. Holds(bp[q], tmp', version)
  BY OthersHeld
<1> QED
  BY <1>1, <1>2, <1>3, <1>4, <1>5, <1>6, ContentsStep

\* The file that p has open is one of the peer's.
LEMMA OpenIsOthers ==
  ASSUME IInv, Talk, NEW p \in Party, ~Over(bp[p]), NEW t \in [File -> Seq(Block)], NEW u \in Unflushed(p, t)
  PROVE  \A f \in File : Owner[f] = p => u[f] = t[f]
<1>1. \A f \in File : f # bp[p].rxfp => u[f] = t[f]
  BY UnflushedView
<1>2. bp[p].rxfp \in File => Owner[bp[p].rxfp] = Peer(p)
  BY MineView DEF Mine
<1>3. Peer(p) # p
  BY Peers
<1> QED
  BY <1>1, <1>2, <1>3

LEMMA TmpTyped == ASSUME IInv, Lengths PROVE tmp \in [File -> Seq(Block)] /\ \A f \in File : Len(tmp[f]) <= Size[f]
BY DEF IInv, TypeOK, Lengths

LEMMA WriteFailsContents == ASSUME IInv, Talk, Contents, NEW p \in Party, WriteFails(p) PROVE Contents'
<1>1. /\ Arrives(p) /\ bp' = [bp EXCEPT ![p] = Ended(bp[p], "failed")] /\ wire' = Rest(p)
      /\ version' = version /\ delivered' = delivered /\ tmp' \in Unflushed(p, tmp)
  BY DEF WriteFails, world
<1>2. ~Over(bp[p]) /\ wire'[p] = wire[p] /\ wire'[Peer(p)] = Tail(wire[Peer(p)]) /\ wire[Peer(p)] # <<>>
  BY <1>1, RestView
<1>3. Lengths /\ tmp \in [File -> Seq(Block)] /\ \A f \in File : Len(tmp[f]) <= Size[f]
  BY TmpTyped DEF Contents
<1>4. Lengths'
  BY <1>1, <1>3, UnflushedLengths
<1>5. \A f \in File : Owner[f] = p => tmp'[f] = tmp[f]
  BY <1>1, <1>2, <1>3, OpenIsOthers
<1> QED
  BY <1>1, <1>2, <1>4, <1>5, StopFiles

LEMMA KilledContents == ASSUME IInv, Talk, Contents, NEW p \in Party, Killed(p) PROVE Contents'
<1>1. /\ ~Over(bp[p]) /\ bp' = [bp EXCEPT ![p] = Ended(bp[p], "failed")] /\ wire' = wire
      /\ version' = version /\ delivered' = delivered /\ tmp' \in Unflushed(p, tmp)
  BY DEF Killed, world, Done, Over
<1>3. Lengths /\ tmp \in [File -> Seq(Block)] /\ \A f \in File : Len(tmp[f]) <= Size[f]
  BY TmpTyped DEF Contents
<1>4. Lengths'
  BY <1>1, <1>3, UnflushedLengths
<1>5. \A f \in File : Owner[f] = p => tmp'[f] = tmp[f]
  BY <1>1, <1>3, OpenIsOthers
<1> QED
  BY <1>1, <1>4, <1>5, StopFiles

LEMMA KilledBeforeMoveContents == ASSUME IInv, Talk, Contents, NEW p \in Party, KilledBeforeMove(p) PROVE Contents'
<1> DEFINE m == [cmd |-> "GOT", file |-> bp[p].rname, offs |-> 0]
           f == bp[p].rname
<1>1. /\ Arrives(p) /\ Incoming(p).cmd = "DATA" /\ bp[p].RxState = "RxReceD"
      /\ bp' = [bp EXCEPT ![p] = Ended(bp[p], "failed")]
      /\ wire' = Rest(p) \/ wire' = Sent(Rest(p), p, m)
      /\ version' = version /\ delivered' = delivered /\ tmp' \in Unflushed(p, Written(p))
  BY DEF KilledBeforeMove, world
<1>2. /\ f \in File /\ Owner[f] = Peer(p) /\ bp[p].rxpos \in Nat /\ bp[p].rxpos + 1 <= Size[f]
      /\ Written(p) \in [File -> Seq(Block)] /\ Len(Written(p)[f]) = bp[p].rxpos + 1
      /\ \A g \in File : g # f => Written(p)[g] = tmp[g]
  BY <1>1, WrittenView
<1>3. m \in Frame /\ m.cmd # "FILE"
  BY <1>2, FramesTyped
<1> HIDE DEF m, f
<1>4. /\ ~Over(bp[p]) /\ wire[Peer(p)] # <<>> /\ wire'[Peer(p)] = Tail(wire[Peer(p)])
      /\ wire'[p] = wire[p] \/ wire'[p] = Append(wire[p], m)
  BY <1>1, RestView, SentRestView
<1>5. Lengths /\ \A g \in File : Len(Written(p)[g]) <= Size[g]
  BY <1>2 DEF Contents, Lengths
<1>6. Lengths'
  BY <1>1, <1>2, <1>5, UnflushedLengths
<1>7. \A g \in File : Owner[g] = p => tmp'[g] = tmp[g]
  <2>1. \A g \in File : Owner[g] = p => tmp'[g] = Written(p)[g]
    BY <1>1, <1>2, <1>4, OpenIsOthers
  <2>2. Peer(p) # p
    BY Peers
  <2> QED
    BY <1>2, <2>1, <2>2
<1>8. wire'[p] = wire[p] \/ \E a \in Frame : wire'[p] = Append(wire[p], a) /\ a.cmd # "FILE"
  BY <1>3, <1>4
<1> QED
  BY <1>1, <1>4, <1>6, <1>7, <1>8, StopFiles

LEMMA ReceiveContents == ASSUME IInv, Talk, Contents, NEW p \in Party, Receive(p), ~mixed' PROVE Contents'
<1>1. CASE QueueMessage(p) \/ Ignore(p) \/ ReceiveEOB(p) \/ LowDiskspace(p) \/ ReceiveUnexpected(p) \/ SeekClosedFile(p)
  <2>1. PICK t : Calm(p, t)
    BY <1>1, ReceiverQuietCalm, ReceiverStopsCalm
  <2> QED
    BY <2>1, CalmContents
<1> QED
  BY <1>1, AcceptFileContents, WriteDataContents, CloseFailsContents, WriteFailsContents, Zenon DEF Receive

LEMMA EndsCalm == ASSUME IInv, NEW p \in Party, HangUp(p) \/ Timeout(p) PROVE \E t : Calm(p, t)
<1>1. Fails(p) /\ (bp[p].FtState = "Switch" \/ ~Done(p))
  BY DEF HangUp, Timeout
<1>2. ~Over(bp[p])
  BY <1>1 DEF Done, Over
<1> QED
  BY <1>1, <1>2, FailsCalm

(***************************************************************************)
(* What comes from outside                                                 *)
(***************************************************************************)
LEMMA CutContents == ASSUME IInv, Contents, Cut PROVE Contents'
<1>1. PICK n \in [Party -> 0..Window] :
        wire' = [p \in Party |-> SubSeq(wire[p], 1, IF n[p] < Len(wire[p]) THEN n[p] ELSE Len(wire[p]))]
  BY DEF Cut
<1>2. bp' = bp /\ tmp' = tmp /\ delivered' = delivered /\ version' = version
  BY DEF Cut, disk
<1> DEFINE k(p) == IF n[p] < Len(wire[p]) THEN n[p] ELSE Len(wire[p])
<1>3. ASSUME NEW p \in Party
      PROVE  wire[p] \in Seq(Frame) /\ k(p) \in 0..Len(wire[p]) /\ wire'[p] = SubSeq(wire[p], 1, k(p))
  <2>1. wire[p] \in Seq(Frame)
    BY WireTyped
  <2>2. Len(wire[p]) \in Nat
    BY <2>1, LenProperties
  <2>3. n[p] \in Nat
    BY <1>1, LimitsKnown
  <2> QED
    BY <1>1, <2>1, <2>2, <2>3
<1> HIDE DEF k
<1>4. Lengths' /\ Held' /\ WholeOnes'
  BY <1>2 DEF Contents, Lengths, Held, WholeOnes
<1>5. Fitting'
  <2> SUFFICES ASSUME NEW f \in File
               PROVE  Fit(f, wire'[Owner[f]], wire'[Peer(Owner[f])], bp[Owner[f]], bp[Peer(Owner[f])], Len(tmp[f]))
    BY <1>2, Zenon DEF Fitting
  <2> DEFINE p == Owner[f]
             q == Peer(Owner[f])
             l == Len(tmp[f])
  <2>1. p \in Party /\ q \in Party
    BY Peers, FilesKnown
  <2>2. Fit(f, wire[p], wire[q], bp[p], bp[q], l)
    BY DEF Contents, Fitting
  <2> HIDE DEF p, q, l
  <2>3. ASSUME NEW r \in Party, NEW cmd, Fits(wire[r], cmd, f, l) PROVE Fits(wire'[r], cmd, f, l)
    BY <1>3, <2>3, FitsPrefix
  <2>4. Fit(f, wire'[p], wire'[q], bp[p], bp[q], l)
    BY <2>1, <2>2, <2>3 DEF Fit
  <2> QED
    BY <2>4 DEF p, q, l
<1> QED
  BY <1>4, <1>5 DEF Contents

LEMMA FreshContents == Fresh => Held /\ Fitting
<1> SUFFICES ASSUME Fresh PROVE Held /\ Fitting
  OBVIOUS
<1>1. ASSUME NEW p \in Party
      PROVE  /\ wire[p] = <<>> /\ bp[p].RxState = "RxWaitF" /\ bp[p].queue = <<>>
             /\ \A f \in File : bp[p].state[f] = "Absent"
  BY NewSessionView DEF Fresh
<1>2. Held
  BY <1>1 DEF Held, Holds, Await
<1>3. Fitting
  <2> SUFFICES ASSUME NEW f \in File
               PROVE  Fit(f, wire[Owner[f]], wire[Peer(Owner[f])], bp[Owner[f]], bp[Peer(Owner[f])], Len(tmp[f]))
    BY DEF Fitting
  <2>1. Owner[f] \in Party /\ Peer(Owner[f]) \in Party
    BY Peers, FilesKnown
  <2>2. \A cmd, n : Fits(<<>>, cmd, f, n)
    BY DEF Fits
  <2>3. bp[Owner[f]].state[f] # "NoState"
    BY <1>1, <2>1
  <2> QED
    BY <1>1, <2>1, <2>2, <2>3 DEF Fit
<1> QED
  BY <1>2, <1>3

LEMMA RetryContents == ASSUME Contents, Retry PROVE Contents'
<1>1. Retry => Fresh'
  BY DEF Retry, Fresh
<1>2. Retry => (Held /\ Fitting)'
  BY <1>1, FreshContents, PTL
<1>3. tmp' = tmp /\ delivered' = delivered
  BY DEF Retry, disk
<1>4. Lengths' /\ WholeOnes'
  BY <1>3 DEF Contents, Lengths, WholeOnes
<1> QED
  BY <1>2, <1>4 DEF Contents

LEMMA ReplaceContents == ASSUME Contents, NEW f \in File, Replace(f) PROVE Contents'
<1>1. bp' = bp /\ wire' = wire /\ tmp' = tmp /\ delivered' = delivered /\ AllDone
  BY DEF Replace
<1>2. \A p \in Party : Over(bp'[p])
  BY <1>1 DEF AllDone, Done, Over
<1>3. Held'
  BY <1>2 DEF Held, Holds, Await
<1>4. Lengths' /\ WholeOnes' /\ Fitting'
  BY <1>1 DEF Contents, Lengths, WholeOnes, Fitting
<1> QED
  BY <1>3, <1>4 DEF Contents

LEMMA SameContents == ASSUME Contents, UNCHANGED vars PROVE Contents'
BY DEF vars, Contents, Lengths, Held, Fitting, WholeOnes

LEMMA InitContents == Init => Contents
<1> SUFFICES ASSUME Init PROVE Contents
  OBVIOUS
<1>1. Fresh
  BY DEF Init, Fresh
<1>2. Held /\ Fitting
  BY <1>1, FreshContents
<1>3. Lengths
  <2> SUFFICES ASSUME NEW f \in File PROVE Len(tmp[f]) <= Size[f]
    BY DEF Lengths
  <2>1. tmp[f] = Blocks(f, 1, Start[f])
    BY DEF Init
  <2>2. Start[f] \in Nat /\ Start[f] <= Size[f]
    BY FilesKnown
  <2> QED
    BY <2>1, <2>2, BlocksView
<1>4. WholeOnes
  BY DEF Init, WholeOnes
<1> QED
  BY <1>2, <1>3, <1>4 DEF Contents

\* What was mixed once stays mixed.
LEMMA MixedStays == ASSUME [Next]_vars, mixed PROVE mixed'
<1>1. CASE \E p \in Party : Receive(p)
  BY <1>1, ZenonT(60) DEF Receive, QueueMessage, Ignore, ReceiveEOB, AcceptFile, LowDiskspace, WriteData, CloseFails,
              WriteFails, ReceiveUnexpected, SeekClosedFile
<1>2. CASE \E p \in Party : Transmit(p)
  BY <1>2, ZenonT(60) DEF Transmit, MakeList, SendFile, PassFile, SendEOB, SendBlock, ReadFails, ProcessGet, ProcessGot,
              ProcessSkip, CloseNoFile, WaitAcks
<1>3. CASE \E p \in Party : HangUp(p) \/ Timeout(p) \/ Killed(p) \/ KilledBeforeMove(p)
  BY <1>3 DEF HangUp, Timeout, Fails, Killed, KilledBeforeMove
<1>4. CASE Cut \/ Retry \/ (\E f \in File : Replace(f)) \/ UNCHANGED vars
  BY <1>4 DEF Cut, Retry, Replace, vars
<1> QED
  BY <1>1, <1>2, <1>3, <1>4, Zenon DEF Next

LEMMA NextContents == ASSUME IInv, Talk, Contents, [Next]_vars, ~mixed' PROVE Contents'
<1>1. CASE \E p \in Party : Receive(p)
  BY <1>1, ReceiveContents
<1>2. CASE \E p \in Party : Transmit(p)
  BY <1>2, TransmitCalm, CalmContents
<1>3. CASE \E p \in Party : HangUp(p) \/ Timeout(p)
  BY <1>3, EndsCalm, CalmContents
<1>4. CASE \E p \in Party : Killed(p) \/ KilledBeforeMove(p)
  BY <1>4, KilledContents, KilledBeforeMoveContents
<1>5. CASE Cut \/ Retry
  BY <1>5, CutContents, RetryContents
<1>6. CASE (\E f \in File : Replace(f)) \/ UNCHANGED vars
  BY <1>6, ReplaceContents, SameContents
<1> QED
  BY <1>1, <1>2, <1>3, <1>4, <1>5, <1>6, Zenon DEF Next

\* What the receiver moves to the inbound is the file that was sent, block for
\* block, for every number of files, sizes, windows and calls, with every fault:
\* broken lines, kills, full disks and replaced files.
THEOREM WholeFiles == Spec => []DeliveredIsWhole
<1>1. Init => WInv
  BY InitTyped, InitTalk, InitContents DEF WInv
<1>2. WInv /\ [Next]_vars => WInv'
  <2> SUFFICES ASSUME WInv, [Next]_vars PROVE WInv'
    OBVIOUS
  <2>1. IInv /\ Talk /\ (~mixed => Contents)
    BY DEF WInv
  <2>2. IInv' /\ Talk'
    BY <2>1, NextTyped, NextTalk
  <2>3. ASSUME ~mixed' PROVE Contents'
    <3>1. ~mixed
      BY <2>3, MixedStays
    <3> QED
      BY <2>1, <2>3, <3>1, NextContents
  <2> QED
    BY <2>2, <2>3 DEF WInv
<1>3. WInv => DeliveredIsWhole
  BY DEF WInv, Contents, WholeOnes, DeliveredIsWhole
<1> QED
  BY <1>1, <1>2, <1>3, PTL DEF Spec

(***************************************************************************)
(* What was acknowledged is there, and what is not yet acknowledged is     *)
(* kept.  An M_GOT is on a wire, in the queue of the owner, or it was      *)
(* followed and the file has left the outbound.                            *)
(***************************************************************************)
Arrived(d, f) == \E i \in DOMAIN d[f] : IsWhole(f, d[f][i])
Have(f) == IsWhole(f, tmp[f]) \/ Arrived(delivered, f)

\* The files that the frames of w with the command cmd name.
Told(w, cmd) == {w[i].file : i \in {j \in 1..Len(w) : w[j].cmd = cmd}}
Acked ==
  (File \ (Reply \union outbound)) \union UNION {Told(wire[p], "GOT") \union Told(bp[p].queue, "GOT") : p \in Party}
Acknowledged == \A f \in Acked : Have(f)

\* The files that are announced or received.
Awaited(s) == IF Await(s) THEN {s.rname} ELSE {}
Underway == UNION {Told(wire[p], "FILE") \union Awaited(bp[p]) : p \in Party}
Kept == Underway \ Reply \subseteq outbound

Secured == Acknowledged /\ Kept

LEMMA ToldAppend ==
  ASSUME NEW S, NEW w \in Seq(S), NEW m \in S, NEW cmd
  PROVE  Told(Append(w, m), cmd) \subseteq Told(w, cmd) \union {g \in {m.file} : m.cmd = cmd}
<1>1. /\ Len(w) \in Nat /\ Len(Append(w, m)) = Len(w) + 1 /\ Append(w, m)[Len(w) + 1] = m
      /\ \A i \in 1..Len(w) : Append(w, m)[i] = w[i]
  BY AppendProperties, LenProperties
<1> DEFINE a == Append(w, m)
<1> HIDE DEF a
<1>2. SUFFICES ASSUME NEW i \in 1..Len(a), a[i].cmd = cmd
               PROVE  a[i].file \in Told(w, cmd) \union {g \in {m.file} : m.cmd = cmd}
  BY DEF Told, a
<1>3. CASE i = Len(w) + 1
  BY <1>1, <1>2, <1>3 DEF a
<1>4. CASE i \in 1..Len(w)
  BY <1>1, <1>2, <1>4 DEF Told, a
<1> QED
  BY <1>1, <1>3, <1>4 DEF a

LEMMA ToldTail ==
  ASSUME NEW S, NEW w \in Seq(S), w # <<>>, NEW cmd
  PROVE  Told(Tail(w), cmd) \subseteq Told(w, cmd) /\ (Head(w).cmd = cmd => Head(w).file \in Told(w, cmd))
<1>1. /\ Len(w) \in Nat \ {0} /\ Len(Tail(w)) = Len(w) - 1 /\ Head(w) = w[1]
      /\ \A i \in 1..Len(Tail(w)) : Tail(w)[i] = w[i + 1]
  BY HeadTailProperties, LenProperties, EmptySeq
<1> DEFINE u == Tail(w)
<1> HIDE DEF u
<1>2. ASSUME NEW i \in 1..Len(u), u[i].cmd = cmd PROVE u[i].file \in Told(w, cmd)
  <2>1. i + 1 \in 1..Len(w) /\ u[i] = w[i + 1]
    BY <1>1, <1>2 DEF u
  <2> QED
    BY <1>2, <2>1 DEF Told
<1>3. Told(u, cmd) \subseteq Told(w, cmd)
  BY <1>2 DEF Told
<1>4. Head(w).cmd = cmd => Head(w).file \in Told(w, cmd)
  BY <1>1 DEF Told
<1> QED
  BY <1>3, <1>4 DEF u

LEMMA ToldPrefix ==
  ASSUME NEW S, NEW w \in Seq(S), NEW k \in 0..Len(w), NEW cmd PROVE Told(SubSeq(w, 1, k), cmd) \subseteq Told(w, cmd)
<1>1. Len(w) \in Nat
  BY LenProperties
<1>2. Len(SubSeq(w, 1, k)) = k /\ \A i \in 1..k : SubSeq(w, 1, k)[i] = w[i]
  BY <1>1, SubSeqProperties
<1> QED
  BY <1>1, <1>2 DEF Told

LEMMA ToldFiles ==
  ASSUME IInv PROVE Acked \subseteq File
<1>1. ASSUME NEW p \in Party, NEW i \in 1..Len(wire[p]), wire[p][i].cmd = "GOT" PROVE wire[p][i].file \in File
  <2>1. wire[p][i] \in Frame
    BY WireTyped, ElementOfSeq
  <2> QED
    BY <1>1, <2>1, FrameTyped
<1>2. ASSUME NEW p \in Party, NEW i \in 1..Len(bp[p].queue) PROVE bp[p].queue[i].file \in File
  <2>1. bp[p].queue[i] \in Queued
    BY BpGood, QueueTyped, ElementOfSeq
  <2> QED
    BY <2>1 DEF Queued
<1> QED
  BY <1>1, <1>2 DEF Acked, Told

(***************************************************************************)
(* What a step of p, whose session becomes t, does to the messages: it may *)
(* read a frame, take the first message off its queue or add the frame it  *)
(* read, and send a frame, an M_GOT only for a file of G, an M_FILE only   *)
(* for a file that is there.                                               *)
(***************************************************************************)
Queues(p, t) ==
  \/ t.queue = bp[p].queue
  \/ bp[p].queue # <<>> /\ t.queue = Tail(bp[p].queue)
  \/ /\ wire[Peer(p)] # <<>> /\ Head(wire[Peer(p)]) \in Queued
     /\ t.queue = Append(bp[p].queue, Head(wire[Peer(p)]))

Expects(p, t) ==
  Await(t) =>
    \/ Await(bp[p]) /\ t.rname = bp[p].rname
    \/ wire[Peer(p)] # <<>> /\ Head(wire[Peer(p)]).cmd = "FILE" /\ t.rname = Head(wire[Peer(p)]).file

Backed(m, G) == (m.cmd = "GOT" => m.file \in G) /\ (m.cmd = "FILE" => m.file \in outbound \union Reply)

Moves(p, t, G) ==
  /\ bp' = [bp EXCEPT ![p] = t] /\ Queues(p, t) /\ Expects(p, t)
  /\ wire'[Peer(p)] = wire[Peer(p)] \/ (wire[Peer(p)] # <<>> /\ wire'[Peer(p)] = Tail(wire[Peer(p)]))
  /\ wire'[p] = wire[p] \/ \E m \in Frame : wire'[p] = Append(wire[p], m) /\ Backed(m, G)

\* Nothing is acknowledged in a step of p but the files of G.
LEMMA AckedStep ==
  ASSUME IInv, NEW p \in Party, NEW t, NEW G, Moves(p, t, G),
         \/ outbound' = outbound
         \/ /\ bp[p].queue # <<>> /\ Head(bp[p].queue).cmd = "GOT"
            /\ outbound' = outbound \ {Head(bp[p].queue).file}
  PROVE  Acked' \subseteq Acked \union G
<1> DEFINE q == Peer(p)
<1>1. q \in Party /\ q # p /\ \A r \in Party : r = p \/ r = q
  BY Peers
<1>2. bp'[p] = t /\ bp'[q] = bp[q]
  BY <1>1 DEF IInv, TypeOK, Moves
<1>3. wire[p] \in Seq(Frame) /\ wire[q] \in Seq(Frame) /\ bp[p].queue \in Seq(Queued)
  BY <1>1, WireTyped, BpGood, QueueTyped
<1> HIDE DEF q
<1>4. \A r \in Party : Told(wire[r], "GOT") \subseteq Acked /\ Told(bp[r].queue, "GOT") \subseteq Acked
  BY DEF Acked
<1>5. Told(wire'[q], "GOT") \subseteq Acked
  BY <1>1, <1>3, <1>4, ToldTail DEF q, Moves
<1>6. Told(wire'[p], "GOT") \subseteq Acked \union G
  <2>1. CASE wire'[p] = wire[p]
    BY <1>4, <2>1
  <2>2. ASSUME NEW m \in Frame, wire'[p] = Append(wire[p], m), m.cmd = "GOT" => m.file \in G
        PROVE  Told(wire'[p], "GOT") \subseteq Acked \union G
    <3>1. Told(Append(wire[p], m), "GOT") \subseteq Told(wire[p], "GOT") \union {g \in {m.file} : m.cmd = "GOT"}
      BY <1>3, <2>2, ToldAppend
    <3> QED
      BY <1>4, <2>2, <3>1
  <2> QED
    BY <2>1, <2>2 DEF Moves, Backed
<1>7. Told(bp'[p].queue, "GOT") \subseteq Acked
  <2>1. CASE t.queue = bp[p].queue
    BY <1>2, <1>4, <2>1
  <2>2. CASE bp[p].queue # <<>> /\ t.queue = Tail(bp[p].queue)
    BY <1>2, <1>3, <1>4, <2>2, ToldTail
  <2>3. CASE /\ wire[q] # <<>> /\ Head(wire[q]) \in Queued
             /\ t.queue = Append(bp[p].queue, Head(wire[q]))
    <3>1. Told(t.queue, "GOT")
            \subseteq Told(bp[p].queue, "GOT") \union {g \in {Head(wire[q]).file} : Head(wire[q]).cmd = "GOT"}
      BY <1>3, <2>3, ToldAppend
    <3>2. Head(wire[q]).cmd = "GOT" => Head(wire[q]).file \in Told(wire[q], "GOT")
      BY <1>3, <2>3, ToldTail
    <3> QED
      BY <1>1, <1>2, <1>4, <3>1, <3>2
  <2> QED
    BY <2>1, <2>2, <2>3 DEF Queues, Moves, q
<1>8. Told(bp'[q].queue, "GOT") \subseteq Acked
  BY <1>1, <1>2, <1>4
<1>9. File \ (Reply \union outbound') \subseteq Acked
  <2>1. CASE outbound' = outbound
    BY <2>1 DEF Acked
  <2>2. CASE bp[p].queue # <<>> /\ Head(bp[p].queue).cmd = "GOT" /\ outbound' = outbound \ {Head(bp[p].queue).file}
    <3>1. Head(bp[p].queue).file \in Told(bp[p].queue, "GOT")
      BY <1>3, <2>2, ToldTail
    <3>2. Head(bp[p].queue).file \in Acked
      BY <1>4, <3>1
    <3>3. File \ (Reply \union outbound) \subseteq Acked
      BY DEF Acked
    <3> QED
      BY <2>2, <3>2, <3>3
  <2> QED
    BY <2>1, <2>2
<1>10. SUFFICES ASSUME NEW f \in Acked' PROVE f \in Acked \union G
  OBVIOUS
<1>11. \/ f \in File \ (Reply \union outbound')
       \/ \E r \in Party : f \in Told(wire'[r], "GOT") \/ f \in Told(bp'[r].queue, "GOT")
  BY <1>10 DEF Acked
<1> QED
  BY <1>1, <1>5, <1>6, <1>7, <1>8, <1>9, <1>11

\* No file gets under way in a step of p but those that are there.
LEMMA UnderwayStep ==
  ASSUME IInv, NEW p \in Party, NEW t, NEW G, Moves(p, t, G)
  PROVE  Underway' \subseteq Underway \union outbound \union Reply
<1> DEFINE q == Peer(p)
<1>1. q \in Party /\ q # p /\ \A r \in Party : r = p \/ r = q
  BY Peers
<1>2. bp'[p] = t /\ bp'[q] = bp[q]
  BY <1>1 DEF IInv, TypeOK, Moves
<1>3. wire[p] \in Seq(Frame) /\ wire[q] \in Seq(Frame)
  BY <1>1, WireTyped
<1> HIDE DEF q
<1>4. \A r \in Party : Told(wire[r], "FILE") \subseteq Underway /\ Awaited(bp[r]) \subseteq Underway
  BY DEF Underway
<1>5. Told(wire'[q], "FILE") \subseteq Underway
  BY <1>1, <1>3, <1>4, ToldTail DEF q, Moves
<1>6. Told(wire'[p], "FILE") \subseteq Underway \union outbound \union Reply
  <2>1. CASE wire'[p] = wire[p]
    BY <1>4, <2>1
  <2>2. ASSUME NEW m \in Frame, wire'[p] = Append(wire[p], m), m.cmd = "FILE" => m.file \in outbound \union Reply
        PROVE  Told(wire'[p], "FILE") \subseteq Underway \union outbound \union Reply
    <3>1. Told(Append(wire[p], m), "FILE") \subseteq Told(wire[p], "FILE") \union {g \in {m.file} : m.cmd = "FILE"}
      BY <1>3, <2>2, ToldAppend
    <3> QED
      BY <1>4, <2>2, <3>1
  <2> QED
    BY <2>1, <2>2 DEF Moves, Backed
<1>7. Awaited(bp'[p]) \subseteq Underway
  <2>0. SUFFICES ASSUME Await(t) PROVE t.rname \in Underway
    BY <1>2 DEF Awaited
  <2>1. CASE Await(bp[p]) /\ t.rname = bp[p].rname
    BY <1>4, <2>1 DEF Awaited
  <2>2. CASE wire[q] # <<>> /\ Head(wire[q]).cmd = "FILE" /\ t.rname = Head(wire[q]).file
    BY <1>1, <1>3, <1>4, <2>2, ToldTail
  <2> QED
    BY <2>0, <2>1, <2>2 DEF Moves, Expects, q
<1>8. Awaited(bp'[q]) \subseteq Underway
  BY <1>1, <1>2, <1>4
<1>9. SUFFICES ASSUME NEW f \in Underway' PROVE f \in Underway \union outbound \union Reply
  OBVIOUS
<1>10. \E r \in Party : f \in Told(wire'[r], "FILE") \/ f \in Awaited(bp'[r])
  BY <1>9 DEF Underway
<1> QED
  BY <1>1, <1>5, <1>6, <1>7, <1>8, <1>10

\* The files under way are as before or there, and the outbound is as before.
LEMMA KeptStep ==
  ASSUME IInv, Kept, NEW p \in Party, NEW t, NEW G, Moves(p, t, G), outbound' = outbound
  PROVE  Kept'
<1>1. Underway' \subseteq Underway \union outbound \union Reply
  BY UnderwayStep
<1> QED
  BY <1>1 DEF Kept

\* A step of p that acknowledges nothing and leaves the files alone.
LEMMA QuietSecured ==
  ASSUME IInv, Secured, NEW p \in Party, NEW t, Moves(p, t, {}), UNCHANGED disk
  PROVE  Secured'
<1>1. outbound' = outbound /\ tmp' = tmp /\ delivered' = delivered
  BY DEF disk
<1>2. PICK G : G = {}
  OBVIOUS
<1>3. Moves(p, t, G)
  BY <1>2
<1>4. Acked' \subseteq Acked \union G
  BY <1>1, <1>3, AckedStep
<1>5. \A f : Have(f)' = Have(f)
  BY <1>1 DEF Have
<1>6. Acknowledged'
  BY <1>2, <1>4, <1>5 DEF Acknowledged, Secured
<1>7. Kept'
  BY <1>1, <1>3, KeptStep DEF Secured
<1> QED
  BY <1>6, <1>7 DEF Secured

\* A step that sends a frame other than M_GOT, or none.
LEMMA SentSecured ==
  ASSUME IInv, Secured, NEW p \in Party, NEW t, bp' = [bp EXCEPT ![p] = t], t.queue = bp[p].queue,
         Over(t) \/ t.RxState # "RxReceD" \/ (~Over(bp[p]) /\ KeepRx(bp[p], t)),
         wire' = wire \/ \E m \in Frame : wire' = Sent(wire, p, m) /\ Backed(m, {}),
         UNCHANGED disk
  PROVE  Secured'
<1>1. Peer(p) \in Party /\ Peer(p) # p
  BY Peers
<1>2. wire \in [Party -> Seq(Frame)]
  BY DEF IInv, TypeOK
<1>3. wire'[Peer(p)] = wire[Peer(p)]
  BY <1>1, <1>2 DEF Sent
<1>4. wire'[p] = wire[p] \/ \E m \in Frame : wire'[p] = Append(wire[p], m) /\ Backed(m, {})
  BY <1>2 DEF Sent
<1>5. Queues(p, t) /\ Expects(p, t)
  BY DEF Queues, Expects, Await, KeepRx
<1>6. Moves(p, t, {})
  BY <1>3, <1>4, <1>5 DEF Moves
<1> QED
  BY <1>6, QuietSecured

\* A step that reads a frame and sends one other than M_GOT, or none.
LEMMA ReadSecured ==
  ASSUME IInv, Secured, NEW p \in Party, Arrives(p), NEW t, bp' = [bp EXCEPT ![p] = t], Queues(p, t),
         Over(t) \/ t.RxState # "RxReceD" \/ KeepRx(bp[p], t),
         wire' = Rest(p) \/ \E m \in Frame : wire' = Sent(Rest(p), p, m) /\ Backed(m, {}),
         UNCHANGED disk
  PROVE  Secured'
<1>1. wire[Peer(p)] # <<>> /\ wire'[Peer(p)] = Tail(wire[Peer(p)]) /\ ~Over(bp[p])
  BY RestView, SentRestView
<1>2. wire'[p] = wire[p] \/ \E m \in Frame : wire'[p] = Append(wire[p], m) /\ Backed(m, {})
  BY RestView, SentRestView
<1>3. Expects(p, t)
  BY <1>1 DEF Expects, Await, KeepRx
<1>4. Moves(p, t, {})
  BY <1>1, <1>2, <1>3 DEF Moves
<1> QED
  BY <1>4, QuietSecured

LEMMA PlainCommands ==
  /\ \A cmd \in {"NUL", "EOB", "BSY"} :
       LET m == [cmd |-> cmd, file |-> NoFile, offs |-> 0] IN m \in Frame /\ Backed(m, {})
  /\ \A cmd \in {"DATA", "GET", "SKIP"}, f \in File, n \in Nat :
       LET m == [cmd |-> cmd, file |-> f, offs |-> n] IN m \in Frame /\ Backed(m, {})
  /\ \A f \in File \cap (outbound \union Reply), n \in Nat :
       LET m == [cmd |-> "FILE", file |-> f, offs |-> n] IN m \in Frame /\ Backed(m, {})
BY FramesTyped DEF Backed

LEMMA MakeListSecured == ASSUME IInv, Secured, NEW p \in Party, MakeList(p) PROVE Secured'
<1> DEFINE l == [f \in File |-> IF f \in Listed(p) THEN "NoState" ELSE "Absent"]
           o == [f \in File |-> 0]
           s == [bp[p] EXCEPT
                   !.FtState = "Transmit", !.tosend = TRUE, !.cursend = NoFile, !.freqname = FALSE,
                   !.state = l, !.offset = o]
           nul == [cmd |-> "NUL", file |-> NoFile, offs |-> 0]
<1>1. /\ UNCHANGED disk /\ ~Over(bp[p])
      /\ bp' = [bp EXCEPT ![p] = s] \/ bp' = [bp EXCEPT ![p] = SentCommand(s, "NUL")]
      /\ wire' = wire \/ wire' = Sent(wire, p, nul)
  BY TurnLive DEF MakeList, Transmits
<1>2. bp[p] \in Session
  BY BpGood DEF Good
<1>3. /\ s.queue = bp[p].queue /\ SentCommand(s, "NUL").queue = bp[p].queue
      /\ KeepRx(bp[p], s) /\ KeepRx(bp[p], SentCommand(s, "NUL"))
  BY <1>2 DEF Session, SentCommand, KeepRx
<1>4. nul \in Frame /\ Backed(nul, {})
  BY PlainCommands
<1> HIDE DEF s, nul
<1>5. PICK t : bp' = [bp EXCEPT ![p] = t] /\ t.queue = bp[p].queue /\ KeepRx(bp[p], t)
  BY <1>1, <1>3
<1> QED
  BY <1>1, <1>4, <1>5, SentSecured

LEMMA SendFileSecured == ASSUME IInv, Secured, NEW p \in Party, SendFile(p) PROVE Secured'
<1>1. PICK f \in File :
        /\ Turn(p) /\ f \in outbound \union Reply
        /\ Transmits(p, SentCommand(
             [bp[p] EXCEPT !.FtState = "Transmit", !.TxState = "TxTryR", !.state[f] = "Sending",
                           !.cursend = f, !.txfp = f, !.txpos = bp[p].offset[f]], "FILE"))
        /\ wire' = Sent(wire, p, [cmd |-> "FILE", file |-> f, offs |-> bp[p].offset[f]])
        /\ UNCHANGED disk
  BY DEF SendFile, Chooses
<1> DEFINE t == SentCommand(
             [bp[p] EXCEPT !.FtState = "Transmit", !.TxState = "TxTryR", !.state[f] = "Sending",
                           !.cursend = f, !.txfp = f, !.txpos = bp[p].offset[f]], "FILE")
           m == [cmd |-> "FILE", file |-> f, offs |-> bp[p].offset[f]]
<1>2. bp[p] \in Session
  BY BpGood DEF Good
<1>3. t.queue = bp[p].queue /\ KeepRx(bp[p], t)
  BY <1>2 DEF Session, SentCommand, KeepRx
<1>4. bp[p].offset \in [File -> Nat]
  BY <1>2, ZenonT(20) DEF Session
<1>5. m \in Frame /\ Backed(m, {})
  BY <1>1, <1>4, PlainCommands
<1>6. bp' = [bp EXCEPT ![p] = t] /\ wire' = Sent(wire, p, m) /\ ~Over(bp[p])
  BY <1>1, TurnLive DEF Transmits
<1> HIDE DEF t, m
<1> QED
  BY <1>1, <1>3, <1>5, <1>6, SentSecured

LEMMA PassFileSecured == ASSUME IInv, Secured, NEW p \in Party, PassFile(p) PROVE Secured'
<1>1. PICK f \in File, st \in {"Got", "Skipped"} :
        Turn(p) /\ bp' = [bp EXCEPT ![p] = [bp[p] EXCEPT !.FtState = "Switch", !.txfp = NoFile, !.state[f] = st]]
  BY DEF PassFile, Transmits, Chooses
<1> DEFINE t == [bp[p] EXCEPT !.FtState = "Switch", !.txfp = NoFile, !.state[f] = st]
<1>2. wire' = wire /\ UNCHANGED disk /\ ~Over(bp[p])
  BY <1>1, TurnLive DEF PassFile
<1>3. t.queue = bp[p].queue /\ KeepRx(bp[p], t)
  BY BpGood DEF Good, Session, KeepRx
<1>4. bp' = [bp EXCEPT ![p] = t]
  BY <1>1
<1> HIDE DEF t
<1> QED
  BY <1>2, <1>3, <1>4, SentSecured

LEMMA SendEOBSecured == ASSUME IInv, Secured, NEW p \in Party, SendEOB(p) PROVE Secured'
<1> DEFINE t == SentCommand([bp[p] EXCEPT !.FtState = "Transmit", !.TxState = "TxWLA"], "EOB")
           m == [cmd |-> "EOB", file |-> NoFile, offs |-> 0]
<1>1. bp' = [bp EXCEPT ![p] = t] /\ wire' = Sent(wire, p, m) /\ UNCHANGED disk /\ ~Over(bp[p])
  BY TurnLive DEF SendEOB, Transmits
<1>2. bp[p] \in Session
  BY BpGood DEF Good
<1>3. t.queue = bp[p].queue /\ KeepRx(bp[p], t)
  BY <1>2 DEF Session, SentCommand, KeepRx
<1>4. m \in Frame /\ Backed(m, {})
  BY PlainCommands
<1> HIDE DEF t, m
<1> QED
  BY <1>1, <1>3, <1>4, SentSecured

LEMMA SendBlockSecured == ASSUME IInv, Secured, NEW p \in Party, SendBlock(p) PROVE Secured'
<1> DEFINE s == bp[p]
           f == s.cursend
           last == s.txpos >= Size[f]
           n == IF last THEN s.txpos ELSE s.txpos + 1
           sent == [s EXCEPT !.FtState = "Switch", !.txpos = n]
           read == [sent EXCEPT !.txfp = NoFile, !.state[f] = "IsSent", !.cursend = NoFile, !.TxState = "TxGNF"]
           m == [cmd |-> "DATA", file |-> f, offs |-> s.txpos + 1]
<1>1. /\ s.TxState = "TxTryR" /\ UNCHANGED disk /\ ~Over(bp[p])
      /\ bp' = [bp EXCEPT ![p] = read] \/ bp' = [bp EXCEPT ![p] = sent]
      /\ wire' = wire \/ wire' = Sent(wire, p, m)
  <2>1. n = IF last THEN s.txpos ELSE s.txpos + 1
    OBVIOUS
  <2> QED
    BY TurnLive DEF SendBlock, Transmits
<1>2. Good(s)
  BY BpGood
<1>3. f \in File /\ s.txpos \in Nat
  <2>1. s.txpos \in Nat
    BY <1>2, ZenonT(20) DEF Good, Session
  <2> QED
    BY <1>1, <1>2, <2>1 DEF Good, Named
<1>4. m \in Frame /\ Backed(m, {})
  BY <1>3, PlainCommands
<1> HIDE DEF n, last, m
<1>5. sent.queue = s.queue /\ read.queue = s.queue /\ KeepRx(s, sent) /\ KeepRx(s, read)
  BY <1>2 DEF Good, Session, KeepRx
<1> HIDE DEF sent, read
<1>6. PICK t : bp' = [bp EXCEPT ![p] = t] /\ t.queue = s.queue /\ KeepRx(s, t)
  BY <1>1, <1>5
<1> QED
  BY <1>1, <1>4, <1>6, SentSecured

\* The process stops, and keeps the messages it had.
LEMMA StopSecured ==
  ASSUME IInv, Secured, NEW p \in Party, NEW s, s \in Session, s.queue = bp[p].queue,
         NEW rc, bp' = [bp EXCEPT ![p] = Ended(s, rc)], wire' = wire, UNCHANGED disk
  PROVE  Secured'
<1>1. Ended(s, rc).queue = bp[p].queue /\ Over(Ended(s, rc))
  BY DEF Ended, Session, Over
<1> QED
  BY <1>1, SentSecured

LEMMA ReadFailsSecured == ASSUME IInv, Secured, NEW p \in Party, ReadFails(p) PROVE Secured'
<1> DEFINE s == [bp[p] EXCEPT !.state[bp[p].cursend] = "Skipped"]
<1>1. /\ bp[p].TxState = "TxTryR" /\ bp' = [bp EXCEPT ![p] = Ended(s, "failed")] /\ wire' = wire
      /\ UNCHANGED disk
  BY DEF ReadFails, Transmits
<1>2. Good(bp[p])
  BY BpGood
<1>3. bp[p].cursend \in File
  BY <1>1, <1>2 DEF Good, Named
<1>4. s \in Session /\ s.queue = bp[p].queue
  <2>1. Good(s)
    BY <1>2, <1>3, DisposedGood
  <2>2. s.queue = bp[p].queue
    BY <1>2 DEF Good, Session
  <2> QED
    BY <2>1, <2>2 DEF Good
<1> HIDE DEF s
<1> QED
  BY <1>1, <1>4, StopSecured

LEMMA FailsSecured == ASSUME IInv, Secured, NEW p \in Party, Fails(p) PROVE Secured'
<1>1. bp' = [bp EXCEPT ![p] = Ended(bp[p], "failed")] /\ wire' = wire /\ UNCHANGED disk
  BY DEF Fails
<1>2. bp[p] \in Session
  BY BpGood DEF Good
<1> QED
  BY <1>1, <1>2, StopSecured

LEMMA CloseNoFileSecured == ASSUME IInv, Secured, NEW p \in Party, CloseNoFile(p) PROVE Secured'
<1>1. bp' = [bp EXCEPT ![p] = Ended(bp[p], "failed")] /\ wire' = wire /\ UNCHANGED disk
  BY DEF CloseNoFile, Transmits
<1>2. bp[p] \in Session
  BY BpGood DEF Good
<1> QED
  BY <1>1, <1>2, StopSecured

LEMMA WaitAcksSecured == ASSUME IInv, Secured, NEW p \in Party, WaitAcks(p) PROVE Secured'
<1> DEFINE s == [bp[p] EXCEPT !.FtState = "Switch"]
<1>1. /\ wire' = wire /\ UNCHANGED disk /\ ~Over(bp[p])
      /\ \/ bp' = [bp EXCEPT ![p] = s]
         \/ bp' = [bp EXCEPT ![p] = Ended(ListCleared(s), "ok")]
         \/ bp' = [bp EXCEPT ![p] = NextBatch(s)]
         \/ bp' = [bp EXCEPT ![p] = ListCleared(s)]
  BY TurnLive DEF WaitAcks, Transmits
<1>2. Good(bp[p])
  BY BpGood
<1>3. Good(s) /\ Keep(bp[p], s)
  BY <1>2, SwitchView
<1> HIDE DEF s
<1>4. /\ ListCleared(s).queue = s.queue /\ KeepRx(s, ListCleared(s))
      /\ NextBatch(s).queue = s.queue /\ NextBatch(s).RxState # "RxReceD"
  BY <1>3, ListClearedView, NextBatchView
<1>5. ListCleared(s) \in Session
  BY <1>3, ListClearedGood DEF Good
<1>6. CASE bp' = [bp EXCEPT ![p] = Ended(ListCleared(s), "ok")]
  BY <1>1, <1>3, <1>4, <1>5, <1>6, StopSecured DEF Keep
<1>7. ASSUME NEW t, bp' = [bp EXCEPT ![p] = t], t.queue = bp[p].queue, t.RxState # "RxReceD" \/ KeepRx(bp[p], t)
      PROVE  Secured'
  BY <1>1, <1>7, SentSecured
<1>8. KeepRx(bp[p], ListCleared(s))
  BY <1>3, <1>4 DEF Keep, KeepRx
<1> QED
  BY <1>1, <1>3, <1>4, <1>6, <1>7, <1>8 DEF Keep

LEMMA CountSome ==
  ASSUME NEW S, NEW w \in Seq(S), NEW cmds, NEW cmd \in cmds, NEW f, f \in Told(w, cmd)
  PROVE  Count(w, cmds, f) \in Nat /\ Count(w, cmds, f) # 0
<1>1. PICK i \in 1..Len(w) : w[i].cmd = cmd /\ w[i].file = f
  BY DEF Told
<1>2. Marked(w[i], cmds, f)
  BY <1>1 DEF Marked
<1> QED
  BY <1>2, CountNone, CountType

\* A file that the sender is told of is under way no more.
LEMMA NotUnderway ==
  ASSUME IInv, Talk, NEW p \in Party, ~Over(bp[p]), NEW f \in File, Owner[f] = p, NEW cmd \in Answering,
         f \in Told(bp[p].queue, cmd)
  PROVE  f \notin Underway
<1> DEFINE q == Peer(p)
<1>1. q \in Party /\ q # p /\ \A r \in Party : r = p \/ r = q
  BY Peers
<1>2. wire[p] \in Seq(Frame) /\ wire[q] \in Seq(Frame) /\ bp[p].queue \in Seq(Queued) /\ Good(bp[p])
  BY <1>1, WireTyped, BpGood, QueueTyped
<1>3. Single(f, wire[p], wire[q], bp[p], bp[q])
  BY SingleView DEF Talk
<1>4. /\ Posted(wire[p], f) \in Nat /\ Replies(wire[q], f) \in Nat /\ Waiting(bp[p], f) \in Nat
      /\ Coming(bp[q], f) \in {0, 1}
  BY <1>2, LoadType
<1>5. Waiting(bp[p], f) # 0
  BY <1>2, CountSome DEF Waiting
<1> HIDE DEF q
<1>6. Posted(wire[p], f) = 0 /\ Coming(bp[q], f) = 0
  BY <1>3, <1>4, <1>5 DEF Single, Load
<1>7. f \notin Told(wire[p], "FILE")
  BY <1>2, <1>6, CountSome DEF Posted
<1>8. f \notin Awaited(bp[q])
  BY <1>6 DEF Awaited, Coming
<1>9. f \notin Told(wire[q], "FILE")
  BY <1>1 DEF Told, Talk, Owned, Announces
<1>10. f \notin Awaited(bp[p])
  BY <1>1 DEF Awaited, Talk, Owned, Mine, Await, q
<1> QED
  BY <1>1, <1>7, <1>8, <1>9, <1>10 DEF Underway

\* The head of a queue is told.
LEMMA ProcessActionsSecured ==
  ASSUME IInv, Talk, Secured, NEW p \in Party, ProcessGet(p) \/ ProcessGot(p) \/ ProcessSkip(p)
  PROVE  Secured'
<1> DEFINE f == Message(p).file
<1>1. PICK cmd \in Answering :
        /\ Processes(p, cmd) /\ \E t : bp' = [bp EXCEPT ![p] = t] /\ Processing(p, t)
        /\ outbound' = outbound \/ (cmd = "GOT" /\ InList(p, f) /\ outbound' = outbound \ {f})
        /\ wire' = wire /\ tmp' = tmp /\ delivered' = delivered
  <2>1. CASE ProcessGet(p)
    <3>1. wire' = wire /\ outbound' = outbound /\ tmp' = tmp /\ delivered' = delivered
      BY <2>1 DEF ProcessGet, disk
    <3> QED
      BY <2>1, <3>1, ProcessGetView
  <2>2. CASE ProcessGot(p)
    <3>1. /\ wire' = wire /\ tmp' = tmp /\ delivered' = delivered
          /\ outbound' = outbound \/ (InList(p, f) /\ outbound' = outbound \ {f})
      BY <2>2 DEF ProcessGot, world
    <3> QED
      BY <2>2, <3>1, ProcessGotView
  <2>3. CASE ProcessSkip(p)
    <3>1. wire' = wire /\ outbound' = outbound /\ tmp' = tmp /\ delivered' = delivered
      BY <2>3 DEF ProcessSkip, disk
    <3> QED
      BY <2>3, <3>1, ProcessSkipView
  <2> QED
    BY <2>1, <2>2, <2>3
<1>2. PICK t : bp' = [bp EXCEPT ![p] = t] /\ Processing(p, t)
  BY <1>1
<1>3. /\ bp[p].queue # <<>> /\ Message(p) = Head(bp[p].queue) /\ Message(p).cmd = cmd /\ f \in File
      /\ bp[p].queue \in Seq(Queued) /\ ~Over(bp[p])
  BY <1>1, ProcessesView
<1>4. PICK G : G = {}
  OBVIOUS
<1>5. Moves(p, t, G)
  <2>1. Queues(p, t) /\ Expects(p, t)
    BY <1>2, <1>3 DEF Queues, Expects, Processing, Await, KeepRx
  <2> QED
    BY <1>1, <1>2, <2>1 DEF Moves
<1>6. \/ outbound' = outbound
      \/ /\ bp[p].queue # <<>> /\ Head(bp[p].queue).cmd = "GOT"
         /\ outbound' = outbound \ {Head(bp[p].queue).file}
  BY <1>1, <1>3
<1>7. Acked' \subseteq Acked \union G
  BY <1>5, <1>6, AckedStep
<1>8. \A g : Have(g)' = Have(g)
  BY <1>1 DEF Have
<1>9. Acknowledged'
  BY <1>4, <1>7, <1>8 DEF Acknowledged, Secured
<1> HIDE DEF f
<1>10. Kept'
  <2>1. CASE outbound' = outbound
    BY <1>5, <2>1, KeptStep DEF Secured
  <2>2. CASE InList(p, f) /\ outbound' = outbound \ {f}
    <3>1. Owner[f] = p
      BY <1>3, <2>2, MineView DEF InList, Mine
    <3>2. f \in Told(bp[p].queue, cmd)
      BY <1>3, ToldTail DEF f
    <3>3. f \notin Underway
      BY <1>3, <3>1, <3>2, NotUnderway
    <3>4. Underway' \subseteq Underway
      <4>1. wire' = wire
        BY <1>1
      <4>2. \A r \in Party : Awaited(bp'[r]) \subseteq Awaited(bp[r])
        <5>1. bp'[p] = t /\ \A r \in Party : r # p => bp'[r] = bp[r]
          BY <1>2 DEF IInv, TypeOK
        <5>2. Awaited(t) \subseteq Awaited(bp[p])
          BY <1>2, <1>3 DEF Awaited, Await, Processing, KeepRx
        <5> QED
          BY <5>1, <5>2
      <4> QED
        BY <4>1, <4>2 DEF Underway
    <3> QED
      BY <2>2, <3>3, <3>4 DEF Kept, Secured
  <2> QED
    BY <1>1, <2>1, <2>2
<1> QED
  BY <1>9, <1>10 DEF Secured

LEMMA TransmitSecured == ASSUME IInv, Talk, Secured, NEW p \in Party, Transmit(p) PROVE Secured'
BY MakeListSecured, SendFileSecured, PassFileSecured, SendEOBSecured, SendBlockSecured,
   ReadFailsSecured, ProcessActionsSecured, CloseNoFileSecured, WaitAcksSecured, Zenon DEF Transmit

LEMMA ReceiverQuietSecured ==
  ASSUME IInv, Secured, NEW p \in Party, QueueMessage(p) \/ Ignore(p) \/ ReceiveEOB(p)
  PROVE  Secured'
<1>1. Arrives(p) /\ wire' = Rest(p) /\ UNCHANGED disk
  BY DEF QueueMessage, Ignore, ReceiveEOB
<1>2. \E t : bp' = [bp EXCEPT ![p] = t] /\ Queues(p, t) /\ (t.RxState # "RxReceD" \/ KeepRx(bp[p], t))
  <2>1. CASE QueueMessage(p)
    <3>1. PICK t : /\ bp' = [bp EXCEPT ![p] = t] /\ KeepRx(bp[p], t)
                   /\ t.queue = Append(bp[p].queue, Incoming(p)) /\ Incoming(p) \in Queued
      BY <2>1, QueueMessageView
    <3>2. wire[Peer(p)] # <<>> /\ Incoming(p) = Head(wire[Peer(p)])
      BY <1>1, RestView
    <3> QED
      BY <3>1, <3>2 DEF Queues
  <2>2. CASE Ignore(p)
    <3>1. PICK t : bp' = [bp EXCEPT ![p] = t] /\ Keep(bp[p], t)
      BY <2>2, IgnoreView
    <3> QED
      BY <3>1 DEF Queues, Keep
  <2>3. CASE ReceiveEOB(p)
    <3>1. PICK t : bp' = [bp EXCEPT ![p] = t] /\ t.queue = bp[p].queue /\ t.RxState # "RxReceD"
      BY <2>3, ReceiveEOBView
    <3> QED
      BY <3>1 DEF Queues
  <2> QED
    BY <2>1, <2>2, <2>3
<1> QED
  BY <1>1, <1>2, ReadSecured

LEMMA ReceiverStopsSecured ==
  ASSUME IInv, Secured, NEW p \in Party, LowDiskspace(p) \/ ReceiveUnexpected(p) \/ SeekClosedFile(p)
  PROVE  Secured'
<1> DEFINE t == Ended(Polled(p), "failed")
           m == [cmd |-> "BSY", file |-> NoFile, offs |-> 0]
<1>1. /\ Arrives(p) /\ bp' = [bp EXCEPT ![p] = t] /\ UNCHANGED disk
      /\ wire' = Rest(p) \/ wire' = Sent(Rest(p), p, m)
  BY DEF LowDiskspace, ReceiveUnexpected, SeekClosedFile
<1>2. t.queue = bp[p].queue /\ Over(t)
  <2>1. Polled(p) \in Session /\ Polled(p).queue = bp[p].queue
    BY PolledGood, PolledView DEF Good, Keep
  <2> QED
    BY <2>1 DEF Ended, Session, Over
<1>3. m \in Frame /\ Backed(m, {})
  BY PlainCommands
<1> HIDE DEF t, m
<1>4. Queues(p, t)
  BY <1>2 DEF Queues
<1> QED
  BY <1>1, <1>2, <1>3, <1>4, ReadSecured

\* A file that is answered with M_GOT at once is whole in tmp/.
LEMMA AcceptFileSecured ==
  ASSUME IInv, Talk, Contents, Secured, NEW p \in Party, AcceptFile(p), ~mixed' PROVE Secured'
<1> DEFINE m == Incoming(p)
           a == Announced(p)
           f == m.file
           G == {g \in {f} : AlreadyHere(a)}
<1>1. Arrives(p) /\ m.cmd = "FILE" /\ f \in File /\ a.rname = f /\ outbound' = outbound /\ tmp' = tmp /\ delivered' = delivered
  BY AcceptFileView DEF AcceptFile, disk
<1>2. a.rxbytes = Len(tmp[f])
  BY AcceptFileFits
<1>3. ~Stale(f)
  BY DEF AcceptFile
<1>4. AlreadyHere(a) => IsWhole(f, tmp[f])
  <2>1. tmp[f] = Blocks(f, version[f], Len(tmp[f])) /\ version[f] \in {1, 2}
    BY <1>1, <1>3, FreshBlocks DEF IInv, TypeOK
  <2> QED
    BY <1>1, <1>2, <2>1 DEF AlreadyHere, IsWhole
<1>5. PICK t : /\ bp' = [bp EXCEPT ![p] = t] /\ t.queue = bp[p].queue /\ t.rname = f
               /\ \/ \E r \in Frame : /\ wire' = Sent(Rest(p), p, r) /\ r.cmd \in Answering
                                      /\ r.file = f /\ (r.cmd = "GOT" => AlreadyHere(a))
                  \/ wire' = Rest(p)
  BY AcceptFileView
<1>6. Queues(p, t) /\ Expects(p, t)
  BY <1>1, <1>5, RestView DEF Queues, Expects
<1> HIDE DEF a, f, m
<1>7. wire[Peer(p)] # <<>> /\ wire'[Peer(p)] = Tail(wire[Peer(p)])
  BY <1>1, <1>5, RestView, SentRestView
<1>8. wire'[p] = wire[p] \/ \E r \in Frame : wire'[p] = Append(wire[p], r) /\ Backed(r, G)
  <2>1. CASE wire' = Rest(p)
    BY <1>1, <2>1, RestView
  <2>2. ASSUME NEW r \in Frame, wire' = Sent(Rest(p), p, r), r.cmd \in Answering, r.file = f,
               r.cmd = "GOT" => AlreadyHere(a)
        PROVE  wire'[p] = wire[p] \/ (wire'[p] = Append(wire[p], r) /\ Backed(r, G))
    <3>1. Backed(r, G)
      BY <2>2 DEF Backed, Answering
    <3> QED
      BY <1>1, <2>2, <3>1, SentRestView
  <2> QED
    BY <1>5, <2>1, <2>2
<1>9. \A g \in G : g = f /\ AlreadyHere(a)
  OBVIOUS
<1> HIDE DEF G
<1>13. Moves(p, t, G)
  BY <1>5, <1>6, <1>7, <1>8 DEF Moves
<1>10. Acked' \subseteq Acked \union G
  BY <1>1, <1>13, AckedStep
<1>14. Kept'
  BY <1>1, <1>13, KeptStep DEF Secured
<1>11. \A g : Have(g)' = Have(g)
  BY <1>1 DEF Have
<1>12. \A g \in G : Have(g)
  BY <1>4, <1>9 DEF Have
<1> QED
  BY <1>10, <1>11, <1>12, <1>14 DEF Acknowledged, Secured

LEMMA NotWholeYet ==
  ASSUME NEW f \in File, NEW v, NEW n \in Nat, n # Size[f] PROVE ~IsWhole(f, Blocks(f, v, n))
<1>1. Size[f] \in Nat
  BY SizesTyped
<1>2. ASSUME NEW u, Blocks(f, v, n) = Blocks(f, u, Size[f]) PROVE FALSE
  <2>1. Len(Blocks(f, v, n)) = n
    BY BlocksView
  <2>2. Len(Blocks(f, u, Size[f])) = Size[f]
    BY <1>1, BlocksView
  <2> QED
    BY <1>2, <2>1, <2>2
<1> QED
  BY <1>2 DEF IsWhole

\* One more file in the inbound; the others are still there.
LEMMA InboundGrows ==
  ASSUME IInv, NEW f \in File, NEW c, c \in Seq(Block), IsWhole(f, c), NEW d,
         d = [g \in File |-> IF g = f THEN Append(delivered[g], c) ELSE delivered[g]]
  PROVE  Arrived(d, f) /\ \A g \in File : Arrived(delivered, g) => Arrived(d, g)
<1> DEFINE e == delivered[f]
           n == Len(e)
<1>1. e \in Seq(Seq(Block))
  BY DEF IInv, TypeOK
<1>2. n \in Nat /\ DOMAIN e = 1..n
  BY <1>1, LenProperties
<1>3. d[f] = Append(e, c) /\ \A g \in File : g # f => d[g] = delivered[g]
  OBVIOUS
<1> HIDE DEF e
<1>4. DOMAIN Append(e, c) = 1..(n + 1) /\ Append(e, c)[n + 1] = c /\ \A i \in 1..n : Append(e, c)[i] = e[i]
  <2>1. Append(e, c) \in Seq(Seq(Block)) /\ Len(Append(e, c)) = n + 1
    BY <1>1, AppendProperties
  <2>2. DOMAIN Append(e, c) = 1..(n + 1)
    BY <2>1, LenProperties
  <2> QED
    BY <1>1, <2>2, AppendProperties
<1> HIDE DEF n
<1>5. Arrived(d, f)
  <2>1. n + 1 \in 1..(n + 1)
    BY <1>2
  <2> QED
    BY <1>3, <1>4, <2>1 DEF Arrived
<1>6. \A g \in File \ {f} : Arrived(delivered, g) => Arrived(d, g)
  BY <1>3 DEF Arrived
<1> QED
  BY <1>5, <1>6

\* The last block brings the file to the inbound; before that nobody was told.
LEMMA WriteDataSecured ==
  ASSUME IInv, Talk, Contents, Secured, NEW p \in Party, WriteData(p) PROVE Secured'
<1>0. PICK f : f = bp[p].rname
  BY ZenonT(60)
<1> DEFINE n == bp[p].rxpos
<1>1. Arrives(p) /\ Incoming(p).cmd = "DATA" /\ bp[p].RxState = "RxReceD" /\ outbound' = outbound
  BY WriteDataView, ZenonT(60) DEF WriteData
<1>2. /\ f \in File /\ bp[p].rxfp = f /\ n \in Nat /\ n + 1 <= Size[f] /\ Await(bp[p])
      /\ Written(p) \in [File -> Seq(Block)]
      /\ Written(p)[f] = Blocks(f, version[f], n + 1)
      /\ \A g \in File : g # f => Written(p)[g] = tmp[g]
  BY <1>0, <1>1, WrittenView
<1>3. ~IsWhole(f, tmp[f])
  <2>1. tmp[f] = Blocks(f, version[f], n)
    BY <1>0, <1>2 DEF Contents, Held, Holds
  <2>2. n # Size[f]
    BY <1>2, SizesTyped
  <2> QED
    BY <1>2, <2>1, <2>2, NotWholeYet
<1>4. PICK t : /\ Takes(p, t)
               /\ \/ Continues(p, t) /\ tmp' = Written(p) /\ delivered' = delivered
                  \/ /\ Completes(p, t) /\ n + 1 = Size[f]
                     /\ tmp' = [g \in File |-> IF g = bp[p].rxfp THEN <<>> ELSE tmp[g]]
                     /\ delivered' = [g \in File |-> IF g = bp[p].rxfp THEN Append(delivered[g], Written(p)[g])
                                                     ELSE delivered[g]]
  BY <1>0, WriteDataView
<1>5. bp' = [bp EXCEPT ![p] = t] /\ Queues(p, t) /\ Expects(p, t)
  BY <1>2, <1>4 DEF Takes, Queues, Expects
<1>6. Acked \subseteq File
  BY ToldFiles
<1> HIDE DEF n
<1>7. CASE Continues(p, t) /\ tmp' = Written(p) /\ delivered' = delivered
  <2> DEFINE G == {}
  <2>1. wire' = Rest(p)
    BY <1>7 DEF Continues
  <2>2. /\ wire[Peer(p)] # <<>> /\ wire'[Peer(p)] = Tail(wire[Peer(p)])
        /\ wire'[p] = wire[p]
    BY <1>1, <2>1, RestView
  <2> HIDE DEF G
  <2>5. Moves(p, t, G)
    BY <1>5, <2>2 DEF Moves
  <2>3. Acked' \subseteq Acked \union G
    BY <1>1, <2>5, AckedStep
  <2>4. ASSUME NEW g \in File, Have(g) PROVE Have(g)'
    <3>1. CASE g = f
      BY <1>3, <1>7, <2>4, <3>1 DEF Have
    <3>2. CASE g # f
      BY <1>2, <1>7, <2>4, <3>2 DEF Have
    <3> QED
      BY <3>1, <3>2
  <2> QED
    BY <1>1, <1>6, <2>3, <2>4, <2>5, KeptStep DEF Acknowledged, Secured, G
<1>8. CASE /\ Completes(p, t) /\ n + 1 = Size[f]
           /\ tmp' = [g \in File |-> IF g = bp[p].rxfp THEN <<>> ELSE tmp[g]]
           /\ delivered' = [g \in File |-> IF g = bp[p].rxfp THEN Append(delivered[g], Written(p)[g]) ELSE delivered[g]]
  <2> DEFINE G == {f}
             r == [cmd |-> "GOT", file |-> f, offs |-> 0]
  <2>1. wire' = Sent(Rest(p), p, r)
    BY <1>0, <1>8 DEF Completes
  <2>2. r \in Frame /\ Backed(r, G)
    BY <1>2, FramesTyped DEF Backed
  <2>3. f \in G /\ \A g \in G : g = f
    OBVIOUS
  <2> HIDE DEF G, r
  <2>4. /\ wire[Peer(p)] # <<>> /\ wire'[Peer(p)] = Tail(wire[Peer(p)])
        /\ wire'[p] = wire[p] \/ wire'[p] = Append(wire[p], r)
    BY <1>1, <2>1, RestView, SentRestView
  <2>5. Moves(p, t, G)
    BY <1>5, <2>2, <2>4 DEF Moves
  <2>6. Acked' \subseteq Acked \union G
    BY <1>1, <2>5, AckedStep
  <2>7. IsWhole(f, Written(p)[f])
    <3>1. version[f] \in {1, 2}
      BY <1>2 DEF IInv, TypeOK
    <3> QED
      BY <1>2, <1>8, <3>1 DEF IsWhole
  <2>8. delivered' = [g \in File |-> IF g = f THEN Append(delivered[g], Written(p)[f]) ELSE delivered[g]]
    BY <1>2, <1>8
  <2>9. Arrived(delivered', f) /\ \A g \in File : Arrived(delivered, g) => Arrived(delivered', g)
    <3>0. PICK c, d : c = Written(p)[f] /\ d = delivered'
      OBVIOUS
    <3>1. c \in Seq(Block) /\ IsWhole(f, c)
      BY <1>2, <2>7, <3>0
    <3>2. d = [g \in File |-> IF g = f THEN Append(delivered[g], c) ELSE delivered[g]]
      BY <2>8, <3>0
    <3>3. Arrived(d, f) /\ \A g \in File : Arrived(delivered, g) => Arrived(d, g)
      BY <1>2, <3>1, <3>2, InboundGrows
    <3> QED
      BY <3>0, <3>3
  <2>10. Have(f)'
    BY <2>9 DEF Have
  <2>11. ASSUME NEW g \in File, Have(g), g # f PROVE Have(g)'
    <3>1. tmp'[g] = tmp[g]
      BY <1>2, <1>8, <2>11
    <3> QED
      BY <2>9, <2>11, <3>1 DEF Have
  <2> QED
    BY <1>1, <1>6, <2>3, <2>5, <2>6, <2>10, <2>11, KeptStep DEF Acknowledged, Secured
<1> QED
  BY <1>4, <1>7, <1>8

\* fwrite can fail only on a full disk: the file that is received is open.
LEMMA NoWriteFails ==
  ASSUME IInv, Talk, Contents, ~CanFill, NEW p \in Party PROVE ~WriteFails(p)
<1> SUFFICES ASSUME WriteFails(p) PROVE FALSE
  OBVIOUS
<1>1. Arrives(p) /\ Incoming(p).cmd = "DATA" /\ bp[p].RxState = "RxReceD" /\ bp[p].rxfp = Closed
  BY DEF WriteFails
<1>2. bp[p].rxfp \in File
  BY <1>1, WrittenView
<1> QED
  BY <1>1, <1>2, FilesNumbered DEF Closed

LEMMA ReceiveSecured ==
  ASSUME IInv, Talk, Contents, Secured, ~CanFill, NEW p \in Party, Receive(p), ~mixed' PROVE Secured'
<1>1. ~CloseFails(p)
  BY DEF CloseFails
<1> QED
  BY <1>1, NoWriteFails, ReceiverQuietSecured, ReceiverStopsSecured, AcceptFileSecured,
     WriteDataSecured, Zenon DEF Receive

\* What is lost with the connection is told to nobody.
LEMMA CutSecured == ASSUME IInv, Secured, Cut PROVE Secured'
<1>1. PICK n \in [Party -> 0..Window] :
        wire' = [p \in Party |-> SubSeq(wire[p], 1, IF n[p] < Len(wire[p]) THEN n[p] ELSE Len(wire[p]))]
  BY DEF Cut
<1>2. bp' = bp /\ outbound' = outbound /\ tmp' = tmp /\ delivered' = delivered
  BY DEF Cut, disk
<1> DEFINE k(p) == IF n[p] < Len(wire[p]) THEN n[p] ELSE Len(wire[p])
<1>3. ASSUME NEW p \in Party PROVE \A cmd : Told(wire'[p], cmd) \subseteq Told(wire[p], cmd)
  <2>1. wire[p] \in Seq(Frame)
    BY WireTyped
  <2>2. Len(wire[p]) \in Nat
    BY <2>1, LenProperties
  <2>3. n[p] \in Nat
    BY <1>1, LimitsKnown
  <2>4. k(p) \in 0..Len(wire[p]) /\ wire'[p] = SubSeq(wire[p], 1, k(p))
    BY <1>1, <2>2, <2>3
  <2> HIDE DEF k
  <2> QED
    BY <2>1, <2>4, ToldPrefix
<1>4. Acked' \subseteq Acked
  BY <1>2, <1>3 DEF Acked
<1>5. Underway' \subseteq Underway
  BY <1>2, <1>3 DEF Underway
<1> QED
  BY <1>2, <1>4, <1>5 DEF Secured, Acknowledged, Have, Kept

LEMMA RetrySecured == ASSUME Secured, Retry PROVE Secured'
<1>1. outbound' = outbound /\ tmp' = tmp /\ delivered' = delivered
  BY DEF Retry, disk
<1>2. \A p \in Party : wire'[p] = <<>> /\ bp'[p].queue = <<>> /\ Awaited(bp'[p]) = {}
  BY NewSessionView DEF Retry, Awaited, Await
<1>3. \A cmd : Told(<<>>, cmd) = {}
  BY DEF Told
<1>4. Acked' \subseteq Acked /\ Underway' = {}
  BY <1>1, <1>2, <1>3 DEF Acked, Underway
<1> QED
  BY <1>1, <1>4 DEF Secured, Acknowledged, Have, Kept

LEMMA OutsideSecured ==
  ASSUME Secured, (\E f \in File : Replace(f)) \/ UNCHANGED vars PROVE Secured'
<1>1. bp' = bp /\ wire' = wire /\ outbound' = outbound /\ tmp' = tmp /\ delivered' = delivered
  BY DEF Replace, vars
<1> QED
  BY <1>1 DEF Secured, Acknowledged, Acked, Have, Kept, Underway

LEMMA InitSecured == Init => Secured
<1> SUFFICES ASSUME Init PROVE Secured
  OBVIOUS
<1>1. \A p \in Party : wire[p] = <<>> /\ bp[p].queue = <<>> /\ Awaited(bp[p]) = {}
  BY NewSessionView DEF Init, Awaited, Await
<1>2. \A cmd : Told(<<>>, cmd) = {}
  BY DEF Told
<1>3. outbound = File \ Reply
  BY DEF Init
<1>4. Acked = {} /\ Underway = {}
  BY <1>1, <1>2, <1>3 DEF Acked, Underway
<1> QED
  BY <1>4 DEF Secured, Acknowledged, Kept

LEMMA NextSecured ==
  ASSUME IInv, Talk, Contents, Secured, ~CanFill, ~CanDie, [Next]_vars, ~mixed' PROVE Secured'
<1>1. CASE \E p \in Party : Receive(p)
  BY <1>1, ReceiveSecured
<1>2. CASE \E p \in Party : Transmit(p)
  BY <1>2, TransmitSecured
<1>3. CASE \E p \in Party : HangUp(p) \/ Timeout(p)
  BY <1>3, FailsSecured DEF HangUp, Timeout
<1>4. ~(\E p \in Party : Killed(p) \/ KilledBeforeMove(p))
  BY DEF Killed, KilledBeforeMove
<1>5. CASE Cut
  BY <1>5, CutSecured
<1>6. CASE Retry
  BY <1>6, RetrySecured
<1>7. CASE (\E f \in File : Replace(f)) \/ UNCHANGED vars
  BY <1>7, OutsideSecured
<1> QED
  BY <1>1, <1>2, <1>3, <1>4, <1>5, <1>6, <1>7, Zenon DEF Next

\* A file leaves the outbound only after the other side has all of it, through
\* broken lines, stalls, refusals and replaced files, as long as no disk fills up
\* and no process is killed: with these an M_GOT is sent for a file that is lost.
THEOREM KeptTillReceived == ASSUME ~CanFill, ~CanDie PROVE Spec => []KeptUntilReceived
<1> DEFINE KInv == WInv /\ (~mixed => Secured)
<1>1. Init => KInv
  BY InitTyped, InitTalk, InitContents, InitSecured DEF WInv
<1>2. KInv /\ [Next]_vars => KInv'
  <2> SUFFICES ASSUME KInv, [Next]_vars PROVE KInv'
    OBVIOUS
  <2>1. IInv /\ Talk /\ (~mixed => Contents /\ Secured)
    BY DEF WInv
  <2>2. IInv' /\ Talk'
    BY <2>1, NextTyped, NextTalk
  <2>3. ASSUME ~mixed' PROVE Contents' /\ Secured'
    <3>1. ~mixed
      BY <2>3, MixedStays
    <3>2. Contents'
      BY <2>1, <2>3, <3>1, NextContents
    <3>3. Secured'
      BY <2>1, <2>3, <3>1, NextSecured
    <3> QED
      BY <3>2, <3>3
  <2> QED
    BY <2>2, <2>3 DEF WInv
<1>3. KInv => KeptUntilReceived
  BY DEF Secured, Acknowledged, Acked, Have, Arrived, KeptUntilReceived
<1> QED
  BY <1>1, <1>2, <1>3, PTL DEF Spec

(***************************************************************************)
(* The exchange.  What is whole goes to the inbound with its last block,   *)
(* so nothing whole stays in tmp/ (Short), unless it was there before or   *)
(* has no blocks; what is announced or received waits in the outbound      *)
(* (Kept), so it is delivered while it is kept; and what is acknowledged   *)
(* arrived (Acknowledged), so it is released after it was delivered.       *)
(***************************************************************************)
Short == \A f \in File : Len(tmp[f]) < Size[f]

Wholes(f, e) == {i \in DOMAIN e : IsWhole(f, e[i])}

LEMMA WholesView ==
  ASSUME NEW f, NEW e \in Seq(Seq(Block))
  PROVE  /\ IsFiniteSet(Wholes(f, e)) /\ Cardinality(Wholes(f, e)) \in Nat
         /\ (\E i \in DOMAIN e : IsWhole(f, e[i])) => Cardinality(Wholes(f, e)) > 0
<1>1. Len(e) \in Nat /\ DOMAIN e = 1..Len(e)
  BY LenProperties
<1>2. IsFiniteSet(1..Len(e)) /\ Wholes(f, e) \in SUBSET (1..Len(e))
  BY <1>1, FS_Interval DEF Wholes
<1>3. IsFiniteSet(Wholes(f, e)) /\ Cardinality(Wholes(f, e)) \in Nat
  BY <1>2, FS_Subset, FS_CardinalityType
<1>4. Cardinality(Wholes(f, e)) = 0 <=> Wholes(f, e) = {}
  BY <1>3, FS_EmptySet
<1>5. (\E i \in DOMAIN e : IsWhole(f, e[i])) => Wholes(f, e) # {}
  BY DEF Wholes
<1> QED
  BY <1>3, <1>4, <1>5

LEMMA WholesGrow ==
  ASSUME NEW f, NEW e \in Seq(Seq(Block)), NEW c \in Seq(Block), IsWhole(f, c)
  PROVE  Cardinality(Wholes(f, Append(e, c))) = Cardinality(Wholes(f, e)) + 1
<1> DEFINE n == Len(e)
           a == Append(e, c)
<1>1. n \in Nat /\ DOMAIN e = 1..n
  BY LenProperties
<1>2. a \in Seq(Seq(Block)) /\ Len(a) = n + 1 /\ a[n + 1] = c /\ \A i \in 1..n : a[i] = e[i]
  BY AppendProperties
<1>3. DOMAIN a = 1..(n + 1)
  BY <1>2, LenProperties
<1> HIDE DEF n, a
<1>4. Wholes(f, a) = Wholes(f, e) \union {n + 1}
  BY <1>1, <1>2, <1>3 DEF Wholes
<1>5. n + 1 \notin Wholes(f, e)
  BY <1>1 DEF Wholes
<1>6. IsFiniteSet(Wholes(f, e))
  BY WholesView
<1>7. Cardinality(Wholes(f, e) \union {n + 1}) = Cardinality(Wholes(f, e)) + 1
  BY <1>5, <1>6, FS_AddElement
<1> QED
  BY <1>4, <1>7 DEF a

LEMMA CopiesView ==
  ASSUME IInv, NEW f \in File
  PROVE  /\ delivered[f] \in Seq(Seq(Block)) /\ WholeCopies(f) = Cardinality(Wholes(f, delivered[f]))
         /\ WholeCopies(f) \in Nat /\ (Arrived(delivered, f) => WholeCopies(f) > 0)
<1>1. delivered[f] \in Seq(Seq(Block))
  BY DEF IInv, TypeOK
<1>2. WholeCopies(f) = Cardinality(Wholes(f, delivered[f]))
  BY DEF WholeCopies, Wholes
<1> QED
  BY <1>1, <1>2, WholesView DEF Arrived

\* Files change with a block that was received and with a message that was followed.
LEMMA FilesChange ==
  ASSUME IInv, Talk, Contents, ~CanFill, ~CanDie, [Next]_vars
  PROVE  (\E p \in Party : WriteData(p) \/ ProcessGot(p)) \/ UNCHANGED <<outbound, tmp, delivered>>
<1> USE DEF disk
<1>1. ASSUME NEW p \in Party, Receive(p) PROVE WriteData(p) \/ UNCHANGED <<outbound, tmp, delivered>>
  <2>1. ~CloseFails(p) /\ ~WriteFails(p)
    BY NoWriteFails DEF CloseFails
  <2>2. CASE QueueMessage(p) \/ Ignore(p) \/ ReceiveEOB(p) \/ AcceptFile(p)
    BY <2>2 DEF QueueMessage, Ignore, ReceiveEOB, AcceptFile
  <2>3. CASE LowDiskspace(p) \/ ReceiveUnexpected(p) \/ SeekClosedFile(p)
    BY <2>3 DEF LowDiskspace, ReceiveUnexpected, SeekClosedFile
  <2> QED
    BY <1>1, <2>1, <2>2, <2>3, Zenon DEF Receive
<1>2. ASSUME NEW p \in Party, Transmit(p) PROVE ProcessGot(p) \/ UNCHANGED <<outbound, tmp, delivered>>
  <2>1. CASE MakeList(p) \/ SendFile(p) \/ PassFile(p) \/ SendEOB(p)
    BY <2>1 DEF MakeList, SendFile, PassFile, SendEOB
  <2>2. CASE SendBlock(p) \/ ReadFails(p) \/ ProcessGet(p) \/ ProcessSkip(p)
    BY <2>2 DEF SendBlock, ReadFails, ProcessGet, ProcessSkip
  <2>3. CASE CloseNoFile(p) \/ WaitAcks(p)
    BY <2>3 DEF CloseNoFile, WaitAcks
  <2> QED
    BY <1>2, <2>1, <2>2, <2>3, Zenon DEF Transmit
<1>3. ASSUME NEW p \in Party, HangUp(p) \/ Timeout(p) \/ Killed(p) \/ KilledBeforeMove(p)
      PROVE  UNCHANGED <<outbound, tmp, delivered>>
  BY <1>3 DEF HangUp, Timeout, Fails, Killed, KilledBeforeMove
<1>4. ASSUME Cut \/ Retry \/ (\E f \in File : Replace(f)) \/ UNCHANGED vars PROVE UNCHANGED <<outbound, tmp, delivered>>
  BY <1>4 DEF Cut, Retry, Replace, vars
<1> QED
  BY <1>1, <1>2, <1>3, <1>4, Zenon DEF Next

\* A block more is short of the end, and after the last one nothing is left.
LEMMA ShortStep ==
  ASSUME IInv, Talk, Contents, Short, ~CanFill, ~CanDie, [Next]_vars PROVE Short'
<1>1. CASE UNCHANGED <<outbound, tmp, delivered>>
  BY <1>1 DEF Short
<1>2. ASSUME NEW p \in Party, ProcessGot(p) PROVE Short'
  BY <1>2 DEF ProcessGot, Short
<1>3. ASSUME NEW p \in Party, WriteData(p) PROVE Short'
  <2>0. PICK f : f = bp[p].rname
    OBVIOUS
  <2> DEFINE n == bp[p].rxpos
  <2>1. Arrives(p) /\ Incoming(p).cmd = "DATA" /\ bp[p].RxState = "RxReceD"
    BY <1>3, WriteDataView
  <2>2. /\ f \in File /\ bp[p].rxfp = f /\ n \in Nat /\ n + 1 <= Size[f]
        /\ Len(Written(p)[f]) = n + 1
        /\ \A g \in File : g # f => Written(p)[g] = tmp[g]
    BY <2>0, <2>1, WrittenView
  <2>3. Size[f] \in Nat
    BY <2>2, SizesTyped
  <2>4. PICK t : /\ Takes(p, t)
                 /\ \/ Continues(p, t) /\ tmp' = Written(p)
                    \/ tmp' = [g \in File |-> IF g = bp[p].rxfp THEN <<>> ELSE tmp[g]]
    BY <1>3, WriteDataView
  <2>5. CASE Continues(p, t) /\ tmp' = Written(p)
    <3>1. n + 1 # Size[f]
      BY <2>0, <2>4, <2>5 DEF Continues, Takes
    <3>2. n + 1 < Size[f]
      BY <2>2, <2>3, <3>1
    <3> QED
      BY <2>2, <2>3, <2>5, <3>2 DEF Short
  <2>6. CASE tmp' = [g \in File |-> IF g = bp[p].rxfp THEN <<>> ELSE tmp[g]]
    <3>1. Len(<<>>) = 0 /\ 0 < Size[f]
      BY <2>2, <2>3
    <3> QED
      BY <2>2, <2>6, <3>1 DEF Short
  <2> QED
    BY <2>4, <2>5, <2>6
<1> QED
  BY <1>1, <1>2, <1>3, FilesChange

\* The file whose last block arrived is delivered, once more.
LEMMA WriteDataExchange ==
  ASSUME IInv, Talk, Contents, Kept, NEW p \in Party, WriteData(p)
  PROVE  [Exchange!Next]_Exchange!vars
<1>0. PICK f : f = bp[p].rname
  OBVIOUS
<1> DEFINE n == bp[p].rxpos
           c == Written(p)[f]
<1>1. Arrives(p) /\ Incoming(p).cmd = "DATA" /\ bp[p].RxState = "RxReceD" /\ outbound' = outbound
  BY WriteDataView DEF WriteData
<1>2. /\ f \in File /\ bp[p].rxfp = f /\ n \in Nat /\ Await(bp[p])
      /\ Written(p) \in [File -> Seq(Block)] /\ c = Blocks(f, version[f], n + 1)
  BY <1>0, <1>1, WrittenView
<1>3. \/ delivered' = delivered
      \/ /\ n + 1 = Size[f]
         /\ delivered' = [g \in File |-> IF g = bp[p].rxfp THEN Append(delivered[g], Written(p)[g]) ELSE delivered[g]]
  BY <1>0, WriteDataView
<1>4. CASE delivered' = delivered
  BY <1>1, <1>4 DEF Exchange!vars, WholeCopies
<1>5. CASE /\ n + 1 = Size[f]
           /\ delivered' = [g \in File |-> IF g = bp[p].rxfp THEN Append(delivered[g], Written(p)[g]) ELSE delivered[g]]
  <2>1. c \in Seq(Block) /\ IsWhole(f, c)
    <3>1. version[f] \in {1, 2}
      BY <1>2 DEF IInv, TypeOK
    <3> QED
      BY <1>2, <1>5, <3>1 DEF IsWhole
  <2>2. delivered'[f] = Append(delivered[f], c) /\ \A g \in File : g # f => delivered'[g] = delivered[g]
    BY <1>2, <1>5
  <2> HIDE DEF c
  <2>3. WholeCopies(f)' = WholeCopies(f) + 1
    <3>1. WholeCopies(f)' = Cardinality(Wholes(f, delivered'[f]))
      BY DEF WholeCopies, Wholes
    <3>2. delivered[f] \in Seq(Seq(Block)) /\ WholeCopies(f) = Cardinality(Wholes(f, delivered[f]))
      BY <1>2, CopiesView
    <3>3. Cardinality(Wholes(f, Append(delivered[f], c))) = Cardinality(Wholes(f, delivered[f])) + 1
      BY <2>1, <3>2, WholesGrow
    <3> QED
      BY <2>2, <3>1, <3>2, <3>3
  <2>4. \A g \in File : g # f => WholeCopies(g)' = WholeCopies(g)
    BY <2>2 DEF WholeCopies
  <2>5. CASE f \in Reply
    <3>1. \A g \in File \ Reply : WholeCopies(g)' = WholeCopies(g)
      BY <2>4, <2>5
    <3> QED
      BY <1>1, <3>1 DEF Exchange!vars
  <2>6. CASE f \notin Reply
    <3>1. f \in Underway
      BY <1>0, <1>2 DEF Underway, Awaited
    <3>2. f \in outbound
      BY <2>6, <3>1 DEF Kept
    <3>3. [g \in File \ Reply |-> WholeCopies(g)']
            = [[g \in File \ Reply |-> WholeCopies(g)] EXCEPT ![f] = @ + 1]
      BY <1>2, <2>3, <2>4, <2>6
    <3>4. Exchange!Deliver(f)
      BY <1>1, <3>2, <3>3 DEF Exchange!Deliver
    <3>5. f \in File \ Reply
      BY <1>2, <2>6
    <3> QED
      BY <3>4, <3>5 DEF Exchange!Next
  <2> QED
    BY <2>5, <2>6
<1> QED
  BY <1>3, <1>4, <1>5

\* The file whose M_GOT is followed was delivered.
LEMMA ProcessGotExchange ==
  ASSUME IInv, Acknowledged, Short, outbound \subseteq File \ Reply, NEW p \in Party, ProcessGot(p)
  PROVE  [Exchange!Next]_Exchange!vars
<1> DEFINE f == Message(p).file
<1>1. outbound' = outbound \/ outbound' = outbound \ {f}
  BY DEF ProcessGot
<1>2. delivered' = delivered
  BY DEF ProcessGot
<1>3. \A g : WholeCopies(g)' = WholeCopies(g)
  BY <1>2 DEF WholeCopies
<1>4. Processes(p, "GOT") /\ "GOT" \in Answering
  BY ProcessGotView
<1>5. PICK cmd \in Answering : cmd = "GOT"
  BY <1>4
<1>6. /\ bp[p].queue # <<>> /\ Message(p) = Head(bp[p].queue) /\ Message(p).cmd = cmd /\ f \in File
      /\ bp[p].queue \in Seq(Queued)
  BY <1>4, <1>5, ProcessesView
<1>7. f \in Told(bp[p].queue, cmd)
  BY <1>6, ToldTail
<1>8. Have(f)
  BY <1>5, <1>7 DEF Acknowledged, Acked
<1> HIDE DEF f
<1>9. ~IsWhole(f, tmp[f])
  <2>1. Len(tmp[f]) < Size[f] /\ Size[f] \in Nat
    BY <1>6, SizesTyped DEF Short
  <2>2. \A v : Len(Blocks(f, v, Size[f])) = Size[f]
    BY <2>1, BlocksView
  <2> QED
    BY <2>1, <2>2 DEF IsWhole
<1>10. WholeCopies(f) > 0
  BY <1>6, <1>8, <1>9, CopiesView DEF Have
<1>11. CASE outbound' = outbound
  BY <1>3, <1>11 DEF Exchange!vars
<1>12. CASE outbound' = outbound \ {f} /\ f \notin outbound
  <2>1. outbound' = outbound
    BY <1>12
  <2> QED
    BY <1>3, <2>1 DEF Exchange!vars
<1>13. CASE outbound' = outbound \ {f} /\ f \in outbound
  <2>1. f \in File \ Reply
    BY <1>13
  <2>2. Exchange!Release(f)
    BY <1>3, <1>10, <1>13, <2>1 DEF Exchange!Release
  <2> QED
    BY <2>1, <2>2 DEF Exchange!Next
<1> QED
  BY <1>1, <1>11, <1>12, <1>13

LEMMA NextExchange ==
  ASSUME IInv, Talk, Contents, Secured, Short, outbound \subseteq File \ Reply, ~CanFill, ~CanDie, [Next]_vars
  PROVE  [Exchange!Next]_Exchange!vars /\ outbound' \subseteq File \ Reply
<1>1. CASE UNCHANGED <<outbound, tmp, delivered>>
  BY <1>1 DEF Exchange!vars, WholeCopies
<1>2. ASSUME NEW p \in Party, ProcessGot(p) PROVE outbound' \subseteq File \ Reply
  BY <1>2 DEF ProcessGot
<1>3. ASSUME NEW p \in Party, WriteData(p) PROVE outbound' \subseteq File \ Reply
  BY <1>3 DEF WriteData
<1> QED
  BY <1>1, <1>2, <1>3, FilesChange, ProcessGotExchange, WriteDataExchange DEF Secured

LEMMA InitExchange ==
  ASSUME \A f \in File : Start[f] < Size[f] PROVE Init => Exchange!Init /\ Short /\ outbound \subseteq File \ Reply
<1> SUFFICES ASSUME Init PROVE Exchange!Init /\ Short /\ outbound \subseteq File \ Reply
  OBVIOUS
<1>1. outbound = File \ Reply /\ delivered = [f \in File |-> <<>>] /\ tmp = [f \in File |-> Blocks(f, 1, Start[f])]
  BY DEF Init
<1>2. \A f \in File : WholeCopies(f) = 0
  <2>1. \A f \in File : {i \in DOMAIN delivered[f] : IsWhole(f, delivered[f][i])} = {}
    BY <1>1
  <2>2. Cardinality({}) = 0
    BY FS_EmptySet
  <2> QED
    BY <2>1, <2>2 DEF WholeCopies
<1>3. Exchange!Init
  BY <1>1, <1>2 DEF Exchange!Init
<1>4. Short
  <2>1. \A f \in File : Start[f] \in Nat
    BY FilesKnown
  <2>2. \A f \in File : Len(Blocks(f, 1, Start[f])) = Start[f]
    BY <2>1, BlocksView
  <2> QED
    BY <1>1, <2>2 DEF Short
<1> QED
  BY <1>1, <1>3, <1>4

\* A session implements the exchange of FileExchange: whatever breaks, stalls, is
\* refused, replaced or called again, a file reaches the inbound while its sender
\* keeps it, and its sender lets go of it after that.  Without the assumption on
\* Start a file that is complete in tmp/ is acknowledged and never moved.
THEOREM ImplementsExchange ==
  ASSUME ~CanFill, ~CanDie, \A f \in File : Start[f] < Size[f]
  PROVE  Spec /\ []NeverMixed => ExchangesFiles
<1> DEFINE XInv == WInv /\ (~mixed => Secured /\ Short) /\ outbound \subseteq File \ Reply
<1>1. Init => XInv /\ Exchange!Init
  BY InitTyped, InitTalk, InitContents, InitSecured, InitExchange DEF WInv
<1>2. XInv /\ NeverMixed /\ NeverMixed' /\ [Next]_vars => XInv' /\ [Exchange!Next]_Exchange!vars
  <2> SUFFICES ASSUME XInv, ~mixed, ~mixed', [Next]_vars PROVE XInv' /\ [Exchange!Next]_Exchange!vars
    BY DEF NeverMixed
  <2>1. IInv /\ Talk /\ Contents /\ Secured /\ Short /\ outbound \subseteq File \ Reply
    BY DEF WInv
  <2>2. IInv' /\ Talk'
    BY <2>1, NextTyped, NextTalk
  <2>3. Contents' /\ Secured' /\ Short'
    BY <2>1, NextContents, NextSecured, ShortStep
  <2>4. [Exchange!Next]_Exchange!vars /\ outbound' \subseteq File \ Reply
    BY <2>1, NextExchange
  <2> QED
    BY <2>2, <2>3, <2>4 DEF WInv
<1> QED
  BY <1>1, <1>2, PTL DEF Spec, ExchangesFiles, Exchange!Safe

(***************************************************************************)
(* Nothing is mixed as long as each side has at most one file of more than *)
(* a block and no file is replaced: the only other FILE that could be left *)
(* open at the offset of an announcement is that file, and when it was     *)
(* closed after it had arrived there is nothing of it to go on with.       *)
(***************************************************************************)

\* A place to send a file from, in the list of s or on a wire, is within it.
Near(s) ==
  ~Over(s) => \A f \in File : s.state[f] = "NoState" /\ s.offset[f] > 0 => s.offset[f] < Size[f]
Inside(m) == m.cmd = "FILE" /\ m.offs > 0 => m.offs < Size[m.file]
Within(w) == \A i \in 1..Len(w) : Inside(w[i])

\* The last file that s opened with something in it was not complete then, and
\* nothing of it was left in the files t when it was closed.
Partial(s, t) ==
  ~Over(s) /\ s.rxbytes > 0 =>
    /\ s.rxfp \in File => s.rxbytes < Size[s.rxfp]
    /\ s.rxfp = Closed => s.rname \in File /\ Size[s.rname] > 1 /\ t[s.rname] = <<>>

Right(t) == \A f \in File : t[f] = Blocks(f, 1, Len(t[f]))
Firsts == \A f \in File : version[f] = 1
Apart == Firsts /\ Right(tmp) /\ \A p \in Party : Near(bp[p]) /\ Within(wire[p]) /\ Partial(bp[p], tmp)

\* Of the files that one side sends at most one has more than a block.
OneLong == \A f, g \in File : Owner[f] = Owner[g] /\ Size[f] > 1 /\ Size[g] > 1 => f = g

LEMMA WithinAppend ==
  ASSUME NEW S, NEW w \in Seq(S), NEW m \in S, Within(w), Inside(m) PROVE Within(Append(w, m))
<1>1. /\ Len(w) \in Nat /\ Len(Append(w, m)) = Len(w) + 1
      /\ \A i \in 1..Len(w) : Append(w, m)[i] = w[i]
      /\ Append(w, m)[Len(w) + 1] = m
  BY LenProperties, AppendProperties
<1>2. \A i \in 1..(Len(w) + 1) : i \in 1..Len(w) \/ i = Len(w) + 1
  BY <1>1
<1> QED
  BY <1>1, <1>2 DEF Within

LEMMA WithinTail ==
  ASSUME NEW S, NEW w \in Seq(S), w # <<>>, Within(w) PROVE Within(Tail(w)) /\ Inside(Head(w))
<1>1. /\ Len(w) \in Nat /\ Len(w) # 0 /\ Len(Tail(w)) = Len(w) - 1
      /\ \A i \in 1..Len(Tail(w)) : Tail(w)[i] = w[i + 1]
      /\ Head(w) = w[1]
  BY EmptySeq, LenProperties, HeadTailProperties
<1>2. \A i \in 1..(Len(w) - 1) : i + 1 \in 1..Len(w)
  BY <1>1
<1>3. 1 \in 1..Len(w)
  BY <1>1
<1> QED
  BY <1>1, <1>2, <1>3 DEF Within

LEMMA WithinPrefix ==
  ASSUME NEW S, NEW w \in Seq(S), NEW k \in 0..Len(w), Within(w) PROVE Within(SubSeq(w, 1, k))
<1>1. Len(w) \in Nat /\ k \in Nat /\ k <= Len(w)
  BY LenProperties
<1>2. /\ Len(SubSeq(w, 1, k)) = k
      /\ \A i \in 1..k : SubSeq(w, 1, k)[i] = w[i]
      /\ \A i \in 1..k : i \in 1..Len(w)
  BY <1>1
<1> QED
  BY <1>2 DEF Within

LEMMA ApartView == ASSUME Apart, NEW p \in Party PROVE Near(bp[p]) /\ Within(wire[p]) /\ Partial(bp[p], tmp)
BY DEF Apart

\* What a step of p has to show, when it reads at most one frame and sends at
\* most one.
LEMMA ApartStep ==
  ASSUME IInv, Apart, NEW p \in Party, version' = version, Right(tmp'), Near(bp'[p]), Partial(bp'[p], tmp'),
         bp'[Peer(p)] = bp[Peer(p)], Partial(bp[Peer(p)], tmp'),
         wire'[Peer(p)] = wire[Peer(p)] \/ (wire[Peer(p)] # <<>> /\ wire'[Peer(p)] = Tail(wire[Peer(p)])),
         wire'[p] = wire[p] \/ \E m \in Frame : wire'[p] = Append(wire[p], m) /\ Inside(m)
  PROVE  Apart'
<1> DEFINE q == Peer(p)
<1>1. q \in Party /\ \A r \in Party : r = p \/ r = q
  BY Peers
<1>2. wire[p] \in Seq(Frame) /\ wire[q] \in Seq(Frame)
  BY <1>1, WireTyped
<1>3. Within(wire[p]) /\ Within(wire[q]) /\ Near(bp[q])
  BY <1>1, ApartView
<1>4. Within(wire'[q])
  BY <1>2, <1>3, WithinTail
<1>5. Within(wire'[p])
  BY <1>2, <1>3, WithinAppend
<1>6. Firsts'
  BY DEF Apart, Firsts
<1>7. \A r \in Party : Near(bp'[r]) /\ Within(wire'[r]) /\ Partial(bp'[r], tmp')
  BY <1>1, <1>3, <1>4, <1>5, Zenon
<1> QED
  BY <1>6, <1>7 DEF Apart

LEMMA CalmApart == ASSUME IInv, Apart, NEW p \in Party, NEW t, Calm(p, t) PROVE Apart'
<1>1. Peer(p) \in Party
  BY Peers
<1>2. Near(bp[p]) /\ Partial(bp[p], tmp) /\ Partial(bp[Peer(p)], tmp)
  BY <1>1, ApartView
<1>3. Near(t)
  BY <1>2 DEF Calm, Near, Lists
<1>4. Partial(t, tmp)
  BY <1>2 DEF Calm, Partial, KeepOpen
<1>5. ASSUME NEW m \in Frame, Says(p, m) PROVE Inside(m)
  <2>1. m.cmd = "FILE" => m.file \in File
    BY FrameTyped
  <2> QED
    BY <1>2, <1>5, <2>1 DEF Says, Near, Inside, Calm
<1>6. wire'[p] = wire[p] \/ \E m \in Frame : wire'[p] = Append(wire[p], m) /\ Inside(m)
  BY <1>5 DEF Calm
<1>7. /\ version' = version /\ tmp' = tmp /\ bp'[p] = t /\ bp'[Peer(p)] = bp[Peer(p)]
      /\ wire'[Peer(p)] = wire[Peer(p)] \/ (wire[Peer(p)] # <<>> /\ wire'[Peer(p)] = Tail(wire[Peer(p)]))
  BY DEF Calm
<1>8. Right(tmp)
  BY DEF Apart
<1> QED
  BY <1>2, <1>3, <1>4, <1>6, <1>7, <1>8, ApartStep

\* M_FILE goes on with the file that it names.
LEMMA NothingMixed ==
  ASSUME IInv, Talk, Contents, Apart, ~mixed, OneLong, NEW p \in Party, AcceptFile(p) PROVE ~mixed'
<1> DEFINE m == Incoming(p)
           a == Announced(p)
           f == m.file
           n == Len(tmp[f])
           q == Peer(p)
           g == bp[p].rxfp
           r == bp[p].rname
<1>1. /\ Arrives(p) /\ m.cmd = "FILE" /\ a.rxfp # NoFile
      /\ mixed' = (mixed \/ a.rxfp # f \/ Stale(f))
  BY DEF AcceptFile
<1>2. /\ f \in File /\ m.offs \in Nat
      /\ a.rxfp = f \/ (m.offs # 0 /\ m.offs = bp[p].rxbytes /\ a.rxfp = g)
  BY <1>1, AnnouncedView
<1>3. /\ wire[q] \in Seq(Frame) /\ wire[q] # <<>> /\ m = Head(wire[q]) /\ ~Over(bp[p])
      /\ q \in Party /\ Peer(q) = p
  BY <1>1, Peers, WireTyped, RestView
<1>4. Owner[f] = q
  <2>1. Announces(q, wire[q])
    BY <1>3 DEF Talk, Owned
  <2>2. Head(wire[q]).cmd = "FILE" => Owner[Head(wire[q]).file] = q
    BY <1>3, <2>1, AnnouncesLess
  <2> QED
    BY <1>1, <1>3, <2>2
<1>5. tmp[f] = Blocks(f, 1, n) /\ version[f] = 1 /\ n \in Nat /\ DOMAIN tmp[f] = 1..n
  <2>1. tmp[f] \in Seq(Block)
    BY <1>2 DEF IInv, TypeOK
  <2>2. tmp[f] = Blocks(f, 1, n) /\ version[f] = 1
    BY <1>2 DEF Apart, Right, Firsts
  <2> QED
    BY <2>1, <2>2, LenProperties
<1>6. ~Stale(f)
  <2> HIDE DEF f, n
  <2>1. \A i \in 1..n : Blocks(f, 1, n)[i] = <<f, 1, i>>
    BY DEF Blocks
  <2> QED
    BY <1>5, <2>1 DEF Stale
<1>7. m.offs > 0 => m.offs = n /\ m.offs < Size[f]
  <2>1. Fit(f, wire[q], wire[p], bp[q], bp[p], n)
    BY <1>2, <1>4, FitView
  <2>2. Fits(wire[q], "FILE", f, n)
    BY <1>3, <2>1 DEF Fit
  <2>3. Marked(m, {"FILE"}, f)
    BY <1>1 DEF Marked
  <2>4. Within(wire[q])
    BY <1>3, ApartView
  <2>5. Inside(m)
    BY <1>3, <2>4, WithinTail
  <2>6. m.offs > 0 => m.offs = n
    <3> HIDE DEF f, n
    <3> QED
      BY <1>3, <2>2, <2>3, FitsTail
  <2> QED
    BY <1>1, <2>5, <2>6 DEF Inside
<1>8. Partial(bp[p], tmp) /\ Mine(p, bp[p]) /\ Good(bp[p])
  BY ApartView, MineView, BpGood
<1>9. g \in File \union {NoFile, Closed}
  BY <1>8, ZenonT(20) DEF Good, Session
<1>10. Size[f] \in Nat /\ \A h \in File : Size[h] \in Nat
  BY <1>2, FilesKnown
<1> HIDE DEF a, m, n
<1>11. ASSUME a.rxfp # f PROVE FALSE
  <2>1. m.offs > 0 /\ m.offs = bp[p].rxbytes /\ g \in File \union {Closed} /\ m.offs = n /\ Size[f] > 1
    <3>1. m.offs # 0 /\ m.offs = bp[p].rxbytes /\ a.rxfp = g
      BY <1>2, <1>11
    <3>2. m.offs > 0
      BY <1>2, <3>1
    <3> QED
      BY <1>1, <1>2, <1>7, <1>9, <1>10, <3>1, <3>2
  <2>2. CASE g \in File
    <3>1. bp[p].rxbytes < Size[g] /\ Owner[g] = q
      BY <1>3, <1>8, <2>1, <2>2 DEF Partial, Mine
    <3>2. Size[g] > 1
      BY <1>2, <1>10, <2>1, <2>2, <3>1
    <3>3. g = f
      BY <1>2, <1>4, <2>1, <2>2, <3>1, <3>2 DEF OneLong
    <3> QED
      BY <1>2, <1>11, <3>3
  <2>3. CASE g = Closed
    <3>1. r \in File /\ Size[r] > 1 /\ tmp[r] = <<>> /\ Owner[r] = q
      BY <1>3, <1>8, <2>1, <2>3 DEF Partial, Mine
    <3>2. r = f
      BY <1>2, <1>4, <2>1, <3>1 DEF OneLong
    <3>3. n = 0
      BY <3>1, <3>2 DEF n
    <3> QED
      BY <2>1, <3>3
  <2> QED
    BY <2>1, <2>2, <2>3
<1> QED
  BY <1>1, <1>6, <1>11 DEF a, m

\* The peer has nothing open of the files that p sends.
LEMMA PeerPartial ==
  ASSUME IInv, Talk, Apart, NEW p \in Party, NEW t, \A f \in File : Owner[f] = p => t[f] = tmp[f]
  PROVE  Partial(bp[Peer(p)], t)
<1> DEFINE q == Peer(p)
<1>1. q \in Party /\ Peer(q) = p
  BY Peers
<1>2. Partial(bp[q], tmp) /\ Mine(q, bp[q])
  BY <1>1, ApartView, MineView
<1>3. ~Over(bp[q]) /\ bp[q].rname \in File => Owner[bp[q].rname] = p
  BY <1>1, <1>2 DEF Mine
<1> QED
  BY <1>2, <1>3 DEF Partial

LEMMA AcceptFileApart ==
  ASSUME IInv, Talk, Contents, Apart, NEW p \in Party, AcceptFile(p), ~mixed' PROVE Apart'
<1> DEFINE m == Incoming(p)
           a == Announced(p)
           q == Peer(p)
<1>1. a.rxfp = m.file /\ a.rxbytes = Len(tmp[m.file])
  BY AcceptFileFits
<1>2. Arrives(p) /\ m.cmd = "FILE" /\ m.file \in File /\ a.rname = m.file
  BY AcceptFileView
<1>3. tmp' = tmp /\ version' = version
  BY DEF AcceptFile, disk
<1> HIDE DEF a
<1>4. PICK t : /\ bp' = [bp EXCEPT ![p] = t] /\ ~Over(t) /\ KeepTx(bp[p], t) /\ t.rname = m.file /\ Opens(a, t)
               /\ \/ \E r \in Frame : wire' = Sent(Rest(p), p, r) /\ r.cmd \in Answering
                  \/ wire' = Rest(p)
  BY AcceptFileView DEF a
<1> HIDE DEF m
<1>5. bp'[p] = t /\ bp'[q] = bp[q]
  BY <1>4, BpView
<1>6. Rest(p)[q] = Tail(wire[q]) /\ Rest(p)[p] = wire[p] /\ wire[q] # <<>> /\ ~Over(bp[p]) /\ q \in Party
  BY <1>2, RestView, Peers
<1>7. /\ wire'[q] = Tail(wire[q])
      /\ wire'[p] = wire[p] \/ \E r \in Frame : wire'[p] = Append(wire[p], r) /\ Inside(r)
  <2>1. CASE wire' = Rest(p)
    BY <1>6, <2>1
  <2>2. CASE \E r \in Frame : wire' = Sent(Rest(p), p, r) /\ r.cmd \in Answering
    <3>1. PICK r \in Frame : wire' = Sent(Rest(p), p, r) /\ r.cmd \in Answering
      BY <2>2
    <3>2. wire'[q] = Tail(wire[q]) /\ (wire'[p] = wire[p] \/ wire'[p] = Append(wire[p], r))
      BY <1>2, <3>1, SentRestView
    <3>3. Inside(r)
      BY <3>1 DEF Answering, Inside
    <3> QED
      BY <3>1, <3>2, <3>3
  <2> QED
    BY <1>4, <2>1, <2>2
<1>8. Near(t) /\ Right(tmp)
  BY <1>4, <1>6, ApartView DEF KeepTx, Near, Apart
<1>9. Partial(t, tmp)
  <2>1. t.rxfp \in {m.file, NoFile} /\ t.rxbytes = Len(tmp[m.file]) /\ (t.rxfp # NoFile => Len(tmp[m.file]) # Size[m.file])
    BY <1>1, <1>2, <1>4 DEF Opens, AlreadyHere
  <2>2. Len(tmp[m.file]) \in Nat /\ Len(tmp[m.file]) <= Size[m.file] /\ Size[m.file] \in Nat
    <3>1. tmp[m.file] \in Seq(Block)
      BY <1>2 DEF IInv, TypeOK
    <3> QED
      BY <1>2, <3>1, LenProperties, FilesKnown DEF Contents, Lengths
  <2>3. NoFile \notin File /\ NoFile # Closed /\ m.file # Closed
    BY <1>2, NotFiles DEF NoFile, Closed
  <2> QED
    BY <2>1, <2>2, <2>3 DEF Partial
<1>10. Partial(bp[q], tmp)
  BY <1>6, ApartView
<1> QED
  BY <1>3, <1>5, <1>6, <1>7, <1>8, <1>9, <1>10, ApartStep

LEMMA WriteDataApart == ASSUME IInv, Talk, Contents, Apart, NEW p \in Party, WriteData(p) PROVE Apart'
<1> DEFINE f == bp[p].rname
           n == bp[p].rxpos + 1
           q == Peer(p)
           r == [cmd |-> "GOT", file |-> bp[p].rname, offs |-> 0]
<1>1. Arrives(p) /\ Incoming(p).cmd = "DATA" /\ bp[p].RxState = "RxReceD" /\ version' = version
  BY WriteDataView, ZenonT(60) DEF WriteData, world
<1>2. /\ f \in File /\ Owner[f] = q /\ bp[p].rxfp = f /\ bp[p].rxpos \in Nat
      /\ Written(p)[f] = Blocks(f, version[f], n) /\ Len(Written(p)[f]) = n
      /\ \A g \in File : g # f => Written(p)[g] = tmp[g]
  BY <1>1, WrittenView
<1>3. PICK t : /\ Takes(p, t)
               /\ \/ Continues(p, t) /\ tmp' = Written(p)
                  \/ Completes(p, t) /\ tmp' = [g \in File |-> IF g = bp[p].rxfp THEN <<>> ELSE tmp[g]]
  BY WriteDataView
<1>4. /\ bp'[p] = t /\ bp'[q] = bp[q] /\ ~Over(t) /\ KeepTx(bp[p], t) /\ t.rname = f /\ t.rxbytes = bp[p].rxbytes
  BY <1>3, BpView DEF Takes
<1>5. /\ Rest(p)[q] = Tail(wire[q]) /\ Rest(p)[p] = wire[p] /\ wire[q] # <<>> /\ ~Over(bp[p])
      /\ q \in Party /\ q # p
  BY <1>1, RestView, Peers
<1>6. Near(bp[p]) /\ Partial(bp[p], tmp) /\ Right(tmp) /\ version[f] = 1
  BY <1>2, ApartView DEF Apart, Firsts
<1>7. Near(t)
  BY <1>4, <1>5, <1>6 DEF KeepTx, Near
<1>8. r \in Frame /\ Inside(r)
  BY <1>2, FramesTyped DEF Inside
<1>9. wire'[q] = Tail(wire[q]) /\ (wire'[p] = wire[p] \/ wire'[p] = Append(wire[p], r))
  <2>1. CASE Continues(p, t)
    BY <1>5, <2>1 DEF Continues
  <2>2. CASE Completes(p, t)
    <3>1. wire' = Sent(Rest(p), p, r)
      BY <2>2 DEF Completes
    <3> HIDE DEF r
    <3> QED
      BY <1>1, <3>1, SentRestView
  <2> QED
    BY <1>3, <2>1, <2>2
<1> HIDE DEF f, n, r
<1>10. \A g \in File : g # f => tmp'[g] = tmp[g]
  BY <1>2, <1>3
<1>11. Partial(bp[q], tmp')
  BY <1>2, <1>5, <1>10, PeerPartial
<1>12. Right(tmp') /\ Partial(t, tmp')
  <2>1. CASE Continues(p, t) /\ tmp' = Written(p)
    <3>1. tmp'[f] = Blocks(f, 1, Len(tmp'[f]))
      BY <1>2, <1>6, <2>1
    <3>2. Right(tmp')
      BY <1>6, <1>10, <3>1 DEF Right
    <3>3. t.rxfp = f
      BY <1>2, <2>1 DEF Continues
    <3>4. f # Closed
      BY <1>2, NotFiles
    <3> QED
      BY <1>2, <1>4, <1>5, <1>6, <3>2, <3>3, <3>4 DEF Partial
  <2>2. CASE Completes(p, t) /\ tmp' = [g \in File |-> IF g = bp[p].rxfp THEN <<>> ELSE tmp[g]]
    <3>1. tmp'[f] = <<>> /\ t.rxfp = Closed
      BY <1>2, <2>2 DEF Completes
    <3>2. Blocks(f, 1, 0) = <<>> /\ Len(tmp'[f]) = 0
      BY <3>1, BlocksView
    <3>3. tmp'[f] = Blocks(f, 1, Len(tmp'[f]))
      BY <3>1, <3>2
    <3>4. Right(tmp')
      BY <1>6, <1>10, <3>3 DEF Right
    <3>5. bp[p].rxbytes > 0 => Size[f] > 1
      <4>1. bp[p].rxbytes > 0 => bp[p].rxbytes < Size[f]
        BY <1>2, <1>5, <1>6 DEF Partial
      <4>2. bp[p].rxbytes \in Nat /\ Size[f] \in Nat
        <5>1. bp[p] \in Session
          BY BpGood DEF Good
        <5>2. bp[p].rxbytes \in Nat
          BY <5>1, ZenonT(20) DEF Session
        <5> QED
          BY <1>2, <5>2, FilesKnown
      <4> QED
        BY <4>1, <4>2
    <3>6. Closed \notin File
      BY NotFiles
    <3>7. Partial(t, tmp')
      BY <1>2, <1>4, <3>1, <3>5, <3>6 DEF Partial
    <3> QED
      BY <3>4, <3>7
  <2> QED
    BY <1>3, <2>1, <2>2
<1>13. wire'[p] = wire[p] \/ \E m \in Frame : wire'[p] = Append(wire[p], m) /\ Inside(m)
  BY <1>8, <1>9
<1> QED
  BY <1>1, <1>4, <1>5, <1>7, <1>9, <1>11, <1>12, <1>13, ApartStep

\* What is left of a file that was not written to the end is its beginning.
LEMMA BlocksPrefix ==
  ASSUME NEW f, NEW v, NEW m \in Nat, NEW n \in 0..m PROVE SubSeq(Blocks(f, v, m), 1, n) = Blocks(f, v, n)
<1> DEFINE b == Blocks(f, v, m)
           S == {<<f, v, i>> : i \in Nat}
           c == SubSeq(b, 1, n)
<1>1. b \in Seq(S) /\ Len(b) = m
  BY DEF Blocks
<1>2. \A i \in 1..m : b[i] = <<f, v, i>>
  BY DEF Blocks
<1> HIDE DEF b, S
<1>3. c \in Seq(S) /\ Len(c) = n /\ \A i \in 1..n : c[i] = b[i]
  BY <1>1, SubSeqProperties
<1>4. c = [i \in 1..n |-> c[i]]
  BY <1>3
<1>5. \A i \in 1..n : c[i] = <<f, v, i>>
  BY <1>2, <1>3
<1> HIDE DEF c
<1>6. c = Blocks(f, v, n)
  BY <1>4, <1>5 DEF Blocks
<1> QED
  BY <1>6 DEF c, b

LEMMA UnflushedRight ==
  ASSUME IInv, NEW p \in Party, NEW t \in [File -> Seq(Block)], Right(t), NEW u \in Unflushed(p, t) PROVE Right(u)
<1> DEFINE g == bp[p].rxfp
<1>0. bp[p] \in Session
  BY BpGood DEF Good
<1>1. bp[p].rxbytes \in Nat
  BY <1>0, SMT DEF Session
<1>2. CASE u = t
  BY <1>2
<1>3. CASE g \in File /\ \E n \in bp[p].rxbytes..Len(t[g]) : u = [t EXCEPT ![g] = SubSeq(@, 1, n)]
  <2>1. PICK n \in bp[p].rxbytes..Len(t[g]) : u = [t EXCEPT ![g] = SubSeq(t[g], 1, n)]
    BY <1>3
  <2>2. t[g] \in Seq(Block) /\ Len(t[g]) \in Nat
    <3>1. t[g] \in Seq(Block)
      BY <1>3
    <3> QED
      BY <3>1, LenProperties
  <2>3. n \in 0..Len(t[g])
    BY <1>1, <2>1, <2>2
  <2>4. u[g] = SubSeq(t[g], 1, n) /\ \A f \in File : f # g => u[f] = t[f]
    BY <1>3, <2>1
  <2>5. t[g] = Blocks(g, 1, Len(t[g]))
    BY <1>3 DEF Right
  <2>6. u[g] = Blocks(g, 1, n)
    <3>1. PICK k \in Nat : k = Len(t[g])
      BY <2>2
    <3>2. t[g] = Blocks(g, 1, k) /\ n \in 0..k
      BY <2>3, <2>5, <3>1
    <3>3. SubSeq(Blocks(g, 1, k), 1, n) = Blocks(g, 1, n)
      BY <3>1, <3>2, BlocksPrefix
    <3> QED
      BY <2>4, <3>2, <3>3
  <2>7. Len(u[g]) = n
    <3>1. n \in Nat
      BY <2>3
    <3> QED
      BY <2>6, <3>1, BlocksView
  <2> QED
    BY <2>4, <2>6, <2>7 DEF Right
<1> QED
  BY <1>2, <1>3 DEF Unflushed

\* A step that ends p, and may leave less of the file it had open.
LEMMA StopApart ==
  ASSUME IInv, Talk, Apart, NEW p \in Party, NEW s, Over(s), bp'[p] = s, bp'[Peer(p)] = bp[Peer(p)],
         version' = version, Right(tmp'), \A f \in File : Owner[f] = p => tmp'[f] = tmp[f],
         wire'[Peer(p)] = wire[Peer(p)] \/ (wire[Peer(p)] # <<>> /\ wire'[Peer(p)] = Tail(wire[Peer(p)])),
         wire'[p] = wire[p] \/ \E m \in Frame : wire'[p] = Append(wire[p], m) /\ m.cmd # "FILE"
  PROVE  Apart'
<1>1. Near(s) /\ Partial(s, tmp') /\ Partial(bp[Peer(p)], tmp')
  BY PeerPartial DEF Near, Partial
<1>2. wire'[p] = wire[p] \/ \E m \in Frame : wire'[p] = Append(wire[p], m) /\ Inside(m)
  BY DEF Inside
<1> QED
  BY <1>1, <1>2, ApartStep

LEMMA KilledApart == ASSUME IInv, Talk, Contents, Apart, NEW p \in Party, Killed(p) PROVE Apart'
<1>1. /\ ~Over(bp[p]) /\ bp' = [bp EXCEPT ![p] = Ended(bp[p], "failed")] /\ wire' = wire
      /\ version' = version /\ tmp' \in Unflushed(p, tmp)
  BY DEF Killed, world, Done, Over
<1>2. tmp \in [File -> Seq(Block)] /\ Right(tmp)
  BY DEF IInv, TypeOK, Apart
<1>3. Right(tmp')
  BY <1>1, <1>2, UnflushedRight
<1>4. \A f \in File : Owner[f] = p => tmp'[f] = tmp[f]
  BY <1>1, <1>2, OpenIsOthers
<1>5. bp'[p] = Ended(bp[p], "failed") /\ bp'[Peer(p)] = bp[Peer(p)] /\ Over(Ended(bp[p], "failed"))
  BY <1>1, BpView, BpGood, EndedView
<1> QED
  BY <1>1, <1>3, <1>4, <1>5, StopApart

LEMMA KilledBeforeMoveApart ==
  ASSUME IInv, Talk, Contents, Apart, NEW p \in Party, KilledBeforeMove(p) PROVE Apart'
<1> DEFINE m == [cmd |-> "GOT", file |-> bp[p].rname, offs |-> 0]
           f == bp[p].rname
<1>1. /\ Arrives(p) /\ Incoming(p).cmd = "DATA" /\ bp[p].RxState = "RxReceD"
      /\ bp' = [bp EXCEPT ![p] = Ended(bp[p], "failed")]
      /\ wire' = Rest(p) \/ wire' = Sent(Rest(p), p, m)
      /\ version' = version /\ tmp' \in Unflushed(p, Written(p))
  BY DEF KilledBeforeMove, world
<1>2. /\ f \in File /\ Owner[f] = Peer(p) /\ bp[p].rxpos \in Nat
      /\ Written(p) \in [File -> Seq(Block)] /\ Written(p)[f] = Blocks(f, version[f], bp[p].rxpos + 1)
      /\ Len(Written(p)[f]) = bp[p].rxpos + 1
      /\ \A g \in File : g # f => Written(p)[g] = tmp[g]
  BY <1>1, WrittenView
<1>3. m \in Frame /\ m.cmd # "FILE"
  BY <1>2, FramesTyped
<1> HIDE DEF m, f
<1>4. /\ ~Over(bp[p]) /\ wire[Peer(p)] # <<>> /\ wire'[Peer(p)] = Tail(wire[Peer(p)])
      /\ wire'[p] = wire[p] \/ wire'[p] = Append(wire[p], m)
  BY <1>1, RestView, SentRestView
<1>5. Right(Written(p))
  <2>1. version[f] = 1 /\ Right(tmp)
    BY <1>2 DEF Apart, Firsts
  <2> QED
    BY <1>2, <2>1 DEF Right
<1>6. Right(tmp')
  BY <1>1, <1>2, <1>5, UnflushedRight
<1>7. \A g \in File : Owner[g] = p => tmp'[g] = tmp[g]
  <2>1. \A g \in File : Owner[g] = p => tmp'[g] = Written(p)[g]
    BY <1>1, <1>2, <1>4, OpenIsOthers
  <2>2. Peer(p) # p
    BY Peers
  <2> QED
    BY <1>2, <2>1, <2>2
<1>8. wire'[p] = wire[p] \/ \E a \in Frame : wire'[p] = Append(wire[p], a) /\ a.cmd # "FILE"
  BY <1>3, <1>4
<1>9. bp'[p] = Ended(bp[p], "failed") /\ bp'[Peer(p)] = bp[Peer(p)] /\ Over(Ended(bp[p], "failed"))
  BY <1>1, BpView, BpGood, EndedView
<1> QED
  BY <1>1, <1>4, <1>6, <1>7, <1>8, <1>9, StopApart

LEMMA CutApart == ASSUME IInv, Apart, Cut PROVE Apart'
<1>1. PICK n \in [Party -> 0..Window] :
        wire' = [p \in Party |-> SubSeq(wire[p], 1, IF n[p] < Len(wire[p]) THEN n[p] ELSE Len(wire[p]))]
  BY DEF Cut
<1>2. bp' = bp /\ tmp' = tmp /\ version' = version
  BY DEF Cut, disk
<1> DEFINE k(p) == IF n[p] < Len(wire[p]) THEN n[p] ELSE Len(wire[p])
<1>3. ASSUME NEW p \in Party
      PROVE  wire[p] \in Seq(Frame) /\ k(p) \in 0..Len(wire[p]) /\ wire'[p] = SubSeq(wire[p], 1, k(p))
  <2>1. wire[p] \in Seq(Frame)
    BY WireTyped
  <2>2. Len(wire[p]) \in Nat
    BY <2>1, LenProperties
  <2>3. n[p] \in Nat
    BY <1>1, LimitsKnown
  <2> QED
    BY <1>1, <2>1, <2>2, <2>3
<1> HIDE DEF k
<1>4. \A p \in Party : Within(wire'[p])
  BY <1>3, WithinPrefix, ApartView
<1> QED
  BY <1>2, <1>4 DEF Apart, Firsts

LEMMA FreshApart == Fresh => \A p \in Party : Near(bp[p]) /\ Within(wire[p]) /\ Partial(bp[p], tmp)
<1> SUFFICES ASSUME Fresh, NEW p \in Party PROVE Near(bp[p]) /\ Within(wire[p]) /\ Partial(bp[p], tmp)
  OBVIOUS
<1>1. wire[p] = <<>> /\ bp[p].rxfp = NoFile /\ \A f \in File : bp[p].state[f] = "Absent"
  BY NewSessionView DEF Fresh
<1>2. NoFile \notin File /\ NoFile # Closed
  BY NotFiles DEF NoFile, Closed
<1> QED
  BY <1>1, <1>2 DEF Near, Within, Partial

LEMMA RetryApart == ASSUME Apart, Retry PROVE Apart'
<1>1. Retry => Fresh'
  BY DEF Retry, Fresh
<1>2. Retry => (\A p \in Party : Near(bp[p]) /\ Within(wire[p]) /\ Partial(bp[p], tmp))'
  BY <1>1, FreshApart, PTL
<1>3. tmp' = tmp /\ version' = version
  BY DEF Retry, disk
<1> QED
  BY <1>2, <1>3 DEF Apart, Firsts

LEMMA InitApart == Init => Apart
<1> SUFFICES ASSUME Init PROVE Apart
  OBVIOUS
<1>1. Fresh /\ Firsts
  BY DEF Init, Fresh, Firsts
<1>2. Right(tmp)
  <2> SUFFICES ASSUME NEW f \in File PROVE tmp[f] = Blocks(f, 1, Len(tmp[f]))
    BY DEF Right
  <2>1. tmp[f] = Blocks(f, 1, Start[f]) /\ Start[f] \in Nat
    BY FilesKnown DEF Init
  <2>2. Len(Blocks(f, 1, Start[f])) = Start[f]
    BY <2>1, BlocksView
  <2> QED
    BY <2>1, <2>2
<1> QED
  BY <1>1, <1>2, FreshApart DEF Apart

LEMMA ReceiveApart ==
  ASSUME IInv, Talk, Contents, Apart, ~CanFill, NEW p \in Party, Receive(p), ~mixed' PROVE Apart'
<1>1. CASE QueueMessage(p) \/ Ignore(p) \/ ReceiveEOB(p) \/ LowDiskspace(p) \/ ReceiveUnexpected(p) \/ SeekClosedFile(p)
  <2>1. PICK t : Calm(p, t)
    BY <1>1, ReceiverQuietCalm, ReceiverStopsCalm
  <2> QED
    BY <2>1, CalmApart
<1>2. ~CloseFails(p)
  BY DEF CloseFails
<1> QED
  BY <1>1, <1>2, NoWriteFails, AcceptFileApart, WriteDataApart, Zenon DEF Receive

LEMMA NextApart ==
  ASSUME IInv, Talk, Contents, Apart, ~CanFill, ~CanReplace, [Next]_vars, ~mixed' PROVE Apart'
<1>1. CASE \E p \in Party : Receive(p)
  BY <1>1, ReceiveApart
<1>2. CASE \E p \in Party : Transmit(p)
  BY <1>2, TransmitCalm, CalmApart
<1>3. CASE \E p \in Party : HangUp(p) \/ Timeout(p)
  BY <1>3, EndsCalm, CalmApart
<1>4. CASE \E p \in Party : Killed(p) \/ KilledBeforeMove(p)
  BY <1>4, KilledApart, KilledBeforeMoveApart
<1>5. CASE Cut \/ Retry
  BY <1>5, CutApart, RetryApart
<1>6. CASE (\E f \in File : Replace(f)) \/ UNCHANGED vars
  <2>1. \A f \in File : ~Replace(f)
    BY DEF Replace
  <2> QED
    BY <1>6, <2>1 DEF vars, Apart, Firsts
<1> QED
  BY <1>1, <1>2, <1>3, <1>4, <1>5, <1>6, Zenon DEF Next

\* Only an announcement can mix.
LEMMA MixedByFile == ASSUME [Next]_vars, \A p \in Party : ~AcceptFile(p) PROVE mixed' = mixed
<1>1. CASE \E p \in Party : Receive(p)
  BY <1>1, ZenonT(60) DEF Receive, QueueMessage, Ignore, ReceiveEOB, LowDiskspace, WriteData, CloseFails,
              WriteFails, ReceiveUnexpected, SeekClosedFile
<1>2. CASE \E p \in Party : Transmit(p)
  BY <1>2, ZenonT(60) DEF Transmit, MakeList, SendFile, PassFile, SendEOB, SendBlock, ReadFails, ProcessGet, ProcessGot,
              ProcessSkip, CloseNoFile, WaitAcks
<1>3. CASE \E p \in Party : HangUp(p) \/ Timeout(p) \/ Killed(p) \/ KilledBeforeMove(p)
  BY <1>3 DEF HangUp, Timeout, Fails, Killed, KilledBeforeMove
<1>4. CASE Cut \/ Retry \/ (\E f \in File : Replace(f)) \/ UNCHANGED vars
  BY <1>4 DEF Cut, Retry, Replace, vars
<1> QED
  BY <1>1, <1>2, <1>3, <1>4, Zenon DEF Next

PureInv == WInv /\ Apart /\ ~mixed

LEMMA NextPure ==
  ASSUME ~CanFill, ~CanReplace, OneLong PROVE PureInv /\ [Next]_vars => PureInv'
<1> SUFFICES ASSUME PureInv, [Next]_vars PROVE PureInv'
  OBVIOUS
<1>1. IInv /\ Talk /\ Contents /\ Apart /\ ~mixed
  BY DEF PureInv, WInv
<1>2. ~mixed'
  BY <1>1, MixedByFile, NothingMixed
<1>3. IInv' /\ Talk'
  BY <1>1, NextTyped, NextTalk
<1>4. Contents' /\ Apart'
  BY <1>1, <1>2, NextContents, NextApart
<1> QED
  BY <1>2, <1>3, <1>4 DEF PureInv, WInv

LEMMA InitPure == Init => PureInv
BY InitTyped, InitTalk, InitContents, InitApart DEF WInv, PureInv, Init

\* No data are added to another file than their own, through broken lines, kills,
\* refused files and any number of calls, when each side sends at most one file
\* of more than one block, no file is replaced and the disk does not fill up.
THEOREM NothingIsMixed == ASSUME ~CanFill, ~CanReplace, OneLong PROVE Spec => []NeverMixed
<1>1. PureInv => NeverMixed
  BY DEF PureInv, NeverMixed
<1> QED
  BY <1>1, InitPure, NextPure, PTL DEF Spec

(***************************************************************************)
(* No file arrives twice in a session.  Once it arrived it is not under    *)
(* way, nobody asks for it, and its sender waits for the answer or took    *)
(* the file off the outbound, so that no list has it again.                *)
(***************************************************************************)
Asked(w, f) == f \in Told(w, "GET") \union Told(w, "SKIP")
Settled(s, f, o) == s.state[f] \in {"Sending", "IsSent"} \/ (f \notin o /\ s.state[f] \in {"Absent", "Got"})

\* The file f is not under way, with w, v, s and t as for Single and the outbound o.
Idle(f, w, v, s, t, o) ==
  /\ f \notin Told(w, "FILE") /\ ~Asked(v, f) /\ f \notin Awaited(t)
  /\ Over(s) \/ (~Asked(s.queue, f) /\ Settled(s, f, o))
NoMore(f) == LET o == Owner[f] IN Idle(f, wire[o], wire[Peer(o)], bp[o], bp[Peer(o)], outbound)

\* A file that a request does not bring arrives once in a session at most.
Once == \A f \in File \ Reply : Len(delivered[f]) <= sessions /\ (Len(delivered[f]) = sessions => NoMore(f))

\* A step of p, whose session becomes t, leaves a settled file settled, announces
\* a file only from the list and asks only for a file that is announced.
Settles(p, t) ==
  /\ outbound' \subseteq outbound
  /\ \A f \in File \ Reply :
       ~Over(t) /\ ~Asked(bp[p].queue, f) /\ Settled(bp[p], f, outbound) => Settled(t, f, outbound')
Asks(p, m) ==
  /\ m.cmd = "FILE" => bp[p].state[m.file] = "NoState"
  /\ m.cmd \in {"GET", "SKIP"} =>
       wire[Peer(p)] # <<>> /\ Head(wire[Peer(p)]).cmd = "FILE" /\ Head(wire[Peer(p)]).file = m.file
Proceeds(p, t) ==
  /\ ~Over(bp[p]) /\ bp'[p] = t /\ bp'[Peer(p)] = bp[Peer(p)]
  /\ Expects(p, t) /\ (~Over(t) => Queues(p, t)) /\ Settles(p, t)
  /\ wire'[Peer(p)] = wire[Peer(p)] \/ (wire[Peer(p)] # <<>> /\ wire'[Peer(p)] = Tail(wire[Peer(p)]))
  /\ wire'[p] = wire[p] \/ \E m \in Frame : wire'[p] = Append(wire[p], m) /\ Asks(p, m)

\* What is told on a wire that lost its head, and on one that got a frame.
LEMMA AskedLess ==
  ASSUME NEW S, NEW w \in Seq(S), NEW u, u = w \/ (w # <<>> /\ u = Tail(w)), NEW f
  PROVE  (f \in Told(u, "FILE") => f \in Told(w, "FILE")) /\ (Asked(u, f) => Asked(w, f))
<1>1. CASE u = w
  BY <1>1
<1>2. CASE w # <<>> /\ u = Tail(w)
  BY <1>2, ToldTail DEF Asked
<1> QED
  BY <1>1, <1>2

LEMMA AskedAppend ==
  ASSUME NEW S, NEW w \in Seq(S), NEW m \in S, NEW f, ~Asked(w, f), m.cmd \in {"GET", "SKIP"} => m.file # f
  PROVE  ~Asked(Append(w, m), f)
<1>1. /\ Told(Append(w, m), "GET") \subseteq Told(w, "GET") \union {g \in {m.file} : m.cmd = "GET"}
      /\ Told(Append(w, m), "SKIP") \subseteq Told(w, "SKIP") \union {g \in {m.file} : m.cmd = "SKIP"}
  BY ToldAppend
<1> QED
  BY <1>1 DEF Asked

LEMMA AskedHead ==
  ASSUME NEW S, NEW w \in Seq(S), w # <<>>, NEW f
  PROVE  /\ Head(w).cmd \in {"GET", "SKIP"} /\ Head(w).file = f => Asked(w, f)
         /\ Head(w).cmd = "FILE" /\ Head(w).file = f => f \in Told(w, "FILE")
BY ToldTail DEF Asked

\* The steps of the sender of an idle file.
LEMMA IdleOwner ==
  ASSUME IInv, NEW p \in Party, NEW t, Proceeds(p, t), NEW f \in File \ Reply,
         Idle(f, wire[p], wire[Peer(p)], bp[p], bp[Peer(p)], outbound)
  PROVE  Idle(f, wire'[p], wire'[Peer(p)], bp'[p], bp'[Peer(p)], outbound')
<1> DEFINE q == Peer(p)
<1>1. q \in Party /\ wire[p] \in Seq(Frame) /\ wire[q] \in Seq(Frame) /\ bp[p].queue \in Seq(Queued)
  BY Peers, WireTyped, BpGood, QueueTyped
<1>2. bp'[p] = t /\ bp'[q] = bp[q] /\ ~Over(bp[p])
  BY DEF Proceeds
<1>3. ~Asked(bp[p].queue, f) /\ Settled(bp[p], f, outbound) /\ f \notin Told(wire[p], "FILE") /\ ~Asked(wire[q], f)
  BY <1>2 DEF Idle
<1> HIDE DEF q
<1>4. f \notin Told(wire'[p], "FILE")
  <2>1. CASE wire'[p] = wire[p]
    BY <1>3, <2>1
  <2>2. ASSUME NEW m \in Frame, wire'[p] = Append(wire[p], m), Asks(p, m) PROVE f \notin Told(wire'[p], "FILE")
    <3>1. m.cmd = "FILE" => m.file # f
      BY <1>3, <2>2 DEF Asks, Settled
    <3>2. Told(Append(wire[p], m), "FILE") \subseteq Told(wire[p], "FILE") \union {g \in {m.file} : m.cmd = "FILE"}
      BY <1>1, ToldAppend
    <3> QED
      BY <1>3, <2>2, <3>1, <3>2
  <2> QED
    BY <2>1, <2>2 DEF Proceeds
<1>5. ~Asked(wire'[q], f)
  BY <1>1, <1>3, AskedLess DEF Proceeds, q
<1>6. f \notin Awaited(bp'[q])
  BY <1>2 DEF Idle, q
<1>7. ASSUME ~Over(t) PROVE ~Asked(t.queue, f) /\ Settled(t, f, outbound')
  <2>1. Queues(p, t) /\ Settles(p, t)
    BY <1>7 DEF Proceeds
  <2>2. Settled(t, f, outbound')
    BY <1>3, <1>7, <2>1 DEF Settles
  <2>3. CASE t.queue = bp[p].queue \/ (bp[p].queue # <<>> /\ t.queue = Tail(bp[p].queue))
    <3>0. PICK b, u : b = bp[p].queue /\ u = t.queue
      OBVIOUS
    <3>2. b \in Seq(Queued) /\ ~Asked(b, f) /\ (u = b \/ (b # <<>> /\ u = Tail(b)))
      BY <1>1, <1>3, <2>3, <3>0
    <3>3. ~Asked(u, f)
      BY <3>2, AskedLess
    <3>1. ~Asked(t.queue, f)
      BY <3>0, <3>3
    <3> QED
      BY <2>2, <3>1
  <2>4. CASE wire[q] # <<>> /\ Head(wire[q]) \in Queued /\ t.queue = Append(bp[p].queue, Head(wire[q]))
    <3>1. Head(wire[q]).cmd \in {"GET", "SKIP"} => Head(wire[q]).file # f
      BY <1>1, <1>3, <2>4, AskedHead
    <3> QED
      BY <1>1, <1>3, <2>2, <2>4, <3>1, AskedAppend
  <2> QED
    BY <2>1, <2>3, <2>4 DEF Queues, q
<1> QED
  BY <1>2, <1>4, <1>5, <1>6, <1>7 DEF Idle, q

\* The steps of its receiver.
LEMMA IdleReceiver ==
  ASSUME IInv, NEW p \in Party, NEW t, Proceeds(p, t), NEW f \in File \ Reply,
         Idle(f, wire[Peer(p)], wire[p], bp[Peer(p)], bp[p], outbound)
  PROVE  Idle(f, wire'[Peer(p)], wire'[p], bp'[Peer(p)], bp'[p], outbound')
<1> DEFINE q == Peer(p)
<1>1. q \in Party /\ wire[p] \in Seq(Frame) /\ wire[q] \in Seq(Frame)
  BY Peers, WireTyped
<1>2. bp'[p] = t /\ bp'[q] = bp[q]
  BY DEF Proceeds
<1>3. f \notin Told(wire[q], "FILE") /\ ~Asked(wire[p], f) /\ f \notin Awaited(bp[p])
  BY DEF Idle
<1> HIDE DEF q
<1>4. f \notin Told(wire'[q], "FILE")
  BY <1>1, <1>3, AskedLess DEF Proceeds, q
<1>5. wire[q] # <<>> /\ Head(wire[q]).cmd = "FILE" => Head(wire[q]).file # f
  BY <1>1, <1>3, AskedHead
<1>6. ~Asked(wire'[p], f)
  <2>1. CASE wire'[p] = wire[p]
    BY <1>3, <2>1
  <2>2. ASSUME NEW m \in Frame, wire'[p] = Append(wire[p], m), Asks(p, m) PROVE ~Asked(wire'[p], f)
    <3>1. m.cmd \in {"GET", "SKIP"} => m.file # f
      BY <1>5, <2>2 DEF Asks, q
    <3> QED
      BY <1>1, <1>3, <2>2, <3>1, AskedAppend
  <2> QED
    BY <2>1, <2>2 DEF Proceeds
<1>7. f \notin Awaited(t)
  BY <1>3, <1>5 DEF Proceeds, Expects, Awaited, q
<1>8. Over(bp[q]) \/ (~Asked(bp[q].queue, f) /\ Settled(bp[q], f, outbound'))
  BY DEF Idle, Proceeds, Settles, Settled, q
<1> QED
  BY <1>2, <1>4, <1>6, <1>7, <1>8 DEF Idle, q

LEMMA NoMoreStep ==
  ASSUME IInv, NEW p \in Party, NEW t, Proceeds(p, t), NEW f \in File \ Reply, NoMore(f) PROVE NoMore(f)'
<1>1. (Owner[f] = p \/ Owner[f] = Peer(p)) /\ Peer(Peer(p)) = p
  BY Peers, FilesKnown
<1>2. CASE Owner[f] = p
  BY <1>2, IdleOwner DEF NoMore
<1>3. CASE Owner[f] = Peer(p)
  BY <1>1, <1>3, IdleReceiver DEF NoMore
<1> QED
  BY <1>1, <1>2, <1>3

\* A step of p in which nothing is delivered.
LEMMA OnceStep ==
  ASSUME IInv, Once, NEW p \in Party, NEW t, Proceeds(p, t), delivered' = delivered, sessions' = sessions
  PROVE  Once'
<1>1. \A f \in File \ Reply : NoMore(f) => NoMore(f)'
  BY NoMoreStep
<1> QED
  BY <1>1 DEF Once

LEMMA CalmOnce ==
  ASSUME IInv, Once, NEW p \in Party, NEW t, Calm(p, t), Settles(p, t), sessions' = sessions PROVE Once'
<1>1. Expects(p, t) /\ (~Over(t) => Queues(p, t))
  BY DEF Calm, Expects, KeepRx, Lists, Queues
<1>2. \A m : Says(p, m) => Asks(p, m)
  BY DEF Says, Asks
<1>3. Proceeds(p, t)
  BY <1>1, <1>2 DEF Proceeds, Calm
<1>4. delivered' = delivered
  BY DEF Calm
<1> QED
  BY <1>3, <1>4, OnceStep

LEMMA SameSettles ==
  ASSUME NEW p, NEW t, outbound' = outbound, \A f \in File : t.state[f] = bp[p].state[f] \/ t.state[f] \in {"Sending", "IsSent"}
  PROVE  Settles(p, t)
BY DEF Settles, Settled

\* The list is cleared when nothing in it waits.
LEMMA ClearedSettles ==
  ASSUME NEW p, NEW t, outbound' = outbound, \A f \in File : t.state[f] = "Absent" /\ bp[p].state[f] \notin {"Sending", "IsSent"}
  PROVE  Settles(p, t)
BY DEF Settles, Settled

LEMMA OverSettles == ASSUME NEW p, NEW t, outbound' = outbound, Over(t) PROVE Settles(p, t)
BY DEF Settles

\* A list is made of what is in the outbound, and of what a request brings.
LEMMA MakeListSettles == ASSUME IInv, Talk, NEW p \in Party, MakeList(p) PROVE Settles(p, bp'[p])
<1> DEFINE l == [f \in File |-> IF f \in Listed(p) THEN "NoState" ELSE "Absent"]
           o == [f \in File |-> 0]
           s == [bp[p] EXCEPT
                   !.FtState = "Transmit", !.tosend = TRUE, !.cursend = NoFile, !.freqname = FALSE,
                   !.state = l, !.offset = o]
<1>1. /\ Turn(p) /\ outbound' = outbound /\ ~bp[p].tosend /\ bp[p].TxState = "TxGNF"
      /\ bp' = [bp EXCEPT ![p] = s] \/ bp' = [bp EXCEPT ![p] = SentCommand(s, "NUL")]
  BY DEF MakeList, Transmits, disk
<1>2. Good(bp[p]) /\ ~Over(bp[p]) /\ Mine(p, bp[p])
  BY <1>1, BpGood, TurnLive, MineView
<1>3. \A f \in File : bp[p].state[f] = "Absent"
  BY <1>1, <1>2 DEF Mine
<1>4. s.state = l
  BY <1>2 DEF Good, Session
<1>5. Good(s)
  <2>1. l \in [File -> FileState] /\ o \in [File -> Nat]
    BY DEF FileState
  <2> HIDE DEF l, o
  <2> QED
    BY <1>1, <1>2, <2>1, ListMadeGood
<1>6. \A f \in File : f \notin outbound \union Reply => l[f] = "Absent"
  BY DEF Listed, Answers
<1> HIDE DEF s, l
<1>7. SentCommand(s, "NUL").state = l
  BY <1>4, <1>5, SentCommandView DEF Keep, KeepTx
<1>8. bp'[p].state = l
  BY <1>1, <1>4, <1>7, BpView
<1> QED
  BY <1>1, <1>3, <1>6, <1>8 DEF Settles, Settled

LEMMA SendFileSettles == ASSUME IInv, NEW p \in Party, SendFile(p) PROVE Settles(p, bp'[p])
<1>1. PICK f \in File :
        /\ Chooses(p, f) /\ outbound' = outbound
        /\ Transmits(p, SentCommand(
             [bp[p] EXCEPT !.FtState = "Transmit", !.TxState = "TxTryR", !.state[f] = "Sending",
                           !.cursend = f, !.txfp = f, !.txpos = bp[p].offset[f]], "FILE"))
  BY DEF SendFile, disk
<1> DEFINE s == [bp[p] EXCEPT !.FtState = "Transmit", !.TxState = "TxTryR", !.state[f] = "Sending",
                              !.cursend = f, !.txfp = f, !.txpos = bp[p].offset[f]]
<1>2. Turn(p) /\ bp[p].TxState = "TxGNF" /\ bp[p].tosend
  BY <1>1 DEF Chooses
<1>3. Good(bp[p])
  BY BpGood
<1>4. bp[p].state \in [File -> FileState] /\ bp[p].offset[f] \in Nat
  <2>1. bp[p].state \in [File -> FileState] /\ bp[p].offset \in [File -> Nat]
    BY <1>3, ZenonT(20) DEF Good, Session
  <2> QED
    BY <2>1
<1>5. Good(s)
  BY <1>2, <1>3, <1>4, SendingGood
<1>6. s.state = [bp[p].state EXCEPT ![f] = "Sending"]
  BY <1>3 DEF Good, Session
<1>7. bp' = [bp EXCEPT ![p] = SentCommand(s, "FILE")]
  BY <1>1 DEF Transmits
<1> HIDE DEF s
<1>8. bp'[p].state = [bp[p].state EXCEPT ![f] = "Sending"]
  <2>1. bp'[p] = SentCommand(s, "FILE")
    BY <1>7, BpView
  <2>2. SentCommand(s, "FILE").state = s.state
    BY <1>5, SentCommandView DEF Keep, KeepTx
  <2> QED
    BY <1>6, <2>1, <2>2
<1>9. \A g \in File : bp'[p].state[g] = bp[p].state[g] \/ bp'[p].state[g] \in {"Sending", "IsSent"}
  BY <1>4, <1>8
<1> QED
  BY <1>1, <1>9, SameSettles

LEMMA PassFileSettles == ASSUME IInv, NEW p \in Party, PassFile(p) PROVE Settles(p, bp'[p])
<1>1. PICK f \in File, st \in {"Got", "Skipped"} :
        Chooses(p, f) /\ Transmits(p, [bp[p] EXCEPT !.FtState = "Switch", !.txfp = NoFile, !.state[f] = st])
  BY DEF PassFile
<1>2. bp' = [bp EXCEPT ![p] = [bp[p] EXCEPT !.FtState = "Switch", !.txfp = NoFile, !.state[f] = st]] /\ outbound' = outbound
  BY <1>1 DEF PassFile, Transmits, disk
<1>3. bp'[p] = [bp[p] EXCEPT !.FtState = "Switch", !.txfp = NoFile, !.state[f] = st]
  BY <1>2, BpView
<1>4. Good(bp[p]) /\ bp[p].state[f] = "NoState"
  BY <1>1, BpGood DEF Chooses, Unsent
<1>5. bp[p].state \in [File -> FileState]
  BY <1>4, ZenonT(20) DEF Good, Session
<1>6. bp'[p].state = [bp[p].state EXCEPT ![f] = st]
  BY <1>3, <1>4 DEF Good, Session
<1>7. \A g \in File : bp'[p].state[g] = bp[p].state[g] \/ bp[p].state[g] = "NoState"
  BY <1>4, <1>5, <1>6
<1> QED
  BY <1>2, <1>7 DEF Settles, Settled

LEMMA SendEOBSettles == ASSUME IInv, NEW p \in Party, SendEOB(p) PROVE Settles(p, bp'[p])
<1> DEFINE s == [bp[p] EXCEPT !.FtState = "Transmit", !.TxState = "TxWLA"]
<1>1. bp[p].tosend /\ bp' = [bp EXCEPT ![p] = SentCommand(s, "EOB")] /\ outbound' = outbound
  BY DEF SendEOB, Transmits, disk
<1>2. Good(bp[p]) /\ bp'[p] = SentCommand(s, "EOB")
  BY <1>1, BpGood, BpView
<1>3. Good(s)
  BY <1>1, <1>2, AllSentGood
<1>4. s.state = bp[p].state
  BY <1>2 DEF Good, Session
<1> HIDE DEF s
<1>5. bp'[p].state = bp[p].state
  BY <1>2, <1>3, <1>4, SentCommandView DEF Keep, KeepTx
<1> QED
  BY <1>1, <1>5, SameSettles

LEMMA SendBlockSettles == ASSUME IInv, NEW p \in Party, SendBlock(p) PROVE Settles(p, bp'[p])
<1> DEFINE s == bp[p]
           f == s.cursend
           last == s.txpos >= Size[f]
           n == IF last THEN s.txpos ELSE s.txpos + 1
           sent == [s EXCEPT !.FtState = "Switch", !.txpos = n]
           read == [sent EXCEPT !.txfp = NoFile, !.state[f] = "IsSent", !.cursend = NoFile, !.TxState = "TxGNF"]
<1>1. /\ s.TxState = "TxTryR" /\ outbound' = outbound
      /\ bp' = [bp EXCEPT ![p] = read] \/ bp' = [bp EXCEPT ![p] = sent]
  <2>1. n = IF last THEN s.txpos ELSE s.txpos + 1
    OBVIOUS
  <2> QED
    BY DEF SendBlock, Transmits, disk
<1>2. Good(s)
  BY BpGood
<1>3. s.state \in [File -> FileState] /\ f \in File
  <2>1. s.state \in [File -> FileState]
    BY <1>2, ZenonT(20) DEF Good, Session
  <2> QED
    BY <1>1, <1>2, <2>1 DEF Good, Named
<1> HIDE DEF n, last
<1>4. sent.state = s.state
  BY <1>2 DEF Good, Session
<1>5. read.state = [s.state EXCEPT ![f] = "IsSent"]
  BY <1>2 DEF Good, Session
<1> HIDE DEF sent, read
<1>6. bp'[p].state = s.state \/ bp'[p].state = [s.state EXCEPT ![f] = "IsSent"]
  BY <1>1, <1>4, <1>5, BpView
<1>7. \A g \in File : bp'[p].state[g] = s.state[g] \/ bp'[p].state[g] \in {"Sending", "IsSent"}
  BY <1>3, <1>6
<1> QED
  BY <1>1, <1>7, SameSettles

LEMMA EndSettles ==
  ASSUME IInv, NEW p \in Party, NEW s, Good(s), NEW rc, bp' = [bp EXCEPT ![p] = Ended(s, rc)], outbound' = outbound
  PROVE  Settles(p, bp'[p])
<1>1. bp'[p] = Ended(s, rc)
  BY BpView
<1>2. Over(Ended(s, rc))
  BY EndedView
<1> QED
  BY <1>1, <1>2, OverSettles

LEMMA StopsSettles ==
  ASSUME IInv, NEW p \in Party, ReadFails(p) \/ CloseNoFile(p) \/ Fails(p) PROVE Settles(p, bp'[p])
<1> DEFINE s == [bp[p] EXCEPT !.state[bp[p].cursend] = "Skipped"]
<1>1. Good(bp[p])
  BY BpGood
<1>2. CASE ReadFails(p)
  <2>1. bp[p].TxState = "TxTryR" /\ bp' = [bp EXCEPT ![p] = Ended(s, "failed")] /\ outbound' = outbound
    BY <1>2 DEF ReadFails, Transmits, disk
  <2>2. bp[p].cursend \in File
    BY <1>1, <2>1 DEF Good, Named
  <2>3. Good(s)
    BY <1>1, <2>2, DisposedGood
  <2> HIDE DEF s
  <2> QED
    BY <2>1, <2>3, EndSettles
<1>3. CASE CloseNoFile(p) \/ Fails(p)
  <2>1. bp' = [bp EXCEPT ![p] = Ended(bp[p], "failed")] /\ outbound' = outbound
    BY <1>3 DEF CloseNoFile, Fails, Transmits, disk
  <2> QED
    BY <1>1, <2>1, EndSettles
<1> QED
  BY <1>2, <1>3

LEMMA WaitAcksSettles == ASSUME IInv, NEW p \in Party, WaitAcks(p) PROVE Settles(p, bp'[p])
<1> DEFINE s == [bp[p] EXCEPT !.FtState = "Switch"]
<1>1. /\ outbound' = outbound
      /\ \/ bp' = [bp EXCEPT ![p] = s]
         \/ Pending(s) = {} /\ bp' = [bp EXCEPT ![p] = Ended(ListCleared(s), "ok")]
         \/ Pending(s) = {} /\ bp' = [bp EXCEPT ![p] = NextBatch(s)]
         \/ Pending(s) = {} /\ bp' = [bp EXCEPT ![p] = ListCleared(s)]
  BY DEF WaitAcks, Transmits, disk
<1>2. Good(s) /\ s.state = bp[p].state
  BY BpGood, SwitchView DEF Keep, KeepTx
<1> HIDE DEF s
<1>3. CASE bp' = [bp EXCEPT ![p] = s]
  BY <1>1, <1>2, <1>3, BpView, SameSettles
<1>4. CASE bp' = [bp EXCEPT ![p] = Ended(ListCleared(s), "ok")]
  <2>1. Good(ListCleared(s))
    BY <1>2, ListClearedGood
  <2> QED
    BY <1>1, <1>4, <2>1, EndSettles
<1>5. CASE Pending(s) = {} /\ (bp' = [bp EXCEPT ![p] = NextBatch(s)] \/ bp' = [bp EXCEPT ![p] = ListCleared(s)])
  <2>1. \A f \in File : bp[p].state[f] \notin {"Sending", "IsSent"}
    BY <1>2, <1>5, NotPending
  <2>2. bp'[p] = NextBatch(s) \/ bp'[p] = ListCleared(s)
    BY <1>5, BpView
  <2>3. \A f \in File : bp'[p].state[f] = "Absent"
    BY <1>2, <2>2, NextBatchView, ListClearedView
  <2> QED
    BY <1>1, <2>1, <2>3, ClearedSettles
<1> QED
  BY <1>1, <1>3, <1>4, <1>5

\* The answer at the head of the queue: M_GET and M_SKIP are asked, and a file
\* that counts as Got has left the outbound.
LEMMA ProcessActionsSettles ==
  ASSUME IInv, NEW p \in Party, ProcessGet(p) \/ ProcessGot(p) \/ ProcessSkip(p) PROVE Settles(p, bp'[p])
<1> DEFINE f == Message(p).file
<1>1. CASE ProcessGot(p)
  <2>1. PICK t : bp' = [bp EXCEPT ![p] = t] /\ Processing(p, t) /\ \A g \in File : t.state[g] \in {bp[p].state[g], "Got"}
    BY <1>1, ProcessGotView
  <2>2. bp'[p] = t
    BY <2>1, BpView
  <2>3. outbound' = IF InList(p, f) THEN outbound \ {f} ELSE outbound
    BY <1>1 DEF ProcessGot
  <2>4. ASSUME NEW g \in File \ Reply, Settled(bp[p], g, outbound) PROVE Settled(t, g, outbound')
    <3>1. CASE t.state[g] = bp[p].state[g]
      BY <2>3, <2>4, <3>1 DEF Settled
    <3>2. CASE t.state[g] # bp[p].state[g]
      <4>1. g = f /\ bp[p].state[g] # "Absent" /\ t.state[g] = "Got"
        BY <2>1, <3>2 DEF Processing
      <4> QED
        BY <2>3, <4>1 DEF Settled, InList
    <3> QED
      BY <3>1, <3>2
  <2>5. outbound' \subseteq outbound
    BY <2>3
  <2> QED
    BY <2>2, <2>4, <2>5 DEF Settles
<1>2. ASSUME NEW cmd \in {"GET", "SKIP"}, NEW t, bp' = [bp EXCEPT ![p] = t], Processing(p, t), Processes(p, cmd),
             outbound' = outbound
      PROVE  Settles(p, bp'[p])
  <2>1. bp'[p] = t
    BY <1>2, BpView
  <2>2. cmd \in Answering
    BY DEF Answering
  <2>3. bp[p].queue \in Seq(Queued) /\ bp[p].queue # <<>> /\ Message(p) = Head(bp[p].queue) /\ Message(p).cmd = cmd
    BY <1>2, <2>2, ProcessesView
  <2>4. Asked(bp[p].queue, f)
    BY <2>3, AskedHead
  <2>5. \A g \in File : g # f => t.state[g] = bp[p].state[g]
    BY <1>2 DEF Processing
  <2> HIDE DEF f
  <2> QED
    BY <1>2, <2>1, <2>4, <2>5 DEF Settles, Settled
<1>3. CASE ProcessGet(p)
  <2>1. outbound' = outbound
    BY <1>3 DEF ProcessGet, disk
  <2>2. Processes(p, "GET") /\ \E t : bp' = [bp EXCEPT ![p] = t] /\ Processing(p, t)
    BY <1>3, ProcessGetView
  <2> QED
    BY <1>2, <2>1, <2>2
<1>4. CASE ProcessSkip(p)
  <2>1. outbound' = outbound
    BY <1>4 DEF ProcessSkip, disk
  <2>2. Processes(p, "SKIP") /\ \E t : bp' = [bp EXCEPT ![p] = t] /\ Processing(p, t)
    BY <1>4, ProcessSkipView
  <2> QED
    BY <1>2, <2>1, <2>2
<1> QED
  BY <1>1, <1>3, <1>4

LEMMA TransmitSettles == ASSUME IInv, Talk, NEW p \in Party, Transmit(p) PROVE Settles(p, bp'[p])
BY MakeListSettles, SendFileSettles, PassFileSettles, SendEOBSettles, SendBlockSettles, StopsSettles,
   ProcessActionsSettles, WaitAcksSettles, Zenon DEF Transmit

LEMMA ReceiverQuietSettles ==
  ASSUME IInv, NEW p \in Party, QueueMessage(p) \/ Ignore(p) \/ ReceiveEOB(p) PROVE Settles(p, bp'[p])
<1>1. outbound' = outbound
  BY DEF QueueMessage, Ignore, ReceiveEOB, disk
<1>2. CASE QueueMessage(p) \/ Ignore(p)
  <2>1. PICK t : bp' = [bp EXCEPT ![p] = t] /\ KeepTx(bp[p], t)
    BY <1>2, QueueMessageView, IgnoreView DEF Keep
  <2>2. bp'[p] = t /\ t.state = bp[p].state
    BY <2>1, BpView DEF KeepTx
  <2> QED
    BY <1>1, <2>2, SameSettles
<1>3. CASE ReceiveEOB(p)
  <2>1. PICK t : /\ bp' = [bp EXCEPT ![p] = t]
                 /\ \/ KeepTx(bp[p], t)
                    \/ \A f \in File : t.state[f] = "Absent" /\ bp[p].state[f] \notin {"Sending", "IsSent"}
    BY <1>3, ReceiveEOBView
  <2>2. bp'[p] = t
    BY <2>1, BpView
  <2>3. CASE KeepTx(bp[p], t)
    BY <1>1, <2>2, <2>3, SameSettles DEF KeepTx
  <2>4. CASE \A f \in File : t.state[f] = "Absent" /\ bp[p].state[f] \notin {"Sending", "IsSent"}
    BY <1>1, <2>2, <2>4, ClearedSettles
  <2> QED
    BY <2>1, <2>3, <2>4
<1> QED
  BY <1>2, <1>3

LEMMA ReceiverStopsSettles ==
  ASSUME IInv, NEW p \in Party, LowDiskspace(p) \/ ReceiveUnexpected(p) \/ SeekClosedFile(p) PROVE Settles(p, bp'[p])
<1>1. Good(Polled(p)) /\ bp' = [bp EXCEPT ![p] = Ended(Polled(p), "failed")] /\ outbound' = outbound
  BY PolledGood DEF LowDiskspace, ReceiveUnexpected, SeekClosedFile, disk
<1> QED
  BY <1>1, EndSettles

\* A step of p that reads a frame, and may answer with one.
LEMMA ReadProceeds ==
  ASSUME IInv, NEW p \in Party, Arrives(p), NEW t, bp' = [bp EXCEPT ![p] = t], Settles(p, t), Expects(p, t),
         ~Over(t) => t.queue = bp[p].queue,
         wire' = Rest(p) \/ \E m \in Frame : wire' = Sent(Rest(p), p, m) /\ Asks(p, m)
  PROVE  Proceeds(p, t)
<1>1. bp'[p] = t /\ bp'[Peer(p)] = bp[Peer(p)]
  BY BpView
<1>2. ~Over(bp[p]) /\ wire[Peer(p)] # <<>> /\ wire'[Peer(p)] = Tail(wire[Peer(p)])
  BY RestView, SentRestView
<1>3. wire'[p] = wire[p] \/ \E m \in Frame : wire'[p] = Append(wire[p], m) /\ Asks(p, m)
  <2>1. CASE wire' = Rest(p)
    BY <2>1, RestView
  <2>2. ASSUME NEW m \in Frame, wire' = Sent(Rest(p), p, m) PROVE wire'[p] = wire[p] \/ wire'[p] = Append(wire[p], m)
    BY <2>2, SentRestView
  <2> QED
    BY <2>1, <2>2
<1> QED
  BY <1>1, <1>2, <1>3, Zenon DEF Proceeds, Queues

LEMMA AcceptFileOnce ==
  ASSUME IInv, Once, NEW p \in Party, AcceptFile(p), sessions' = sessions PROVE Once'
<1> DEFINE m == Incoming(p)
<1>1. /\ Arrives(p) /\ m.cmd = "FILE"
      /\ outbound' = outbound /\ delivered' = delivered
  BY DEF AcceptFile, disk
<1>2. PICK t : /\ bp' = [bp EXCEPT ![p] = t] /\ KeepTx(bp[p], t) /\ t.queue = bp[p].queue /\ t.rname = m.file
               /\ \/ \E r \in Frame : wire' = Sent(Rest(p), p, r) /\ r.cmd \in Answering /\ r.file = m.file
                  \/ wire' = Rest(p)
  BY AcceptFileView
<1>3. wire[Peer(p)] # <<>> /\ m = Head(wire[Peer(p)])
  BY <1>1, RestView
<1> HIDE DEF m
<1>4. Settles(p, t)
  BY <1>1, <1>2, SameSettles DEF KeepTx
<1>5. Expects(p, t)
  BY <1>1, <1>2, <1>3 DEF Expects
<1>6. \A r : r.cmd \in Answering /\ r.file = m.file => Asks(p, r)
  BY <1>1, <1>3 DEF Asks, Answering
<1>7. wire' = Rest(p) \/ \E r \in Frame : wire' = Sent(Rest(p), p, r) /\ Asks(p, r)
  BY <1>2, <1>6
<1>8. Proceeds(p, t)
  BY <1>1, <1>2, <1>4, <1>5, <1>7, ReadProceeds
<1> QED
  BY <1>1, <1>8, OnceStep

\* A block is taken, or the last one, and answered with M_GOT.
LEMMA TakesProceeds ==
  ASSUME IInv, NEW p \in Party, Arrives(p), bp[p].RxState = "RxReceD", outbound' = outbound,
         NEW t, Takes(p, t), Continues(p, t) \/ Completes(p, t)
  PROVE  Proceeds(p, t)
<1> DEFINE r == [cmd |-> "GOT", file |-> bp[p].rname, offs |-> 0]
<1>1. bp' = [bp EXCEPT ![p] = t] /\ KeepTx(bp[p], t) /\ t.queue = bp[p].queue /\ t.rname = bp[p].rname
  BY DEF Takes
<1>2. wire' = Rest(p) \/ wire' = Sent(Rest(p), p, r)
  BY DEF Continues, Completes
<1>3. ~Over(bp[p]) /\ bp[p].rname \in File
  BY RestView, BpGood DEF Good, Named
<1>4. r \in Frame /\ Asks(p, r)
  BY <1>3, FramesTyped DEF Asks
<1> HIDE DEF r
<1>5. Settles(p, t)
  BY <1>1, SameSettles DEF KeepTx
<1>6. Expects(p, t)
  BY <1>1, <1>3 DEF Expects, Await
<1> QED
  BY <1>1, <1>2, <1>4, <1>5, <1>6, ReadProceeds

\* A file that arrived with the last block was under way in that form only.
LEMMA ArrivedNoMore ==
  ASSUME IInv, Talk, NEW p \in Party, Arrives(p), bp[p].RxState = "RxReceD", outbound' = outbound,
         NEW t, Takes(p, t), Completes(p, t), NEW f \in File, f = bp[p].rname, Owner[f] = Peer(p)
  PROVE  NoMore(f)'
<1> DEFINE q == Peer(p)
           r == [cmd |-> "GOT", file |-> bp[p].rname, offs |-> 0]
<1>1. /\ q \in Party /\ Peer(q) = p /\ q # p /\ wire[p] \in Seq(Frame) /\ wire[q] \in Seq(Frame)
      /\ bp[q].queue \in Seq(Queued) /\ Good(bp[q])
  BY Peers, WireTyped, BpGood, QueueTyped
<1>2. ~Over(bp[p]) /\ f \in File /\ wire[q] # <<>>
  BY RestView, BpGood DEF Good, Named
<1>3. Single(f, wire[q], wire[p], bp[q], bp[p])
  BY <1>2, SingleView DEF Talk
<1>4. bp'[p] = t /\ bp'[q] = bp[q] /\ t.RxState = "RxWaitF"
  BY BpView DEF Takes, Completes
<1>5. wire'[q] = Tail(wire[q]) /\ (wire'[p] = wire[p] \/ wire'[p] = Append(wire[p], r))
  BY SentRestView DEF Completes
<1>6. r \in Frame /\ r.cmd = "GOT"
  BY <1>2, FramesTyped
<1>7. /\ Posted(wire[q], f) \in Nat /\ Replies(wire[p], f) \in Nat /\ Waiting(bp[q], f) \in Nat
  BY <1>1, LoadType
<1>8. Coming(bp[p], f) = 1
  BY <1>2 DEF Coming, Await
<1> HIDE DEF q, r
<1>9. /\ Posted(wire[q], f) = 0 /\ Replies(wire[p], f) = 0 /\ Waiting(bp[q], f) = 0
      /\ Over(bp[q]) \/ bp[q].state[f] \in {"Sending", "IsSent"}
  BY <1>3, <1>7, <1>8 DEF Single, Load
<1>10. f \notin Told(wire[q], "FILE")
  BY <1>1, <1>9, CountSome DEF Posted
<1>11. ~Asked(wire[p], f)
  <2>1. "GET" \in Answering /\ "SKIP" \in Answering
    BY DEF Answering
  <2> QED
    BY <1>1, <1>9, <2>1, CountSome DEF Replies, Asked
<1>12. Over(bp[q]) \/ ~Asked(bp[q].queue, f)
  <2>1. "GET" \in Answering /\ "SKIP" \in Answering
    BY DEF Answering
  <2> QED
    BY <1>1, <1>9, <2>1, CountSome DEF Waiting, Asked
<1>13. f \notin Told(wire'[q], "FILE")
  BY <1>1, <1>2, <1>5, <1>10, AskedLess
<1>14. ~Asked(wire'[p], f)
  BY <1>1, <1>5, <1>6, <1>11, AskedAppend
<1>15. f \notin Awaited(t)
  BY <1>4 DEF Awaited, Await
<1>16. Idle(f, wire'[q], wire'[p], bp'[q], bp'[p], outbound')
  BY <1>4, <1>9, <1>12, <1>13, <1>14, <1>15 DEF Idle, Settled
<1>17. Owner[f] = q
  BY DEF q
<1> QED
  BY <1>1, <1>16, <1>17 DEF NoMore

LEMMA WriteDataOnce ==
  ASSUME IInv, Talk, Contents, Once, NEW p \in Party, WriteData(p), sessions' = sessions PROVE Once'
<1>0. PICK f : f = bp[p].rname
  BY ZenonT(60)
<1>1. Arrives(p) /\ Incoming(p).cmd = "DATA" /\ bp[p].RxState = "RxReceD" /\ outbound' = outbound
  BY WriteDataView, ZenonT(60) DEF WriteData
<1>2. f \in File /\ bp[p].rxfp = f /\ Await(bp[p]) /\ Owner[f] = Peer(p) /\ Written(p)[f] \in Seq(Block)
  BY <1>0, <1>1, WrittenView
<1>3. PICK t : /\ Takes(p, t)
               /\ \/ Continues(p, t) /\ delivered' = delivered
                  \/ /\ Completes(p, t)
                     /\ delivered' = [g \in File |-> IF g = f THEN Append(delivered[g], Written(p)[g]) ELSE delivered[g]]
  BY <1>2, WriteDataView
<1>4. Proceeds(p, t)
  BY <1>1, <1>3, TakesProceeds
<1>5. CASE delivered' = delivered
  BY <1>4, <1>5, OnceStep
<1>6. CASE /\ Completes(p, t)
           /\ delivered' = [g \in File |-> IF g = f THEN Append(delivered[g], Written(p)[g]) ELSE delivered[g]]
  <2>1. ASSUME NEW g \in File \ Reply, g # f
        PROVE  Len(delivered'[g]) <= sessions' /\ (Len(delivered'[g]) = sessions' => NoMore(g)')
    <3>1. delivered'[g] = delivered[g]
      BY <1>6, <2>1
    <3>2. NoMore(g) => NoMore(g)'
      BY <1>4, NoMoreStep
    <3> QED
      BY <3>1, <3>2 DEF Once
  <2>2. ASSUME f \notin Reply PROVE Len(delivered'[f]) <= sessions' /\ NoMore(f)'
    <3>1. ~NoMore(f)
      <4>1. Peer(Peer(p)) = p
        BY Peers
      <4>2. f \in Awaited(bp[p])
        BY <1>0, <1>2 DEF Awaited
      <4> QED
        BY <1>2, <4>1, <4>2 DEF NoMore, Idle
    <3>2. Len(delivered[f]) <= sessions /\ Len(delivered[f]) # sessions
      BY <1>2, <2>2, <3>1 DEF Once
    <3>3. delivered[f] \in Seq(Seq(Block)) /\ sessions \in Nat
      BY <1>2, LimitsKnown DEF IInv, TypeOK
    <3>4. delivered'[f] = Append(delivered[f], Written(p)[f])
      BY <1>2, <1>6
    <3>5. Len(delivered'[f]) = Len(delivered[f]) + 1 /\ Len(delivered[f]) \in Nat
      BY <1>2, <3>3, <3>4, AppendProperties, LenProperties
    <3>6. NoMore(f)'
      BY <1>0, <1>1, <1>2, <1>3, <1>6, ArrivedNoMore
    <3> QED
      BY <3>2, <3>3, <3>5, <3>6
  <2> QED
    BY <2>1, <2>2 DEF Once
<1> QED
  BY <1>3, <1>5, <1>6

\* The steps that deliver nothing but may leave less of an open file.
LEMMA FaultsOnce ==
  ASSUME IInv, Once, NEW p \in Party, CloseFails(p) \/ WriteFails(p) \/ Killed(p) \/ KilledBeforeMove(p),
         sessions' = sessions
  PROVE  Once'
<1> DEFINE t == Ended(bp[p], "failed")
           m == [cmd |-> "GOT", file |-> bp[p].rname, offs |-> 0]
<1>1. Good(bp[p]) /\ Over(t)
  BY BpGood, EndedView
<1>2. outbound' = outbound /\ delivered' = delivered
  BY DEF CloseFails, WriteFails, Killed, KilledBeforeMove
<1>3. Settles(p, t) /\ Expects(p, t)
  BY <1>1, <1>2, OverSettles DEF Expects, Await
<1> HIDE DEF t
<1>4. CASE CloseFails(p)
  <2>1. PICK u : Takes(p, u) /\ Completes(p, u)
    BY <1>4, CloseFailsView
  <2>2. Arrives(p) /\ bp[p].RxState = "RxReceD"
    BY <1>4, CloseFailsView
  <2>3. Proceeds(p, u)
    BY <1>2, <2>1, <2>2, TakesProceeds
  <2> QED
    BY <1>2, <2>3, OnceStep
<1>5. CASE Killed(p)
  <2>1. bp' = [bp EXCEPT ![p] = t] /\ wire' = wire /\ ~Over(bp[p])
    BY <1>5 DEF Killed, t, Done, Over
  <2>2. bp'[p] = t /\ bp'[Peer(p)] = bp[Peer(p)]
    BY <2>1, BpView
  <2>3. Proceeds(p, t)
    BY <1>1, <1>3, <2>1, <2>2 DEF Proceeds
  <2> QED
    BY <1>2, <2>3, OnceStep
<1>6. CASE WriteFails(p) \/ KilledBeforeMove(p)
  <2>1. /\ Arrives(p) /\ bp[p].RxState = "RxReceD" /\ bp' = [bp EXCEPT ![p] = t]
        /\ wire' = Rest(p) \/ wire' = Sent(Rest(p), p, m)
    BY <1>6 DEF WriteFails, KilledBeforeMove, t
  <2>2. m \in Frame /\ Asks(p, m)
    BY <1>1, <2>1, FramesTyped DEF Asks, Good, Named
  <2> HIDE DEF m
  <2>3. Proceeds(p, t)
    BY <1>1, <1>3, <2>1, <2>2, ReadProceeds
  <2> QED
    BY <1>2, <2>3, OnceStep
<1> QED
  BY <1>4, <1>5, <1>6

LEMMA PartySession ==
  ASSUME NEW p \in Party, Receive(p) \/ Transmit(p) \/ HangUp(p) \/ Timeout(p) \/ Killed(p) \/ KilledBeforeMove(p)
  PROVE  sessions' = sessions
<1>1. CASE Receive(p)
  BY <1>1, ZenonT(60) DEF Receive, QueueMessage, Ignore, ReceiveEOB, AcceptFile, LowDiskspace, WriteData, CloseFails,
              WriteFails, ReceiveUnexpected, SeekClosedFile, world
<1>2. CASE Transmit(p)
  BY <1>2, ZenonT(60) DEF Transmit, MakeList, SendFile, PassFile, SendEOB, SendBlock, ReadFails, ProcessGet, ProcessGot,
              ProcessSkip, CloseNoFile, WaitAcks, world
<1>3. CASE HangUp(p) \/ Timeout(p) \/ Killed(p) \/ KilledBeforeMove(p)
  BY <1>3 DEF HangUp, Timeout, Fails, Killed, KilledBeforeMove, world
<1> QED
  BY <1>1, <1>2, <1>3

LEMMA ReceiveOnce ==
  ASSUME IInv, Talk, Contents, Once, NEW p \in Party, Receive(p) PROVE Once'
<1>1. sessions' = sessions
  BY PartySession
<1>2. CASE QueueMessage(p) \/ Ignore(p) \/ ReceiveEOB(p) \/ LowDiskspace(p) \/ ReceiveUnexpected(p) \/ SeekClosedFile(p)
  <2>1. PICK t : Calm(p, t)
    BY <1>2, ReceiverQuietCalm, ReceiverStopsCalm
  <2>2. Settles(p, bp'[p])
    BY <1>2, ReceiverQuietSettles, ReceiverStopsSettles
  <2>3. Settles(p, t)
    BY <2>1, <2>2 DEF Calm
  <2> QED
    BY <1>1, <2>1, <2>3, CalmOnce
<1> QED
  BY <1>1, <1>2, AcceptFileOnce, WriteDataOnce, FaultsOnce, Zenon DEF Receive

LEMMA TransmitOnce ==
  ASSUME IInv, Talk, Once, NEW p \in Party, Transmit(p) \/ HangUp(p) \/ Timeout(p) PROVE Once'
<1>1. sessions' = sessions
  BY PartySession
<1>2. PICK t : Calm(p, t)
  BY TransmitCalm, EndsCalm
<1>3. Settles(p, bp'[p])
  BY TransmitSettles, StopsSettles DEF HangUp, Timeout
<1>4. Settles(p, t)
  BY <1>2, <1>3 DEF Calm
<1> QED
  BY <1>1, <1>2, <1>4, CalmOnce

LEMMA CutOnce == ASSUME IInv, Once, Cut PROVE Once'
<1>1. PICK n \in [Party -> 0..Window] :
        wire' = [p \in Party |-> SubSeq(wire[p], 1, IF n[p] < Len(wire[p]) THEN n[p] ELSE Len(wire[p]))]
  BY DEF Cut
<1>2. bp' = bp /\ outbound' = outbound /\ delivered' = delivered /\ sessions' = sessions
  BY DEF Cut, disk
<1> DEFINE k(p) == IF n[p] < Len(wire[p]) THEN n[p] ELSE Len(wire[p])
<1>3. ASSUME NEW p \in Party PROVE \A cmd : Told(wire'[p], cmd) \subseteq Told(wire[p], cmd)
  <2>1. wire[p] \in Seq(Frame)
    BY WireTyped
  <2>2. Len(wire[p]) \in Nat
    BY <2>1, LenProperties
  <2>3. n[p] \in Nat
    BY <1>1, LimitsKnown
  <2>4. k(p) \in 0..Len(wire[p]) /\ wire'[p] = SubSeq(wire[p], 1, k(p))
    BY <1>1, <2>2, <2>3
  <2> HIDE DEF k
  <2> QED
    BY <2>1, <2>4, ToldPrefix
<1>4. ASSUME NEW f \in File, NoMore(f) PROVE NoMore(f)'
  <2>1. Owner[f] \in Party /\ Peer(Owner[f]) \in Party
    BY Peers, FilesKnown
  <2> QED
    BY <1>2, <1>3, <1>4, <2>1 DEF NoMore, Idle, Asked
<1> QED
  BY <1>2, <1>4 DEF Once

\* Another call is another session.
LEMMA RetryOnce == ASSUME IInv, Once, Retry PROVE Once'
<1>1. sessions' = sessions + 1 /\ delivered' = delivered /\ sessions \in Nat
  BY LimitsKnown DEF Retry, disk, IInv, TypeOK
<1>2. ASSUME NEW f \in File \ Reply PROVE Len(delivered[f]) \in Nat /\ Len(delivered[f]) <= sessions
  <2>1. delivered[f] \in Seq(Seq(Block))
    BY DEF IInv, TypeOK
  <2> QED
    BY <2>1, LenProperties DEF Once
<1>3. \A f \in File \ Reply : Len(delivered'[f]) <= sessions' /\ Len(delivered'[f]) # sessions'
  BY <1>1, <1>2
<1> QED
  BY <1>3 DEF Once

LEMMA InitOnce == Init => Once
<1> SUFFICES ASSUME Init PROVE Once
  OBVIOUS
<1>1. sessions = 1 /\ \A f \in File : delivered[f] = <<>>
  BY DEF Init
<1>2. Len(<<>>) = 0
  BY EmptySeq
<1> QED
  BY <1>1, <1>2 DEF Once

LEMMA NextOnce == ASSUME IInv, Talk, Contents, Once, [Next]_vars PROVE Once'
<1>1. CASE \E p \in Party : Receive(p)
  BY <1>1, ReceiveOnce
<1>2. CASE \E p \in Party : Transmit(p) \/ HangUp(p) \/ Timeout(p)
  BY <1>2, TransmitOnce
<1>3. CASE \E p \in Party : Killed(p) \/ KilledBeforeMove(p)
  BY <1>3, PartySession, FaultsOnce
<1>4. CASE Cut \/ Retry
  BY <1>4, CutOnce, RetryOnce
<1>5. CASE (\E f \in File : Replace(f)) \/ UNCHANGED vars
  <2>1. bp' = bp /\ wire' = wire /\ outbound' = outbound /\ delivered' = delivered /\ sessions' = sessions
    BY <1>5 DEF Replace, vars
  <2> QED
    BY <2>1 DEF Once, NoMore
<1> QED
  BY <1>1, <1>2, <1>3, <1>4, <1>5, Zenon DEF Next

\* Nothing is sent twice: a file that a request does not bring arrives again only
\* in another session, whatever breaks, stalls, is killed or fills up, as long as
\* nothing was mixed.
THEOREM SentOnce == Spec => [](~mixed => \A f \in File \ Reply : Len(delivered[f]) <= sessions)
<1> DEFINE OInv == WInv /\ (~mixed => Once)
<1>1. Init => OInv
  BY InitTyped, InitTalk, InitContents, InitOnce DEF WInv
<1>2. OInv /\ [Next]_vars => OInv'
  <2> SUFFICES ASSUME OInv, [Next]_vars PROVE OInv'
    OBVIOUS
  <2>1. IInv /\ Talk /\ (~mixed => Contents /\ Once)
    BY DEF WInv
  <2>2. IInv' /\ Talk'
    BY <2>1, NextTyped, NextTalk
  <2>3. ASSUME ~mixed' PROVE Contents' /\ Once'
    <3>1. ~mixed
      BY <2>3, MixedStays
    <3> QED
      BY <2>1, <2>3, <3>1, NextContents, NextOnce
  <2> QED
    BY <2>2, <2>3 DEF WInv
<1>3. OInv => (~mixed => \A f \in File \ Reply : Len(delivered[f]) <= sessions)
  BY DEF Once
<1> QED
  BY <1>1, <1>2, <1>3, PTL DEF Spec

\* Through a broken connection and the next call nothing is lost, mixed or sent
\* twice, when each side sends at most one file of more than one block, nobody
\* requests files, and no disk fills up, no process is killed and no file replaced.
THEOREM RetryIsSound ==
  ASSUME ~CanFill, ~CanDie, ~CanReplace, OneLong, Reply = {} PROVE Spec => []RetrySound
<1>1. Spec => []KeptUntilReceived
  BY KeptTillReceived
<1>2. Spec => []NeverMixed
  BY NothingIsMixed
<1>3. Spec => [](~mixed => \A f \in File \ Reply : Len(delivered[f]) <= sessions)
  BY SentOnce
<1>4. KeptUntilReceived /\ NeverMixed /\ (~mixed => \A f \in File \ Reply : Len(delivered[f]) <= sessions) => RetrySound
  BY DEF RetrySound, NeverMixed, NotTwice
<1> QED
  BY <1>1, <1>2, <1>3, <1>4, PTL

\* So the sessions of such files implement the exchange, without a condition on
\* what was mixed.
THEOREM ExchangeOfApart ==
  ASSUME ~CanFill, ~CanDie, ~CanReplace, OneLong, \A f \in File : Start[f] < Size[f] PROVE Spec => ExchangesFiles
<1>1. Spec => []NeverMixed
  BY NothingIsMixed
<1>2. Spec /\ []NeverMixed => ExchangesFiles
  BY ImplementsExchange
<1> QED
  BY <1>1, <1>2, PTL

=============================================================================
