--------------------------- MODULE BinkpEndProofs ---------------------------
(***************************************************************************)
(* A binkp session without faults and partial files ends well for both     *)
(* sides or for none, for any files, sizes, requests and windows.  What    *)
(* could go wrong is that the two processes count the messages of a batch  *)
(* differently or start a batch at different times, so that one of them    *)
(* ends where the other goes on.  The inductive invariant says what each   *)
(* wire holds of a batch (Batch), that a process is at most one batch      *)
(* ahead of the other (Ahead), and that a command counted by one is        *)
(* counted by the other or still on the wire (Counting).                   *)
(***************************************************************************)
EXTENDS BinkpProofs

\* The line holds, nobody is killed, no file is refused and the disk does not fill up.
NoFault == ~CanCut /\ ~CanDie /\ ~CanStall /\ ~CanRefuse /\ ~CanFill

\* No earlier session left a part of a file.
NoPartial == \A f \in File : Start[f] = 0

(***************************************************************************)
(* One frame more or less.                                                 *)
(***************************************************************************)

LEMMA AppendFacts ==
  ASSUME NEW S, NEW w \in Seq(S), NEW m \in S
  PROVE  /\ Append(w, m) \in Seq(S) /\ Append(w, m) # <<>> /\ Len(w) \in Nat /\ Len(Append(w, m)) = Len(w) + 1
         /\ \A i \in 1..Len(w) : Append(w, m)[i] = w[i]
         /\ Append(w, m)[Len(w) + 1] = m
         /\ \A i \in 1..Len(Append(w, m)) : i \in 1..Len(w) \/ i = Len(w) + 1
<1>1. /\ Append(w, m) \in Seq(S) /\ Len(w) \in Nat /\ Len(Append(w, m)) = Len(w) + 1
      /\ \A i \in 1..Len(w) : Append(w, m)[i] = w[i]
      /\ Append(w, m)[Len(w) + 1] = m
  BY LenProperties, AppendProperties
<1>2. Append(w, m) # <<>>
  BY AppendProperties
<1> QED
  BY <1>1, <1>2

LEMMA TailFacts ==
  ASSUME NEW S, NEW w \in Seq(S), w # <<>>
  PROVE  /\ Tail(w) \in Seq(S) /\ Len(w) \in Nat \ {0} /\ Len(Tail(w)) = Len(w) - 1
         /\ Head(w) = w[1] /\ Head(w) \in S /\ 1 \in 1..Len(w)
         /\ \A i \in 1..Len(Tail(w)) : i + 1 \in 1..Len(w) /\ Tail(w)[i] = w[i + 1]
<1>1. /\ Len(w) \in Nat /\ Len(w) # 0 /\ Len(Tail(w)) = Len(w) - 1 /\ Tail(w) \in Seq(S)
      /\ \A i \in 1..Len(Tail(w)) : Tail(w)[i] = w[i + 1]
      /\ Head(w) = w[1] /\ Head(w) \in S
  BY EmptySeq, LenProperties, HeadTailProperties
<1>2. \A i \in 1..(Len(w) - 1) : i + 1 \in 1..Len(w)
  BY <1>1
<1> QED
  BY <1>1, <1>2

LEMMA NoFrames == \A S : <<>> \in Seq(S) /\ Len(<<>>) = 0 /\ \A i : i \notin 1..Len(<<>>)
OBVIOUS

\* Every frame of w satisfies what those of its tail, or all but the last, do.
LEMMA ToldMore ==
  ASSUME NEW S, NEW w \in Seq(S), NEW m \in S, NEW cmd
  PROVE  Told(w, cmd) \subseteq Told(Append(w, m), cmd) /\ (m.cmd = cmd => m.file \in Told(Append(w, m), cmd))
<1> DEFINE a == Append(w, m)
<1>1. /\ Len(w) \in Nat /\ Len(a) = Len(w) + 1 /\ a[Len(w) + 1] = m
      /\ \A i \in 1..Len(w) : a[i] = w[i]
  BY AppendFacts
<1> HIDE DEF a
<1>2. \A i \in 1..Len(w) : i \in 1..Len(a)
  BY <1>1
<1>3. Len(w) + 1 \in 1..Len(a)
  BY <1>1
<1> QED
  BY <1>1, <1>2, <1>3 DEF Told, a

LEMMA ToldHead ==
  ASSUME NEW S, NEW w \in Seq(S), w # <<>>, NEW cmd
  PROVE  Told(w, cmd) \subseteq Told(Tail(w), cmd) \union {g \in {Head(w).file} : Head(w).cmd = cmd}
<1> DEFINE a == Tail(w)
<1>1. /\ Len(w) \in Nat \ {0} /\ Len(a) = Len(w) - 1 /\ Head(w) = w[1]
      /\ \A i \in 1..Len(a) : a[i] = w[i + 1]
  BY TailFacts
<1> HIDE DEF a
<1>2. ASSUME NEW i \in 1..Len(w), w[i].cmd = cmd
      PROVE  w[i].file \in Told(a, cmd) \union {g \in {Head(w).file} : Head(w).cmd = cmd}
  <2>1. CASE i = 1
    BY <1>1, <1>2, <2>1
  <2>2. CASE i # 1
    <3>1. i - 1 \in 1..Len(a) /\ (i - 1) + 1 = i
      BY <1>1, <2>2
    <3>2. a[i - 1] = w[i]
      BY <1>1, <3>1
    <3> QED
      BY <1>2, <3>1, <3>2 DEF Told
  <2> QED
    BY <2>1, <2>2
<1> QED
  BY <1>2 DEF Told, a

LEMMA ToldNone == ASSUME NEW cmd PROVE Told(<<>>, cmd) = {}
BY DEF Told

(***************************************************************************)
(* What a wire holds of a batch: got says that the receiver read the M_EOB *)
(* of it, sent that the sender sent it.  After its M_EOB a process only    *)
(* acknowledges.                                                           *)
(***************************************************************************)
OnlyGot(w) == \A i \in 1..Len(w) : w[i].cmd = "GOT"
Closes(w, e) ==
  /\ w[e].cmd = "EOB"
  /\ \A i \in 1..Len(w) : i < e => w[i].cmd # "EOB"
  /\ \A i \in 1..Len(w) : i > e => w[i].cmd = "GOT"
Batch(w, got, sent) ==
  \/ got /\ sent /\ OnlyGot(w)
  \/ ~got /\ sent /\ \E e \in 1..Len(w) : Closes(w, e)
  \/ ~got /\ ~sent /\ \A i \in 1..Len(w) : w[i].cmd # "EOB"

LEMMA BatchEmpty ==
  /\ Batch(<<>>, FALSE, FALSE) /\ Batch(<<>>, TRUE, TRUE)
  /\ \A got, sent \in BOOLEAN : Batch(<<>>, got, sent) => (got <=> sent)
<1>1. Len(<<>>) = 0 /\ \A i : i \notin 1..Len(<<>>)
  BY NoFrames
<1> QED
  BY <1>1 DEF Batch, OnlyGot

LEMMA BatchAppend ==
  ASSUME NEW S, NEW w \in Seq(S), NEW m \in S, NEW got \in BOOLEAN, NEW sent \in BOOLEAN, Batch(w, got, sent)
  PROVE  /\ m.cmd = "GOT" => Batch(Append(w, m), got, sent)
         /\ ~sent /\ m.cmd # "EOB" => Batch(Append(w, m), got, FALSE)
         /\ ~sent /\ m.cmd = "EOB" => Batch(Append(w, m), got, TRUE)
<1> DEFINE a == Append(w, m)
           n == Len(w)
<1>1. /\ n \in Nat /\ Len(a) = n + 1 /\ a[n + 1] = m
      /\ \A i \in 1..n : a[i] = w[i]
      /\ \A i \in 1..Len(a) : i \in 1..n \/ i = n + 1
  BY AppendFacts
<1>2. \A e \in 1..n : e \in 1..Len(a) /\ e < n + 1
  BY <1>1
<1>3. n + 1 \in 1..Len(a) /\ \A i \in 1..n : ~(i > n + 1)
  BY <1>1
<1> HIDE DEF a
<1>4. ASSUME m.cmd = "GOT" PROVE Batch(a, got, sent)
  <2>1. CASE got /\ sent /\ OnlyGot(w)
    BY <1>1, <1>4, <2>1 DEF Batch, OnlyGot
  <2>2. CASE ~got /\ sent /\ \E e \in 1..n : Closes(w, e)
    <3>1. PICK e \in 1..n : Closes(w, e)
      BY <2>2
    <3>2. Closes(a, e)
      BY <1>1, <1>2, <1>4, <3>1 DEF Closes
    <3> QED
      BY <1>2, <2>2, <3>2 DEF Batch
  <2>3. CASE ~got /\ ~sent /\ \A i \in 1..n : w[i].cmd # "EOB"
    BY <1>1, <1>4, <2>3 DEF Batch
  <2> QED
    BY <2>1, <2>2, <2>3 DEF Batch
<1>5. ASSUME ~sent PROVE ~got /\ \A i \in 1..n : w[i].cmd # "EOB"
  BY <1>5 DEF Batch
<1>6. ASSUME ~sent, m.cmd # "EOB" PROVE Batch(a, got, FALSE)
  BY <1>1, <1>5, <1>6 DEF Batch
<1>7. ASSUME ~sent, m.cmd = "EOB" PROVE Batch(a, got, TRUE)
  <2>1. Closes(a, n + 1)
    BY <1>1, <1>3, <1>5, <1>7 DEF Closes
  <2> QED
    BY <1>3, <1>5, <1>7, <2>1 DEF Batch
<1> QED
  BY <1>4, <1>6, <1>7 DEF a

LEMMA BatchTail ==
  ASSUME NEW S, NEW w \in Seq(S), w # <<>>, NEW got \in BOOLEAN, NEW sent \in BOOLEAN, Batch(w, got, sent)
  PROVE  /\ got => Head(w).cmd = "GOT"
         /\ Head(w).cmd # "EOB" => Batch(Tail(w), got, sent)
         /\ Head(w).cmd = "EOB" => ~got /\ sent /\ Batch(Tail(w), TRUE, TRUE)
<1> DEFINE a == Tail(w)
           n == Len(w)
<1>1. /\ n \in Nat \ {0} /\ Len(a) = n - 1 /\ Head(w) = w[1] /\ 1 \in 1..n
      /\ \A i \in 1..Len(a) : i + 1 \in 1..n /\ a[i] = w[i + 1]
  BY TailFacts
<1> HIDE DEF a
<1>2. CASE got /\ sent /\ OnlyGot(w)
  BY <1>1, <1>2 DEF Batch, OnlyGot, a
<1>3. CASE ~got /\ sent /\ \E e \in 1..n : Closes(w, e)
  <2>1. PICK e \in 1..n : Closes(w, e)
    BY <1>3
  <2>2. CASE e = 1
    <3>1. \A i \in 1..Len(a) : i + 1 > 1
      OBVIOUS
    <3>2. OnlyGot(a)
      BY <1>1, <2>1, <2>2, <3>1 DEF Closes, OnlyGot
    <3>3. Head(w).cmd = "EOB"
      BY <1>1, <2>1, <2>2 DEF Closes
    <3> QED
      BY <1>3, <3>2, <3>3 DEF Batch, a
  <2>3. CASE e # 1
    <3>1. 1 < e /\ e - 1 \in 1..Len(a) /\ (e - 1) + 1 = e
      BY <1>1, <2>3
    <3>2. Head(w).cmd # "EOB"
      BY <1>1, <2>1, <3>1 DEF Closes
    <3>3. \A i \in 1..Len(a) : (i < e - 1 => i + 1 < e) /\ (i > e - 1 => i + 1 > e)
      BY <1>1
    <3>4. Closes(a, e - 1)
      BY <1>1, <2>1, <3>1, <3>3, ZenonT(60) DEF Closes
    <3> QED
      BY <1>3, <3>1, <3>2, <3>4 DEF Batch, a
  <2> QED
    BY <2>2, <2>3
<1>4. CASE ~got /\ ~sent /\ \A i \in 1..n : w[i].cmd # "EOB"
  BY <1>1, <1>4 DEF Batch, a
<1> QED
  BY <1>2, <1>3, <1>4 DEF Batch


\* The commands that say that something happens in a batch.
Tells(m) == m.cmd \notin {"EOB", "DATA"}
Busy(w) == \E i \in 1..Len(w) : Tells(w[i])

LEMMA BusyEmpty == ~Busy(<<>>)
BY NoFrames DEF Busy

LEMMA BusyAppend ==
  ASSUME NEW S, NEW w \in Seq(S), NEW m \in S PROVE Busy(Append(w, m)) <=> Busy(w) \/ Tells(m)
<1> DEFINE a == Append(w, m)
           n == Len(w)
<1>1. /\ n \in Nat /\ Len(a) = n + 1 /\ a[n + 1] = m
      /\ \A i \in 1..n : a[i] = w[i]
      /\ \A i \in 1..Len(a) : i \in 1..n \/ i = n + 1
  BY AppendFacts
<1>2. n + 1 \in 1..Len(a) /\ \A i \in 1..n : i \in 1..Len(a)
  BY <1>1
<1> HIDE DEF a
<1> QED
  BY <1>1, <1>2 DEF Busy, a

LEMMA BusyTail ==
  ASSUME NEW S, NEW w \in Seq(S), w # <<>> PROVE Busy(w) <=> Busy(Tail(w)) \/ Tells(Head(w))
<1> DEFINE a == Tail(w)
           n == Len(w)
<1>1. /\ n \in Nat \ {0} /\ Len(a) = n - 1 /\ Head(w) = w[1] /\ 1 \in 1..n
      /\ \A i \in 1..Len(a) : i + 1 \in 1..n /\ a[i] = w[i + 1]
  BY TailFacts
<1>2. \A i \in 1..n : i # 1 => i - 1 \in 1..Len(a) /\ (i - 1) + 1 = i
  BY <1>1
<1> HIDE DEF a
<1>3. Busy(a) => Busy(w)
  BY <1>1 DEF Busy
<1>4. Busy(w) => Busy(a) \/ Tells(Head(w))
  <2> SUFFICES ASSUME NEW i \in 1..n, Tells(w[i]), i # 1 PROVE Busy(a)
    BY <1>1 DEF Busy
  <2> QED
    BY <1>1, <1>2 DEF Busy
<1> QED
  BY <1>1, <1>3, <1>4 DEF Busy, a

(***************************************************************************)
(* The stream of a wire, see Track, where no file is broken off: a file is *)
(* announced, and a batch ends, only after all of the last file.  A place  *)
(* further on is one in the same file, unless that was announced between.  *)
(***************************************************************************)
Full(x) == x[1] = NoFile \/ x[2] = Size[x[1]]
Spot == {x \in Place : x[1] \in File => x[2] <= Size[x[1]]}
Complete == {x \in Spot : Full(x)}

Onward(w, P, i, j) ==
  \/ \E k \in 1..Len(w) : i < k /\ k <= j /\ w[k].cmd = "FILE" /\ w[k].file = P[j][1]
  \/ P[j][1] = P[i][1] /\ P[i][2] <= P[j][2]
Link(w, P, i) ==
  /\ Streaming(w[i]) => P[i] = Placed(w[i])
  /\ ~Streaming(w[i]) => P[i] = P[i - 1]
  /\ w[i].cmd = "DATA" => P[i - 1] = <<w[i].file, w[i].offs - 1>>
  /\ w[i].cmd \in {"FILE", "EOB"} => Full(P[i - 1])
Chain(w, P) ==
  /\ \A i \in 1..Len(w) : Link(w, P, i)
  /\ \A i, j \in 0..Len(w) : i <= j => Onward(w, P, i, j)
Chained(w, A, B) == \E P \in [0..Len(w) -> Spot] : Chain(w, P) /\ P[0] \in A /\ P[Len(w)] \in B

LEMMA ChainedMore ==
  ASSUME NEW w, NEW A, NEW B, Chained(w, A, B), NEW C, NEW D, A \subseteq C, B \subseteq D
  PROVE  Chained(w, C, D)
BY Zenon DEF Chained

LEMMA SpotTyped ==
  ASSUME NEW x \in Spot
  PROVE  x[1] \in File \union {NoFile} /\ x[2] \in Nat /\ x = <<x[1], x[2]>> /\ (x[1] \in File => x[2] <= Size[x[1]])
BY DEF Spot, Place

LEMMA ChainedEmpty == ASSUME NEW x \in Spot, NEW A, NEW B, x \in A, x \in B PROVE Chained(<<>>, A, B)
<1> DEFINE P == [i \in 0..0 |-> x]
<1>1. Len(<<>>) = 0 /\ 0 \in 0..0 /\ (\A i : i \notin 1..Len(<<>>)) /\ \A i \in 0..0 : i = 0
  BY NoFrames
<1>2. P \in [0..0 -> Spot] /\ P[0] = x
  BY <1>1
<1> HIDE DEF P
<1>3. Onward(<<>>, P, 0, 0)
  BY <1>2, SpotTyped DEF Onward
<1>4. Chain(<<>>, P)
  BY <1>1, <1>3 DEF Chain
<1> QED
  BY <1>1, <1>2, <1>4 DEF Chained

LEMMA PlacedSpot ==
  ASSUME NEW m \in Frame, Streaming(m), m.offs <= Size[m.file] PROVE Placed(m) \in Spot
<1>1. Placed(m) \in Place /\ Placed(m)[1] = m.file /\ Placed(m)[2] = m.offs
  BY PlacedTyped DEF Placed
<1> QED
  BY <1>1 DEF Spot

LEMMA ChainedAppend ==
  ASSUME NEW w \in Seq(Frame), NEW m \in Frame, NEW A, NEW B, Chained(w, A, B),
         Streaming(m) => m.offs <= Size[m.file],
         m.cmd = "DATA" => B = {<<m.file, m.offs - 1>>},
         m.cmd \in {"FILE", "EOB"} => B \subseteq Complete
  PROVE  Chained(Append(w, m), A, IF Streaming(m) THEN {Placed(m)} ELSE B)
<1> DEFINE n == Len(w)
           v == Append(w, m)
<1>1. /\ n \in Nat /\ Len(v) = n + 1
      /\ \A i \in 1..n : v[i] = w[i]
      /\ v[n + 1] = m
  BY AppendFacts
<1>2. PICK P \in [0..n -> Spot] : Chain(w, P) /\ P[0] \in A /\ P[n] \in B
  BY DEF Chained
<1> DEFINE last == IF Streaming(m) THEN Placed(m) ELSE P[n]
           Q == [i \in 0..(n + 1) |-> IF i = n + 1 THEN last ELSE P[i]]
<1>0. last \in Spot
  BY <1>1, <1>2, PlacedSpot
<1> HIDE DEF n, v
<1>3. /\ \A i \in 0..n : i \in 0..(n + 1) /\ i # n + 1 /\ Q[i] = P[i]
      /\ Q[n + 1] = last
  BY <1>1
<1>4. Q \in [0..(n + 1) -> Spot]
  <2>1. \A i \in 0..(n + 1) : i # n + 1 => i \in 0..n
    BY <1>1
  <2> HIDE DEF last
  <2> QED
    BY <1>0, <2>1
<1> HIDE DEF Q
<1>5. ASSUME NEW i \in 1..(n + 1) PROVE Link(v, Q, i)
  <2>1. CASE i = n + 1
    <3>1. i - 1 = n /\ v[i] = m /\ Q[n] = P[n] /\ n \in 0..n
      BY <1>1, <1>3, <2>1
    <3>2. m.cmd = "DATA" => P[n] = <<m.file, m.offs - 1>>
      BY <1>2
    <3>3. m.cmd \in {"FILE", "EOB"} => Full(P[n])
      BY <1>2 DEF Complete
    <3> QED
      BY <1>3, <2>1, <3>1, <3>2, <3>3 DEF Link
  <2>2. CASE i # n + 1
    <3>1. i \in 1..n /\ i \in 0..n /\ i - 1 \in 0..n
      BY <1>1, <2>2
    <3>2. v[i] = w[i] /\ Q[i] = P[i] /\ Q[i - 1] = P[i - 1]
      BY <1>1, <1>3, <3>1
    <3>3. Link(w, P, i)
      BY <1>2, <3>1 DEF Chain, n
    <3> QED
      BY <3>2, <3>3 DEF Link
  <2> QED
    BY <2>1, <2>2
<1>6. ASSUME NEW i \in 0..n, NEW j \in 0..n, i <= j PROVE Onward(v, Q, i, j)
  <2>1. Onward(w, P, i, j)
    BY <1>2, <1>6 DEF Chain, n
  <2>2. Q[i] = P[i] /\ Q[j] = P[j] /\ \A k \in 1..n : k \in 1..(n + 1)
    BY <1>1, <1>3
  <2> QED
    BY <1>1, <2>1, <2>2 DEF Onward, n
<1>7. ASSUME NEW i \in 0..n PROVE Onward(v, Q, i, n + 1)
  <2>0. n \in 0..n /\ i <= n /\ n \in Nat /\ i \in Nat
    BY <1>1
  <2>1. Onward(w, P, i, n) /\ Q[i] = P[i] /\ Q[n + 1] = last
    BY <1>2, <1>3, <2>0 DEF Chain, n
  <2>2. CASE m.cmd = "FILE"
    <3>1. n + 1 \in 1..Len(v) /\ i < n + 1 /\ v[n + 1].cmd = "FILE" /\ n + 1 <= n + 1
      BY <1>1, <2>0, <2>2
    <3>2. v[n + 1].file = Q[n + 1][1]
      BY <1>1, <2>1, <2>2 DEF Streaming, Placed
    <3> QED
      BY <3>1, <3>2 DEF Onward
  <2>3. CASE m.cmd # "FILE"
    <3>1. last[1] = P[n][1] /\ P[n][2] <= last[2] /\ P[i] \in Spot /\ P[n] \in Spot
      <4>1. CASE m.cmd = "DATA"
        <5>1. P[n] = <<m.file, m.offs - 1>> /\ last = <<m.file, m.offs>> /\ m.offs \in Nat
          BY <1>2, <4>1, PlacedTyped DEF Streaming, Placed
        <5>2. P[i] \in Spot /\ P[n] \in Spot
          BY <1>2, <2>0
        <5>3. m.offs - 1 <= m.offs
          BY <5>1
        <5> HIDE DEF last
        <5>4. last[1] = P[n][1] /\ P[n][2] <= last[2]
          BY <5>1, <5>3
        <5> QED
          BY <5>2, <5>4
      <4>2. CASE m.cmd # "DATA"
        <5>1. last = P[n] /\ P[n] \in Spot /\ P[i] \in Spot
          BY <1>2, <2>0, <2>3, <4>2 DEF Streaming
        <5> QED
          BY <5>1, SpotTyped
      <4> QED
        BY <4>1, <4>2
    <3>2. P[n][2] \in Nat /\ P[i][2] \in Nat /\ last[2] \in Nat
      BY <1>0, <3>1, SpotTyped
    <3> HIDE DEF last
    <3>3. CASE \E k \in 1..n : i < k /\ k <= n /\ w[k].cmd = "FILE" /\ w[k].file = P[n][1]
      <4>1. PICK k \in 1..n : i < k /\ k <= n /\ w[k].cmd = "FILE" /\ w[k].file = P[n][1]
        BY <3>3
      <4>2. k \in 1..Len(v) /\ k <= n + 1 /\ v[k] = w[k]
        BY <1>1
      <4> QED
        BY <2>1, <3>1, <4>1, <4>2 DEF Onward
    <3>4. CASE P[n][1] = P[i][1] /\ P[i][2] <= P[n][2]
      BY <2>1, <3>1, <3>2, <3>4 DEF Onward
    <3> QED
      BY <2>1, <3>3, <3>4 DEF Onward, n
  <2> QED
    BY <2>2, <2>3
<1>8. Onward(v, Q, n + 1, n + 1)
  <2>1. Q[n + 1][2] \in Nat
    BY <1>0, <1>3, SpotTyped
  <2> QED
    BY <2>1 DEF Onward
<1>9. Chain(v, Q)
  <2>1. \A i \in 0..(n + 1) : i \in 0..n \/ i = n + 1
    BY <1>1
  <2>2. \A i, j \in 0..(n + 1) : i <= j => Onward(v, Q, i, j)
    <3> SUFFICES ASSUME NEW i \in 0..(n + 1), NEW j \in 0..(n + 1), i <= j PROVE Onward(v, Q, i, j)
      OBVIOUS
    <3>1. j \in 0..n => i \in 0..n
      BY <1>1
    <3> QED
      BY <1>6, <1>7, <1>8, <2>1, <3>1
  <2> QED
    BY <1>1, <1>5, <2>2 DEF Chain
<1>10. Q[0] \in A /\ Q[n + 1] \in (IF Streaming(m) THEN {Placed(m)} ELSE B)
  <2>1. 0 \in 0..n
    BY <1>1
  <2> QED
    BY <1>2, <1>3, <2>1
<1> QED
  BY <1>1, <1>4, <1>9, <1>10 DEF Chained, v

LEMMA ChainedTail ==
  ASSUME NEW w \in Seq(Frame), w # <<>>, NEW A, NEW B, Chained(w, A, B)
  PROVE  LET m == Head(w) IN
         /\ Chained(Tail(w), IF Streaming(m) THEN {Placed(m)} ELSE A, B)
         /\ m.cmd = "DATA" => <<m.file, m.offs - 1>> \in A
         /\ m.cmd \in {"FILE", "EOB"} => \E x \in A : x \in Spot /\ Full(x)
         /\ Streaming(m) => Placed(m) \in Spot
<1> DEFINE n == Len(w)
           m == Head(w)
           v == Tail(w)
<1>1. /\ n \in Nat /\ n # 0 /\ Len(v) = n - 1
      /\ \A i \in 1..(n - 1) : v[i] = w[i + 1]
      /\ m = w[1]
  BY TailFacts
<1>2. PICK P \in [0..n -> Spot] : Chain(w, P) /\ P[0] \in A /\ P[n] \in B
  BY DEF Chained
<1> DEFINE Q == [i \in 0..(n - 1) |-> P[i + 1]]
<1> HIDE DEF n, v, m
<1>3. \A i \in 0..(n - 1) : i + 1 \in 1..n /\ i + 1 \in 0..n /\ Q[i] = P[i + 1]
  BY <1>1
<1>4. Q \in [0..(n - 1) -> Spot]
  BY <1>3
<1> HIDE DEF Q
<1>5. ASSUME NEW i \in 1..(n - 1) PROVE Link(v, Q, i)
  <2>1. i \in 0..(n - 1) /\ i - 1 \in 0..(n - 1) /\ i + 1 \in 1..n /\ (i - 1) + 1 = i /\ (i + 1) - 1 = i
    BY <1>1
  <2>2. v[i] = w[i + 1] /\ Q[i] = P[i + 1] /\ Q[i - 1] = P[i]
    BY <1>1, <1>3, <2>1
  <2>3. Link(w, P, i + 1)
    BY <1>2, <2>1 DEF Chain, n
  <2> QED
    BY <2>1, <2>2, <2>3 DEF Link
<1>6. ASSUME NEW i \in 0..(n - 1), NEW j \in 0..(n - 1), i <= j PROVE Onward(v, Q, i, j)
  <2>1. i + 1 \in 0..n /\ j + 1 \in 0..n /\ i + 1 <= j + 1 /\ Q[i] = P[i + 1] /\ Q[j] = P[j + 1]
    BY <1>1, <1>3, <1>6
  <2>2. Onward(w, P, i + 1, j + 1)
    BY <1>2, <2>1 DEF Chain, n
  <2>3. ASSUME NEW k \in 1..n, i + 1 < k, k <= j + 1, w[k].cmd = "FILE", w[k].file = Q[j][1]
        PROVE  Onward(v, Q, i, j)
    <3>1. k - 1 \in 1..Len(v) /\ i < k - 1 /\ k - 1 <= j /\ (k - 1) + 1 = k /\ k - 1 \in 1..(n - 1)
      BY <1>1, <2>3
    <3>2. v[k - 1] = w[k]
      BY <1>1, <3>1
    <3> QED
      BY <2>3, <3>1, <3>2 DEF Onward
  <2> QED
    BY <2>1, <2>2, <2>3 DEF Onward, n
<1>7. Chain(v, Q)
  BY <1>1, <1>5, <1>6 DEF Chain
<1>8. 1 \in 1..n /\ 0 \in 0..(n - 1) /\ n - 1 \in 0..(n - 1) /\ (n - 1) + 1 = n /\ 1 - 1 = 0 /\ 0 + 1 = 1 /\ 0 \in 0..n
  BY <1>1
<1>9. Link(w, P, 1) /\ P[0] \in Spot
  BY <1>2, <1>8 DEF Chain, n
<1>10. Q[0] = P[1] /\ Q[n - 1] = P[n]
  BY <1>3, <1>8
<1>11. /\ Q[0] \in (IF Streaming(m) THEN {Placed(m)} ELSE A)
       /\ m.cmd = "DATA" => <<m.file, m.offs - 1>> \in A
       /\ m.cmd \in {"FILE", "EOB"} => \E x \in A : x \in Spot /\ Full(x)
       /\ Streaming(m) => Placed(m) \in Spot
  <2>1. /\ Streaming(m) => P[1] = Placed(m)
        /\ ~Streaming(m) => P[1] = P[0]
        /\ m.cmd = "DATA" => P[0] = <<m.file, m.offs - 1>>
        /\ m.cmd \in {"FILE", "EOB"} => Full(P[0])
    BY <1>1, <1>8, <1>9, Zenon DEF Link
  <2>2. P[0] \in A /\ P[0] \in Spot /\ P[1] \in Spot /\ Q[0] = P[1]
    <3>1. 1 \in 0..n
      BY <1>1
    <3> QED
      BY <1>2, <1>9, <1>10, <3>1, Zenon
  <2>3. CASE Streaming(m)
    BY <2>1, <2>2, <2>3, Zenon
  <2>4. CASE ~Streaming(m)
    BY <2>1, <2>2, <2>4, Zenon
  <2> QED
    BY <2>3, <2>4, Zenon
<1>12. Chained(v, IF Streaming(m) THEN {Placed(m)} ELSE A, B)
  BY <1>1, <1>2, <1>4, <1>7, <1>10, <1>11 DEF Chained
<1> QED
  BY <1>11, <1>12 DEF m, v

\* The sender is not behind the receiver, in a file that is not announced again.
LEMMA ChainedEnds ==
  ASSUME NEW w \in Seq(Frame), NEW x, NEW y, Chained(w, {x}, {y}), y[1] \notin Told(w, "FILE")
  PROVE  x \in Spot /\ y \in Spot /\ y[1] = x[1] /\ x[2] <= y[2]
<1>1. PICK P \in [0..Len(w) -> Spot] : Chain(w, P) /\ P[0] = x /\ P[Len(w)] = y
  BY DEF Chained
<1>2. Len(w) \in Nat
  BY LenProperties
<1>3. 0 \in 0..Len(w) /\ Len(w) \in 0..Len(w) /\ 0 <= Len(w)
  BY <1>2
<1>4. Onward(w, P, 0, Len(w))
  BY <1>1, <1>3 DEF Chain
<1> QED
  BY <1>1, <1>3, <1>4 DEF Onward, Told


(***************************************************************************)
(* What is on a wire of one batch, and after it of the next                *)
(***************************************************************************)

LEMMA TwoAppend ==
  ASSUME NEW S, NEW u \in Seq(S), NEW x \in Seq(S), NEW m \in S PROVE Append(u \o x, m) = u \o Append(x, m)
<1>1. u \o x \in Seq(S) /\ <<m>> \in Seq(S)
  BY ConcatProperties
<1>2. Append(u \o x, m) = (u \o x) \o <<m>> /\ Append(x, m) = x \o <<m>>
  BY <1>1, AppendIsConcat
<1>3. (u \o x) \o <<m>> = u \o (x \o <<m>>)
  BY <1>1, ConcatAssociative
<1> QED
  BY <1>2, <1>3

LEMMA TwoTail ==
  ASSUME NEW S, NEW u \in Seq(S), NEW x \in Seq(S), u # <<>>
  PROVE  u \o x # <<>> /\ Head(u \o x) = Head(u) /\ Tail(u \o x) = Tail(u) \o x
<1> DEFINE w == u \o x
           y == Tail(u)
           z == y \o x
<1>1. /\ y \in Seq(S) /\ Len(u) \in Nat \ {0} /\ Len(y) = Len(u) - 1 /\ Head(u) = u[1]
      /\ \A i \in 1..Len(y) : y[i] = u[i + 1]
  BY TailFacts
<1>2. /\ w \in Seq(S) /\ Len(w) = Len(u) + Len(x)
      /\ \A i \in 1..(Len(u) + Len(x)) : w[i] = IF i <= Len(u) THEN u[i] ELSE x[i - Len(u)]
  BY ConcatProperties
<1> HIDE DEF y
<1>3. /\ z \in Seq(S) /\ Len(z) = Len(y) + Len(x)
      /\ \A i \in 1..(Len(y) + Len(x)) : z[i] = IF i <= Len(y) THEN y[i] ELSE x[i - Len(y)]
  BY <1>1, ConcatProperties
<1>4. Len(x) \in Nat /\ Len(<<>>) = 0
  BY LenProperties
<1> HIDE DEF w, z
<1>5. w # <<>>
  BY <1>1, <1>2, <1>4
<1>6. /\ Tail(w) \in Seq(S) /\ Len(Tail(w)) = Len(w) - 1 /\ Head(w) = w[1]
      /\ \A i \in 1..Len(Tail(w)) : Tail(w)[i] = w[i + 1]
  BY <1>2, <1>5, TailFacts
<1>7. Head(w) = u[1]
  BY <1>1, <1>2, <1>4, <1>6
<1>8. ASSUME NEW i \in 1..Len(z) PROVE Tail(w)[i] = z[i]
  <2>1. i \in 1..Len(Tail(w)) /\ i + 1 \in 1..(Len(u) + Len(x)) /\ i \in 1..(Len(y) + Len(x)) /\ i \in Nat
    BY <1>1, <1>2, <1>3, <1>4, <1>6
  <2>2. CASE i <= Len(y)
    <3>1. i + 1 <= Len(u) /\ i \in 1..Len(y)
      BY <1>1, <2>1, <2>2
    <3> QED
      BY <1>1, <1>2, <1>3, <1>6, <2>1, <2>2, <3>1
  <2>3. CASE ~(i <= Len(y))
    <3>1. ~(i + 1 <= Len(u)) /\ i + 1 - Len(u) = i - Len(y)
      BY <1>1, <2>1, <2>3
    <3> QED
      BY <1>2, <1>3, <1>6, <2>1, <2>3, <3>1, SMTT(60)
  <2> QED
    BY <2>2, <2>3
<1>9. Len(Tail(w)) = Len(z)
  BY <1>1, <1>2, <1>3, <1>4, <1>6
<1>10. Tail(w) = z
  BY <1>3, <1>6, <1>8, <1>9, SeqEqual, ZenonT(30)
<1> QED
  BY <1>1, <1>5, <1>7, <1>10 DEF w, z, y

LEMMA TwoTold ==
  ASSUME NEW S, NEW u \in Seq(S), NEW x \in Seq(S), NEW cmd PROVE Told(u \o x, cmd) \subseteq Told(u, cmd) \union Told(x, cmd)
<1> DEFINE w == u \o x
<1>1. /\ Len(w) = Len(u) + Len(x) /\ Len(u) \in Nat /\ Len(x) \in Nat
      /\ \A i \in 1..(Len(u) + Len(x)) : w[i] = IF i <= Len(u) THEN u[i] ELSE x[i - Len(u)]
  BY ConcatProperties, LenProperties
<1> HIDE DEF w
<1>2. ASSUME NEW i \in 1..Len(w), w[i].cmd = cmd PROVE w[i].file \in Told(u, cmd) \union Told(x, cmd)
  <2>1. CASE i <= Len(u)
    <3>1. i \in 1..Len(u) /\ w[i] = u[i]
      BY <1>1, <2>1
    <3> QED
      BY <1>2, <3>1 DEF Told
  <2>2. CASE ~(i <= Len(u))
    <3>1. i - Len(u) \in 1..Len(x) /\ w[i] = x[i - Len(u)]
      BY <1>1, <2>2
    <3> QED
      BY <1>2, <3>1 DEF Told
  <2> QED
    BY <2>1, <2>2
<1> QED
  BY <1>2 DEF Told, w

LEMMA TwoEmpty == ASSUME NEW S, NEW x \in Seq(S) PROVE <<>> \o x = x /\ x \o <<>> = x
BY ConcatEmptySeq

(***************************************************************************)
(* The counting of messages                                                *)
(***************************************************************************)
One(b) == IF b THEN 1 ELSE 0

\* The M_EOB of both sides are counted, and s counted more than them.
Eobs(s) == One(s.local_EOB) + One(s.remote_EOB)
Extra(s) == s.messages > Eobs(s)

\* What the balance says of a session.
Counting(s) ==
  /\ s.local_EOB \in BOOLEAN /\ s.remote_EOB \in BOOLEAN /\ s.messages \in 0..3
  /\ s.messages >= Eobs(s)

\* A step from s to t that counts a command, which may be an M_EOB of either side.
Same(s, t) == t.Minor = s.Minor
Tell(s, t) == t.messages = Bump(s.messages) /\ t.local_EOB = s.local_EOB /\ t.remote_EOB = s.remote_EOB
TellEnd(s, t) == t.messages = Bump(s.messages) /\ t.local_EOB = TRUE /\ ~s.local_EOB /\ t.remote_EOB = s.remote_EOB
HearEnd(s, t) == t.messages = Bump(s.messages) /\ t.remote_EOB = TRUE /\ ~s.remote_EOB /\ t.local_EOB = s.local_EOB
Mute(s, t) == t.messages = s.messages /\ t.local_EOB = s.local_EOB /\ t.remote_EOB = s.remote_EOB

LEMMA OneTyped == One(TRUE) = 1 /\ One(FALSE) = 0 /\ \A b \in BOOLEAN : One(b) \in 0..1
BY DEF One

LEMMA Counts ==
  ASSUME NEW s, NEW t, Counting(s)
  PROVE  /\ Tell(s, t) => Extra(t) /\ Counting(t)
         /\ TellEnd(s, t) \/ HearEnd(s, t) => (Extra(t) <=> Extra(s)) /\ Counting(t)
         /\ Mute(s, t) => (Extra(t) <=> Extra(s)) /\ Counting(t)
<1>1. s.messages \in 0..3 /\ One(s.local_EOB) \in 0..1 /\ One(s.remote_EOB) \in 0..1
      /\ s.messages >= One(s.local_EOB) + One(s.remote_EOB)
  BY OneTyped DEF Counting, Eobs
<1>2. /\ Bump(s.messages) \in 0..3 /\ (s.messages < 3 => Bump(s.messages) = s.messages + 1)
      /\ (s.messages = 3 => Bump(s.messages) = 3)
  BY <1>1 DEF Bump
<1>3. ASSUME Tell(s, t) PROVE Extra(t) /\ Counting(t)
  BY <1>1, <1>2, <1>3 DEF Tell, Extra, Eobs, Counting
<1>4. ASSUME TellEnd(s, t) PROVE (Extra(t) <=> Extra(s)) /\ Counting(t)
  <2>1. One(t.local_EOB) = 1 /\ One(s.local_EOB) = 0 /\ One(t.remote_EOB) = One(s.remote_EOB)
    BY <1>4, OneTyped DEF TellEnd, Counting
  <2>2. Eobs(t) = Eobs(s) + 1 /\ Eobs(s) \in 0..1 /\ s.messages >= Eobs(s)
    BY <1>1, <2>1 DEF Eobs
  <2>3. t.messages = Bump(s.messages) /\ t.local_EOB \in BOOLEAN /\ t.remote_EOB \in BOOLEAN
    BY <1>4 DEF TellEnd, Counting
  <2>4. t.messages \in 0..3 /\ t.messages >= Eobs(t)
    BY <1>1, <1>2, <2>2, <2>3
  <2>5. t.messages > Eobs(t) <=> s.messages > Eobs(s)
    BY <1>1, <1>2, <2>2, <2>3
  <2> QED
    BY <2>3, <2>4, <2>5 DEF Extra, Counting
<1>5. ASSUME HearEnd(s, t) PROVE (Extra(t) <=> Extra(s)) /\ Counting(t)
  <2>1. One(t.remote_EOB) = 1 /\ One(s.remote_EOB) = 0 /\ One(t.local_EOB) = One(s.local_EOB)
    BY <1>5, OneTyped DEF HearEnd, Counting
  <2>2. Eobs(t) = Eobs(s) + 1 /\ Eobs(s) \in 0..1 /\ s.messages >= Eobs(s)
    BY <1>1, <2>1 DEF Eobs
  <2>3. t.messages = Bump(s.messages) /\ t.local_EOB \in BOOLEAN /\ t.remote_EOB \in BOOLEAN
    BY <1>5 DEF HearEnd, Counting
  <2>4. t.messages \in 0..3 /\ t.messages >= Eobs(t)
    BY <1>1, <1>2, <2>2, <2>3
  <2>5. t.messages > Eobs(t) <=> s.messages > Eobs(s)
    BY <1>1, <1>2, <2>2, <2>3
  <2> QED
    BY <2>3, <2>4, <2>5 DEF Extra, Counting
<1>6. ASSUME Mute(s, t) PROVE (Extra(t) <=> Extra(s)) /\ Counting(t)
  BY <1>6 DEF Mute, Extra, Eobs, Counting
<1> QED
  BY <1>3, <1>4, <1>5, <1>6


(***************************************************************************)
(* The balance of the two sides: for s, whose peer is r, what is on its    *)
(* wire w and on the wire v of r.  Either both are in the same batch, and  *)
(* what one counted the other counted or will read, or one is a batch      *)
(* ahead: then the other has still to read the end of the last one, and    *)
(* something that makes it go on.                                          *)
(***************************************************************************)
Level(s, r, w) ==
  /\ Batch(w, r.remote_EOB, s.local_EOB)
  /\ Busy(w) => Extra(s)
  /\ Extra(s) => Extra(r) \/ Busy(w)
Finished(s, r, w, v) ==
  Over(s) => /\ Both(s) /\ v = <<>> /\ Told(w, "FILE") = {} /\ r.RxState # "RxReceD"
             /\ s.Minor # 0 => ~Extra(s) /\ ~Extra(r)
Even(s, r, w, v) == Level(s, r, w) /\ Level(r, s, v) /\ Finished(s, r, w, v) /\ Finished(r, s, v, w)

Splits(s, r, w, u, x) ==
  /\ w = u \o x
  /\ Batch(u, r.remote_EOB, TRUE) /\ Batch(x, FALSE, s.local_EOB)
  /\ Extra(r) \/ Busy(u)
  /\ Extra(s) <=> Busy(x)
  /\ Told(u, "FILE") = {} /\ Told(x, "GOT") = {}
Ahead(s, r, w, v) ==
  /\ ~Over(s) /\ ~Over(r) /\ s.Minor # 0 /\ v = <<>>
  /\ ~s.remote_EOB /\ r.local_EOB /\ s.RxState = "RxWaitF" /\ r.RxState # "RxReceD"
  /\ \E u, x \in Seq(Frame) : Splits(s, r, w, u, x)

Balance(s, r, w, v) == Even(s, r, w, v) \/ Ahead(s, r, w, v) \/ Ahead(r, s, v, w)

LEMMA BalanceTurned == ASSUME NEW s, NEW r, NEW w, NEW v, Balance(s, r, w, v) PROVE Balance(r, s, v, w)
BY Zenon DEF Balance, Even

\* What a frame that is sent or read makes of the count.
Counted(s, t, m) ==
  /\ t.Minor = s.Minor
  /\ Tells(m) => Tell(s, t)
  /\ m.cmd = "DATA" => Mute(s, t)
Speaks(s, t, m) == Counted(s, t, m) /\ (m.cmd = "EOB" => TellEnd(s, t))
Listens(s, t, m) == Counted(s, t, m) /\ (m.cmd = "EOB" => t.messages = Bump(s.messages) /\ t.remote_EOB = TRUE /\ t.local_EOB = s.local_EOB)

\* The count after it.
Spoken(s, t, m) ==
  /\ Counting(t) /\ t.remote_EOB = s.remote_EOB
  /\ Tells(m) => Extra(t) /\ t.local_EOB = s.local_EOB
  /\ m.cmd = "DATA" => (Extra(t) <=> Extra(s)) /\ t.local_EOB = s.local_EOB
  /\ m.cmd = "EOB" => (Extra(t) <=> Extra(s)) /\ t.local_EOB = TRUE /\ ~s.local_EOB
Heard(s, t, m) ==
  /\ Counting(t) /\ t.local_EOB = s.local_EOB
  /\ Tells(m) => Extra(t) /\ t.remote_EOB = s.remote_EOB
  /\ m.cmd = "DATA" => (Extra(t) <=> Extra(s)) /\ t.remote_EOB = s.remote_EOB
  /\ m.cmd = "EOB" => (Extra(t) <=> Extra(s)) /\ t.remote_EOB = TRUE

LEMMA SpeaksView ==
  ASSUME NEW s, NEW t, NEW m, Counting(s), Speaks(s, t, m)
  PROVE  Spoken(s, t, m)
<1>1. Tell(s, t) => Extra(t) /\ Counting(t) /\ t.local_EOB = s.local_EOB /\ t.remote_EOB = s.remote_EOB
  BY Counts DEF Tell
<1>2. TellEnd(s, t) => (Extra(t) <=> Extra(s)) /\ Counting(t) /\ t.local_EOB = TRUE /\ ~s.local_EOB /\ t.remote_EOB = s.remote_EOB
  BY Counts DEF TellEnd
<1>3. Mute(s, t) => (Extra(t) <=> Extra(s)) /\ Counting(t) /\ t.local_EOB = s.local_EOB /\ t.remote_EOB = s.remote_EOB
  BY Counts DEF Mute
<1>4. Tells(m) \/ m.cmd = "DATA" \/ m.cmd = "EOB"
  BY DEF Tells
<1> QED
  BY <1>1, <1>2, <1>3, <1>4, Zenon DEF Speaks, Counted, Tells, Spoken

LEMMA ListensView ==
  ASSUME NEW s, NEW t, NEW m, Counting(s), Listens(s, t, m), m.cmd = "EOB" => ~s.remote_EOB
  PROVE  Heard(s, t, m)
<1>1. Tell(s, t) => Extra(t) /\ Counting(t) /\ t.local_EOB = s.local_EOB /\ t.remote_EOB = s.remote_EOB
  BY Counts DEF Tell
<1>2. HearEnd(s, t) => (Extra(t) <=> Extra(s)) /\ Counting(t) /\ t.remote_EOB = TRUE /\ t.local_EOB = s.local_EOB
  BY Counts DEF HearEnd
<1>3. Mute(s, t) => (Extra(t) <=> Extra(s)) /\ Counting(t) /\ t.local_EOB = s.local_EOB /\ t.remote_EOB = s.remote_EOB
  BY Counts DEF Mute
<1>4. Tells(m) \/ m.cmd = "DATA" \/ m.cmd = "EOB"
  BY DEF Tells
<1>5. m.cmd = "EOB" => HearEnd(s, t)
  BY DEF Listens, HearEnd
<1> QED
  BY <1>1, <1>2, <1>3, <1>4, <1>5, Zenon DEF Listens, Counted, Tells, Heard

\* A frame is sent: never after M_EOB, but for M_GOT.
LEMMA BatchSent ==
  ASSUME NEW s, NEW t, NEW m \in Frame, NEW w \in Seq(Frame), NEW got \in BOOLEAN,
         Counting(s), Speaks(s, t, m), s.local_EOB => m.cmd = "GOT", Batch(w, got, s.local_EOB)
  PROVE  Batch(Append(w, m), got, t.local_EOB)
<1>0. Spoken(s, t, m)
  BY SpeaksView
<1>1. /\ Tells(m) => t.local_EOB = s.local_EOB
      /\ m.cmd = "DATA" => t.local_EOB = s.local_EOB
      /\ m.cmd = "EOB" => t.local_EOB = TRUE
  BY <1>0 DEF Spoken
<1>2. Tells(m) \/ m.cmd = "DATA" \/ m.cmd = "EOB"
  BY DEF Tells
<1>3. s.local_EOB \in BOOLEAN
  BY DEF Counting
<1>4. /\ m.cmd = "GOT" => Batch(Append(w, m), got, s.local_EOB)
      /\ ~s.local_EOB /\ m.cmd # "EOB" => Batch(Append(w, m), got, FALSE)
      /\ ~s.local_EOB /\ m.cmd = "EOB" => Batch(Append(w, m), got, TRUE)
  BY <1>3, BatchAppend
<1>5. ~Tells(m) => m.cmd # "GOT"
  BY DEF Tells
<1>6. CASE s.local_EOB
  <2>1. m.cmd = "GOT" /\ t.local_EOB = s.local_EOB
    BY <1>1, <1>5, <1>6
  <2> QED
    BY <1>4, <2>1
<1>7. CASE ~s.local_EOB /\ m.cmd = "EOB"
  BY <1>1, <1>4, <1>7
<1>8. CASE ~s.local_EOB /\ m.cmd # "EOB"
  <2>1. t.local_EOB = s.local_EOB
    BY <1>1, <1>2, <1>8
  <2>2. s.local_EOB = FALSE
    BY <1>3, <1>8
  <2> QED
    BY <1>4, <1>8, <2>1, <2>2
<1> QED
  BY <1>6, <1>7, <1>8

LEMMA BatchRead ==
  ASSUME NEW s, NEW t, NEW v \in Seq(Frame), v # <<>>, NEW sent \in BOOLEAN,
         Counting(s), Listens(s, t, Head(v)), Batch(v, s.remote_EOB, sent)
  PROVE  /\ Batch(Tail(v), t.remote_EOB, sent) /\ Counting(t) /\ t.local_EOB = s.local_EOB
         /\ Tells(Head(v)) => Extra(t)
         /\ ~Tells(Head(v)) => (Extra(t) <=> Extra(s))
<1> DEFINE m == Head(v)
<1>1. s.remote_EOB \in BOOLEAN
  BY DEF Counting
<1>2. /\ m.cmd # "EOB" => Batch(Tail(v), s.remote_EOB, sent)
      /\ m.cmd = "EOB" => ~s.remote_EOB /\ sent /\ Batch(Tail(v), TRUE, TRUE)
  BY <1>1, BatchTail
<1> HIDE DEF m
<1>0. Heard(s, t, m)
  BY <1>2, ListensView DEF m
<1>3. /\ Counting(t) /\ t.local_EOB = s.local_EOB
      /\ Tells(m) => Extra(t) /\ t.remote_EOB = s.remote_EOB
      /\ m.cmd = "DATA" => (Extra(t) <=> Extra(s)) /\ t.remote_EOB = s.remote_EOB
      /\ m.cmd = "EOB" => (Extra(t) <=> Extra(s)) /\ t.remote_EOB = TRUE
  BY <1>0, Zenon DEF Heard
<1>4. (Tells(m) => m.cmd # "EOB") /\ (~Tells(m) => m.cmd \in {"DATA", "EOB"})
  BY DEF Tells
<1>5. CASE m.cmd = "EOB"
  <2>1. sent = TRUE
    BY <1>2, <1>5
  <2> QED
    BY <1>2, <1>3, <1>4, <1>5, <2>1 DEF m
<1>6. CASE m.cmd # "EOB"
  <2>1. t.remote_EOB = s.remote_EOB
    BY <1>3, <1>4, <1>6
  <2> QED
    BY <1>2, <1>3, <1>4, <1>6, <2>1 DEF m
<1> QED
  BY <1>5, <1>6

(***************************************************************************)
(* The balance after a frame was sent or read                              *)
(***************************************************************************)

LEMMA EvenSend ==
  ASSUME NEW s, NEW r, NEW t, NEW w \in Seq(Frame), NEW v, NEW m \in Frame,
         Even(s, r, w, v), Counting(s), Counting(r), ~Over(r), ~Over(t), Speaks(s, t, m), s.local_EOB => m.cmd = "GOT"
  PROVE  Even(t, r, Append(w, m), v)
<1>1. Batch(w, r.remote_EOB, s.local_EOB) /\ Batch(v, s.remote_EOB, r.local_EOB) /\ r.remote_EOB \in BOOLEAN
  BY DEF Even, Level, Counting
<1>2. Batch(Append(w, m), r.remote_EOB, t.local_EOB)
  BY <1>1, BatchSent
<1>3. t.remote_EOB = s.remote_EOB /\ (Tells(m) => Extra(t)) /\ (~Tells(m) => (Extra(t) <=> Extra(s)))
  <2>1. ~Tells(m) => m.cmd \in {"DATA", "EOB"}
    BY DEF Tells
  <2>2. Spoken(s, t, m)
    BY SpeaksView
  <2> QED
    BY <2>1, <2>2, Zenon DEF Spoken
<1>4. Busy(Append(w, m)) <=> Busy(w) \/ Tells(m)
  BY BusyAppend
<1>5. Level(t, r, Append(w, m))
  BY <1>2, <1>3, <1>4, Zenon DEF Even, Level
<1>6. Level(r, t, v)
  BY <1>1, <1>3, Zenon DEF Even, Level
<1> QED
  BY <1>5, <1>6 DEF Even, Finished

LEMMA EvenRead ==
  ASSUME NEW s, NEW r, NEW t, NEW w \in Seq(Frame), NEW v \in Seq(Frame), v # <<>>,
         Even(s, r, w, v), Counting(s), Counting(r), ~Over(t), Listens(s, t, Head(v)),
         t.RxState = "RxReceD" => s.RxState = "RxReceD" \/ Head(v).cmd = "FILE", r.Minor = s.Minor
  PROVE  Even(t, r, w, Tail(v))
<1> DEFINE m == Head(v)
<1>1. Batch(w, r.remote_EOB, s.local_EOB) /\ Batch(v, s.remote_EOB, r.local_EOB) /\ r.local_EOB \in BOOLEAN
  BY DEF Even, Level, Counting
<1>2. /\ Batch(Tail(v), t.remote_EOB, r.local_EOB) /\ t.local_EOB = s.local_EOB
      /\ Tells(m) => Extra(t)
      /\ ~Tells(m) => (Extra(t) <=> Extra(s))
  BY <1>1, BatchRead
<1>3. Busy(v) <=> Busy(Tail(v)) \/ Tells(m)
  BY BusyTail
<1>4. Level(t, r, w)
  BY <1>1, <1>2, <1>3, Zenon DEF Even, Level
<1>5. Level(r, t, Tail(v))
  BY <1>2, <1>3, Zenon DEF Even, Level
<1>6. Finished(r, t, Tail(v), w)
  <2> SUFFICES ASSUME Over(r)
               PROVE  /\ Both(r) /\ w = <<>> /\ Told(Tail(v), "FILE") = {} /\ t.RxState # "RxReceD"
                      /\ r.Minor # 0 => ~Extra(r) /\ ~Extra(t)
    BY DEF Finished
  <2>1. Both(r) /\ w = <<>> /\ Told(v, "FILE") = {} /\ s.RxState # "RxReceD" /\ (r.Minor # 0 => ~Extra(r) /\ ~Extra(s))
    BY DEF Even, Finished
  <2>2. m.cmd # "FILE" /\ Told(Tail(v), "FILE") \subseteq Told(v, "FILE")
    BY <2>1, ToldTail
  <2>3. r.Minor # 0 => ~Tells(m)
    BY <1>3, <2>1, Zenon DEF Even, Level
  <2> QED
    BY <1>2, <2>1, <2>2, <2>3
<1>7. Finished(t, r, w, Tail(v))
  BY DEF Finished
<1> QED
  BY <1>4, <1>5, <1>6, <1>7 DEF Even

LEMMA AheadSend ==
  ASSUME NEW s, NEW r, NEW t, NEW w, NEW v, NEW m \in Frame,
         Ahead(s, r, w, v), Counting(s), ~Over(t), Speaks(s, t, m), s.local_EOB => m.cmd = "GOT", m.cmd # "GOT",
         t.RxState = s.RxState
  PROVE  Ahead(t, r, Append(w, m), v)
<1>1. PICK u, x \in Seq(Frame) : Splits(s, r, w, u, x)
  BY DEF Ahead
<1>2. FALSE \in BOOLEAN /\ Batch(x, FALSE, s.local_EOB) /\ w = u \o x
  BY <1>1 DEF Splits
<1>3. Batch(Append(x, m), FALSE, t.local_EOB)
  BY <1>2, BatchSent
<1>4. t.remote_EOB = s.remote_EOB /\ (Tells(m) => Extra(t)) /\ (~Tells(m) => (Extra(t) <=> Extra(s)))
  <2>1. ~Tells(m) => m.cmd \in {"DATA", "EOB"}
    BY DEF Tells
  <2>2. Spoken(s, t, m)
    BY SpeaksView
  <2> QED
    BY <2>1, <2>2, Zenon DEF Spoken
<1>5. Busy(Append(x, m)) <=> Busy(x) \/ Tells(m)
  BY BusyAppend
<1>6. Append(w, m) = u \o Append(x, m) /\ Append(x, m) \in Seq(Frame)
  BY <1>2, TwoAppend, AppendFacts
<1>7. Told(Append(x, m), "GOT") = {}
  <2>1. Told(Append(x, m), "GOT") \subseteq Told(x, "GOT")
    BY ToldAppend
  <2>2. Told(x, "GOT") = {}
    BY <1>1 DEF Splits
  <2> QED
    BY <2>1, <2>2
<1>8. Splits(t, r, Append(w, m), u, Append(x, m))
  BY <1>1, <1>3, <1>4, <1>5, <1>6, <1>7, Zenon DEF Splits
<1>9. t.Minor = s.Minor
  BY DEF Speaks, Counted
<1> QED
  BY <1>4, <1>6, <1>8, <1>9, Zenon DEF Ahead

\* The batch that the one behind is in is not read to its end.
Remains(r, s, v) ==
  \E u, x \in Seq(Frame) :
    /\ Splits(r, s, v, u, x) /\ u # <<>> /\ Head(v) = Head(u) /\ Tail(v) = Tail(u) \o x /\ Tail(u) \in Seq(Frame)

\* The one behind has something left of the batch to read, and it is no file.
LEMMA BehindFirst ==
  ASSUME NEW s, NEW r, NEW w, NEW v, v # <<>>, Ahead(r, s, v, w), Counting(s), Both(s) => Told(v, "GOT") # {}
  PROVE  Head(v).cmd # "FILE" /\ Remains(r, s, v)
<1>1. PICK u, x \in Seq(Frame) : Splits(r, s, v, u, x)
  BY DEF Ahead
<1>2. /\ Batch(u, s.remote_EOB, TRUE) /\ v = u \o x
      /\ Told(u, "FILE") = {} /\ Told(x, "GOT") = {} /\ s.local_EOB
  BY <1>1 DEF Splits, Ahead
<1>3. u # <<>>
  <2> SUFFICES ASSUME u = <<>> PROVE FALSE
    OBVIOUS
  <2>1. v = x
    BY <1>2, TwoEmpty
  <2>2. s.remote_EOB
    <3>1. Batch(<<>>, s.remote_EOB, TRUE) /\ s.remote_EOB \in BOOLEAN
      BY <1>2 DEF Counting
    <3> QED
      BY <3>1, BatchEmpty
  <2> QED
    BY <1>2, <2>1, <2>2 DEF Both
<1>4. Head(v) = Head(u) /\ Tail(v) = Tail(u) \o x /\ Tail(u) \in Seq(Frame)
  BY <1>2, <1>3, TwoTail, TailFacts
<1>5. Head(u).cmd # "FILE"
  BY <1>2, <1>3, ToldTail
<1> QED
  BY <1>1, <1>3, <1>4, <1>5 DEF Remains

LEMMA BehindRead ==
  ASSUME NEW s, NEW r, NEW t, NEW w, NEW v, v # <<>>,
         Ahead(r, s, v, w), Counting(s), ~Over(t), Listens(s, t, Head(v)), t.RxState # "RxReceD",
         Both(s) => Told(v, "GOT") # {}
  PROVE  Ahead(r, t, Tail(v), w)
<1>0. Remains(r, s, v)
  BY BehindFirst
<1>1. PICK u, x \in Seq(Frame) : /\ Splits(r, s, v, u, x) /\ u # <<>> /\ Head(v) = Head(u)
                               /\ Tail(v) = Tail(u) \o x /\ Tail(u) \in Seq(Frame)
  BY <1>0 DEF Remains
<1>2. /\ Batch(u, s.remote_EOB, TRUE) /\ Batch(x, FALSE, r.local_EOB)
      /\ Extra(s) \/ Busy(u)
      /\ Extra(r) <=> Busy(x)
      /\ Told(u, "FILE") = {} /\ Told(x, "GOT") = {}
  BY <1>1 DEF Splits
<1>5. Listens(s, t, Head(u)) /\ TRUE \in BOOLEAN
  BY <1>1
<1>6. /\ Batch(Tail(u), t.remote_EOB, TRUE) /\ t.local_EOB = s.local_EOB
      /\ Tells(Head(u)) => Extra(t)
      /\ ~Tells(Head(u)) => (Extra(t) <=> Extra(s))
  BY <1>2, <1>1, <1>5, BatchRead
<1>7. Busy(u) <=> Busy(Tail(u)) \/ Tells(Head(u))
  BY <1>1, BusyTail
<1>8. Told(Tail(u), "FILE") = {}
  BY <1>1, <1>2, ToldTail
<1>9. Splits(r, t, Tail(v), Tail(u), x)
  BY <1>1, <1>2, <1>6, <1>7, <1>8, Zenon DEF Splits
<1> QED
  BY <1>1, <1>6, <1>9, Zenon DEF Ahead

(***************************************************************************)
(* The balance after each kind of step                                     *)
(***************************************************************************)

\* A command or a block is sent before M_EOB.
LEMMA BalanceSend ==
  ASSUME NEW s, NEW r, NEW t, NEW w \in Seq(Frame), NEW v, NEW m \in Frame,
         Balance(s, r, w, v), Counting(s), Counting(r), ~Over(r), ~Over(t), Speaks(s, t, m), ~s.local_EOB,
         m.cmd # "GOT", t.RxState = s.RxState
  PROVE  Balance(t, r, Append(w, m), v)
<1>1. CASE Even(s, r, w, v)
  BY <1>1, EvenSend DEF Balance
<1>2. CASE Ahead(s, r, w, v)
  BY <1>2, AheadSend DEF Balance
<1>3. CASE Ahead(r, s, v, w)
  BY <1>3 DEF Ahead
<1> QED
  BY <1>1, <1>2, <1>3 DEF Balance

\* A frame is read.  After both M_EOB only an acknowledgement moves s.
LEMMA BalanceRead ==
  ASSUME NEW s, NEW r, NEW t, NEW w \in Seq(Frame), NEW v \in Seq(Frame), v # <<>>,
         Balance(s, r, w, v), Counting(s), Counting(r), ~Over(t), Listens(s, t, Head(v)), r.Minor = s.Minor,
         t.RxState # "RxReceD" \/ (t.RxState = s.RxState /\ s.RxState = "RxReceD") \/ Head(v).cmd = "FILE",
         Both(s) /\ w = <<>> /\ r.RxState # "RxReceD" => Told(v, "GOT") # {},
         Head(v).cmd = "FILE" \/ t.RxState = s.RxState
  PROVE  /\ Balance(t, r, w, Tail(v))
         /\ Head(v).cmd = "FILE" \/ s.RxState = "RxReceD" => Even(s, r, w, v) /\ Even(t, r, w, Tail(v))
<1>1. CASE Even(s, r, w, v)
  BY <1>1, EvenRead DEF Balance
<1>2. CASE Ahead(s, r, w, v)
  BY <1>2 DEF Ahead
<1>3. CASE Ahead(r, s, v, w)
  <2>1. s.RxState # "RxReceD" /\ w = <<>> /\ r.RxState # "RxReceD"
    BY <1>3 DEF Ahead
  <2>2. Both(s) => Told(v, "GOT") # {}
    BY <2>1
  <2>3. Head(v).cmd # "FILE"
    BY <1>3, <2>2, BehindFirst
  <2>4. t.RxState # "RxReceD"
    BY <2>1, <2>3
  <2>5. Ahead(r, t, Tail(v), w)
    BY <1>3, <2>2, <2>4, BehindRead
  <2> QED
    BY <2>1, <2>3, <2>5 DEF Balance
<1> QED
  BY <1>1, <1>2, <1>3 DEF Balance

\* Nothing is sent, read or counted.
LEMMA BalanceMute ==
  ASSUME NEW s, NEW r, NEW t, NEW w, NEW v, Balance(s, r, w, v), Counting(s), ~Over(t), Mute(s, t),
         t.Minor = s.Minor, t.RxState = s.RxState
  PROVE  Balance(t, r, w, v)
<1>1. (Extra(t) <=> Extra(s)) /\ t.local_EOB = s.local_EOB /\ t.remote_EOB = s.remote_EOB
  BY Counts DEF Mute
<1>2. CASE Even(s, r, w, v)
  <2>1. Level(t, r, w) /\ Level(r, t, v)
    BY <1>1, <1>2, Zenon DEF Even, Level
  <2>2. Finished(t, r, w, v) /\ Finished(r, t, v, w)
    BY <1>1, <1>2, Zenon DEF Even, Finished
  <2> QED
    BY <2>1, <2>2 DEF Balance, Even
<1>3. CASE Ahead(s, r, w, v)
  <2>1. PICK u, x \in Seq(Frame) : Splits(s, r, w, u, x)
    BY <1>3 DEF Ahead
  <2>2. Splits(t, r, w, u, x)
    BY <1>1, <2>1, Zenon DEF Splits
  <2> QED
    BY <1>1, <1>3, <2>2, Zenon DEF Ahead, Balance
<1>4. CASE Ahead(r, s, v, w)
  <2>1. PICK u, x \in Seq(Frame) : Splits(r, s, v, u, x)
    BY <1>4 DEF Ahead
  <2>2. Splits(r, t, v, u, x)
    BY <1>1, <2>1, Zenon DEF Splits
  <2> QED
    BY <1>1, <1>4, <2>2, Zenon DEF Ahead, Balance
<1> QED
  BY <1>2, <1>3, <1>4 DEF Balance

\* When a batch is through for s, nothing of it is on the way: no answer to s,
\* no file of s, and the peer awaits no data.
Through(s, r, w, v) ==
  /\ ~Over(s) /\ Both(s) /\ Told(v, "GOT") = {} /\ Told(w, "FILE") = {} /\ r.RxState # "RxReceD"

LEMMA OnlyGotTold ==
  ASSUME NEW w \in Seq(Frame), OnlyGot(w), Told(w, "GOT") = {} PROVE w = <<>>
<1>1. w # <<>> => Head(w) = w[1] /\ 1 \in 1..Len(w)
  BY TailFacts
<1> QED
  BY <1>1 DEF OnlyGot, Told

LEMMA ThroughView ==
  ASSUME NEW s, NEW r, NEW w \in Seq(Frame), NEW v \in Seq(Frame), Balance(s, r, w, v), Counting(s), Through(s, r, w, v),
         r.Minor = s.Minor
  PROVE  \/ Even(s, r, w, v) /\ v = <<>> /\ r.local_EOB = TRUE
         \/ Ahead(r, s, v, w) /\ Extra(s) /\ Splits(r, s, v, <<>>, v)
<1>1. s.local_EOB = TRUE /\ s.remote_EOB = TRUE
  BY DEF Through, Both, Counting
<1>2. CASE Even(s, r, w, v)
  <2>1. Batch(v, s.remote_EOB, r.local_EOB)
    BY <1>2 DEF Even, Level
  <2>2. OnlyGot(v) /\ r.local_EOB
    BY <1>1, <2>1 DEF Batch
  <2>3. v = <<>>
    BY <2>2, OnlyGotTold DEF Through
  <2> QED
    BY <1>2, <2>2, <2>3
<1>3. CASE Ahead(s, r, w, v)
  BY <1>1, <1>3 DEF Ahead
<1>4. CASE Ahead(r, s, v, w)
  <2>1. PICK u, x \in Seq(Frame) : Splits(r, s, v, u, x)
    BY <1>4 DEF Ahead
  <2>2. v = u \o x /\ Batch(u, TRUE, TRUE) /\ (Extra(s) \/ Busy(u))
    BY <1>1, <2>1 DEF Splits
  <2>3. u = <<>>
    <3>1. OnlyGot(u)
      BY <2>2 DEF Batch
    <3>2. u # <<>> => Head(v).cmd = "GOT" /\ v # <<>>
      <4>1. u # <<>> => Head(v) = Head(u) /\ v # <<>> /\ Head(u) = u[1] /\ 1 \in 1..Len(u)
        BY <2>2, TwoTail, TailFacts
      <4> QED
        BY <3>1, <4>1 DEF OnlyGot
    <3>3. v # <<>> /\ Head(v).cmd = "GOT" => Head(v).file \in Told(v, "GOT")
      BY ToldTail
    <3> QED
      BY <3>2, <3>3 DEF Through
  <2>4. v = x
    BY <2>2, <2>3, TwoEmpty
  <2>5. ~Busy(u)
    BY <2>3, BusyEmpty
  <2> QED
    BY <1>4, <2>1, <2>2, <2>3, <2>4, <2>5
<1> QED
  BY <1>2, <1>3, <1>4 DEF Balance

\* What the next batch makes of a session.
Restarts(s, t) ==
  /\ t.Minor = s.Minor /\ t.messages = 0 /\ t.local_EOB = FALSE /\ t.remote_EOB = FALSE /\ t.RxState = "RxWaitF" /\ ~Over(t)

LEMMA BalanceNext ==
  ASSUME NEW s, NEW r, NEW t, NEW w \in Seq(Frame), NEW v \in Seq(Frame), Balance(s, r, w, v), Counting(s),
         Through(s, r, w, v), Extra(s), s.Minor # 0, r.Minor = s.Minor, Restarts(s, t)
  PROVE  Balance(t, r, w, v) /\ Counting(t)
<1>1. Counting(t) /\ ~Extra(t)
  <2>1. Eobs(t) = 0
    BY DEF Restarts, Eobs, One
  <2>2. t.messages = 0 /\ t.local_EOB \in BOOLEAN /\ t.remote_EOB \in BOOLEAN
    BY DEF Restarts
  <2> QED
    BY <2>1, <2>2 DEF Counting, Extra
<1>2. s.local_EOB = TRUE /\ s.remote_EOB = TRUE /\ <<>> \in Seq(Frame)
  BY DEF Through, Both, Counting
<1>3. Batch(<<>>, FALSE, FALSE) /\ ~Busy(<<>>) /\ Told(<<>>, "GOT") = {}
  BY BatchEmpty, BusyEmpty, ToldNone
<1>4. CASE Even(s, r, w, v) /\ v = <<>> /\ r.local_EOB = TRUE
  <2>1. ~Over(r)
    BY <1>4 DEF Even, Finished
  <2>2. Batch(w, r.remote_EOB, TRUE) /\ (Extra(r) \/ Busy(w))
    BY <1>2, <1>4, Zenon DEF Even, Level
  <2>3. w = w \o <<>>
    BY TwoEmpty
  <2>4. Splits(t, r, w, w, <<>>)
    <3>1. Batch(<<>>, FALSE, t.local_EOB)
      BY <1>3 DEF Restarts
    <3> QED
      BY <1>1, <1>3, <2>2, <2>3, <3>1 DEF Splits, Through
  <2> QED
    BY <1>1, <1>2, <1>4, <2>1, <2>4 DEF Balance, Ahead, Restarts, Through
<1>5. CASE Ahead(r, s, v, w) /\ Splits(r, s, v, <<>>, v)
  <2>1. ~r.remote_EOB /\ w = <<>>
    BY <1>5 DEF Ahead
  <2>2. Batch(v, FALSE, r.local_EOB) /\ (Extra(r) <=> Busy(v))
    BY <1>5 DEF Splits
  <2>3. Batch(w, r.remote_EOB, t.local_EOB)
    BY <2>1, NoFrames DEF Batch, Restarts
  <2>4. Level(t, r, w)
    BY <1>1, <1>3, <2>1, <2>3 DEF Level
  <2>5. Level(r, t, v)
    BY <1>1, <2>2 DEF Level, Restarts
  <2>6. Finished(t, r, w, v) /\ Finished(r, t, v, w)
    BY <1>5 DEF Finished, Restarts, Ahead
  <2> QED
    BY <1>1, <2>4, <2>5, <2>6 DEF Balance, Even
<1> QED
  BY <1>1, <1>4, <1>5, ThroughView

\* The transfer ends: in 1.1 after a batch in which nothing happened.
LEMMA BalanceEnd ==
  ASSUME NEW s, NEW r, NEW t, NEW w \in Seq(Frame), NEW v \in Seq(Frame), Balance(s, r, w, v), Counting(s),
         Through(s, r, w, v), s.Minor # 0 => ~Extra(s), r.Minor = s.Minor, Over(t), Mute(s, t), t.Minor = s.Minor,
         s.RxState # "RxReceD", t.RxState = s.RxState
  PROVE  Balance(t, r, w, v)
<1>1. (Extra(t) <=> Extra(s)) /\ t.local_EOB = s.local_EOB /\ t.remote_EOB = s.remote_EOB
  BY Counts DEF Mute
<1>2. ~(Ahead(r, s, v, w) /\ Extra(s))
  BY DEF Ahead
<1>3. Even(s, r, w, v) /\ v = <<>>
  BY <1>2, ThroughView
<1>4. Level(t, r, w) /\ Level(r, t, v)
  BY <1>1, <1>3, Zenon DEF Even, Level
<1>5. Finished(r, t, v, w)
  BY <1>1, <1>3, Zenon DEF Even, Finished
<1>6. Finished(t, r, w, v)
  <2>1. s.Minor # 0 => ~Extra(r)
    BY <1>3, BusyEmpty, Zenon DEF Even, Level
  <2> QED
    BY <1>1, <1>3, <2>1 DEF Finished, Through, Both
<1> QED
  BY <1>4, <1>5, <1>6 DEF Balance, Even

(***************************************************************************)
(* The invariant.  Of a session s of p, where o is the outbound:           *)
(***************************************************************************)
Under(s) == {f \in File : s.state[f] \in {"Sending", "IsSent"}}

\* Nothing fails, only acknowledgements wait, and every file is sent from its start.
Tidy(s) ==
  /\ s.rc = IF Over(s) THEN "ok" ELSE "none"
  /\ \A i \in 1..Len(s.queue) : s.queue[i].cmd = "GOT"
  /\ \A f \in File : s.offset[f] = 0
  /\ Over(s) => \A f \in File : s.state[f] = "Absent"

\* The file that is sent is the open one, and M_EOB is sent when none is left.
Sender(s) ==
  /\ s.TxState = "TxTryR" => s.txfp = s.cursend /\ s.state[s.cursend] = "Sending"
  /\ \A f \in File : s.state[f] = "Sending" => s.TxState = "TxTryR" /\ s.cursend = f
  /\ s.local_EOB <=> s.TxState = "TxWLA"
  /\ s.local_EOB => \A f \in File : s.state[f] # "NoState"

\* Data are awaited for the open file that is not complete, and before M_EOB.
Receiver(s) ==
  /\ s.RxState = "RxReceD" => s.rxfp = s.rname /\ s.rxpos < Size[s.rname]
  /\ s.remote_EOB => s.RxState # "RxReceD"
  /\ s.RxState = "RxEOB" => s.Minor = 0 /\ s.remote_EOB
  /\ s.Minor = 0 /\ s.remote_EOB => s.RxState = "RxEOB"

\* Whoever waits for a frame after both M_EOB waits for an acknowledgement.
Waits(s) == Both(s) /\ s.FtState = "Switch" => s.queue = <<>> /\ Under(s) # {}

\* A file that waits is in the list, or there was no list yet.
Offered(p, s, o) ==
  \A f \in o : Owner[f] = p =>
    \/ s.state[f] \in {"NoState", "Sending", "IsSent"}
    \/ ~s.tosend /\ s.TxState = "TxGNF" /\ s.batchnr = 0 /\ ~Over(s)

Side(p, s, o) == Tidy(s) /\ Sender(s) /\ Receiver(s) /\ Waits(s) /\ Offered(p, s, o) /\ Counting(s)

\* What p sends: no request, no refusal, and acknowledgements of what it was sent.
Plain(p, m) ==
  /\ m.cmd \notin {"GET", "SKIP", "BSY"}
  /\ m.cmd = "FILE" => m.offs = 0
  /\ m.cmd = "GOT" => Owner[m.file] = Peer(p)
PlainWire(p, w) == \A i \in 1..Len(w) : Plain(p, w[i])

\* A file that was sent is on its way in one form or another, its data come in
\* order, and it is acknowledged only after the last of them was sent.
Moving(s, r, w, v) ==
  \A f \in Under(s) : f \in Told(w, "FILE") \union Awaited(r) \union Told(v, "GOT") \union Told(s.queue, "GOT")
Answered(s, v) ==
  s.TxState = "TxTryR" /\ s.cursend \in Told(v, "GOT") \union Told(s.queue, "GOT") => s.txpos = Size[s.cursend]
From(r) == IF Await(r) THEN {<<r.rname, r.rxpos>>} ELSE Complete
To(s) == IF s.TxState = "TxTryR" THEN {<<s.cursend, s.txpos>>} ELSE Complete
Way(s, r, w, v) == Moving(s, r, w, v) /\ Answered(s, v) /\ Chained(w, From(r), To(s))

\* Only of a file that is being received there is a part.
Emptied == \A f \in File : tmp[f] = <<>> \/ f \in Awaited(bp[Peer(Owner[f])])

EInv ==
  /\ line = TRUE
  /\ Emptied
  /\ \A p \in Party :
       /\ bp[Peer(p)].Minor = bp[p].Minor
       /\ Side(p, bp[p], outbound)
       /\ PlainWire(p, wire[p])
       /\ Way(bp[p], bp[Peer(p)], wire[p], wire[Peer(p)])
       /\ Balance(bp[p], bp[Peer(p)], wire[p], wire[Peer(p)])

(***************************************************************************)
(* The fields that the steps shared by the state machines leave alone      *)
(***************************************************************************)
KeepEnd(s, t) == t.Minor = s.Minor /\ t.rc = s.rc /\ t.txfp = s.txfp /\ t.batchnr = s.batchnr

\* The session t after the frame m was read in session s.
ReadBy(s, t, m) == KeepEnd(s, t) /\ Listens(s, t, m) /\ ~Over(t) /\ (t.FtState = "Switch" => ~Both(t))

LEMMA PolledEnd ==
  ASSUME IInv, NEW p \in Party, ~Over(bp[p])
  PROVE  KeepEnd(bp[p], Polled(p)) /\ Listens(bp[p], Polled(p), Incoming(p)) /\ Polled(p).FtState = bp[p].FtState
<1> DEFINE s == bp[p]
           cmd == Incoming(p).cmd
           t == [s EXCEPT !.messages = Bump(@), !.remote_EOB = @ \/ cmd = "EOB"]
<1>1. s \in Session
  BY BpGood DEF Good
<1>2. s.remote_EOB \in BOOLEAN
  BY <1>1 DEF Session
<1>3. CASE cmd = "DATA"
  BY <1>3 DEF Polled, KeepEnd, Listens, Counted, Mute, Tells
<1>4. CASE cmd # "DATA"
  <2>1. Polled(p) = t
    BY <1>4 DEF Polled
  <2> HIDE DEF s, cmd
  <2>2. /\ KeepEnd(s, t) /\ t.FtState = s.FtState /\ t.messages = Bump(s.messages) /\ t.local_EOB = s.local_EOB
        /\ t.remote_EOB = (s.remote_EOB \/ cmd = "EOB")
    BY <1>1 DEF Session, KeepEnd
  <2> HIDE DEF t
  <2>3. (cmd = "EOB" => t.remote_EOB = TRUE) /\ (cmd # "EOB" => t.remote_EOB = s.remote_EOB)
    BY <1>2, <2>2, Zenon
  <2> QED
    BY <1>4, <2>1, <2>2, <2>3 DEF KeepEnd, Listens, Counted, Tell, Tells, s, cmd
<1> QED
  BY <1>3, <1>4

LEMMA ReceivedEnd ==
  ASSUME NEW s, Good(s)
  PROVE  LET t == Received(s) IN KeepEnd(s, t) /\ Mute(s, t) /\ ~Over(t) /\ (t.FtState = "Switch" => ~Both(t))
<1>1. s \in Session
  BY DEF Good
<1> QED
  BY <1>1 DEF Received, Session, KeepEnd, Mute, Over, Both

LEMMA SentCommandEnd ==
  ASSUME NEW s, Good(s), NEW m, m.cmd # "DATA"
  PROVE  LET t == SentCommand(s, m.cmd) IN
         /\ KeepEnd(s, t) /\ Keep(s, t) /\ t.FtState = s.FtState
         /\ (s.local_EOB => m.cmd # "EOB") => Speaks(s, t, m)
<1> DEFINE t == SentCommand(s, m.cmd)
<1>1. s \in Session
  BY DEF Good
<1>2. s.local_EOB \in BOOLEAN
  BY <1>1 DEF Session
<1>3. /\ KeepEnd(s, t) /\ Keep(s, t) /\ t.FtState = s.FtState /\ t.messages = Bump(s.messages)
      /\ t.remote_EOB = s.remote_EOB /\ t.local_EOB = (s.local_EOB \/ m.cmd = "EOB")
  BY <1>1 DEF SentCommand, Session, KeepEnd, Keep, KeepRx, KeepTx
<1> HIDE DEF t
<1>4. (m.cmd = "EOB" => t.local_EOB = TRUE) /\ (m.cmd # "EOB" => t.local_EOB = s.local_EOB)
  BY <1>2, <1>3, Zenon
<1>5. (s.local_EOB => m.cmd # "EOB") => Speaks(s, t, m)
  BY <1>3, <1>4 DEF KeepEnd, Speaks, Counted, Tell, TellEnd, Tells
<1> QED
  BY <1>3, <1>5 DEF t

\* To count one more step after what was read or sent.
LEMMA MuteAfter ==
  ASSUME NEW s, NEW t, NEW u, NEW m, KeepEnd(t, u), Mute(t, u)
  PROVE  /\ Listens(s, t, m) => Listens(s, u, m)
         /\ Speaks(s, t, m) => Speaks(s, u, m)
BY Zenon DEF KeepEnd, Mute, Listens, Speaks, Counted, Tell, TellEnd

LEMMA ListClearedEnd ==
  ASSUME NEW s, Good(s)
  PROVE  LET t == ListCleared(s) IN
         /\ KeepEnd(s, t) /\ Mute(s, t) /\ t.FtState = s.FtState /\ t.RxState = s.RxState
         /\ t.offset = s.offset /\ t.tosend = FALSE
<1>1. s \in Session
  BY DEF Good
<1> QED
  BY <1>1 DEF ListCleared, Session, KeepEnd, Mute

LEMMA NextBatchEnd ==
  ASSUME NEW s, Good(s), ~Over(s)
  PROVE  LET t == NextBatch(s) IN
         /\ Restarts(s, t) /\ t.rc = s.rc /\ t.FtState = s.FtState /\ t.TxState = "TxGNF" /\ t.offset = s.offset
         /\ t.queue = s.queue
<1> DEFINE c == ListCleared(s)
           t == NextBatch(s)
<1>1. c \in Session /\ KeepEnd(s, c) /\ c.FtState = s.FtState /\ c.offset = s.offset /\ c.queue = s.queue
  BY ListClearedEnd, ListClearedView, ListClearedGood DEF Good
<1>2. PICK n : t = [c EXCEPT !.batchnr = n, !.local_EOB = FALSE, !.remote_EOB = FALSE,
                      !.messages = 0, !.TxState = "TxGNF", !.RxState = "RxWaitF"]
  BY Zenon DEF NextBatch
<1> HIDE DEF c, t
<1>3. /\ t.Minor = c.Minor /\ t.rc = c.rc /\ t.FtState = c.FtState /\ t.TxState = "TxGNF" /\ t.offset = c.offset
      /\ t.queue = c.queue /\ t.messages = 0 /\ t.local_EOB = FALSE /\ t.remote_EOB = FALSE /\ t.RxState = "RxWaitF"
  BY <1>1, <1>2 DEF Session
<1> QED
  BY <1>1, <1>3 DEF KeepEnd, Restarts, Over, t

(***************************************************************************)
(* The invariant seen from one process, and a step of it                   *)
(***************************************************************************)
Half(p, s, r, w, v, o) ==
  /\ r.Minor = s.Minor
  /\ Side(p, s, o)
  /\ PlainWire(p, w)
  /\ Way(s, r, w, v)
  /\ Balance(s, r, w, v)

LEMMA HalfView ==
  ASSUME EInv, NEW p \in Party
  PROVE  /\ Half(p, bp[p], bp[Peer(p)], wire[p], wire[Peer(p)], outbound)
         /\ Half(Peer(p), bp[Peer(p)], bp[p], wire[Peer(p)], wire[p], outbound)
         /\ line = TRUE /\ Emptied
<1>1. Peer(p) \in Party /\ Peer(Peer(p)) = p
  BY Peers
<1>2. \A q \in Party : Half(q, bp[q], bp[Peer(q)], wire[q], wire[Peer(q)], outbound)
  BY Zenon DEF EInv, Half
<1> QED
  BY <1>1, <1>2, Zenon DEF EInv

LEMMA HalvesEnd ==
  ASSUME NEW p \in Party, line' = TRUE, Emptied',
         Half(p, bp'[p], bp'[Peer(p)], wire'[p], wire'[Peer(p)], outbound'),
         Half(Peer(p), bp'[Peer(p)], bp'[p], wire'[Peer(p)], wire'[p], outbound')
  PROVE  EInv'
<1>1. Peer(p) \in Party /\ Peer(Peer(p)) = p /\ \A q \in Party : q = p \/ q = Peer(p)
  BY Peers
<1>2. ASSUME NEW q \in Party PROVE Half(q, bp'[q], bp'[Peer(q)], wire'[q], wire'[Peer(q)], outbound')
  BY <1>1, Zenon
<1> QED
  BY <1>2, Zenon DEF EInv, Half

\* The parts of the session that only the transmitter, and only the receiver, changes.
Sends(p, s, o) == Tidy(s) /\ Sender(s) /\ Waits(s) /\ Offered(p, s, o)

LEMMA SideParts ==
  ASSUME NEW p, NEW s, NEW o PROVE Side(p, s, o) <=> Sends(p, s, o) /\ Receiver(s) /\ Counting(s)
BY Zenon DEF Side, Sends

LEMMA SideLess ==
  ASSUME NEW p, NEW s, NEW o, NEW b, b \subseteq o, Side(p, s, o) PROVE Side(p, s, b)
<1>1. Offered(p, s, b)
  BY DEF Side, Offered
<1> QED
  BY <1>1, Zenon DEF Side

LEMMA ReceiverKept ==
  ASSUME NEW s, NEW t, Receiver(s), KeepRx(s, t), t.Minor = s.Minor, t.remote_EOB = s.remote_EOB PROVE Receiver(t)
BY Zenon DEF Receiver, KeepRx

LEMMA PlainMore ==
  ASSUME NEW p, NEW w \in Seq(Frame), PlainWire(p, w), NEW m \in Frame, Plain(p, m) PROVE PlainWire(p, Append(w, m))
<1> DEFINE a == Append(w, m)
<1>1. /\ \A i \in 1..Len(w) : a[i] = w[i]
      /\ a[Len(w) + 1] = m
      /\ \A i \in 1..Len(a) : i \in 1..Len(w) \/ i = Len(w) + 1
  BY AppendFacts
<1> HIDE DEF a
<1> QED
  BY <1>1, Zenon DEF PlainWire, a

LEMMA PlainLess ==
  ASSUME NEW p, NEW w \in Seq(Frame), w # <<>>, PlainWire(p, w) PROVE PlainWire(p, Tail(w)) /\ Plain(p, Head(w))
<1> DEFINE a == Tail(w)
<1>1. /\ Head(w) = w[1] /\ 1 \in 1..Len(w)
      /\ \A i \in 1..Len(a) : i + 1 \in 1..Len(w) /\ a[i] = w[i + 1]
  BY TailFacts
<1> HIDE DEF a
<1> QED
  BY <1>1, Zenon DEF PlainWire, a

\* Of the session s of p, r of its peer, and their wires w and v, what the peer
\* relies on when p transmits: nothing is acknowledged or received.
LEMMA PeerWay ==
  ASSUME NEW s, NEW r, NEW t, NEW w \in Seq(Frame), NEW v, NEW x, Way(r, s, v, w),
         KeepRx(s, t), ~Over(s), ~Over(t), x = w \/ \E m \in Frame : x = Append(w, m) /\ m.cmd # "GOT"
  PROVE  Way(r, t, v, x)
<1>1. Awaited(t) = Awaited(s) /\ From(t) = From(s)
  BY DEF Awaited, From, Await, KeepRx
<1>2. Told(x, "GOT") = Told(w, "GOT")
  <2>1. CASE x = w
    BY <2>1
  <2>2. CASE \E m \in Frame : x = Append(w, m) /\ m.cmd # "GOT"
    <3>1. PICK m \in Frame : x = Append(w, m) /\ m.cmd # "GOT"
      BY <2>2
    <3>2. Told(w, "GOT") \subseteq Told(x, "GOT")
      BY <3>1, ToldMore
    <3>3. Told(x, "GOT") \subseteq Told(w, "GOT") \union {g \in {m.file} : m.cmd = "GOT"}
      BY <3>1, ToldAppend
    <3> QED
      BY <3>1, <3>2, <3>3
  <2> QED
    BY <2>1, <2>2
<1> QED
  BY <1>1, <1>2, Zenon DEF Way, Moving, Answered

\* When the peer is through, p has sent its M_EOB, and is sent and awaits no file.
Silenced(s, v) == s.local_EOB /\ Told(v, "FILE") = {} /\ s.RxState # "RxReceD"
LEMMA Silence ==
  ASSUME NEW s, NEW r, NEW w, NEW v, Balance(s, r, w, v), Over(r), Counting(s), Counting(r)
  PROVE  Silenced(s, v) /\ w = <<>>
<1>1. Even(s, r, w, v)
  BY DEF Balance, Ahead
<1>2. Both(r) /\ w = <<>> /\ Told(v, "FILE") = {} /\ s.RxState # "RxReceD"
  BY <1>1 DEF Even, Finished
<1>3. Batch(<<>>, r.remote_EOB, s.local_EOB) /\ r.remote_EOB \in BOOLEAN /\ s.local_EOB \in BOOLEAN
  BY <1>1, <1>2 DEF Even, Level, Counting
<1>4. r.remote_EOB <=> s.local_EOB
  BY <1>3, BatchEmpty
<1> QED
  BY <1>2, <1>4 DEF Both, Silenced

(***************************************************************************)
(* A step of the transmitter, which sends nothing or a frame m, and what   *)
(* it has to show of the session t after it.                               *)
(***************************************************************************)
Onto(t, r, w, v) == Moving(t, r, w, v) /\ Answered(t, v) /\ Chained(w, From(r), To(t))
Idles(p, t) ==
  /\ bp' = [bp EXCEPT ![p] = t] /\ ~Over(bp[p]) /\ ~Over(t) /\ KeepRx(bp[p], t) /\ t.Minor = bp[p].Minor
  /\ line' = line /\ tmp' = tmp /\ outbound' \subseteq outbound

LEMMA EmptiedSame ==
  ASSUME IInv, EInv, NEW p \in Party, NEW t, Idles(p, t) PROVE Emptied'
<1>1. bp'[p] = t /\ bp'[Peer(p)] = bp[Peer(p)] /\ tmp' = tmp
  BY BpView DEF Idles
<1>2. Awaited(t) = Awaited(bp[p])
  BY DEF Awaited, Await, KeepRx, Idles
<1>3. \A f \in File : Peer(Owner[f]) \in Party
  BY FilesKnown, Peers
<1>4. \A q \in Party : Awaited(bp'[q]) = Awaited(bp[q])
  BY <1>1, <1>2, Peers
<1> QED
  BY <1>1, <1>3, <1>4 DEF EInv, Emptied

LEMMA QuietEnd ==
  ASSUME IInv, EInv, NEW p \in Party, NEW t, Idles(p, t), wire' = wire, Mute(bp[p], t), Sends(p, t, outbound'),
         Onto(t, bp[Peer(p)], wire[p], wire[Peer(p)])
  PROVE  EInv'
<1> DEFINE q == Peer(p)
           s == bp[p]
           r == bp[q]
           w == wire[p]
           v == wire[q]
<1>1. bp'[p] = t /\ bp'[q] = r /\ w \in Seq(Frame) /\ v \in Seq(Frame)
  BY BpView, Peers, WireTyped DEF Idles
<1>2. Half(p, s, r, w, v, outbound) /\ Half(q, r, s, v, w, outbound) /\ line = TRUE
  BY HalfView
<1>3. Emptied' /\ line' = TRUE
  BY <1>2, EmptiedSame, Zenon DEF Idles
<1> HIDE DEF q, s, r, w, v
<1>4. ~Over(s) /\ ~Over(t) /\ KeepRx(s, t) /\ t.Minor = s.Minor /\ outbound' \subseteq outbound /\ Mute(s, t)
  BY Zenon DEF Idles, s
<1>5. Receiver(s) /\ Counting(s) /\ Balance(s, r, w, v) /\ r.Minor = s.Minor /\ t.RxState = s.RxState
  BY <1>2, <1>4, Zenon DEF Half, Side, KeepRx
<1>6. Receiver(t)
  BY <1>4, <1>5, ReceiverKept, Zenon DEF Mute
<1>7. Counting(t)
  BY <1>4, <1>5, Counts, Zenon
<1>8. Balance(t, r, w, v)
  BY <1>4, <1>5, BalanceMute, Zenon
<1>9. Half(p, t, r, w, v, outbound')
  <2>1. Side(p, t, outbound')
    BY <1>6, <1>7, SideParts, Zenon
  <2>2. Way(t, r, w, v)
    BY Zenon DEF Onto, Way, q, r, w, v
  <2> QED
    BY <1>2, <1>4, <1>8, <2>1, <2>2, Zenon DEF Half
<1>10. Half(q, r, t, v, w, outbound')
  <2>1. Side(q, r, outbound')
    BY <1>2, <1>4, SideLess, Zenon DEF Half
  <2>2. Way(r, t, v, w)
    <3>1. Way(r, s, v, w)
      BY <1>2, Zenon DEF Half
    <3> QED
      BY <1>1, <1>4, <3>1, PeerWay, Zenon
  <2>3. Balance(r, t, v, w)
    BY <1>8, BalanceTurned, Zenon
  <2> QED
    BY <1>2, <1>4, <2>1, <2>2, <2>3, Zenon DEF Half
<1> QED
  BY <1>1, <1>3, <1>9, <1>10, HalvesEnd, Zenon DEF q, r, w, v

LEMMA SaysEnd ==
  ASSUME IInv, EInv, NEW p \in Party, NEW t, Idles(p, t), NEW m \in Frame, wire' = Sent(wire, p, m), m.cmd # "GOT", Plain(p, m),
         ~bp[p].local_EOB, Speaks(bp[p], t, m), Sends(p, t, outbound'),
         Onto(t, bp[Peer(p)], Append(wire[p], m), wire[Peer(p)])
  PROVE  EInv'
<1> DEFINE q == Peer(p)
           s == bp[p]
           r == bp[q]
           w == wire[p]
           v == wire[q]
           x == Append(w, m)
<1>1. bp'[p] = t /\ bp'[q] = r /\ w \in Seq(Frame) /\ v \in Seq(Frame) /\ wire \in [Party -> Seq(Frame)]
  BY BpView, Peers, WireTyped DEF Idles, IInv, TypeOK
<1>2. Half(p, s, r, w, v, outbound) /\ Half(q, r, s, v, w, outbound) /\ line = TRUE
  BY HalfView
<1>3. Emptied' /\ line' = TRUE
  BY <1>2, EmptiedSame, Zenon DEF Idles
<1> HIDE DEF s, r, w, v
<1>4. ~Over(s) /\ ~Over(t) /\ KeepRx(s, t) /\ t.Minor = s.Minor /\ outbound' \subseteq outbound /\ Speaks(s, t, m) /\ ~s.local_EOB
  BY Zenon DEF Idles, s
<1>5. Receiver(s) /\ Counting(s) /\ Counting(r) /\ Balance(s, r, w, v) /\ r.Minor = s.Minor /\ t.RxState = s.RxState
  BY <1>2, <1>4, Zenon DEF Half, Side, KeepRx
<1>6. ~Over(r)
  BY <1>4, <1>5, Silence, Zenon DEF Silenced
<1>7. wire'[q] = v /\ wire'[p] = x
  BY <1>1, <1>2, <1>6, SentView DEF r, v, w
<1> HIDE DEF q, x
<1>8. Counting(t) /\ t.remote_EOB = s.remote_EOB
  BY <1>4, <1>5, SpeaksView, Zenon DEF Spoken
<1>9. Receiver(t)
  BY <1>4, <1>5, <1>8, ReceiverKept, Zenon
<1>10. Balance(t, r, x, v)
  BY <1>1, <1>4, <1>5, <1>6, BalanceSend, Zenon DEF x
<1>11. Half(p, t, r, x, v, outbound')
  <2>1. Side(p, t, outbound')
    BY <1>8, <1>9, SideParts, Zenon
  <2>2. Way(t, r, x, v)
    BY Zenon DEF Onto, Way, q, r, w, v, x
  <2>3. PlainWire(p, w)
    BY <1>2, Zenon DEF Half
  <2>4. PlainWire(p, x)
    BY <1>1, <2>3, PlainMore, Zenon DEF x
  <2> QED
    BY <1>2, <1>4, <1>10, <2>1, <2>2, <2>4, Zenon DEF Half
<1>12. Half(q, r, t, v, x, outbound')
  <2>1. Side(q, r, outbound')
    BY <1>2, <1>4, SideLess, Zenon DEF Half
  <2>2. Way(r, t, v, x)
    <3>1. Way(r, s, v, w)
      BY <1>2, Zenon DEF Half
    <3>2. \E a \in Frame : x = Append(w, a) /\ a.cmd # "GOT"
      BY Zenon DEF x
    <3> QED
      BY <1>1, <1>4, <3>1, <3>2, PeerWay, Zenon
  <2>3. Balance(r, t, v, x)
    BY <1>10, BalanceTurned, Zenon
  <2> QED
    BY <1>2, <1>4, <2>1, <2>2, <2>3, Zenon DEF Half
<1> QED
  BY <1>1, <1>3, <1>7, <1>11, <1>12, HalvesEnd, Zenon DEF q, r, w, v

(***************************************************************************)
(* A step of the receiver, which reads m                                   *)
(***************************************************************************)
\* An acknowledgement goes to the queue, any other frame does not.
Enqueues(s, t, m) == t.queue = IF m.cmd = "GOT" THEN Append(s.queue, m) ELSE s.queue
Acks(p, w, x) == x = w \/ \E a \in Frame : x = Append(w, a) /\ a.cmd = "GOT" /\ Plain(p, a)

LEMMA EnqueuesTold ==
  ASSUME NEW s, Good(s), NEW t, NEW v \in Seq(Frame), v # <<>>, Enqueues(s, t, Head(v))
  PROVE  Told(v, "GOT") \union Told(s.queue, "GOT") = Told(Tail(v), "GOT") \union Told(t.queue, "GOT")
<1> DEFINE m == Head(v)
           u == s.queue
<1>1. u \in Seq(Queued) /\ m \in Frame
  BY QueueTyped, TailFacts
<1>2. /\ Told(Tail(v), "GOT") \subseteq Told(v, "GOT") /\ (m.cmd = "GOT" => m.file \in Told(v, "GOT"))
      /\ Told(v, "GOT") \subseteq Told(Tail(v), "GOT") \union {g \in {m.file} : m.cmd = "GOT"}
  BY ToldTail, ToldHead
<1>3. m.cmd = "GOT" => m \in Queued
  BY <1>1, FrameTyped
<1>4. m \in Queued =>
        /\ Told(u, "GOT") \subseteq Told(Append(u, m), "GOT") /\ (m.cmd = "GOT" => m.file \in Told(Append(u, m), "GOT"))
        /\ Told(Append(u, m), "GOT") \subseteq Told(u, "GOT") \union {g \in {m.file} : m.cmd = "GOT"}
  BY <1>1, ToldMore, ToldAppend
<1> HIDE DEF m, u
<1>5. CASE m.cmd = "GOT"
  <2>1. t.queue = Append(u, m)
    BY <1>5, Zenon DEF Enqueues, m, u
  <2> QED
    BY <1>2, <1>3, <1>4, <1>5, <2>1 DEF u
<1>6. CASE m.cmd # "GOT"
  <2>1. t.queue = u
    BY <1>6, Zenon DEF Enqueues, m, u
  <2> QED
    BY <1>2, <1>6, <2>1 DEF u
<1> QED
  BY <1>5, <1>6

LEMMA EnqueuesGot ==
  ASSUME NEW s, Good(s), NEW t, NEW m \in Frame, Enqueues(s, t, m), \A i \in 1..Len(s.queue) : s.queue[i].cmd = "GOT"
  PROVE  \A i \in 1..Len(t.queue) : t.queue[i].cmd = "GOT"
<1> DEFINE u == s.queue
           a == Append(u, m)
<1>1. CASE m.cmd # "GOT"
  BY <1>1, Zenon DEF Enqueues
<1>2. CASE m.cmd = "GOT"
  <2>1. m \in Queued /\ u \in Seq(Queued)
    BY <1>2, FrameTyped, QueueTyped
  <2>2. /\ \A i \in 1..Len(u) : a[i] = u[i]
        /\ a[Len(u) + 1] = m
        /\ \A i \in 1..Len(a) : i \in 1..Len(u) \/ i = Len(u) + 1
    BY <2>1, AppendFacts
  <2> HIDE DEF a
  <2>3. t.queue = a
    BY <1>2, Zenon DEF Enqueues, a
  <2> QED
    BY <1>2, <2>2, <2>3, Zenon
<1> QED
  BY <1>1, <1>2

LEMMA OwnWay ==
  ASSUME NEW p, NEW s, NEW r, NEW t, NEW w \in Seq(Frame), NEW v \in Seq(Frame), v # <<>>, NEW x, Good(s), Way(s, r, w, v),
         KeepTx(s, t), Enqueues(s, t, Head(v)), Acks(p, w, x)
  PROVE  Way(t, r, x, Tail(v))
<1>1. Told(v, "GOT") \union Told(s.queue, "GOT") = Told(Tail(v), "GOT") \union Told(t.queue, "GOT")
  BY EnqueuesTold, Zenon
<1>2. Under(t) = Under(s) /\ To(t) = To(s)
  BY DEF KeepTx, Under, To
<1>3. Told(w, "FILE") \subseteq Told(x, "FILE")
  <2>1. ASSUME NEW a \in Frame, x = Append(w, a) PROVE Told(w, "FILE") \subseteq Told(x, "FILE")
    BY <2>1, ToldMore
  <2> QED
    BY <2>1 DEF Acks
<1>4. Moving(t, r, x, Tail(v))
  <2>1. Moving(s, r, w, v)
    BY Zenon DEF Way
  <2> QED
    BY <1>1, <1>2, <1>3, <2>1 DEF Moving
<1>5. Answered(t, Tail(v))
  <2>1. Answered(s, v)
    BY Zenon DEF Way
  <2> QED
    BY <1>1, <2>1, Zenon DEF Answered, KeepTx
<1>6. Chained(x, From(r), To(t))
  <2>1. Chained(w, From(r), To(s))
    BY Zenon DEF Way
  <2>2. ASSUME NEW a \in Frame, x = Append(w, a), a.cmd = "GOT" PROVE Chained(x, From(r), To(s))
    <3>1. ~Streaming(a)
      BY <2>2 DEF Streaming
    <3>2. Chained(Append(w, a), From(r), IF Streaming(a) THEN {Placed(a)} ELSE To(s))
      BY <2>1, <2>2, <3>1, ChainedAppend
    <3> QED
      BY <2>2, <3>1, <3>2
  <2> QED
    BY <1>2, <2>1, <2>2 DEF Acks
<1> QED
  BY <1>4, <1>5, <1>6, Zenon DEF Way

LEMMA OwnSends ==
  ASSUME NEW p, NEW s, Good(s), NEW t, NEW o, NEW m \in Frame, Sends(p, s, o), ~Over(s), ~Over(t),
         KeepTx(s, t), KeepEnd(s, t), t.local_EOB = s.local_EOB, Enqueues(s, t, m), Waits(t)
  PROVE  Sends(p, t, o)
<1>1. Tidy(s) /\ Sender(s) /\ Offered(p, s, o)
  BY Zenon DEF Sends
<1>2. \A i \in 1..Len(t.queue) : t.queue[i].cmd = "GOT"
  <2>1. \A i \in 1..Len(s.queue) : s.queue[i].cmd = "GOT"
    BY <1>1, Zenon DEF Tidy
  <2> QED
    BY <2>1, EnqueuesGot, Zenon
<1>3. Tidy(t)
  <2>1. t.rc = "none"
    BY <1>1 DEF Tidy, KeepEnd
  <2>2. \A f \in File : t.offset[f] = 0
    BY <1>1 DEF Tidy, KeepTx
  <2> QED
    BY <1>2, <2>1, <2>2 DEF Tidy
<1>4. Sender(t)
  BY <1>1, Zenon DEF Sender, KeepTx, KeepEnd
<1>5. Offered(p, t, o)
  BY <1>1, Zenon DEF Offered, KeepTx, KeepEnd
<1> QED
  BY <1>3, <1>4, <1>5, Zenon DEF Sends

\* The session t after p reads the first frame of v and leaves x on its wire.
ReadsTo(p, t, x) ==
  LET s == bp[p]
      v == wire[Peer(p)]
  IN
  /\ v # <<>> /\ Acks(p, wire[p], x)
  /\ ~Over(s) /\ ~Over(t) /\ KeepTx(s, t) /\ KeepEnd(s, t) /\ t.local_EOB = s.local_EOB /\ Enqueues(s, t, Head(v))

LEMMA ReadHalves ==
  ASSUME IInv, EInv, NEW p \in Party, NEW t, NEW x, ReadsTo(p, t, x), Receiver(t), Waits(t), Counting(t),
         Onto(bp[Peer(p)], t, Tail(wire[Peer(p)]), x), Balance(t, bp[Peer(p)], x, Tail(wire[Peer(p)]))
  PROVE  /\ Half(p, t, bp[Peer(p)], x, Tail(wire[Peer(p)]), outbound)
         /\ Half(Peer(p), bp[Peer(p)], t, Tail(wire[Peer(p)]), x, outbound)
<1> DEFINE q == Peer(p)
           s == bp[p]
           r == bp[q]
           w == wire[p]
           v == wire[q]
           y == Tail(v)
<1>1. w \in Seq(Frame) /\ v \in Seq(Frame) /\ Good(s)
  BY Peers, WireTyped, BpGood
<1>2. Half(p, s, r, w, v, outbound) /\ Half(q, r, s, v, w, outbound)
  BY HalfView
<1>3. /\ v # <<>> /\ Acks(p, w, x)
      /\ ~Over(s) /\ ~Over(t) /\ KeepTx(s, t) /\ KeepEnd(s, t) /\ t.local_EOB = s.local_EOB /\ Enqueues(s, t, Head(v))
  BY Zenon DEF ReadsTo
<1>0. Head(v) \in Frame
  BY <1>1, <1>3, TailFacts
<1> HIDE DEF q, s, r, w, v
<1>4. Sends(p, s, outbound) /\ Way(s, r, w, v) /\ PlainWire(p, w) /\ r.Minor = s.Minor /\ PlainWire(q, v) /\ Side(q, r, outbound)
  BY <1>2, SideParts, Zenon DEF Half
<1>5. Sends(p, t, outbound)
  BY <1>0, <1>1, <1>3, <1>4, OwnSends, Zenon
<1>6. Way(t, r, x, y)
  BY <1>1, <1>3, <1>4, OwnWay, Zenon
<1>7. Onto(r, t, y, x) /\ Balance(t, r, x, y)
  BY Zenon DEF q, r, v, y
<1>8. PlainWire(p, x)
  <2>1. ASSUME NEW a \in Frame, x = Append(w, a), Plain(p, a) PROVE PlainWire(p, x)
    BY <1>1, <1>4, <2>1, PlainMore, Zenon
  <2> QED
    BY <1>3, <1>4, <2>1, Zenon DEF Acks
<1>9. PlainWire(q, y)
  BY <1>1, <1>3, <1>4, PlainLess, Zenon
<1> HIDE DEF y
<1>10. t.Minor = s.Minor
  BY <1>3, Zenon DEF KeepEnd
<1>11. Half(p, t, r, x, y, outbound)
  BY <1>4, <1>5, <1>6, <1>7, <1>8, <1>10, SideParts, Zenon DEF Half
<1>12. Half(q, r, t, y, x, outbound)
  BY <1>4, <1>7, <1>9, <1>10, BalanceTurned, Zenon DEF Half, Onto, Way
<1> QED
  BY <1>11, <1>12, Zenon DEF q, r, v, y

Reads(p, t, x) ==
  /\ ReadsTo(p, t, x)
  /\ bp' = [bp EXCEPT ![p] = t] /\ wire'[Peer(p)] = Tail(wire[Peer(p)]) /\ wire'[p] = x
  /\ line' = line /\ outbound' = outbound

LEMMA ReadsEnd ==
  ASSUME IInv, EInv, NEW p \in Party, NEW t, NEW x, Reads(p, t, x), Receiver(t), Waits(t), Counting(t), Emptied',
         Onto(bp[Peer(p)], t, Tail(wire[Peer(p)]), x), Balance(t, bp[Peer(p)], x, Tail(wire[Peer(p)]))
  PROVE  EInv'
<1> DEFINE q == Peer(p)
           r == bp[q]
           y == Tail(wire[q])
<1>1. bp'[p] = t /\ bp'[q] = r
  BY BpView DEF Reads
<1>2. line = TRUE
  BY HalfView
<1>3. wire'[q] = y /\ wire'[p] = x /\ line' = TRUE /\ outbound' = outbound /\ ReadsTo(p, t, x)
  BY <1>2, Zenon DEF Reads
<1>4. Half(p, t, r, x, y, outbound) /\ Half(q, r, t, y, x, outbound)
  BY <1>3, ReadHalves, Zenon
<1> HIDE DEF q, r, y
<1> QED
  BY <1>1, <1>3, <1>4, HalvesEnd, Zenon DEF q

(***************************************************************************)
(* The steps of the transmitter                                            *)
(***************************************************************************)
\* What the two processes know of each other.
LEMMA OnView ==
  ASSUME IInv, EInv, NEW p \in Party
  PROVE  /\ Sends(p, bp[p], outbound) /\ Receiver(bp[p]) /\ Counting(bp[p])
         /\ Onto(bp[p], bp[Peer(p)], wire[p], wire[Peer(p)])
         /\ Onto(bp[Peer(p)], bp[p], wire[Peer(p)], wire[p])
         /\ Sends(Peer(p), bp[Peer(p)], outbound) /\ Receiver(bp[Peer(p)]) /\ Counting(bp[Peer(p)])
         /\ Balance(bp[p], bp[Peer(p)], wire[p], wire[Peer(p)]) /\ bp[Peer(p)].Minor = bp[p].Minor
         /\ PlainWire(Peer(p), wire[Peer(p)]) /\ line = TRUE
<1> DEFINE q == Peer(p)
           s == bp[p]
           r == bp[q]
           w == wire[p]
           v == wire[q]
<1>1. Half(p, s, r, w, v, outbound) /\ Half(q, r, s, v, w, outbound) /\ line = TRUE
  BY HalfView
<1> HIDE DEF q, s, r, w, v
<1>2. /\ Sends(p, s, outbound) /\ Receiver(s) /\ Counting(s) /\ Onto(s, r, w, v) /\ Onto(r, s, v, w)
      /\ Sends(q, r, outbound) /\ Receiver(r) /\ Counting(r)
      /\ Balance(s, r, w, v) /\ r.Minor = s.Minor /\ PlainWire(q, v)
  BY <1>1, SideParts, Zenon DEF Half, Onto, Way
<1> QED
  BY <1>1, <1>2 DEF q, s, r, w, v

\* The fields that the transmitter leaves alone before it sends a frame.
KeepSend(s, t) ==
  KeepRx(s, t) /\ Mute(s, t) /\ t.Minor = s.Minor /\ t.rc = s.rc /\ t.batchnr = s.batchnr /\ t.queue = s.queue

LEMMA KeepSendSent ==
  ASSUME NEW s, NEW t, Good(t), KeepSend(s, t), NEW m, m.cmd # "DATA", m.cmd # "GOT", s.local_EOB => m.cmd # "EOB"
  PROVE  LET u == SentCommand(t, m.cmd) IN
         /\ KeepEnd(t, u) /\ Keep(t, u) /\ u.FtState = t.FtState /\ Speaks(s, u, m)
         /\ KeepRx(s, u) /\ u.Minor = s.Minor /\ u.rc = s.rc /\ u.batchnr = s.batchnr /\ u.queue = s.queue
<1> DEFINE u == SentCommand(t, m.cmd)
<1>1. t.local_EOB = s.local_EOB
  BY DEF KeepSend, Mute
<1>2. KeepEnd(t, u) /\ Keep(t, u) /\ u.FtState = t.FtState /\ Speaks(t, u, m)
  BY <1>1, SentCommandEnd
<1> HIDE DEF u
<1>3. Speaks(s, u, m)
  BY <1>2, Zenon DEF KeepSend, Mute, Speaks, Counted, Tell, TellEnd
<1>4. KeepRx(s, u) /\ u.Minor = s.Minor /\ u.rc = s.rc /\ u.batchnr = s.batchnr /\ u.queue = s.queue
  BY <1>2, Zenon DEF KeepSend, KeepEnd, Keep, KeepRx
<1> QED
  BY <1>2, <1>3, <1>4 DEF u

LEMMA TidyKept ==
  ASSUME NEW s, NEW t, Tidy(s), ~Over(s), ~Over(t), t.rc = s.rc, t.queue = s.queue, t.offset = s.offset PROVE Tidy(t)
<1>1. t.rc = "none"
  BY DEF Tidy
<1> QED
  BY <1>1 DEF Tidy

LEMMA MakeListEnd == ASSUME IInv, Talk, EInv, NEW p \in Party, MakeList(p) PROVE EInv'
<1> DEFINE q == Peer(p)
           r == bp[q]
           w == wire[p]
           v == wire[q]
           l == [f \in File |-> IF f \in Listed(p) THEN "NoState" ELSE "Absent"]
           o == [f \in File |-> 0]
           s == [bp[p] EXCEPT
                   !.FtState = "Transmit", !.tosend = TRUE, !.cursend = NoFile, !.freqname = FALSE,
                   !.state = l, !.offset = o]
           m == [cmd |-> "NUL", file |-> NoFile, offs |-> 0]
           u == SentCommand(s, m.cmd)
<1>1. /\ Turn(p) /\ bp[p].TxState = "TxGNF" /\ ~bp[p].tosend /\ line' = line /\ outbound' = outbound /\ tmp' = tmp
      /\ \/ bp' = [bp EXCEPT ![p] = s] /\ wire' = wire
         \/ bp' = [bp EXCEPT ![p] = u] /\ wire' = Sent(wire, p, m)
  BY DEF MakeList, Transmits, disk
<1>2. Good(bp[p]) /\ ~Over(bp[p]) /\ Mine(p, bp[p]) /\ w \in Seq(Frame)
  BY <1>1, BpGood, TurnLive, MineView, WireTyped
<1>3. /\ Sends(p, bp[p], outbound) /\ Onto(bp[p], r, w, v)
  BY OnView
<1>4. /\ s.FtState = "Transmit" /\ s.TxState = "TxGNF" /\ KeepSend(bp[p], s) /\ s.state = l /\ s.offset = o
  BY <1>1, <1>2 DEF Good, Session, KeepSend, KeepRx, Mute
<1>5. Good(s)
  <2>1. l \in [File -> FileState] /\ o \in [File -> Nat]
    BY DEF FileState
  <2> HIDE DEF l, o
  <2> QED
    BY <1>1, <1>2, <2>1, ListMadeGood
<1>6. ~bp[p].local_EOB
  BY <1>1, <1>3 DEF Sends, Sender
<1>7. \A f \in outbound : Owner[f] = p => f \in Listed(p)
  <2> SUFFICES ASSUME NEW f \in outbound, Owner[f] = p PROVE f \in Listed(p)
    OBVIOUS
  <2>1. f \in File /\ bp[p].state[f] = "Absent"
    BY <1>1, <1>2 DEF IInv, TypeOK, Mine
  <2>2. bp[p].batchnr = 0
    BY <1>3, <2>1 DEF Sends, Offered
  <2> QED
    BY <2>2, LimitsKnown DEF Listed
<1>8. m \in Frame /\ m.cmd = "NUL" /\ ~Streaming(m) /\ Plain(p, m)
  BY FramesTyped DEF Streaming, Plain
<1> HIDE DEF s, m
<1>9. /\ Speaks(bp[p], u, m) /\ u.FtState = "Transmit" /\ u.TxState = "TxGNF" /\ u.state = l /\ u.offset = o
      /\ KeepRx(bp[p], u) /\ u.Minor = bp[p].Minor /\ u.rc = bp[p].rc /\ u.batchnr = bp[p].batchnr /\ u.queue = bp[p].queue
  <2>1. /\ Keep(s, u) /\ Speaks(bp[p], u, m) /\ u.FtState = s.FtState
        /\ KeepRx(bp[p], u) /\ u.Minor = bp[p].Minor /\ u.rc = bp[p].rc /\ u.batchnr = bp[p].batchnr /\ u.queue = bp[p].queue
    BY <1>4, <1>5, <1>6, <1>8, KeepSendSent
  <2> HIDE DEF u
  <2> QED
    BY <1>4, <2>1, Zenon DEF Keep, KeepTx
<1> HIDE DEF u
<1>10. ASSUME NEW t, t.FtState = "Transmit", t.TxState = "TxGNF", t.state = l, t.offset = o, ~t.local_EOB,
              KeepRx(bp[p], t), t.rc = bp[p].rc, t.batchnr = bp[p].batchnr, t.queue = bp[p].queue
       PROVE  /\ ~Over(t) /\ Sends(p, t, outbound)
              /\ Moving(t, r, w, v) /\ Moving(t, r, Append(w, m), v) /\ Answered(t, v) /\ To(t) = Complete
  <2>1. /\ \A f \in File : t.state[f] \in {"NoState", "Absent"} /\ t.offset[f] = 0
        /\ \A f \in File : f \in Listed(p) => t.state[f] = "NoState"
    BY <1>10
  <2>2. ~Over(t) /\ Under(t) = {} /\ Answered(t, v) /\ To(t) = Complete /\ Waits(t)
    BY <1>10, <2>1 DEF Over, Under, Answered, To, Waits
  <2>3. Tidy(t)
    BY <1>2, <1>3, <1>10, <2>1, <2>2 DEF Sends, Tidy
  <2>4. Sender(t)
    BY <1>10, <2>1 DEF Sender
  <2>5. Offered(p, t, outbound)
    BY <1>7, <2>1 DEF Offered, IInv, TypeOK
  <2> QED
    BY <2>2, <2>3, <2>4, <2>5 DEF Sends, Moving
<1>11. Chained(w, From(r), Complete)
  BY <1>1, <1>3 DEF Onto, To
<1>12. CASE bp' = [bp EXCEPT ![p] = s] /\ wire' = wire
  <2>1. ~s.local_EOB /\ KeepRx(bp[p], s) /\ s.rc = bp[p].rc /\ s.batchnr = bp[p].batchnr /\ s.queue = bp[p].queue
        /\ Mute(bp[p], s) /\ s.Minor = bp[p].Minor
    BY <1>4, <1>6 DEF KeepSend, Mute
  <2>2. ~Over(s) /\ Sends(p, s, outbound) /\ Moving(s, r, w, v) /\ Answered(s, v) /\ To(s) = Complete
    BY <1>4, <1>10, <2>1, Zenon
  <2>3. Onto(s, r, w, v)
    BY <1>11, <2>2 DEF Onto
  <2>4. Idles(p, s)
    BY <1>1, <1>2, <1>12, <2>1, <2>2 DEF Idles
  <2> QED
    BY <1>1, <1>12, <2>1, <2>2, <2>3, <2>4, QuietEnd, Zenon
<1>13. CASE bp' = [bp EXCEPT ![p] = u] /\ wire' = Sent(wire, p, m)
  <2>1. ~u.local_EOB
    BY <1>6, <1>8, <1>9 DEF Speaks, Counted, Tells, Tell
  <2>2. ~Over(u) /\ Sends(p, u, outbound) /\ Moving(u, r, Append(w, m), v) /\ Answered(u, v) /\ To(u) = Complete
    BY <1>9, <1>10, <2>1, Zenon
  <2>3. Chained(Append(w, m), From(r), Complete)
    <3>1. Chained(Append(w, m), From(r), IF Streaming(m) THEN {Placed(m)} ELSE Complete)
      BY <1>2, <1>8, <1>11, ChainedAppend
    <3> QED
      BY <1>8, <3>1
  <2>4. Onto(u, r, Append(w, m), v)
    BY <2>2, <2>3 DEF Onto
  <2>5. Idles(p, u)
    BY <1>1, <1>2, <1>9, <1>13, <2>2 DEF Idles
  <2>6. m.cmd # "GOT"
    BY <1>8
  <2> QED
    BY <1>1, <1>6, <1>8, <1>9, <1>13, <2>2, <2>4, <2>5, <2>6, SaysEnd, Zenon
<1> QED
  BY <1>1, <1>12, <1>13

\* A file that is announced, received or acknowledged is one that its owner sends.
Carried(s, r, w, v) == Told(w, "FILE") \union Awaited(r) \union Told(v, "GOT") \union Told(s.queue, "GOT")

LEMMA CarriedUnder ==
  ASSUME IInv, Talk, NEW p \in Party, ~Over(bp[p]), NEW f \in File, Owner[f] = p,
         f \in Carried(bp[p], bp[Peer(p)], wire[p], wire[Peer(p)])
  PROVE  f \in Under(bp[p])
<1> DEFINE q == Peer(p)
<1>1. wire[p] \in Seq(Frame) /\ wire[q] \in Seq(Frame) /\ bp[p].queue \in Seq(Queued) /\ Good(bp[p]) /\ "GOT" \in Answering
  BY Peers, WireTyped, BpGood, QueueTyped DEF Answering
<1>2. Single(f, wire[p], wire[q], bp[p], bp[q])
  BY SingleView DEF Talk
<1>3. /\ Posted(wire[p], f) \in Nat /\ Replies(wire[q], f) \in Nat /\ Waiting(bp[p], f) \in Nat
      /\ Coming(bp[q], f) \in {0, 1}
  BY <1>1, LoadType
<1> HIDE DEF q
<1>4. f \in Told(wire[p], "FILE") => Posted(wire[p], f) # 0
  BY <1>1, CountSome DEF Posted
<1>5. f \in Told(wire[q], "GOT") => Replies(wire[q], f) # 0
  BY <1>1, CountSome DEF Replies
<1>6. f \in Told(bp[p].queue, "GOT") => Waiting(bp[p], f) # 0
  BY <1>1, CountSome DEF Waiting
<1>7. f \in Awaited(bp[q]) => Coming(bp[q], f) # 0
  BY DEF Awaited, Coming
<1>8. Load(f, wire[p], wire[q], bp[p], bp[q]) # 0
  <2>1. Posted(wire[p], f) # 0 \/ Replies(wire[q], f) # 0 \/ Waiting(bp[p], f) # 0 \/ Coming(bp[q], f) # 0
    BY <1>4, <1>5, <1>6, <1>7 DEF Carried, q
  <2> QED
    BY <1>3, <2>1 DEF Load
<1> QED
  BY <1>2, <1>8 DEF Single, Under

\* It is announced once, and not again while it is received.
LEMMA AnnouncedOnce ==
  ASSUME IInv, Talk, NEW p \in Party, NEW f \in File, Owner[f] = p
  PROVE  /\ wire[p] # <<>> /\ Marked(Head(wire[p]), {"FILE"}, f) => f \notin Told(Tail(wire[p]), "FILE")
         /\ f \in Awaited(bp[Peer(p)]) => f \notin Told(wire[p], "FILE")
<1> DEFINE q == Peer(p)
           w == wire[p]
<1>1. w \in Seq(Frame) /\ wire[q] \in Seq(Frame) /\ Good(bp[p])
  BY Peers, WireTyped, BpGood
<1>2. Load(f, w, wire[q], bp[p], bp[q]) <= 1
  BY SingleView DEF Talk, Single
<1>3. /\ Posted(w, f) \in Nat /\ Replies(wire[q], f) \in Nat /\ Waiting(bp[p], f) \in Nat
      /\ Coming(bp[q], f) \in {0, 1}
  BY <1>1, LoadType
<1>4. ASSUME w # <<>>, Marked(Head(w), {"FILE"}, f), f \in Told(Tail(w), "FILE") PROVE FALSE
  <2>1. Tail(w) \in Seq(Frame)
    BY <1>1, <1>4, TailFacts
  <2>2. Posted(Tail(w), f) \in Nat /\ Posted(Tail(w), f) # 0
    BY <1>4, <2>1, CountSome DEF Posted
  <2>3. Posted(w, f) = Posted(Tail(w), f) + 1
    BY <1>1, <1>4, WireCounts
  <2> HIDE DEF q, w
  <2> QED
    BY <1>2, <1>3, <2>2, <2>3 DEF Load
<1>5. ASSUME f \in Awaited(bp[q]), f \in Told(w, "FILE") PROVE FALSE
  <2>1. Posted(w, f) # 0
    BY <1>1, <1>5, CountSome DEF Posted
  <2>2. Coming(bp[q], f) = 1
    BY <1>5 DEF Awaited, Coming
  <2> HIDE DEF q, w
  <2> QED
    BY <1>2, <1>3, <2>1, <2>2 DEF Load
<1> QED
  BY <1>4, <1>5

LEMMA SendFileEnd == ASSUME IInv, Talk, EInv, NEW p \in Party, SendFile(p) PROVE EInv'
<1>1. PICK f \in File :
        /\ Chooses(p, f)
        /\ Transmits(p, SentCommand(
             [bp[p] EXCEPT !.FtState = "Transmit", !.TxState = "TxTryR", !.state[f] = "Sending",
                           !.cursend = f, !.txfp = f, !.txpos = bp[p].offset[f]], "FILE"))
        /\ wire' = Sent(wire, p, [cmd |-> "FILE", file |-> f, offs |-> bp[p].offset[f]])
        /\ UNCHANGED <<disk, line>>
  BY DEF SendFile
<1> DEFINE q == Peer(p)
           b == bp[p]
           r == bp[q]
           w == wire[p]
           v == wire[q]
           s == [b EXCEPT !.FtState = "Transmit", !.TxState = "TxTryR", !.state[f] = "Sending",
                          !.cursend = f, !.txfp = f, !.txpos = b.offset[f]]
           m == [cmd |-> "FILE", file |-> f, offs |-> b.offset[f]]
           t == SentCommand(s, m.cmd)
<1>2. Turn(p) /\ b.TxState = "TxGNF" /\ b.tosend /\ b.state[f] = "NoState"
  BY <1>1 DEF Chooses, Unsent
<1>3. Good(b) /\ ~Over(b) /\ Mine(p, b) /\ w \in Seq(Frame)
  BY <1>2, BpGood, TurnLive, MineView, WireTyped
<1>4. b.state \in [File -> FileState] /\ b.offset \in [File -> Nat]
  BY <1>3, ZenonT(20) DEF Good, Session
<1>5. Sends(p, b, outbound) /\ Onto(b, r, w, v)
  BY OnView
<1>6. b.offset[f] = 0 /\ ~b.local_EOB
  BY <1>2, <1>5 DEF Sends, Tidy, Sender
<1>7. Owner[f] = p
  BY <1>2, <1>3 DEF Mine
<1>8. Good(s)
  <2>1. b.offset[f] \in Nat
    BY <1>4
  <2> QED
    BY <1>3, <2>1, SendingGood
<1>9. /\ s.FtState = "Transmit" /\ s.TxState = "TxTryR" /\ s.cursend = f /\ s.txfp = f /\ s.txpos = 0
      /\ KeepSend(b, s) /\ s.state = [b.state EXCEPT ![f] = "Sending"] /\ s.offset = b.offset
  BY <1>2, <1>3, <1>6 DEF Good, Session, KeepSend, KeepRx, Mute
<1>10. m \in Frame /\ m.cmd = "FILE" /\ m.file = f /\ m.offs = 0 /\ Placed(m) = <<f, 0>> /\ Streaming(m) /\ Plain(p, m)
  BY <1>6, FramesTyped DEF Placed, Streaming, Plain
<1>11. bp' = [bp EXCEPT ![p] = t] /\ wire' = Sent(wire, p, m) /\ line' = line /\ outbound' = outbound /\ tmp' = tmp
  BY <1>1 DEF Transmits, disk
<1>12. f \notin Told(v, "GOT") \union Told(b.queue, "GOT")
  <2>1. f \notin Under(b)
    BY <1>2 DEF Under
  <2> QED
    BY <1>3, <1>7, <2>1, CarriedUnder DEF Carried
<1> HIDE DEF q, s, m
<1>13. /\ Keep(s, t) /\ KeepEnd(s, t) /\ Speaks(b, t, m) /\ t.FtState = "Transmit"
       /\ KeepRx(b, t) /\ t.Minor = b.Minor /\ t.rc = b.rc /\ t.batchnr = b.batchnr /\ t.queue = b.queue
  BY <1>6, <1>8, <1>9, <1>10, KeepSendSent
<1> HIDE DEF t
<1>14. /\ t.TxState = "TxTryR" /\ t.cursend = f /\ t.txfp = f /\ t.txpos = 0 /\ ~Over(t)
       /\ t.state = [b.state EXCEPT ![f] = "Sending"] /\ t.offset = b.offset
  BY <1>9, <1>13 DEF Keep, KeepTx, KeepEnd, Over
<1> HIDE DEF b, r, w, v
<1>15. \A g \in File : t.state[g] = IF g = f THEN "Sending" ELSE b.state[g]
  BY <1>4, <1>14
<1>16. ~t.local_EOB
  BY <1>6, <1>10, <1>13 DEF Speaks, Counted, Tells, Tell
<1>17. Sends(p, t, outbound)
  <2>1. Tidy(t)
    BY <1>3, <1>5, <1>13, <1>14, TidyKept DEF Sends
  <2>2. Sender(t)
    BY <1>2, <1>5, <1>14, <1>15, <1>16 DEF Sends, Sender
  <2>3. Waits(t)
    BY <1>13 DEF Waits
  <2>4. Offered(p, t, outbound)
    <3>1. \A g \in outbound : Owner[g] = p => b.state[g] \in {"NoState", "Sending", "IsSent"}
      BY <1>2, <1>5 DEF Sends, Offered, Mine
    <3> QED
      BY <1>15, <3>1 DEF Offered, IInv, TypeOK
  <2> QED
    BY <2>1, <2>2, <2>3, <2>4 DEF Sends
<1>18. Onto(t, r, Append(w, m), v)
  <2>1. Told(w, "FILE") \subseteq Told(Append(w, m), "FILE") /\ f \in Told(Append(w, m), "FILE")
    BY <1>3, <1>10, ToldMore
  <2>2. Under(t) \subseteq Under(b) \union {f}
    BY <1>15 DEF Under
  <2>3. Moving(t, r, Append(w, m), v)
    BY <1>5, <1>13, <2>1, <2>2 DEF Onto, Moving
  <2>4. Answered(t, v)
    BY <1>12, <1>13, <1>14 DEF Answered
  <2>5. To(b) = Complete /\ To(t) = {Placed(m)}
    BY <1>2, <1>10, <1>14 DEF To
  <2>6. Chained(w, From(r), Complete)
    BY <1>5, <2>5 DEF Onto
  <2>7. m.offs <= Size[m.file]
    BY <1>10, FilesKnown
  <2>8. Chained(Append(w, m), From(r), IF Streaming(m) THEN {Placed(m)} ELSE Complete)
    BY <1>3, <1>10, <2>6, <2>7, ChainedAppend
  <2> QED
    BY <1>10, <2>3, <2>4, <2>5, <2>8 DEF Onto
<1>19. Idles(p, t)
  BY <1>3, <1>11, <1>13, <1>14 DEF Idles, b
<1>20. m.cmd # "GOT"
  BY <1>10
<1> QED
  BY <1>6, <1>10, <1>11, <1>13, <1>17, <1>18, <1>19, <1>20, SaysEnd, Zenon DEF b, q, r, w, v

LEMMA PassFileEnd == ASSUME NoFault, IInv, Talk, EInv, NEW p \in Party, PassFile(p) PROVE EInv'
<1>1. PICK f \in File :
        /\ Chooses(p, f) /\ f \notin outbound
        /\ Transmits(p, [bp[p] EXCEPT !.FtState = "Switch", !.txfp = NoFile, !.state[f] = "Got"])
  BY DEF PassFile, NoFault
<1> DEFINE q == Peer(p)
           b == bp[p]
           r == bp[q]
           w == wire[p]
           v == wire[q]
           t == [b EXCEPT !.FtState = "Switch", !.txfp = NoFile, !.state[f] = "Got"]
<1>2. wire' = wire /\ line' = line /\ outbound' = outbound /\ tmp' = tmp /\ bp' = [bp EXCEPT ![p] = t]
  BY <1>1 DEF PassFile, Transmits, disk
<1>3. Turn(p) /\ b.TxState = "TxGNF" /\ b.tosend /\ b.state[f] = "NoState"
  BY <1>1 DEF Chooses, Unsent
<1>4. Good(b) /\ ~Over(b) /\ Mine(p, b)
  BY <1>3, BpGood, TurnLive, MineView
<1>5. Sends(p, b, outbound) /\ Onto(b, r, w, v)
  BY OnView
<1>6. b.state \in [File -> FileState]
  BY <1>4, ZenonT(20) DEF Good, Session
<1>7. /\ t.FtState = "Switch" /\ KeepSend(b, t) /\ t.TxState = "TxGNF" /\ t.offset = b.offset
      /\ t.state = [b.state EXCEPT ![f] = "Got"]
  BY <1>3, <1>4 DEF Good, Session, KeepSend, KeepRx, Mute
<1> HIDE DEF t, b, q, r, w, v
<1>8. \A g \in File : t.state[g] = IF g = f THEN "Got" ELSE b.state[g]
  BY <1>6, <1>7
<1>9. ~b.local_EOB /\ ~t.local_EOB /\ ~Over(t) /\ KeepRx(b, t) /\ t.Minor = b.Minor /\ Mute(b, t)
  BY <1>3, <1>5, <1>7 DEF Sends, Sender, Over, KeepSend, Mute
<1>10. Sends(p, t, outbound)
  <2>1. Tidy(t)
    BY <1>4, <1>5, <1>7, <1>9, TidyKept DEF Sends, KeepSend
  <2>2. Sender(t)
    BY <1>3, <1>5, <1>7, <1>8, <1>9 DEF Sends, Sender
  <2>3. Waits(t)
    BY <1>9 DEF Waits, Both
  <2>4. Offered(p, t, outbound)
    <3>1. \A g \in outbound : Owner[g] = p => b.state[g] \in {"NoState", "Sending", "IsSent"}
      BY <1>3, <1>5 DEF Sends, Offered
    <3> QED
      BY <1>1, <1>8, <3>1 DEF Offered, IInv, TypeOK
  <2> QED
    BY <2>1, <2>2, <2>3, <2>4 DEF Sends
<1>11. Onto(t, r, w, v)
  <2>1. Under(t) = Under(b) /\ t.queue = b.queue
    BY <1>3, <1>7, <1>8 DEF Under, KeepSend
  <2>2. Moving(t, r, w, v) /\ Answered(t, v) /\ To(t) = To(b)
    BY <1>3, <1>5, <1>7, <2>1 DEF Onto, Moving, Answered, To
  <2> QED
    BY <1>5, <2>2 DEF Onto
<1>12. Idles(p, t)
  BY <1>2, <1>4, <1>9 DEF Idles, b
<1> QED
  BY <1>2, <1>9, <1>10, <1>11, <1>12, QuietEnd, Zenon DEF b, q, r, w, v

LEMMA SendEOBEnd == ASSUME IInv, Talk, EInv, NEW p \in Party, SendEOB(p) PROVE EInv'
<1> DEFINE q == Peer(p)
           b == bp[p]
           r == bp[q]
           w == wire[p]
           v == wire[q]
           s == [b EXCEPT !.FtState = "Transmit", !.TxState = "TxWLA"]
           m == [cmd |-> "EOB", file |-> NoFile, offs |-> 0]
           t == SentCommand(s, m.cmd)
<1>1. /\ Turn(p) /\ b.TxState = "TxGNF" /\ b.tosend /\ Unsent(p) = {} /\ bp' = [bp EXCEPT ![p] = t]
      /\ wire' = Sent(wire, p, m) /\ line' = line /\ outbound' = outbound /\ tmp' = tmp
  BY DEF SendEOB, Transmits, disk
<1>2. Good(b) /\ ~Over(b) /\ w \in Seq(Frame)
  BY <1>1, BpGood, TurnLive, WireTyped
<1>3. Sends(p, b, outbound) /\ Onto(b, r, w, v)
  BY OnView
<1>4. ~b.local_EOB
  BY <1>1, <1>3 DEF Sends, Sender
<1>5. Good(s)
  BY <1>2, AllSentGood
<1>6. /\ s.FtState = "Transmit" /\ s.TxState = "TxWLA" /\ KeepSend(b, s) /\ s.state = b.state /\ s.offset = b.offset
      /\ s.txfp = b.txfp
  BY <1>2 DEF Good, Session, KeepSend, KeepRx, Mute
<1>7. m \in Frame /\ m.cmd = "EOB" /\ ~Streaming(m) /\ Plain(p, m)
  BY FramesTyped DEF Streaming, Plain
<1>8. \A f \in File : b.state[f] # "NoState"
  BY <1>1 DEF Unsent
<1> HIDE DEF q, s, m
<1>9. /\ Keep(s, t) /\ KeepEnd(s, t) /\ Speaks(b, t, m) /\ t.FtState = "Transmit"
      /\ KeepRx(b, t) /\ t.Minor = b.Minor /\ t.rc = b.rc /\ t.batchnr = b.batchnr /\ t.queue = b.queue
  BY <1>4, <1>5, <1>6, <1>7, KeepSendSent
<1> HIDE DEF t
<1>10. t.TxState = "TxWLA" /\ ~Over(t) /\ t.state = b.state /\ t.offset = b.offset
  BY <1>6, <1>9 DEF Keep, KeepTx, Over
<1>11. t.local_EOB
  BY <1>7, <1>9 DEF Speaks, TellEnd
<1> HIDE DEF b, r, w, v
<1>12. Sends(p, t, outbound)
  <2>1. Tidy(t)
    BY <1>2, <1>3, <1>9, <1>10, TidyKept DEF Sends
  <2>2. Sender(t)
    BY <1>1, <1>3, <1>8, <1>10, <1>11 DEF Sends, Sender
  <2>3. Waits(t)
    BY <1>9 DEF Waits
  <2>4. Offered(p, t, outbound)
    BY <1>1, <1>3, <1>10 DEF Sends, Offered
  <2> QED
    BY <2>1, <2>2, <2>3, <2>4 DEF Sends
<1>13. Onto(t, r, Append(w, m), v)
  <2>1. Told(w, "FILE") \subseteq Told(Append(w, m), "FILE")
    BY <1>2, <1>7, ToldMore
  <2>2. Moving(t, r, Append(w, m), v)
    BY <1>3, <1>9, <1>10, <2>1 DEF Onto, Moving, Under
  <2>3. Answered(t, v) /\ To(b) = Complete /\ To(t) = Complete
    BY <1>1, <1>10 DEF Answered, To
  <2>4. Chained(w, From(r), Complete)
    BY <1>3, <2>3 DEF Onto
  <2>5. Chained(Append(w, m), From(r), IF Streaming(m) THEN {Placed(m)} ELSE Complete)
    BY <1>2, <1>7, <2>4, ChainedAppend
  <2> QED
    BY <1>7, <2>2, <2>3, <2>5 DEF Onto
<1>14. Idles(p, t)
  BY <1>1, <1>2, <1>9, <1>10 DEF Idles, b
<1>15. m.cmd # "GOT"
  BY <1>7
<1> QED
  BY <1>1, <1>4, <1>7, <1>9, <1>12, <1>13, <1>14, <1>15, SaysEnd, Zenon DEF b, q, r, w, v

LEMMA ChainedSpot ==
  ASSUME NEW w \in Seq(Frame), NEW A, NEW B, Chained(w, A, B)
  PROVE  (\E x \in A : x \in Spot) /\ \E y \in B : y \in Spot
<1>1. PICK P \in [0..Len(w) -> Spot] : P[0] \in A /\ P[Len(w)] \in B
  BY DEF Chained
<1>2. 0 \in 0..Len(w) /\ Len(w) \in 0..Len(w)
  BY LenProperties
<1> QED
  BY <1>1, <1>2

\* Of the session b, the session after a block, or the end of the file, was read.
BlockRead(b, t, n, whole) ==
  /\ t.FtState = "Switch" /\ KeepSend(b, t) /\ t.offset = b.offset /\ t.txpos = n
  /\ IF whole THEN t.TxState = "TxGNF" /\ t.state = [b.state EXCEPT ![b.cursend] = "IsSent"]
     ELSE t.TxState = "TxTryR" /\ t.state = b.state /\ t.cursend = b.cursend /\ t.txfp = b.txfp

\* What p sent of the block n, or that it met the end of the file.
BlockSent(p, t, whole, last, f, n, m) ==
  /\ bp' = [bp EXCEPT ![p] = t]
  /\ BlockRead(bp[p], t, n, whole)
  /\ last => whole /\ wire' = wire
  /\ ~last => wire' = Sent(wire, p, m)
  /\ whole => bp[p].txpos + 1 >= Size[f]

LEMMA SendBlockView ==
  ASSUME IInv, NEW p \in Party, SendBlock(p)
  PROVE  LET b == bp[p]
             f == b.cursend
             last == b.txpos >= Size[f]
             m == [cmd |-> "DATA", file |-> f, offs |-> b.txpos + 1]
         IN
         /\ ~Over(b) /\ b.TxState = "TxTryR" /\ UNCHANGED <<line, outbound, tmp>>
         /\ \E t : \E whole \in BOOLEAN : BlockSent(p, t, whole, last, f, IF last THEN b.txpos ELSE b.txpos + 1, m)
<1> DEFINE b == bp[p]
           f == b.cursend
           last == b.txpos >= Size[f]
           m == [cmd |-> "DATA", file |-> f, offs |-> b.txpos + 1]
           n == IF last THEN b.txpos ELSE b.txpos + 1
           sent == [b EXCEPT !.FtState = "Switch", !.txpos = n]
           read == [sent EXCEPT !.txfp = NoFile, !.state[f] = "IsSent", !.cursend = NoFile, !.TxState = "TxGNF"]
<1>1. /\ Turn(p) /\ b.TxState = "TxTryR" /\ UNCHANGED <<line, outbound, tmp>>
      /\ IF last THEN wire' = wire ELSE wire' = Sent(wire, p, m)
  BY DEF SendBlock, disk
<1>2. \/ bp' = [bp EXCEPT ![p] = read] /\ b.txpos + 1 >= Size[f]
      \/ bp' = [bp EXCEPT ![p] = sent] /\ ~last
  <2>1. n = IF last THEN b.txpos ELSE b.txpos + 1
    OBVIOUS
  <2> QED
    BY DEF SendBlock, Transmits
<1>3. Good(b) /\ ~Over(b)
  BY <1>1, BpGood, TurnLive
<1> HIDE DEF n, last, m
<1>4. /\ sent.FtState = "Switch" /\ KeepSend(b, sent) /\ sent.offset = b.offset /\ sent.txpos = n
      /\ sent.TxState = "TxTryR" /\ sent.state = b.state /\ sent.cursend = f /\ sent.txfp = b.txfp
  BY <1>1, <1>3 DEF Good, Session, KeepSend, KeepRx, Mute
<1>5. /\ read.FtState = "Switch" /\ KeepSend(b, read) /\ read.offset = b.offset /\ read.txpos = n
      /\ read.TxState = "TxGNF" /\ read.state = [b.state EXCEPT ![f] = "IsSent"]
  BY <1>1, <1>3 DEF Good, Session, KeepSend, KeepRx, Mute
<1> HIDE DEF sent, read, b
<1>6. BlockRead(b, sent, n, FALSE) /\ BlockRead(b, read, n, TRUE)
  BY <1>4, <1>5 DEF BlockRead
<1>7. \E t : \E whole \in BOOLEAN :
        bp' = [bp EXCEPT ![p] = t] /\ BlockRead(b, t, n, whole) /\ (last => whole) /\ (whole => b.txpos + 1 >= Size[f])
  BY <1>2, <1>6
<1>11. PICK t : \E whole \in BOOLEAN :
         bp' = [bp EXCEPT ![p] = t] /\ BlockRead(b, t, n, whole) /\ (last => whole) /\ (whole => b.txpos + 1 >= Size[f])
  BY <1>7
<1>8. PICK whole \in BOOLEAN :
        bp' = [bp EXCEPT ![p] = t] /\ BlockRead(b, t, n, whole) /\ (last => whole) /\ (whole => b.txpos + 1 >= Size[f])
  BY <1>11
<1>9. BlockSent(p, t, whole, last, f, n, m)
  BY <1>1, <1>8 DEF BlockSent, b
<1>10. \E a : \E c \in BOOLEAN : BlockSent(p, a, c, last, f, n, m)
  BY <1>9
<1> QED
  BY <1>1, <1>3, <1>10 DEF n, last, m, b

LEMMA SendBlockEnd == ASSUME IInv, Talk, EInv, NEW p \in Party, SendBlock(p) PROVE EInv'
<1> DEFINE q == Peer(p)
           b == bp[p]
           r == bp[q]
           w == wire[p]
           v == wire[q]
           f == b.cursend
           last == b.txpos >= Size[f]
           m == [cmd |-> "DATA", file |-> f, offs |-> b.txpos + 1]
           n == IF last THEN b.txpos ELSE b.txpos + 1
<1>1. ~Over(b) /\ b.TxState = "TxTryR" /\ line' = line /\ outbound' = outbound /\ tmp' = tmp
  BY SendBlockView
<1>17. PICK t : \E whole \in BOOLEAN : BlockSent(p, t, whole, last, f, n, m)
  BY SendBlockView
<1>18. PICK whole \in BOOLEAN : BlockSent(p, t, whole, last, f, n, m)
  BY <1>17
<1>2. /\ bp' = [bp EXCEPT ![p] = t] /\ BlockRead(b, t, n, whole)
      /\ last => whole /\ wire' = wire
      /\ ~last => wire' = Sent(wire, p, m)
      /\ whole => b.txpos + 1 >= Size[f]
  <2> HIDE DEF f, last, m, n
  <2> QED
    BY <1>18, Zenon DEF BlockSent
<1>3. Good(b) /\ w \in Seq(Frame)
  BY BpGood, WireTyped
<1>4. f \in File /\ b.txpos \in Nat /\ b.state \in [File -> FileState] /\ Size[f] \in Nat
  <2>1. b.txpos \in Nat /\ b.state \in [File -> FileState]
    BY <1>3, ZenonT(20) DEF Good, Session
  <2> QED
    BY <1>1, <1>3, <2>1, FilesKnown DEF Good, Named
<1>5. Sends(p, b, outbound) /\ Onto(b, r, w, v)
  BY OnView
<1>6. ~b.local_EOB /\ b.txfp = f /\ b.state[f] = "Sending" /\ \A g \in File : b.state[g] = "Sending" => g = f
  BY <1>1, <1>5 DEF Sends, Sender
<1>7. To(b) = {<<f, b.txpos>>} /\ b.txpos <= Size[f]
  <2>1. To(b) = {<<f, b.txpos>>}
    BY <1>1 DEF To
  <2>2. <<f, b.txpos>> \in Spot
    BY <1>3, <1>5, <2>1, ChainedSpot DEF Onto
  <2> QED
    BY <1>4, <2>1, <2>2 DEF Spot
<1>8. /\ m \in Frame /\ m.cmd = "DATA" /\ m.file = f /\ m.offs = b.txpos + 1 /\ m.offs - 1 = b.txpos
      /\ Placed(m) = <<f, b.txpos + 1>> /\ Streaming(m) /\ Plain(p, m)
  BY <1>4, FramesTyped DEF Placed, Streaming, Plain
<1> HIDE DEF m, b, q, r, w, v, n, f, last
<1>9. /\ KeepRx(b, t) /\ Mute(b, t) /\ t.Minor = b.Minor /\ t.rc = b.rc /\ t.batchnr = b.batchnr /\ t.queue = b.queue
      /\ ~Over(t) /\ ~t.local_EOB /\ t.txpos = n /\ t.offset = b.offset
  BY <1>2, <1>6 DEF BlockRead, KeepSend, Mute, Over
<1>10. \A g \in File : t.state[g] = IF g = f /\ whole THEN "IsSent" ELSE b.state[g]
  BY <1>2, <1>4 DEF BlockRead, f
<1>11. /\ whole => t.TxState = "TxGNF"
       /\ ~whole => t.TxState = "TxTryR" /\ t.cursend = f /\ t.txfp = f
  BY <1>2, <1>6 DEF BlockRead, f
<1>12. Sends(p, t, outbound)
  <2>1. Tidy(t)
    BY <1>1, <1>5, <1>9, TidyKept DEF Sends
  <2>2. Sender(t)
    <3>1. t.TxState # "TxWLA" /\ (t.TxState = "TxTryR" <=> ~whole)
      BY <1>11
    <3>2. \A g \in File : t.state[g] = "Sending" => ~whole /\ g = f
      BY <1>6, <1>10
    <3>3. ~whole => t.state[f] = "Sending"
      BY <1>4, <1>6, <1>10
    <3> QED
      BY <1>9, <1>11, <3>1, <3>2, <3>3 DEF Sender
  <2>3. Waits(t)
    BY <1>9 DEF Waits, Both
  <2>4. Offered(p, t, outbound)
    <3>1. \A g \in outbound : Owner[g] = p => b.state[g] \in {"NoState", "Sending", "IsSent"}
      BY <1>1, <1>5 DEF Sends, Offered
    <3> QED
      BY <1>10, <3>1 DEF Offered, IInv, TypeOK
  <2> QED
    BY <2>1, <2>2, <2>3, <2>4 DEF Sends
<1>13. Under(t) = Under(b)
  BY <1>6, <1>10 DEF Under
<1>14. Idles(p, t)
  BY <1>1, <1>2, <1>9 DEF Idles, b
<1>15. CASE last
  <2>1. whole /\ wire' = wire
    BY <1>2, <1>15
  <2>2. Moving(t, r, w, v) /\ Answered(t, v) /\ To(t) = Complete
    BY <1>5, <1>9, <1>11, <1>13, <2>1 DEF Onto, Moving, Answered, To
  <2>3. {<<f, b.txpos>>} \subseteq Complete
    <3>1. <<f, b.txpos>> \in Spot
      BY <1>3, <1>5, <1>7, ChainedSpot DEF Onto
    <3>2. b.txpos = Size[f]
      BY <1>4, <1>7, <1>15 DEF last
    <3> QED
      BY <3>1, <3>2 DEF Complete, Full
  <2>4. Chained(w, From(r), Complete)
    BY <1>5, <1>7, <2>3, ChainedMore DEF Onto
  <2>5. Onto(t, r, w, v)
    BY <2>2, <2>4 DEF Onto
  <2>6. outbound' = outbound /\ Mute(b, t)
    BY <1>1, <1>9
  <2> QED
    BY <1>12, <1>14, <2>1, <2>5, <2>6, QuietEnd, Zenon DEF b, q, r, w, v
<1>16. CASE ~last
  <2>1. wire' = Sent(wire, p, m) /\ (whole => b.txpos + 1 >= Size[f])
    BY <1>2, <1>16
  <2>2. b.txpos < Size[f] /\ n = b.txpos + 1
    BY <1>4, <1>16 DEF last, n
  <2>3. Told(w, "FILE") \subseteq Told(Append(w, m), "FILE")
    BY <1>3, <1>8, ToldMore
  <2>4. Moving(t, r, Append(w, m), v)
    BY <1>5, <1>9, <1>13, <2>3 DEF Onto, Moving
  <2>5. Answered(t, v)
    <3>1. f \notin Told(v, "GOT") \union Told(b.queue, "GOT")
      BY <1>1, <1>4, <1>5, <2>2 DEF Onto, Answered, f
    <3> QED
      BY <1>9, <1>11, <3>1 DEF Answered
  <2>6. Chained(Append(w, m), From(r), {Placed(m)})
    <3>1. m.offs <= Size[m.file] /\ To(b) = {<<m.file, m.offs - 1>>}
      BY <1>4, <1>7, <1>8, <2>2
    <3>2. Chained(w, From(r), To(b))
      BY <1>5 DEF Onto
    <3>3. Chained(Append(w, m), From(r), IF Streaming(m) THEN {Placed(m)} ELSE To(b))
      BY <1>3, <1>8, <3>1, <3>2, ChainedAppend
    <3> QED
      BY <1>8, <3>3
  <2>7. {Placed(m)} \subseteq To(t)
    <3>1. CASE ~whole
      BY <1>8, <1>9, <1>11, <2>2, <3>1 DEF To
    <3>2. CASE whole
      <4>1. b.txpos + 1 = Size[f]
        BY <1>4, <2>1, <2>2, <3>2
      <4>2. Placed(m) \in Spot
        <5>1. m.offs <= Size[m.file]
          BY <1>4, <1>8, <4>1
        <5> QED
          BY <1>8, <5>1, PlacedSpot
      <4> QED
        BY <1>8, <1>11, <3>2, <4>1, <4>2 DEF To, Complete, Full
    <3> QED
      BY <3>1, <3>2
  <2>8. Chained(Append(w, m), From(r), To(t))
    BY <2>6, <2>7, ChainedMore
  <2>9. Onto(t, r, Append(w, m), v)
    BY <2>4, <2>5, <2>8 DEF Onto
  <2>10. Speaks(b, t, m) /\ m.cmd # "GOT" /\ outbound' = outbound
    BY <1>1, <1>8, <1>9 DEF Speaks, Counted, Tells
  <2> QED
    BY <1>6, <1>8, <1>12, <1>14, <2>1, <2>9, <2>10, SaysEnd, Zenon DEF b, q, r, w, v
<1> QED
  BY <1>15, <1>16

\* Of the session b, the session after an acknowledgement of f was handled.
GotRead(b, t, f) ==
  /\ KeepRx(b, t) /\ Mute(b, t) /\ t.Minor = b.Minor /\ t.rc = b.rc /\ t.batchnr = b.batchnr
  /\ t.queue = Tail(b.queue) /\ t.offset = b.offset /\ t.tosend = b.tosend /\ t.FtState \in {"Transmit", "Messages"}
  /\ \A g \in File : t.state[g] = IF g = f /\ b.state[f] # "Absent" THEN "Got" ELSE b.state[g]
  /\ IF b.state[f] = "Sending" THEN t.TxState = "TxGNF"
     ELSE t.TxState = b.TxState /\ t.cursend = b.cursend /\ t.txpos = b.txpos /\ t.txfp = b.txfp

LEMMA GotReadView ==
  ASSUME IInv, NEW p \in Party, ProcessGot(p)
  PROVE  \E t : bp' = [bp EXCEPT ![p] = t] /\ GotRead(bp[p], t, Message(p).file)
<1> DEFINE b == bp[p]
           f == Message(p).file
           s == Processed(b)
           o == [s EXCEPT !.txfp = NoFile, !.cursend = NoFile, !.TxState = "TxGNF"]
           u == StopsSending(s, f)
           t == [u EXCEPT !.state[f] = "Got"]
<1>1. Processes(p, "GOT") /\ bp' = [bp EXCEPT ![p] = IF b.state[f] # "Absent" THEN t ELSE s]
  BY DEF ProcessGot, Transmits, InList
<1>2. Good(b) /\ b.queue # <<>> /\ f \in File
  BY <1>1, BpGood, ProcessesView DEF Answering
<1>3. /\ Good(s) /\ KeepRx(b, s) /\ Mute(b, s) /\ s.Minor = b.Minor /\ s.rc = b.rc /\ s.batchnr = b.batchnr
      /\ s.queue = Tail(b.queue) /\ s.offset = b.offset /\ s.tosend = b.tosend /\ s.FtState \in {"Transmit", "Messages"}
      /\ s.state = b.state /\ s.TxState = b.TxState /\ s.cursend = b.cursend /\ s.txpos = b.txpos /\ s.txfp = b.txfp
  <2> DEFINE c == IF Len(b.queue) = 1 THEN "Transmit" ELSE "Messages"
             d == Tail(b.queue)
             e == [b EXCEPT !.queue = d, !.FtState = c]
  <2>1. Good(s)
    BY <1>2, ProcessedGood
  <2>2. s = e /\ c \in {"Transmit", "Messages"}
    BY DEF Processed
  <2> HIDE DEF s, c, d
  <2>3. /\ KeepRx(b, e) /\ Mute(b, e) /\ e.Minor = b.Minor /\ e.rc = b.rc /\ e.batchnr = b.batchnr
        /\ e.queue = d /\ e.offset = b.offset /\ e.tosend = b.tosend /\ e.FtState = c
        /\ e.state = b.state /\ e.TxState = b.TxState /\ e.cursend = b.cursend /\ e.txpos = b.txpos /\ e.txfp = b.txfp
    BY <1>2 DEF Good, Session, KeepRx, Mute
  <2> HIDE DEF e
  <2> QED
    BY <2>1, <2>2, <2>3 DEF d
<1> HIDE DEF s, b
<1>4. /\ Good(u) /\ KeepRx(s, u) /\ Mute(s, u) /\ u.Minor = s.Minor /\ u.rc = s.rc /\ u.batchnr = s.batchnr
      /\ u.queue = s.queue /\ u.offset = s.offset /\ u.tosend = s.tosend /\ u.FtState = s.FtState /\ u.state = s.state
      /\ IF s.state[f] = "Sending" THEN u.TxState = "TxGNF"
         ELSE u.TxState = s.TxState /\ u.cursend = s.cursend /\ u.txpos = s.txpos /\ u.txfp = s.txfp
  <2>1. Good(u)
    BY <1>3, StopsSendingGood
  <2>2. CASE s.state[f] = "Sending"
    <3>1. u = o
      BY <2>2 DEF StopsSending
    <3>2. /\ KeepRx(s, o) /\ Mute(s, o) /\ o.Minor = s.Minor /\ o.rc = s.rc /\ o.batchnr = s.batchnr
          /\ o.queue = s.queue /\ o.offset = s.offset /\ o.tosend = s.tosend /\ o.FtState = s.FtState /\ o.state = s.state
          /\ o.TxState = "TxGNF"
      BY <1>3 DEF Good, Session, KeepRx, Mute
    <3> HIDE DEF o, u
    <3> QED
      BY <2>1, <2>2, <3>1, <3>2
  <2>3. CASE s.state[f] # "Sending"
    <3>1. u = s
      BY <2>3 DEF StopsSending
    <3> QED
      BY <2>1, <2>3, <3>1 DEF KeepRx, Mute
  <2> QED
    BY <2>2, <2>3
<1> HIDE DEF u, o
<1>5. /\ KeepRx(u, t) /\ Mute(u, t) /\ t.Minor = u.Minor /\ t.rc = u.rc /\ t.batchnr = u.batchnr
      /\ t.queue = u.queue /\ t.offset = u.offset /\ t.tosend = u.tosend /\ t.FtState = u.FtState
      /\ t.TxState = u.TxState /\ t.cursend = u.cursend /\ t.txpos = u.txpos /\ t.txfp = u.txfp
  BY <1>4 DEF Good, Session, KeepRx, Mute
<1>6. \A g \in File : t.state[g] = IF g = f THEN "Got" ELSE u.state[g]
  BY <1>2, <1>4, DisposedView, ZenonT(60)
<1> HIDE DEF t
<1>7. CASE b.state[f] # "Absent"
  <2>1. KeepRx(b, t) /\ Mute(b, t)
    BY <1>3, <1>4, <1>5 DEF KeepRx, Mute
  <2>2. GotRead(b, t, f)
    BY <1>3, <1>4, <1>5, <1>6, <1>7, <2>1 DEF GotRead
  <2> QED
    BY <1>1, <1>7, <2>2 DEF b
<1>8. CASE b.state[f] = "Absent"
  <2>1. GotRead(b, s, f)
    BY <1>3, <1>8 DEF GotRead
  <2> QED
    BY <1>1, <1>8, <2>1 DEF b
<1> QED
  BY <1>7, <1>8

LEMMA ProcessGotEnd == ASSUME IInv, EInv, NEW p \in Party, ProcessGot(p) PROVE EInv'
<1> DEFINE q == Peer(p)
           b == bp[p]
           r == bp[q]
           w == wire[p]
           v == wire[q]
           f == Message(p).file
<1>1. PICK t : bp' = [bp EXCEPT ![p] = t] /\ GotRead(b, t, f)
  BY GotReadView
<1>2. /\ Processes(p, "GOT") /\ wire' = wire /\ line' = line /\ tmp' = tmp
      /\ outbound' = IF b.state[f] # "Absent" THEN outbound \ {f} ELSE outbound
  BY DEF ProcessGot, world, InList
<1>3. /\ Good(b) /\ ~Over(b) /\ b.queue \in Seq(Queued) /\ b.queue # <<>> /\ f \in File
      /\ f = Head(b.queue).file /\ Head(b.queue).cmd = "GOT" /\ w \in Seq(Frame)
  BY <1>2, BpGood, ProcessesView, WireTyped DEF Answering
<1>4. Sends(p, b, outbound) /\ Onto(b, r, w, v)
  BY OnView
<1>5. /\ f \in Told(b.queue, "GOT") /\ Told(Tail(b.queue), "GOT") \subseteq Told(b.queue, "GOT")
      /\ Told(b.queue, "GOT") \subseteq Told(Tail(b.queue), "GOT") \union {f}
  <2>1. Told(b.queue, "GOT") \subseteq Told(Tail(b.queue), "GOT") \union {g \in {Head(b.queue).file} : Head(b.queue).cmd = "GOT"}
    BY <1>3, ToldHead
  <2> QED
    BY <1>3, <2>1, ToldTail
<1>6. \A i \in 1..Len(Tail(b.queue)) : Tail(b.queue)[i].cmd = "GOT"
  <2>1. \A i \in 1..Len(b.queue) : b.queue[i].cmd = "GOT"
    BY <1>4 DEF Sends, Tidy
  <2>2. \A i \in 1..Len(Tail(b.queue)) : i + 1 \in 1..Len(b.queue) /\ Tail(b.queue)[i] = b.queue[i + 1]
    BY <1>3, TailFacts
  <2> QED
    BY <2>1, <2>2
<1>0. f \in File
  BY <1>3
<1> HIDE DEF b, q, r, w, v, f
<1>7. /\ KeepRx(b, t) /\ Mute(b, t) /\ t.Minor = b.Minor /\ t.rc = b.rc /\ t.batchnr = b.batchnr
      /\ t.queue = Tail(b.queue) /\ t.offset = b.offset /\ t.tosend = b.tosend /\ t.FtState \in {"Transmit", "Messages"}
      /\ t.local_EOB = b.local_EOB /\ ~Over(t)
  BY <1>1 DEF GotRead, Mute, Over
<1>8. /\ \A g \in File : t.state[g] = IF g = f /\ b.state[f] # "Absent" THEN "Got" ELSE b.state[g]
      /\ IF b.state[f] = "Sending" THEN t.TxState = "TxGNF"
         ELSE t.TxState = b.TxState /\ t.cursend = b.cursend /\ t.txpos = b.txpos /\ t.txfp = b.txfp
  BY <1>1 DEF GotRead
<1>9. b.state[f] = "Sending" => b.TxState = "TxTryR" /\ b.cursend = f /\ ~b.local_EOB
  BY <1>0, <1>4 DEF Sends, Sender
<1>10. Sends(p, t, outbound')
  <2>1. Tidy(t)
    BY <1>3, <1>4, <1>6, <1>7 DEF Sends, Tidy
  <2>2. Sender(t)
    <3>1. CASE b.state[f] = "Sending"
      BY <1>4, <1>7, <1>8, <1>9, <3>1 DEF Sends, Sender
    <3>2. CASE b.state[f] # "Sending"
      <4>1. t.TxState = "TxTryR" => t.txfp = t.cursend /\ t.state[t.cursend] = "Sending"
        <5>1. b.TxState = "TxTryR" => b.cursend \in File
          BY <1>3 DEF Good, Named
        <5> QED
          BY <1>4, <1>8, <3>2, <5>1 DEF Sends, Sender
      <4>2. \A g \in File : t.state[g] = "Sending" => b.state[g] = "Sending"
        BY <1>8
      <4>3. \A g \in File : t.state[g] = "NoState" => b.state[g] = "NoState"
        BY <1>8
      <4> QED
        BY <1>4, <1>7, <1>8, <3>2, <4>1, <4>2, <4>3 DEF Sends, Sender
    <3> QED
      BY <3>1, <3>2
  <2>3. Waits(t)
    BY <1>7 DEF Waits
  <2>4. Offered(p, t, outbound')
    <3> SUFFICES ASSUME NEW g \in outbound', Owner[g] = p
                 PROVE  \/ t.state[g] \in {"NoState", "Sending", "IsSent"}
                        \/ ~t.tosend /\ t.TxState = "TxGNF" /\ t.batchnr = 0 /\ ~Over(t)
      BY DEF Offered
    <3>1. g \in outbound /\ g \in File /\ (g = f => b.state[f] = "Absent")
      BY <1>2 DEF IInv, TypeOK, b
    <3>2. t.state[g] = b.state[g]
      BY <1>8, <3>1
    <3>3. \/ b.state[g] \in {"NoState", "Sending", "IsSent"}
          \/ ~b.tosend /\ b.TxState = "TxGNF" /\ b.batchnr = 0 /\ ~Over(b)
      BY <1>4, <3>1 DEF Sends, Offered
    <3> QED
      BY <1>7, <1>8, <3>2, <3>3
  <2> QED
    BY <2>1, <2>2, <2>3, <2>4 DEF Sends
<1>11. Onto(t, r, w, v)
  <2>1. Moving(t, r, w, v)
    <3> SUFFICES ASSUME NEW g \in Under(t)
                 PROVE  g \in Told(w, "FILE") \union Awaited(r) \union Told(v, "GOT") \union Told(t.queue, "GOT")
      BY DEF Moving
    <3>1. g \in Under(b) /\ g # f
      BY <1>0, <1>8 DEF Under
    <3>2. g \in Told(w, "FILE") \union Awaited(r) \union Told(v, "GOT") \union Told(b.queue, "GOT")
      BY <1>4, <3>1 DEF Onto, Moving
    <3> QED
      BY <1>5, <1>7, <3>1, <3>2
  <2>2. Answered(t, v)
    <3>1. t.TxState = "TxTryR" => b.TxState = "TxTryR" /\ t.cursend = b.cursend /\ t.txpos = b.txpos
      BY <1>8
    <3> QED
      BY <1>4, <1>5, <1>7, <3>1 DEF Onto, Answered
  <2>3. Chained(w, From(r), To(t))
    <3>1. Chained(w, From(r), To(b))
      BY <1>4 DEF Onto
    <3>2. CASE b.state[f] = "Sending"
      <4>1. To(b) = {<<f, b.txpos>>} /\ To(t) = Complete
        BY <1>8, <1>9, <3>2 DEF To
      <4>2. b.txpos = Size[f]
        BY <1>4, <1>5, <1>9, <3>2 DEF Onto, Answered
      <4>3. <<f, b.txpos>> \in Spot
        BY <1>3, <3>1, <4>1, ChainedSpot
      <4>4. {<<f, b.txpos>>} \subseteq Complete
        BY <4>2, <4>3 DEF Complete, Full
      <4> QED
        BY <3>1, <4>1, <4>4, ChainedMore
    <3>3. CASE b.state[f] # "Sending"
      <4>1. To(t) = To(b)
        BY <1>8, <3>3 DEF To
      <4> QED
        BY <3>1, <4>1
    <3> QED
      BY <3>2, <3>3
  <2> QED
    BY <2>1, <2>2, <2>3 DEF Onto
<1>12. Idles(p, t)
  BY <1>1, <1>2, <1>3, <1>7 DEF Idles, b
<1> QED
  BY <1>2, <1>7, <1>10, <1>11, <1>12, QuietEnd, Zenon DEF b, q, r, w, v

\* When p has no file on its way, the peer has none to acknowledge.
LEMMA NothingCarried ==
  ASSUME IInv, Talk, EInv, NEW p \in Party, ~Over(bp[p]), Under(bp[p]) = {}
  PROVE  Told(wire[Peer(p)], "GOT") = {} /\ Told(wire[p], "FILE") = {} /\ bp[Peer(p)].RxState # "RxReceD"
<1> DEFINE q == Peer(p)
           s == bp[p]
           r == bp[q]
           w == wire[p]
           v == wire[q]
<1>1. q \in Party /\ Peer(q) = p /\ w \in Seq(Frame) /\ v \in Seq(Frame) /\ Good(r)
  BY Peers, WireTyped, BpGood
<1>2. \A f \in File : Owner[f] = p => f \notin Carried(s, r, w, v)
  BY CarriedUnder
<1>3. ASSUME NEW f \in Told(v, "GOT") PROVE FALSE
  <2>1. PICK i \in 1..Len(v) : v[i].cmd = "GOT" /\ v[i].file = f
    BY <1>3 DEF Told
  <2>2. PlainWire(q, v)
    BY OnView
  <2>3. v[i] \in Frame
    BY <1>1, <2>1, ElementOfSeq
  <2>4. f \in File /\ Owner[f] = p
    BY <1>1, <2>1, <2>2, <2>3, FrameTyped DEF PlainWire, Plain
  <2> QED
    BY <1>2, <1>3, <2>4 DEF Carried
<1>4. ASSUME NEW f \in Told(w, "FILE") PROVE FALSE
  <2>1. PICK i \in 1..Len(w) : w[i].cmd = "FILE" /\ w[i].file = f
    BY <1>4 DEF Told
  <2>2. w[i] \in Frame
    BY <1>1, <2>1, ElementOfSeq
  <2>3. f \in File /\ Owner[f] = p
    BY <2>1, <2>2, FrameTyped DEF Talk, Owned, Announces
  <2> QED
    BY <1>2, <1>4, <2>3 DEF Carried
<1>5. ASSUME r.RxState = "RxReceD" PROVE FALSE
  <2>1. CASE Over(r)
    <3>1. Balance(s, r, w, v) /\ Receiver(r)
      BY OnView
    <3>2. Even(s, r, w, v)
      BY <2>1, <3>1 DEF Balance, Ahead
    <3> QED
      BY <1>5, <2>1, <3>1, <3>2 DEF Even, Finished, Both, Receiver
  <2>2. CASE ~Over(r)
    <3>1. r.rname \in File /\ Owner[r.rname] = p
      BY <1>1, <1>5, <2>2, MineView DEF Good, Named, Mine
    <3> QED
      BY <1>2, <1>5, <2>2, <3>1 DEF Carried, Awaited, Await
  <2> QED
    BY <2>1, <2>2
<1> QED
  BY <1>3, <1>4, <1>5

\* A session t whose list is cleared after the batch of s, in which all was acknowledged.
Clears(s, t) ==
  /\ t.queue = s.queue /\ t.offset = s.offset /\ t.Minor = s.Minor
  /\ \A f \in File : t.state[f] = "Absent"
  /\ t.rc = IF Over(t) THEN "ok" ELSE "none"
  /\ t.local_EOB <=> t.TxState = "TxWLA"
  /\ t.TxState # "TxTryR" /\ t.RxState # "RxReceD"

LEMMA ClearsSends ==
  ASSUME NEW p, NEW s, NEW o, NEW t, Sends(p, s, o), s.local_EOB, Pending(s) = {}, o \subseteq File, Clears(s, t), Waits(t)
  PROVE  Sends(p, t, o)
<1>1. Tidy(t)
  BY DEF Sends, Tidy, Clears
<1>2. Sender(t)
  BY DEF Sender, Clears
<1>3. Offered(p, t, o)
  BY DEF Sends, Sender, Offered, Pending
<1> QED
  BY <1>1, <1>2, <1>3 DEF Sends

LEMMA ClearsOnto ==
  ASSUME NEW s, NEW r, NEW t, NEW w, NEW v, Clears(s, t), s.TxState # "TxTryR"
  PROVE  Under(t) = {} /\ To(t) = To(s) /\ Moving(t, r, w, v) /\ Answered(t, v)
BY DEF Clears, Under, To, Moving, Answered

LEMMA ClearsHalves ==
  ASSUME NEW p, NEW q, NEW s, NEW r, NEW w, NEW v, NEW o, NEW t, Half(p, s, r, w, v, o), Half(q, r, s, v, w, o),
         ~Over(s), Both(s), Pending(s) = {}, o \subseteq File,
         Clears(s, t), Waits(t), Receiver(t), Counting(t), Balance(t, r, w, v)
  PROVE  Half(p, t, r, w, v, o) /\ Half(q, r, t, v, w, o)
<1>1. Sends(p, s, o) /\ Receiver(s) /\ Chained(w, From(r), To(s)) /\ Way(r, s, v, w)
  BY SideParts, Zenon DEF Half, Way
<1>2. s.TxState = "TxWLA" /\ s.RxState # "RxReceD"
  BY <1>1 DEF Sends, Sender, Receiver, Both
<1>3. Sends(p, t, o)
  BY <1>1, ClearsSends DEF Both
<1>4. Way(t, r, w, v)
  BY <1>1, <1>2, ClearsOnto DEF Way
<1>5. From(t) = From(s) /\ Awaited(t) = Awaited(s)
  BY <1>2 DEF Clears, From, Awaited, Await
<1>6. Way(r, t, v, w)
  BY <1>1, <1>5 DEF Way, Moving
<1>7. t.Minor = s.Minor
  BY DEF Clears
<1>8. Half(p, t, r, w, v, o)
  BY <1>3, <1>4, <1>7, SideParts, Zenon DEF Half
<1>9. Half(q, r, t, v, w, o)
  BY <1>6, <1>7, BalanceTurned, Zenon DEF Half
<1> QED
  BY <1>8, <1>9

LEMMA ClearsEmptied ==
  ASSUME IInv, EInv, NEW p \in Party, NEW t, bp' = [bp EXCEPT ![p] = t], bp[p].RxState # "RxReceD", tmp' = tmp
  PROVE  Emptied'
<1>1. bp'[p] = t /\ bp'[Peer(p)] = bp[Peer(p)]
  BY BpView
<1>2. Awaited(bp[p]) = {}
  BY DEF Awaited, Await
<1>3. \A f \in File : Peer(Owner[f]) \in Party
  BY FilesKnown, Peers
<1>4. \A q \in Party : Awaited(bp[q]) \subseteq Awaited(bp'[q])
  BY <1>1, <1>2, Peers
<1> QED
  BY <1>3, <1>4 DEF EInv, Emptied

LEMMA SwitchEnd ==
  ASSUME NEW s, Good(s)
  PROVE  LET t == [s EXCEPT !.FtState = "Switch"] IN
         Good(t) /\ Keep(s, t) /\ KeepEnd(s, t) /\ Mute(s, t) /\ t.FtState = "Switch" /\ ~Over(t)
<1> DEFINE t == [s EXCEPT !.FtState = "Switch"]
<1>1. Good(t) /\ Keep(s, t) /\ ~Over(t)
  BY SwitchView
<1>2. KeepEnd(s, t) /\ Mute(s, t) /\ t.FtState = "Switch"
  BY DEF Good, Session, KeepEnd, Mute
<1> QED
  BY <1>1, <1>2

LEMMA EndedEnd ==
  ASSUME NEW s, Good(s), NEW rc
  PROVE  LET t == Ended(s, rc) IN
         /\ Keep(s, t) /\ Mute(s, t) /\ t.Minor = s.Minor /\ t.batchnr = s.batchnr /\ t.rc = rc /\ Over(t)
         /\ t.FtState = "Done"
BY DEF Ended, Good, Session, Keep, KeepRx, KeepTx, Mute, Over

LEMMA SwitchSends ==
  ASSUME NEW p, NEW s, NEW t, NEW o, Sends(p, s, o), ~Over(s), ~Over(t), Keep(s, t), KeepEnd(s, t), Mute(s, t), Waits(t)
  PROVE  Sends(p, t, o)
<1>1. Tidy(t)
  BY TidyKept DEF Sends, KeepEnd, Keep, KeepTx
<1>2. Sender(t) /\ Offered(p, t, o)
  BY Zenon DEF Sends, Sender, Offered, KeepEnd, Keep, KeepTx, Mute
<1> QED
  BY <1>1, <1>2 DEF Sends

LEMMA SwitchOnto ==
  ASSUME NEW s, NEW t, NEW r, NEW w, NEW v, Onto(s, r, w, v), Keep(s, t) PROVE Onto(t, r, w, v)
<1>1. Under(t) = Under(s) /\ To(t) = To(s) /\ t.queue = s.queue
  BY DEF Keep, KeepTx, Under, To
<1>2. Answered(t, v)
  BY <1>1, Zenon DEF Onto, Answered, Keep, KeepTx
<1> QED
  BY <1>1, <1>2, Zenon DEF Onto, Moving

LEMMA WaitAcksEnd == ASSUME IInv, Talk, EInv, NEW p \in Party, WaitAcks(p) PROVE EInv'
<1> DEFINE q == Peer(p)
           b == bp[p]
           r == bp[q]
           w == wire[p]
           v == wire[q]
           s == [b EXCEPT !.FtState = "Switch"]
           over == OldOver(s) \/ BatchOver(s)
           empty == OldOver(s) \/ s.messages < 3
           c == ListCleared(s)
           e == Ended(c, "ok")
           n == NextBatch(s)
<1>1. /\ Turn(p) /\ s.TxState = "TxWLA" /\ s.queue = <<>> /\ wire' = wire /\ line' = line /\ outbound' = outbound /\ tmp' = tmp
      /\ \/ (Pending(s) # {} \/ (s.Minor = 0 /\ ~over)) /\ bp' = [bp EXCEPT ![p] = s]
         \/ Pending(s) = {} /\ over /\ empty /\ bp' = [bp EXCEPT ![p] = e]
         \/ Pending(s) = {} /\ over /\ ~empty /\ bp' = [bp EXCEPT ![p] = n]
         \/ Pending(s) = {} /\ s.Minor # 0 /\ ~over /\ bp' = [bp EXCEPT ![p] = c]
  BY DEF WaitAcks, Transmits, disk
<1>2. Good(b) /\ ~Over(b) /\ w \in Seq(Frame) /\ v \in Seq(Frame) /\ outbound \subseteq File
  BY <1>1, BpGood, TurnLive, Peers, WireTyped DEF IInv, TypeOK
<1>3. Good(s) /\ Keep(b, s) /\ KeepEnd(b, s) /\ Mute(b, s) /\ s.FtState = "Switch" /\ ~Over(s)
  BY <1>2, SwitchEnd
<1>4. /\ Sends(p, b, outbound) /\ Onto(b, r, w, v) /\ Receiver(b) /\ Counting(b) /\ Balance(b, r, w, v) /\ r.Minor = b.Minor
      /\ line = TRUE
  BY OnView
<1>5. Half(p, b, r, w, v, outbound) /\ Half(q, r, b, v, w, outbound)
  BY HalfView
<1>0. Under(b) = {} => Told(v, "GOT") = {} /\ Told(w, "FILE") = {} /\ r.RxState # "RxReceD"
  BY <1>2, NothingCarried
<1>6. /\ Good(c) /\ KeepEnd(s, c) /\ Mute(s, c) /\ c.FtState = "Switch" /\ c.offset = s.offset
      /\ KeepRx(s, c) /\ c.queue = s.queue /\ c.TxState = s.TxState /\ \A f \in File : c.state[f] = "Absent"
  BY <1>3, ListClearedEnd, ListClearedView, ListClearedGood
<1>7. Keep(c, e) /\ Mute(c, e) /\ e.Minor = c.Minor /\ e.rc = "ok" /\ Over(e) /\ e.FtState = "Done"
  BY <1>6, EndedEnd
<1>8. /\ Restarts(s, n) /\ n.rc = s.rc /\ n.FtState = "Switch" /\ n.TxState = "TxGNF" /\ n.offset = s.offset /\ n.queue = s.queue
      /\ n.RxState = "RxWaitF" /\ \A f \in File : n.state[f] = "Absent"
  BY <1>3, NextBatchEnd, NextBatchView
<1> HIDE DEF q, r, w, v, s, c, e, n
<1>9. b.TxState = "TxWLA" /\ b.local_EOB /\ b.queue = <<>> /\ s.local_EOB = b.local_EOB /\ s.remote_EOB = b.remote_EOB
      /\ s.Minor = b.Minor /\ s.messages = b.messages /\ s.rc = "none"
  BY <1>1, <1>2, <1>3, <1>4 DEF Sends, Sender, Tidy, Keep, KeepTx, Mute, KeepEnd
<1>10. over <=> b.remote_EOB
  BY <1>3, <1>4, <1>9 DEF OldOver, BatchOver, Both, Receiver, Keep, KeepRx
<1>11. OldOver(s) => b.Minor = 0
  BY <1>9 DEF OldOver
<1> HIDE DEF over, b
<1>12. ASSUME Pending(s) # {} \/ (s.Minor = 0 /\ ~over), bp' = [bp EXCEPT ![p] = s] PROVE EInv'
  <2>1. Waits(s)
    <3> SUFFICES ASSUME Both(s) PROVE Under(s) # {}
      BY <1>1 DEF Waits
    <3>1. PICK f \in File : s.state[f] \notin {"Absent", "Got", "Skipped"}
      BY <1>9, <1>10, <1>12 DEF Both, Pending
    <3>2. s.state[f] \in FileState /\ s.state = b.state
      BY <1>3, ZenonT(20) DEF Good, Session, Keep, KeepTx
    <3>3. b.state[f] # "NoState"
      BY <1>4, <1>9 DEF Sends, Sender
    <3> QED
      BY <3>1, <3>2, <3>3 DEF FileState, Under
  <2>2. Sends(p, s, outbound)
    BY <1>2, <1>3, <1>4, <2>1, SwitchSends, Zenon
  <2>3. Onto(s, r, w, v)
    BY <1>3, <1>4, SwitchOnto, Zenon
  <2>4. Idles(p, s)
    BY <1>1, <1>2, <1>3, <1>12 DEF Idles, Keep, KeepEnd, b
  <2> QED
    BY <1>1, <1>3, <2>2, <2>3, <2>4, QuietEnd, Zenon DEF b, q, r, w, v
<1>13. ASSUME Pending(s) = {} PROVE Pending(b) = {} /\ Under(b) = {}
  <2>1. \A f \in File : b.state[f] \in {"Absent", "Got", "Skipped"}
    BY <1>3, <1>13 DEF Pending, Keep, KeepTx
  <2> QED
    BY <2>1 DEF Pending, Under
<1>14. ASSUME Pending(s) = {}, over PROVE Through(b, r, w, v) /\ Both(b) /\ b.RxState # "RxReceD"
  BY <1>0, <1>2, <1>4, <1>9, <1>10, <1>13, <1>14 DEF Through, Both, Receiver
<1>19. ASSUME Both(b) PROVE Eobs(b) = 2 /\ b.messages \in 0..3
  <2>1. b.local_EOB \in BOOLEAN /\ b.remote_EOB \in BOOLEAN /\ b.messages \in 0..3
    BY <1>4 DEF Counting
  <2>2. b.local_EOB = TRUE /\ b.remote_EOB = TRUE
    BY <1>19, <2>1 DEF Both
  <2> QED
    BY <2>1, <2>2 DEF Eobs, One
<1>15. ASSUME NEW t, Pending(s) = {}, over, bp' = [bp EXCEPT ![p] = t],
              Clears(b, t), Waits(t), Receiver(t), Counting(t), Balance(t, r, w, v)
       PROVE  EInv'
  <2>1. Half(p, t, r, w, v, outbound) /\ Half(q, r, t, v, w, outbound)
    BY <1>2, <1>5, <1>13, <1>14, <1>15, ClearsHalves, Zenon
  <2>2. bp'[p] = t /\ bp'[q] = r
    BY <1>15, BpView DEF q, r
  <2>3. Emptied' /\ line' = TRUE
    BY <1>1, <1>4, <1>14, <1>15, ClearsEmptied DEF b
  <2> QED
    BY <1>1, <2>1, <2>2, <2>3, HalvesEnd, Zenon DEF q, r, w, v
<1>16. ASSUME Pending(s) = {}, over, empty, bp' = [bp EXCEPT ![p] = e] PROVE EInv'
  <2>1. Mute(b, e) /\ KeepRx(b, e) /\ e.Minor = b.Minor
    BY <1>3, <1>6, <1>7 DEF Mute, Keep, KeepRx, KeepEnd
  <2>2. Clears(b, e)
    <3>1. e.queue = b.queue /\ e.offset = b.offset /\ e.TxState = "TxWLA" /\ \A f \in File : e.state[f] = "Absent"
      BY <1>1, <1>3, <1>6, <1>7 DEF Keep, KeepTx
    <3>2. e.local_EOB /\ e.RxState # "RxReceD"
      BY <1>9, <1>14, <1>16, <2>1 DEF Mute, KeepRx
    <3> QED
      BY <1>7, <2>1, <3>1, <3>2 DEF Clears
  <2>3. Waits(e) /\ Receiver(e) /\ Counting(e)
    BY <1>4, <1>7, <2>1, ReceiverKept, Counts DEF Waits, Mute
  <2>4. b.Minor # 0 => ~Extra(b)
    <3>1. ASSUME b.Minor # 0 PROVE b.messages < 3
      BY <1>9, <1>11, <1>16, <3>1
    <3>2. Eobs(b) = 2 /\ b.messages \in 0..3
      BY <1>14, <1>16, <1>19
    <3> QED
      BY <3>1, <3>2 DEF Extra
  <2>5. Balance(e, r, w, v)
    BY <1>2, <1>4, <1>7, <1>14, <1>16, <2>1, <2>4, BalanceEnd DEF KeepRx
  <2> QED
    BY <1>15, <1>16, <2>2, <2>3, <2>5
<1>17. ASSUME Pending(s) = {}, over, ~empty, bp' = [bp EXCEPT ![p] = n] PROVE EInv'
  <2>1. Restarts(b, n)
    BY <1>8, <1>9 DEF Restarts
  <2>2. Clears(b, n)
    <3>1. n.queue = b.queue /\ n.offset = b.offset
      BY <1>3, <1>8 DEF Keep, KeepTx
    <3> QED
      BY <1>8, <1>9, <2>1, <3>1 DEF Clears, Restarts
  <2>3. b.Minor # 0 /\ Extra(b)
    <3>1. b.messages = 3 /\ ~OldOver(s)
      BY <1>4, <1>9, <1>17 DEF Counting
    <3>2. Eobs(b) = 2
      BY <1>14, <1>17, <1>19
    <3>3. b.Minor # 0
      BY <1>9, <1>17, <3>1 DEF over, BatchOver
    <3> QED
      BY <3>1, <3>2, <3>3 DEF Extra
  <2>4. Balance(n, r, w, v) /\ Counting(n)
    BY <1>2, <1>4, <1>14, <1>17, <2>1, <2>3, BalanceNext
  <2>5. Waits(n) /\ Receiver(n)
    BY <1>8, <2>1, <2>3 DEF Waits, Receiver, Restarts, Both
  <2> QED
    BY <1>15, <1>17, <2>2, <2>4, <2>5
<1>18. ASSUME Pending(s) = {}, s.Minor # 0, ~over, bp' = [bp EXCEPT ![p] = c] PROVE EInv'
  <2>1. Mute(b, c) /\ KeepRx(b, c) /\ c.Minor = b.Minor /\ c.rc = "none" /\ ~Over(c)
    BY <1>3, <1>6, <1>9 DEF Mute, Keep, KeepRx, KeepEnd, Over
  <2>2. c.queue = b.queue /\ c.offset = b.offset /\ c.TxState = "TxWLA" /\ \A f \in File : c.state[f] = "Absent"
    BY <1>1, <1>3, <1>6 DEF Keep, KeepTx
  <2>3. Tidy(c)
    BY <1>4, <2>1, <2>2 DEF Tidy, Sends
  <2>4. Sender(c)
    BY <1>9, <2>1, <2>2 DEF Sender, Mute
  <2>5. Waits(c)
    BY <1>9, <1>10, <1>18, <2>1 DEF Waits, Both, Mute
  <2>6. Offered(p, c, outbound)
    BY <1>2, <1>4, <1>9, <1>13, <1>18 DEF Sends, Offered, Pending
  <2>7. Sends(p, c, outbound)
    BY <2>3, <2>4, <2>5, <2>6 DEF Sends
  <2>8. Onto(c, r, w, v)
    <3>1. Under(c) = {} /\ To(c) = To(b)
      BY <1>9, <2>2 DEF Under, To
    <3> QED
      BY <1>4, <2>2, <3>1 DEF Onto, Moving, Answered
  <2>9. Idles(p, c)
    BY <1>1, <1>2, <1>18, <2>1 DEF Idles, b
  <2> QED
    BY <1>1, <2>1, <2>7, <2>8, <2>9, QuietEnd, Zenon DEF b, q, r, w, v
<1> QED
  BY <1>1, <1>12, <1>16, <1>17, <1>18

(***************************************************************************)
(* The steps of the receiver                                               *)
(***************************************************************************)
\* What is read is counted, and the M_EOB of a batch is read once.
LEMMA ReadCounting ==
  ASSUME NEW s, NEW r, NEW t, NEW w \in Seq(Frame), NEW v \in Seq(Frame), v # <<>>,
         Balance(s, r, w, v), Counting(s), Counting(r), Listens(s, t, Head(v)),
         Both(s) /\ w = <<>> /\ r.RxState # "RxReceD" => Told(v, "GOT") # {}
  PROVE  /\ Head(v).cmd = "EOB" => ~s.remote_EOB
         /\ Heard(s, t, Head(v))
<1>1. ASSUME NEW x \in Seq(Frame), x # <<>>, Head(x) = Head(v), NEW sent \in BOOLEAN, Batch(x, s.remote_EOB, sent)
      PROVE  Head(v).cmd = "EOB" => ~s.remote_EOB
  <2>1. s.remote_EOB \in BOOLEAN
    BY DEF Counting
  <2> QED
    BY <1>1, <2>1, BatchTail
<1>2. Head(v).cmd = "EOB" => ~s.remote_EOB
  <2>1. CASE Even(s, r, w, v)
    BY <1>1, <2>1 DEF Even, Level, Counting
  <2>2. CASE Ahead(s, r, w, v)
    BY <2>2 DEF Ahead
  <2>3. CASE Ahead(r, s, v, w)
    <3>1. w = <<>> /\ r.RxState # "RxReceD"
      BY <2>3 DEF Ahead
    <3>2. Remains(r, s, v)
      BY <2>3, <3>1, BehindFirst
    <3>3. PICK u, x \in Seq(Frame) : Splits(r, s, v, u, x) /\ u # <<>> /\ Head(v) = Head(u)
      BY <3>2, Zenon DEF Remains
    <3> QED
      BY <1>1, <3>3 DEF Splits
  <2> QED
    BY <2>1, <2>2, <2>3 DEF Balance
<1> QED
  BY <1>2, ListensView

\* A frame after which the receiver waits or receives as before, or saw the M_EOB of 1.0.
HearsTo(p, t) ==
  LET s == bp[p]
      m == Incoming(p)
  IN
  /\ Arrives(p) /\ m.cmd \in {"NUL", "GOT", "EOB"} /\ KeepTx(s, t) /\ Enqueues(s, t, m) /\ ReadBy(s, t, m)
  /\ t.rname = s.rname /\ t.rxpos = s.rxpos /\ t.rxfp = s.rxfp
  /\ t.RxState = IF m.cmd = "EOB" /\ s.Minor = 0 THEN "RxEOB" ELSE s.RxState
  /\ m.cmd = "EOB" => s.RxState = "RxWaitF"

\* Who waits after both M_EOB, waits for an acknowledgement that is on its way.
LEMMA WaitsForGot ==
  ASSUME NEW s, NEW r, NEW w, NEW v, Waits(s), Moving(s, r, w, v), s.FtState = "Switch",
         Both(s), Told(w, "FILE") = {}, r.RxState # "RxReceD"
  PROVE  Told(v, "GOT") # {}
<1>1. s.queue = <<>> /\ Under(s) # {}
  BY DEF Waits
<1>2. PICK f \in Under(s) : TRUE
  BY <1>1
<1>3. Told(s.queue, "GOT") = {} /\ Awaited(r) = {}
  BY <1>1, ToldNone DEF Awaited, Await
<1>4. f \in Told(v, "GOT")
  BY <1>2, <1>3 DEF Moving
<1> QED
  BY <1>4

LEMMA HearsHalves ==
  ASSUME IInv, EInv, NEW p \in Party, NEW t, HearsTo(p, t)
  PROVE  /\ Half(p, t, bp[Peer(p)], wire[p], Tail(wire[Peer(p)]), outbound)
         /\ Half(Peer(p), bp[Peer(p)], t, Tail(wire[Peer(p)]), wire[p], outbound)
         /\ Awaited(t) = Awaited(bp[p])
<1> DEFINE q == Peer(p)
           s == bp[p]
           r == bp[q]
           w == wire[p]
           v == wire[q]
           m == Incoming(p)
           y == Tail(v)
<1>1. /\ Receiver(s) /\ Counting(s) /\ Counting(r) /\ Onto(s, r, w, v) /\ Onto(r, s, v, w) /\ Waits(s)
      /\ Balance(s, r, w, v) /\ r.Minor = s.Minor
  BY OnView DEF Sends
<1>2. w \in Seq(Frame) /\ v \in Seq(Frame) /\ v # <<>> /\ ~Over(s) /\ m = Head(v) /\ m \in Frame
  BY RestView, Peers, WireTyped DEF HearsTo
<1>3. /\ m.cmd \in {"NUL", "GOT", "EOB"} /\ KeepTx(s, t) /\ Enqueues(s, t, m)
      /\ KeepEnd(s, t) /\ Listens(s, t, m) /\ ~Over(t) /\ (t.FtState = "Switch" => ~Both(t))
      /\ t.rname = s.rname /\ t.rxpos = s.rxpos /\ t.rxfp = s.rxfp
      /\ t.RxState = IF m.cmd = "EOB" /\ s.Minor = 0 THEN "RxEOB" ELSE s.RxState
      /\ m.cmd = "EOB" => s.RxState = "RxWaitF"
      /\ s.FtState = "Switch"
  BY Zenon DEF HearsTo, ReadBy, Arrives
<1> HIDE DEF q, s, r, w, v, m
<1>4. Both(s) /\ w = <<>> /\ r.RxState # "RxReceD" => Told(v, "GOT") # {}
  BY <1>1, <1>3, WaitsForGot, ToldNone DEF Onto
<1>5. (m.cmd = "EOB" => ~s.remote_EOB) /\ Heard(s, t, m)
  BY <1>1, <1>2, <1>3, <1>4, ReadCounting
<1>6. Counting(t) /\ t.local_EOB = s.local_EOB
  BY <1>5 DEF Heard
<1>7. t.Minor = s.Minor
  BY <1>3 DEF KeepEnd
<1>8. t.remote_EOB = IF m.cmd = "EOB" THEN TRUE ELSE s.remote_EOB
  BY <1>3, <1>5 DEF Heard, Tells
<1>9. Receiver(t)
  BY <1>1, <1>3, <1>7, <1>8 DEF Receiver
<1>10. Waits(t)
  BY <1>3 DEF Waits
<1>11. From(t) = From(s) /\ Awaited(t) = Awaited(s)
  BY <1>2, <1>3 DEF From, Awaited, Await
<1>12. Onto(r, t, y, w)
  <2>1. Told(v, "FILE") \subseteq Told(y, "FILE")
    <3>1. Told(v, "FILE") \subseteq Told(y, "FILE") \union {g \in {m.file} : m.cmd = "FILE"}
      BY <1>2, ToldHead
    <3> QED
      BY <1>3, <3>1
  <2>2. Moving(r, t, y, w)
    BY <1>1, <1>11, <2>1 DEF Onto, Moving
  <2>3. Chained(y, IF Streaming(m) THEN {Placed(m)} ELSE From(s), To(r))
    BY <1>1, <1>2, ChainedTail DEF Onto
  <2>4. ~Streaming(m)
    BY <1>3 DEF Streaming
  <2>5. Chained(y, From(t), To(r))
    BY <1>11, <2>3, <2>4
  <2> QED
    BY <1>1, <2>2, <2>5 DEF Onto
<1>13. Balance(t, r, w, y)
  <2>1. CASE m.cmd = "EOB" /\ s.Minor = 0
    <3>1. Even(s, r, w, v)
      BY <1>1, <2>1 DEF Balance, Ahead
    <3>2. Even(t, r, w, y)
      BY <1>1, <1>2, <1>3, <2>1, <3>1, EvenRead
    <3> QED
      BY <3>2 DEF Balance
  <2>2. CASE ~(m.cmd = "EOB" /\ s.Minor = 0)
    <3>1. t.RxState = s.RxState
      BY <1>3, <2>2
    <3> QED
      BY <1>1, <1>2, <1>3, <1>4, <3>1, BalanceRead
  <2> QED
    BY <2>1, <2>2
<1>14. Acks(p, w, w)
  BY DEF Acks
<1>15. ReadsTo(p, t, w)
  BY <1>2, <1>3, <1>6, <1>14, Zenon DEF ReadsTo, q, s, v, w
<1>16. Half(p, t, r, w, y, outbound) /\ Half(q, r, t, y, w, outbound)
  BY <1>6, <1>9, <1>10, <1>12, <1>13, <1>15, ReadHalves, Zenon DEF q, r, w, v
<1> QED
  BY <1>11, <1>16 DEF q, r, s, w, v

LEMMA HearsEnd ==
  ASSUME IInv, EInv, NEW p \in Party, NEW t, HearsTo(p, t), bp' = [bp EXCEPT ![p] = t], wire' = Rest(p),
         line' = line, outbound' = outbound, tmp' = tmp
  PROVE  EInv'
<1> DEFINE q == Peer(p)
           r == bp[q]
           w == wire[p]
           y == Tail(wire[q])
<1>1. bp'[p] = t /\ bp'[q] = r
  BY BpView
<1>2. wire'[p] = w /\ wire'[q] = y
  BY RestView DEF HearsTo
<1>3. line' = TRUE
  BY HalfView
<1>4. Half(p, t, r, w, y, outbound) /\ Half(q, r, t, y, w, outbound) /\ Awaited(t) = Awaited(bp[p])
  BY HearsHalves
<1>5. Emptied'
  <2>1. \A f \in File : Peer(Owner[f]) \in Party
    BY FilesKnown, Peers
  <2>2. \A a \in Party : Awaited(bp'[a]) = Awaited(bp[a])
    BY <1>1, <1>4, Peers
  <2> QED
    BY <2>1, <2>2 DEF EInv, Emptied
<1> HIDE DEF q, r, w, y
<1> QED
  BY <1>1, <1>2, <1>3, <1>4, <1>5, HalvesEnd, Zenon DEF q

LEMMA ArrivedPlain ==
  ASSUME IInv, EInv, NEW p \in Party, Arrives(p)
  PROVE  Plain(Peer(p), Incoming(p)) /\ Incoming(p) \in Frame
<1>1. PlainWire(Peer(p), wire[Peer(p)])
  BY OnView
<1>2. wire[Peer(p)] \in Seq(Frame) /\ wire[Peer(p)] # <<>> /\ Incoming(p) = Head(wire[Peer(p)]) /\ Incoming(p) \in Frame
  BY RestView, Peers, WireTyped
<1> QED
  BY <1>1, <1>2, PlainLess

\* Of the session s polled, the session u that is Received after it.
LEMMA HearsReceived ==
  ASSUME IInv, NEW p \in Party, Arrives(p), Incoming(p).cmd \in {"NUL", "GOT", "EOB"},
         NEW u, Good(u), KeepEnd(Polled(p), u), Mute(Polled(p), u), KeepTx(Polled(p), u),
         Enqueues(bp[p], u, Incoming(p)), u.rname = bp[p].rname, u.rxpos = bp[p].rxpos, u.rxfp = bp[p].rxfp,
         u.RxState = IF Incoming(p).cmd = "EOB" /\ bp[p].Minor = 0 THEN "RxEOB" ELSE bp[p].RxState,
         Incoming(p).cmd = "EOB" => bp[p].RxState = "RxWaitF"
  PROVE  HearsTo(p, Received(u))
<1> DEFINE s == bp[p]
           m == Incoming(p)
           o == Polled(p)
           t == Received(u)
<1>1. ~Over(s) /\ Good(o)
  BY ArrivesLive, PolledGood
<1>2. KeepEnd(s, o) /\ Listens(s, o, m) /\ Keep(s, o)
  BY <1>1, PolledEnd, PolledView
<1>3. KeepEnd(u, t) /\ Mute(u, t) /\ ~Over(t) /\ (t.FtState = "Switch" => ~Both(t)) /\ Keep(u, t)
  BY ReceivedEnd, ReceivedView
<1> HIDE DEF s, m, o, t
<1>4. KeepEnd(o, t) /\ Mute(o, t) /\ KeepEnd(s, t)
  BY <1>2, <1>3, Zenon DEF KeepEnd, Mute, o
<1>5. Listens(s, t, m)
  BY <1>2, <1>4, MuteAfter, Zenon
<1>6. KeepTx(s, t) /\ Enqueues(s, t, m)
  BY <1>2, <1>3, Zenon DEF Keep, KeepTx, Enqueues, o, s, m
<1>7. ReadBy(s, t, m)
  BY <1>3, <1>4, <1>5, Zenon DEF ReadBy
<1>8. t.rname = u.rname /\ t.rxpos = u.rxpos /\ t.rxfp = u.rxfp /\ t.RxState = u.RxState
  BY <1>3 DEF Keep, KeepRx
<1> QED
  BY <1>6, <1>7, <1>8 DEF HearsTo, s, m, t

LEMMA QueueMessageEnd == ASSUME IInv, EInv, NEW p \in Party, QueueMessage(p) PROVE EInv'
<1> DEFINE m == Incoming(p)
           s == Polled(p)
           u == [s EXCEPT !.queue = Append(@, m)]
<1>1. /\ Arrives(p) /\ m.cmd \in Answering /\ bp' = [bp EXCEPT ![p] = Received(u)] /\ wire' = Rest(p)
      /\ line' = line /\ outbound' = outbound /\ tmp' = tmp
  BY DEF QueueMessage, Answering, disk
<1>2. m.cmd = "GOT" /\ m \in Queued
  BY <1>1, ArrivedPlain, FrameTyped DEF Plain, Answering
<1>3. Good(s) /\ Keep(bp[p], s)
  BY PolledGood, PolledView
<1> HIDE DEF s, m
<1>4. Good(u)
  BY <1>2, <1>3, QueueGood
<1>5. KeepRx(s, u) /\ KeepTx(s, u) /\ u.queue = Append(s.queue, m) /\ KeepEnd(s, u) /\ Mute(s, u)
  BY <1>3 DEF Good, Session, KeepRx, KeepTx, KeepEnd, Mute
<1> HIDE DEF u
<1>6. Enqueues(bp[p], u, m)
  BY <1>2, <1>3, <1>5 DEF Enqueues, Keep
<1>7. u.rname = bp[p].rname /\ u.rxpos = bp[p].rxpos /\ u.rxfp = bp[p].rxfp /\ u.RxState = bp[p].RxState
  BY <1>3, <1>5 DEF Keep, KeepRx
<1>8. HearsTo(p, Received(u))
  BY <1>1, <1>2, <1>4, <1>5, <1>6, <1>7, HearsReceived DEF m, s
<1> QED
  BY <1>1, <1>8, HearsEnd

LEMMA NotAwaitedFrom ==
  ASSUME NEW s, s.RxState # "RxReceD" PROVE From(s) = Complete /\ Awaited(s) = {}
BY DEF From, Awaited, Await

\* Data come only for a file that is received.
LEMMA NoStrayData ==
  ASSUME IInv, EInv, NEW p \in Party, Arrives(p), Incoming(p).cmd = "DATA" PROVE bp[p].RxState = "RxReceD"
<1> DEFINE m == Incoming(p)
           v == wire[Peer(p)]
<1>1. v \in Seq(Frame) /\ v # <<>> /\ m = Head(v) /\ m \in Frame
  BY RestView, Peers, WireTyped
<1>2. m.file \in File /\ m.offs \in Nat /\ Size[m.file] \in Nat
  BY <1>1, FrameTyped, FilesKnown
<1>3. Chained(v, From(bp[p]), To(bp[Peer(p)]))
  BY OnView DEF Onto
<1> HIDE DEF m, v
<1>4. /\ Streaming(m) => Placed(m) \in Spot
      /\ m.cmd = "DATA" => <<m.file, m.offs - 1>> \in From(bp[p])
  BY <1>1, <1>3, ChainedTail
<1>5. Placed(m) \in Spot /\ <<m.file, m.offs - 1>> \in From(bp[p])
  BY <1>4 DEF Streaming, m
<1> SUFFICES ASSUME bp[p].RxState # "RxReceD" PROVE FALSE
  OBVIOUS
<1>6. <<m.file, m.offs - 1>> \in Complete
  BY <1>5, NotAwaitedFrom
<1>7. m.offs - 1 = Size[m.file]
  BY <1>2, <1>6, NotFiles DEF Complete, Full
<1>8. m.offs <= Size[m.file]
  BY <1>2, <1>5 DEF Spot, Placed
<1> QED
  BY <1>2, <1>7, <1>8

LEMMA IgnoreEnd == ASSUME IInv, EInv, NEW p \in Party, Ignore(p) PROVE EInv'
<1> DEFINE u == Polled(p)
<1>1. /\ Arrives(p) /\ bp' = [bp EXCEPT ![p] = Received(u)] /\ wire' = Rest(p)
      /\ line' = line /\ outbound' = outbound /\ tmp' = tmp
  BY DEF Ignore, disk
<1>2. Incoming(p).cmd = "NUL"
  BY <1>1, NoStrayData DEF Ignore
<1>3. Good(u) /\ Keep(bp[p], u)
  BY PolledGood, PolledView
<1>4. Enqueues(bp[p], u, Incoming(p)) /\ u.rname = bp[p].rname /\ u.rxpos = bp[p].rxpos /\ u.rxfp = bp[p].rxfp
      /\ u.RxState = bp[p].RxState
  BY <1>2, <1>3 DEF Enqueues, Keep, KeepRx
<1>5. KeepEnd(u, u) /\ Mute(u, u) /\ KeepTx(u, u)
  BY DEF KeepEnd, Mute, KeepTx
<1>6. HearsTo(p, Received(u))
  BY <1>1, <1>2, <1>3, <1>4, <1>5, HearsReceived
<1> QED
  BY <1>1, <1>6, HearsEnd

LEMMA ReceiveEOBEnd == ASSUME IInv, Talk, EInv, NEW p \in Party, ReceiveEOB(p) PROVE EInv'
<1> DEFINE q == Peer(p)
           b == bp[p]
           r == bp[q]
           w == wire[p]
           v == wire[q]
           y == Tail(v)
           s == Polled(p)
           e == [s EXCEPT !.RxState = "RxEOB"]
           n == NextBatch(s)
           next == s.Minor # 0 /\ Both(s) /\ s.messages = 3 /\ Pending(s) = {}
<1>1. /\ Arrives(p) /\ Incoming(p).cmd = "EOB" /\ s.RxState = "RxWaitF" /\ wire' = Rest(p)
      /\ line' = line /\ outbound' = outbound /\ tmp' = tmp
      /\ \/ s.Minor = 0 /\ bp' = [bp EXCEPT ![p] = Received(e)]
         \/ next /\ bp' = [bp EXCEPT ![p] = Received(n)]
         \/ s.Minor # 0 /\ bp' = [bp EXCEPT ![p] = Received(s)]
  BY DEF ReceiveEOB, disk
<1>2. ~Over(b) /\ Good(s) /\ Keep(b, s) /\ Good(b)
  BY <1>1, ArrivesLive, PolledGood, PolledView, BpGood
<1>3. s.Minor = b.Minor /\ b.RxState = "RxWaitF" /\ KeepEnd(b, s) /\ s.FtState = b.FtState
  BY <1>1, <1>2, PolledEnd DEF Keep, KeepRx, KeepEnd
<1> HIDE DEF s
<1>4. ASSUME NEW u, Good(u), KeepRx(s, u) \/ (u.rname = s.rname /\ u.rxpos = s.rxpos /\ u.rxfp = s.rxfp), KeepTx(s, u), u.queue = s.queue,
             KeepEnd(s, u), Mute(s, u), u.RxState = IF s.Minor = 0 THEN "RxEOB" ELSE "RxWaitF"
      PROVE  HearsTo(p, Received(u))
  <2>1. Enqueues(b, u, Incoming(p)) /\ u.rname = b.rname /\ u.rxpos = b.rxpos /\ u.rxfp = b.rxfp
    BY <1>1, <1>2, <1>4 DEF Enqueues, Keep, KeepRx
  <2>2. u.RxState = IF Incoming(p).cmd = "EOB" /\ b.Minor = 0 THEN "RxEOB" ELSE b.RxState
    BY <1>1, <1>3, <1>4
  <2> HIDE DEF b
  <2> QED
    BY <1>1, <1>3, <1>4, <2>1, <2>2, HearsReceived DEF s, b
<1>5. CASE s.Minor = 0 /\ bp' = [bp EXCEPT ![p] = Received(e)]
  <2>1. /\ Good(e) /\ e.rname = s.rname /\ e.rxpos = s.rxpos /\ e.rxfp = s.rxfp /\ e.RxState = "RxEOB" /\ KeepTx(s, e)
        /\ e.queue = s.queue /\ KeepEnd(s, e) /\ Mute(s, e)
    <3>1. Good(e)
      BY <1>2, InRxEOBGood
    <3> QED
      BY <1>2, <3>1 DEF Good, Session, KeepTx, KeepEnd, Mute
  <2> HIDE DEF e
  <2>2. HearsTo(p, Received(e))
    BY <1>4, <1>5, <2>1
  <2> QED
    BY <1>1, <1>5, <2>2, HearsEnd
<1>6. ASSUME s.Minor # 0 PROVE HearsTo(p, Received(s))
  <2>1. KeepRx(s, s) /\ KeepTx(s, s) /\ KeepEnd(s, s) /\ Mute(s, s)
    BY DEF KeepRx, KeepTx, KeepEnd, Mute
  <2> QED
    BY <1>1, <1>2, <1>4, <1>6, <2>1
<1>7. CASE s.Minor # 0 /\ bp' = [bp EXCEPT ![p] = Received(s)]
  BY <1>1, <1>6, <1>7, HearsEnd
<1>8. CASE next /\ bp' = [bp EXCEPT ![p] = Received(n)]
  <2> DEFINE t == Received(s)
             z == Received(n)
  <2>1. HearsTo(p, t)
    BY <1>6, <1>8
  <2>2. Half(p, t, r, w, y, outbound) /\ Half(q, r, t, y, w, outbound)
    BY <2>1, HearsHalves
  <2>3. KeepEnd(s, t) /\ Mute(s, t) /\ ~Over(t) /\ Keep(s, t)
    BY <1>2, ReceivedEnd, ReceivedView
  <2>4. Good(n) /\ Restarts(s, n) /\ n.rc = s.rc /\ n.TxState = "TxGNF" /\ n.offset = s.offset /\ n.queue = s.queue
        /\ n.RxState = "RxWaitF" /\ \A f \in File : n.state[f] = "Absent"
    BY <1>2, <1>3, NextBatchEnd, NextBatchView, NextBatchGood DEF Over
  <2>5. Good(z) /\ KeepEnd(n, z) /\ Mute(n, z) /\ ~Over(z) /\ Keep(n, z)
    BY <2>4, ReceivedEnd, ReceivedView, ReceivedGood
  <2>6. w \in Seq(Frame) /\ v \in Seq(Frame) /\ v # <<>> /\ y \in Seq(Frame) /\ outbound \subseteq File
    BY <1>1, RestView, Peers, WireTyped, TailFacts DEF IInv, TypeOK
  <2>7. b.rc = "none"
    BY <1>2, OnView DEF Sends, Tidy
  <2>8. Pending(t) = {} /\ Both(t) /\ t.messages = 3 /\ t.Minor = b.Minor /\ b.Minor # 0 /\ Under(b) = {}
    <3>1. Pending(t) = {} /\ Both(t) /\ t.messages = 3 /\ t.Minor = s.Minor
      BY <1>8, <2>3 DEF Pending, Keep, KeepTx, Mute, Both, KeepEnd
    <3>2. \A f \in File : b.state[f] \notin {"Sending", "IsSent"}
      BY <1>2, <1>8, NotPending DEF Keep, KeepTx
    <3> QED
      BY <1>3, <1>8, <3>1, <3>2 DEF Under
  <2>9. Told(v, "GOT") = {} /\ Told(w, "FILE") = {} /\ r.RxState # "RxReceD"
    BY <1>2, <2>8, NothingCarried
  <2>10. Told(y, "GOT") = {}
    BY <2>6, <2>9, ToldTail
  <2> HIDE DEF q, r, w, v, y, t, z, n, b
  <2>11. Balance(t, r, w, y) /\ r.Minor = t.Minor /\ Counting(t)
    BY <2>2, Zenon DEF Half, Side
  <2>12. Through(t, r, w, y)
    BY <2>3, <2>8, <2>9, <2>10 DEF Through
  <2>13. Extra(t)
    <3>1. t.local_EOB = TRUE /\ t.remote_EOB = TRUE
      BY <2>8, <2>11 DEF Both, Counting
    <3> QED
      BY <2>8, <3>1 DEF Extra, Eobs, One
  <2>14. Restarts(t, z)
    BY <2>3, <2>4, <2>5 DEF Restarts, KeepEnd, Mute, Keep, KeepRx
  <2>15. Balance(z, r, w, y) /\ Counting(z)
    BY <2>6, <2>8, <2>11, <2>12, <2>13, <2>14, BalanceNext
  <2>16. Clears(t, z)
    <3>1. z.queue = t.queue /\ z.offset = t.offset /\ \A f \in File : z.state[f] = "Absent"
      BY <2>3, <2>4, <2>5 DEF Keep, KeepTx
    <3>2. z.rc = "none"
      BY <1>3, <2>4, <2>5, <2>7 DEF KeepEnd
    <3>3. z.TxState = "TxGNF" /\ z.RxState = "RxWaitF" /\ ~z.local_EOB
      BY <2>4, <2>5, <2>14 DEF Keep, KeepTx, KeepRx, Restarts
    <3> QED
      BY <2>5, <2>14, <3>1, <3>2, <3>3 DEF Clears, Restarts
  <2>17. Waits(z) /\ Receiver(z)
    BY <2>14, <2>16 DEF Waits, Both, Receiver, Restarts, Clears
  <2>18. Half(p, z, r, w, y, outbound) /\ Half(q, r, z, y, w, outbound)
    BY <2>2, <2>3, <2>6, <2>8, <2>15, <2>16, <2>17, ClearsHalves, Zenon
  <2>19. bp'[p] = z /\ bp'[q] = r
    BY <1>8, BpView DEF z, q, r
  <2>20. wire'[p] = w /\ wire'[q] = y
    BY <1>1, RestView DEF q, v, w, y
  <2>21. line' = TRUE
    BY <1>1, OnView
  <2>22. Emptied'
    BY <1>1, <1>3, <1>8, ClearsEmptied DEF b
  <2> QED
    BY <1>1, <2>18, <2>19, <2>20, <2>21, <2>22, HalvesEnd, Zenon DEF q
<1> QED
  BY <1>1, <1>5, <1>7, <1>8

\* Of the session b of p, the session a after a file was announced or a block of it read.
StreamTo(p, a) ==
  LET b == bp[p]
      m == Incoming(p)
  IN
  /\ Arrives(p) /\ m.cmd \in {"FILE", "DATA"} /\ Awaited(b) \subseteq {m.file}
  /\ m.cmd = "FILE" \/ (b.RxState = "RxReceD" /\ a.RxState = "RxReceD")
  /\ Listens(b, a, m) /\ KeepEnd(b, a) /\ KeepTx(b, a) /\ a.queue = b.queue /\ ~Over(a)

\* What is known of it, where r is the session of the peer.
StreamKnown(b, a, r, w, v, m) ==
  /\ Even(a, r, w, Tail(v)) /\ Counting(a) /\ Counting(r) /\ ~b.remote_EOB /\ ~a.remote_EOB /\ ~Over(r)
  /\ a.local_EOB = b.local_EOB
  /\ Chained(Tail(v), {Placed(m)}, To(r)) /\ Placed(m) \in Spot /\ Answered(r, w)
  /\ \A g \in Under(r) : g \in Told(Tail(v), "FILE") \union {m.file} \union Told(w, "GOT") \union Told(r.queue, "GOT")

LEMMA StreamRead ==
  ASSUME IInv, EInv, NEW p \in Party, NEW a, StreamTo(p, a)
  PROVE  StreamKnown(bp[p], a, bp[Peer(p)], wire[p], wire[Peer(p)], Incoming(p))
<1> DEFINE q == Peer(p)
           b == bp[p]
           r == bp[q]
           w == wire[p]
           v == wire[q]
           m == Incoming(p)
           y == Tail(v)
<1>1. /\ Receiver(b) /\ Counting(b) /\ Counting(r) /\ Onto(b, r, w, v) /\ Onto(r, b, v, w) /\ Waits(b)
      /\ Balance(b, r, w, v) /\ r.Minor = b.Minor
  BY OnView DEF Sends
<1>2. w \in Seq(Frame) /\ v \in Seq(Frame) /\ v # <<>> /\ ~Over(b) /\ m = Head(v) /\ m \in Frame
  BY RestView, Peers, WireTyped DEF StreamTo
<1>3. /\ m.cmd \in {"FILE", "DATA"} /\ Awaited(b) \subseteq {m.file}
      /\ m.cmd = "FILE" \/ (b.RxState = "RxReceD" /\ a.RxState = "RxReceD")
      /\ Listens(b, a, m) /\ KeepEnd(b, a) /\ KeepTx(b, a) /\ a.queue = b.queue /\ ~Over(a)
      /\ b.FtState = "Switch"
  BY Zenon DEF StreamTo, Arrives
<1> HIDE DEF q, b, r, w, v, m
<1>4. Both(b) /\ w = <<>> /\ r.RxState # "RxReceD" => Told(v, "GOT") # {}
  BY <1>1, <1>3, WaitsForGot, ToldNone DEF Onto
<1>5. Heard(b, a, m)
  BY <1>1, <1>2, <1>3, <1>4, ReadCounting
<1>6. Counting(a) /\ a.local_EOB = b.local_EOB /\ a.remote_EOB = b.remote_EOB
  BY <1>3, <1>5 DEF Heard, Tells
<1>7. Even(b, r, w, v) /\ Even(a, r, w, y)
  BY <1>1, <1>2, <1>3, <1>4, BalanceRead
<1>8. ~b.remote_EOB
  <2>1. Batch(v, b.remote_EOB, r.local_EOB) /\ b.remote_EOB \in BOOLEAN /\ r.local_EOB \in BOOLEAN
    BY <1>1, <1>7 DEF Even, Level, Counting
  <2>2. b.remote_EOB => m.cmd = "GOT"
    BY <1>2, <2>1, BatchTail
  <2> QED
    BY <1>3, <2>2
<1>9. ~Over(r)
  <2> SUFFICES ASSUME Over(r) PROVE FALSE
    OBVIOUS
  <2>1. Told(v, "FILE") = {} /\ b.RxState # "RxReceD"
    BY <1>1, Silence DEF Silenced
  <2>2. m.cmd = "FILE" => m.file \in Told(v, "FILE")
    BY <1>2, ToldTail
  <2> QED
    BY <1>3, <2>1, <2>2
<1>10. Chained(y, {Placed(m)}, To(r)) /\ Placed(m) \in Spot
  <2>1. Streaming(m)
    BY <1>3 DEF Streaming
  <2>2. Chained(v, From(b), To(r))
    BY <1>1 DEF Onto
  <2>3. Chained(y, IF Streaming(m) THEN {Placed(m)} ELSE From(b), To(r)) /\ (Streaming(m) => Placed(m) \in Spot)
    BY <1>2, <2>2, ChainedTail
  <2> QED
    BY <2>1, <2>3
<1>11. \A g \in Under(r) : g \in Told(y, "FILE") \union {m.file} \union Told(w, "GOT") \union Told(r.queue, "GOT")
  <2>1. Told(v, "FILE") \subseteq Told(y, "FILE") \union {g \in {m.file} : m.cmd = "FILE"}
    BY <1>2, ToldHead
  <2> QED
    BY <1>1, <1>3, <2>1 DEF Onto, Moving
<1> QED
  BY <1>1, <1>6, <1>7, <1>8, <1>9, <1>10, <1>11 DEF StreamKnown, Onto, q, b, r, w, v, m

\* More of the file m.file is awaited.
LEMMA AwaitEnd ==
  ASSUME IInv, EInv, NEW p \in Party, NEW t, StreamTo(p, t), t.RxState = "RxReceD", t.rname = Incoming(p).file,
         t.rxfp = t.rname, t.rxpos = Incoming(p).offs, t.rxpos < Size[t.rname], t.FtState = "Switch" => ~Both(t),
         bp' = [bp EXCEPT ![p] = t], wire' = Rest(p), line' = line, outbound' = outbound, Emptied'
  PROVE  EInv'
<1> DEFINE q == Peer(p)
           b == bp[p]
           r == bp[q]
           w == wire[p]
           v == wire[q]
           m == Incoming(p)
           y == Tail(v)
<1>1. wire'[p] = w /\ wire'[q] = y /\ v # <<>> /\ ~Over(b) /\ m = Head(v)
  BY RestView DEF StreamTo
<1>2. StreamKnown(b, t, r, w, v, m)
  BY StreamRead
<1>3. /\ m.cmd \in {"FILE", "DATA"} /\ KeepEnd(b, t) /\ KeepTx(b, t) /\ t.queue = b.queue /\ ~Over(t)
  BY Zenon DEF StreamTo
<1> HIDE DEF q, b, r, w, v, m
<1>4. Receiver(t)
  BY <1>2 DEF Receiver, StreamKnown
<1>5. Waits(t)
  BY DEF Waits
<1>6. From(t) = {Placed(m)} /\ Awaited(t) = {m.file}
  BY <1>3 DEF From, Awaited, Await, Placed, m
<1>7. Onto(r, t, y, w)
  BY <1>2, <1>6 DEF StreamKnown, Onto, Moving
<1>8. Balance(t, r, w, y) /\ Counting(t) /\ t.local_EOB = b.local_EOB
  BY <1>2 DEF StreamKnown, Balance
<1>9. ReadsTo(p, t, w)
  <2>1. Enqueues(b, t, m) /\ Acks(p, w, w)
    BY <1>3 DEF Enqueues, Acks
  <2> QED
    BY <1>1, <1>3, <1>8, <2>1, Zenon DEF ReadsTo, q, b, v, w
<1>10. Reads(p, t, w)
  BY <1>1, <1>9, Zenon DEF Reads, q, v, y
<1> QED
  BY <1>4, <1>5, <1>7, <1>8, <1>10, ReadsEnd, Zenon DEF q, r, v, w, y

\* The last of the file m.file is there, and it is acknowledged.
LEMMA GotEnd ==
  ASSUME IInv, Talk, EInv, NEW p \in Party, NEW a, StreamTo(p, a), Size[Incoming(p).file] = Incoming(p).offs,
         Incoming(p).file \notin Told(Tail(wire[Peer(p)]), "FILE"), Owner[Incoming(p).file] = Peer(p),
         NEW t, KeepEnd(a, t), KeepTx(a, t), t.queue = a.queue, ~Over(t), t.RxState = "RxWaitF", t.FtState = "Switch" => ~Both(t),
         NEW g, g = [cmd |-> "GOT", file |-> Incoming(p).file, offs |-> 0], Speaks(a, t, g),
         bp' = [bp EXCEPT ![p] = t], wire' = Sent(Rest(p), p, g), line' = line, outbound' = outbound, Emptied'
  PROVE  EInv'
<1> DEFINE q == Peer(p)
           b == bp[p]
           r == bp[q]
           w == wire[p]
           v == wire[q]
           m == Incoming(p)
           f == m.file
           y == Tail(v)
           x == Append(w, g)
<1>1. /\ v # <<>> /\ ~Over(b) /\ m = Head(v) /\ m \in Frame /\ Rest(p) \in [Party -> Seq(Frame)]
      /\ Rest(p)[q] = y /\ Rest(p)[p] = w
  BY RestView DEF StreamTo
<1>2. StreamKnown(b, a, r, w, v, m) /\ line = TRUE
  BY StreamRead, OnView
<1>3. m.cmd \in {"FILE", "DATA"} /\ KeepEnd(b, a) /\ KeepTx(b, a) /\ a.queue = b.queue
  BY Zenon DEF StreamTo
<1>4. f \in File /\ Size[f] \in Nat /\ w \in Seq(Frame) /\ v \in Seq(Frame) /\ Good(r)
  BY <1>1, <1>3, FrameTyped, FilesKnown, Peers, WireTyped, BpGood
<1>5. y \in Seq(Frame)
  BY <1>1, <1>4, TailFacts
<1>6. g \in Frame /\ g.cmd = "GOT" /\ g.file = f /\ Plain(p, g)
  BY <1>4, FramesTyped DEF Plain
<1>7. wire'[p] = x /\ wire'[q] = y
  BY <1>1, <1>2, SentView, SMTT(40) DEF StreamKnown
<1>8. Placed(m) = <<f, Size[f]>> /\ Placed(m) \in Complete
  BY <1>2, <1>4 DEF Placed, StreamKnown, Complete, Full
<1>9. f \notin Told(y, "FILE")
  OBVIOUS
<1> HIDE DEF q, b, r, w, v, m, f
<1>10. /\ Even(a, r, w, y) /\ Counting(a) /\ Counting(r) /\ ~a.remote_EOB /\ ~Over(r) /\ a.local_EOB = b.local_EOB
       /\ Chained(y, {Placed(m)}, To(r)) /\ Answered(r, w)
       /\ \A h \in Under(r) : h \in Told(y, "FILE") \union {f} \union Told(w, "GOT") \union Told(r.queue, "GOT")
  BY <1>2 DEF StreamKnown, f
<1>11. Spoken(a, t, g)
  BY <1>10, SpeaksView
<1>12. Counting(t) /\ ~t.remote_EOB /\ t.local_EOB = b.local_EOB
  BY <1>6, <1>10, <1>11 DEF Spoken, Tells
<1>13. Receiver(t) /\ Waits(t)
  BY <1>12 DEF Receiver, Waits, Both
<1>14. From(t) = Complete /\ Awaited(t) = {}
  BY NotAwaitedFrom
<1>15. Told(w, "GOT") \subseteq Told(x, "GOT") /\ f \in Told(x, "GOT") /\ Told(x, "GOT") \subseteq Told(w, "GOT") \union {f}
  <2>1. Told(x, "GOT") \subseteq Told(w, "GOT") \union {h \in {g.file} : g.cmd = "GOT"}
    BY <1>4, <1>6, ToldAppend
  <2>2. Told(w, "GOT") \subseteq Told(x, "GOT") /\ (g.cmd = "GOT" => g.file \in Told(x, "GOT"))
    BY <1>4, <1>6, ToldMore
  <2> QED
    BY <1>6, <2>1, <2>2
<1>16. Onto(r, t, y, x)
  <2>1. Moving(r, t, y, x)
    BY <1>10, <1>15 DEF Moving
  <2>2. Answered(r, x)
    <3> SUFFICES ASSUME r.TxState = "TxTryR", r.cursend = f PROVE r.txpos = Size[r.cursend]
      BY <1>10, <1>15 DEF Answered
    <3>1. To(r) = {<<f, r.txpos>>}
      BY DEF To
    <3>2. Chained(y, {<<f, Size[f]>>}, {<<f, r.txpos>>})
      BY <1>8, <1>10, <3>1
    <3> DEFINE c == <<f, Size[f]>>
               d == <<f, r.txpos>>
    <3>3. d[1] = f /\ d[2] = r.txpos /\ c[2] = Size[f]
      OBVIOUS
    <3> HIDE DEF c, d
    <3>4. d[1] \notin Told(y, "FILE") /\ Chained(y, {c}, {d})
      BY <1>9, <3>2, <3>3 DEF c, d, v, q, f, m
    <3>5. d \in Spot /\ c[2] <= d[2]
      BY <1>5, <3>4, ChainedEnds
    <3>6. r.txpos \in Nat /\ r.txpos <= Size[f]
      BY <1>4, <3>3, <3>5, SpotTyped
    <3> QED
      BY <1>4, <3>3, <3>5, <3>6
  <2>3. Chained(y, From(t), To(r))
    <3>1. {Placed(m)} \subseteq Complete
      BY <1>8
    <3> QED
      BY <1>10, <1>14, <3>1, ChainedMore
  <2> QED
    BY <2>1, <2>2, <2>3 DEF Onto
<1>17. Balance(t, r, x, y)
  <2>1. a.local_EOB => g.cmd = "GOT"
    BY <1>6
  <2>2. Even(t, r, x, y)
    BY <1>4, <1>6, <1>10, <2>1, EvenSend
  <2> QED
    BY <2>2 DEF Balance
<1>18. ReadsTo(p, t, x)
  <2>1. Enqueues(b, t, m) /\ Acks(p, w, x)
    BY <1>3, <1>6 DEF Enqueues, Acks
  <2>2. KeepEnd(b, t) /\ KeepTx(b, t)
    BY <1>3, KeepTrans, Zenon DEF KeepEnd
  <2> HIDE DEF x
  <2> QED
    BY <1>1, <1>12, <2>1, <2>2, Zenon DEF ReadsTo, q, b, v, w
<1>19. Reads(p, t, x)
  BY <1>7, <1>18, Zenon DEF Reads, q, v, y
<1> HIDE DEF x
<1> QED
  BY <1>12, <1>13, <1>16, <1>17, <1>19, ReadsEnd, Zenon DEF q, r, v, w, y

\* Of the session s, the session after the file s.rname was acknowledged.
LEMMA AnswerEnd ==
  ASSUME NEW p \in Party, NEW s, Good(s), s.rname \in File, Answer(p, s, "GOT", 0)
  PROVE  LET g == [cmd |-> "GOT", file |-> s.rname, offs |-> 0] IN
         /\ wire' = Sent(Rest(p), p, g)
         /\ \E t : /\ bp' = [bp EXCEPT ![p] = t] /\ ~Over(t) /\ KeepEnd(s, t) /\ KeepTx(s, t) /\ t.queue = s.queue
                   /\ t.RxState = "RxWaitF" /\ (t.FtState = "Switch" => ~Both(t)) /\ Speaks(s, t, g)
<1> DEFINE u == [s EXCEPT !.RxState = "RxWaitF"]
           g == [cmd |-> "GOT", file |-> s.rname, offs |-> 0]
           o == SentCommand(u, g.cmd)
           t == Received(o)
<1>1. bp' = [bp EXCEPT ![p] = t] /\ wire' = Sent(Rest(p), p, g) /\ g.cmd = "GOT"
  BY DEF Answer
<1>2. Good(u) /\ KeepTx(s, u) /\ u.queue = s.queue /\ u.RxState = "RxWaitF"
  BY WaitFileView
<1>3. KeepEnd(s, u) /\ Mute(s, u)
  BY DEF Good, Session, KeepEnd, Mute
<1> HIDE DEF u, g
<1>4. Good(o) /\ KeepEnd(u, o) /\ Keep(u, o) /\ Speaks(u, o, g)
  BY <1>1, <1>2, SentCommandEnd, SentCommandGood
<1> HIDE DEF o
<1>5. KeepEnd(o, t) /\ Mute(o, t) /\ ~Over(t) /\ (t.FtState = "Switch" => ~Both(t)) /\ Keep(o, t)
  BY <1>4, ReceivedEnd, ReceivedView
<1> HIDE DEF t
<1>6. KeepEnd(s, t) /\ KeepTx(s, t) /\ t.queue = s.queue /\ t.RxState = "RxWaitF"
  BY <1>2, <1>3, <1>4, <1>5, Zenon DEF KeepEnd, Keep, KeepTx, KeepRx
<1>7. Speaks(u, t, g)
  BY <1>4, <1>5, MuteAfter, Zenon
<1>8. Speaks(s, t, g)
  BY <1>3, <1>7, Zenon DEF Mute, KeepEnd, Speaks, Counted, Tell, TellEnd
<1> QED
  BY <1>1, <1>5, <1>6, <1>8 DEF g

LEMMA AcceptFileEnd == ASSUME NoFault, IInv, Talk, EInv, NEW p \in Party, AcceptFile(p) PROVE EInv'
<1> DEFINE q == Peer(p)
           b == bp[p]
           v == wire[q]
           m == Incoming(p)
           f == m.file
           a == Announced(p)
           e == [a EXCEPT !.rxfp = NoFile]
           d == [a EXCEPT !.RxState = "RxReceD"]
           g == [cmd |-> "GOT", file |-> f, offs |-> 0]
<1>1. /\ Arrives(p) /\ m.cmd = "FILE" /\ b.RxState \in {"RxWaitF", "RxReceD"}
      /\ line' = line /\ outbound' = outbound /\ tmp' = tmp
      /\ \/ AlreadyHere(a) /\ Answer(p, e, "GOT", 0)
         \/ PartlyHere(a) /\ Answer(p, a, "GET", a.rxbytes)
         \/ ~AlreadyHere(a) /\ bp' = [bp EXCEPT ![p] = Received(d)] /\ wire' = Rest(p)
  <2>1. ~CanRefuse
    BY DEF NoFault
  <2>2. PICK refused \in {FALSE, CanRefuse} :
          LET s == IF refused THEN e ELSE a IN
          \/ AlreadyHere(s) /\ Answer(p, [s EXCEPT !.rxfp = NoFile], "GOT", 0)
          \/ PartlyHere(s) /\ Answer(p, s, "GET", s.rxbytes)
          \/ /\ ~AlreadyHere(s) /\ ~PartlyHere(s) /\ refused
             /\ Answer(p, s, "SKIP", 0)
          \/ /\ ~AlreadyHere(s) /\ ~PartlyHere(s) /\ ~refused
             /\ bp' = [bp EXCEPT ![p] = Received([s EXCEPT !.RxState = "RxReceD"])]
             /\ wire' = Rest(p)
    BY Zenon DEF AcceptFile
  <2>3. /\ Arrives(p) /\ m.cmd = "FILE" /\ b.RxState \in {"RxWaitF", "RxReceD"}
        /\ line' = line /\ outbound' = outbound /\ tmp' = tmp
    BY DEF AcceptFile, disk
  <2>4. ~refused
    BY <2>1, <2>2
  <2> HIDE DEF a
  <2> QED
    BY <2>2, <2>3, <2>4
<1>2. /\ v \in Seq(Frame) /\ v # <<>> /\ ~Over(b) /\ m = Head(v) /\ m \in Frame /\ f \in File /\ Size[f] \in Nat
      /\ Good(Polled(p)) /\ Good(b)
  BY <1>1, RestView, Peers, WireTyped, FrameTyped, FilesKnown, PolledGood, BpGood
<1>3. m.offs = 0 /\ Owner[f] = q /\ Peer(q) = p
  <2>1. Plain(q, m)
    BY <1>1, ArrivedPlain
  <2>2. v[1] = m /\ 1 \in 1..Len(v)
    BY <1>2, TailFacts
  <2>3. Announces(q, v)
    BY Peers DEF Talk, Owned
  <2> QED
    BY <1>1, <2>1, <2>2, <2>3, Peers DEF Plain, Announces
<1>4. b.RxState = "RxWaitF"
  <2> SUFFICES ASSUME b.RxState = "RxReceD" PROVE FALSE
    BY <1>1
  <2>1. Receiver(b) /\ Chained(v, From(b), To(bp[q]))
    BY OnView DEF Onto
  <2>2. PICK x \in From(b) : x \in Spot /\ Full(x)
    BY <1>1, <1>2, <2>1, ChainedTail
  <2>3. x = <<b.rname, b.rxpos>>
    BY <1>2, <2>2 DEF From, Await
  <2>4. b.rname \in File /\ b.rxpos < Size[b.rname]
    BY <1>2, <2>1 DEF Receiver, Good, Named
  <2>5. b.rxpos \in Nat /\ Size[b.rname] \in Nat
    BY <1>2, <2>4, FilesKnown, ZenonT(20) DEF Good, Session
  <2> QED
    BY <2>2, <2>3, <2>4, <2>5, NotFiles DEF Full
<1>5. tmp[f] = <<>> /\ Awaited(b) = {}
  <2>1. Awaited(b) = {}
    BY <1>4 DEF Awaited, Await
  <2> QED
    BY <1>2, <1>3, <2>1 DEF EInv, Emptied
<1>6. /\ Good(a) /\ KeepTx(b, a) /\ a.queue = b.queue /\ a.rname = f /\ a.rxpos = 0 /\ a.rxfp = f /\ a.rxbytes = 0
      /\ KeepEnd(b, a) /\ Listens(b, a, m) /\ a.FtState = "Switch" /\ a.RxState = "RxWaitF"
  <2> DEFINE s == Polled(p)
             k == [s EXCEPT !.rname = f, !.rxpos = m.offs, !.rxfp = f, !.rxbytes = Len(tmp[f]), !.freqname = @ \/ f = Request]
  <2>1. KeepEnd(b, s) /\ Listens(b, s, m) /\ s.FtState = "Switch" /\ s.RxState = "RxWaitF"
    BY <1>1, <1>2, <1>4, PolledEnd, PolledView DEF Keep, KeepRx, Arrives
  <2>2. Good(a) /\ KeepTx(b, a) /\ a.queue = b.queue /\ a.rname = f /\ a.rxpos = 0
    BY <1>1, <1>3, AnnouncedView
  <2>3. a = k
    <3> HIDE DEF s
    <3>1. a = [[s EXCEPT !.rname = f, !.rxpos = m.offs] EXCEPT !.rxfp = f, !.rxbytes = Len(tmp[f]), !.freqname = @ \/ f = Request]
      BY <1>3, <1>4 DEF Announced, s
    <3> QED
      BY <1>2, <3>1 DEF Good, Session, s
  <2> HIDE DEF s, a
  <2>4. /\ k.rxfp = f /\ k.rxbytes = Len(tmp[f]) /\ KeepEnd(s, k)
        /\ Mute(s, k) /\ k.FtState = s.FtState /\ k.RxState = s.RxState
    BY <1>2, <2>1 DEF Good, Session, KeepEnd, Mute, s
  <2>5. k.txfp = s.txfp /\ k.Minor = s.Minor
    BY <1>2 DEF Good, Session, s
  <2> HIDE DEF k
  <2>6. KeepEnd(b, k)
    BY <2>1, <2>4, Zenon DEF KeepEnd
  <2>7. Listens(b, k, m)
    BY <2>1, <2>4, MuteAfter, Zenon
  <2>8. Len(tmp[f]) = 0
    BY <1>5
  <2> QED
    BY <2>1, <2>2, <2>3, <2>4, <2>6, <2>7, <2>8
<1>7. (AlreadyHere(a) <=> Size[f] = 0) /\ ~PartlyHere(a)
  BY <1>2, <1>6 DEF AlreadyHere, PartlyHere
<1>8. ~PartlyHere(a) /\ ~Over(a)
  BY <1>6, <1>7 DEF Over
<1> HIDE DEF a, b, q, v, m, f, g
<1>9. CASE AlreadyHere(a) /\ Answer(p, e, "GOT", 0)
  <2>1. /\ Good(e) /\ KeepTx(a, e) /\ e.queue = a.queue /\ e.rname = f /\ KeepEnd(a, e) /\ Mute(a, e)
        /\ e.FtState = a.FtState /\ e.RxState = a.RxState
    <3>1. Good(e)
      BY <1>6, ClosedGood
    <3>2. KeepTx(a, e) /\ e.queue = a.queue /\ e.rname = f /\ KeepEnd(a, e) /\ Mute(a, e)
          /\ e.FtState = a.FtState /\ e.RxState = a.RxState
      BY <1>6 DEF Good, Session, KeepTx, KeepEnd, Mute
    <3> QED
      BY <3>1, <3>2
  <2> HIDE DEF e
  <2>2. /\ wire' = Sent(Rest(p), p, g)
        /\ \E t : /\ bp' = [bp EXCEPT ![p] = t] /\ ~Over(t) /\ KeepEnd(e, t) /\ KeepTx(e, t) /\ t.queue = e.queue
                  /\ t.RxState = "RxWaitF" /\ (t.FtState = "Switch" => ~Both(t)) /\ Speaks(e, t, g)
    BY <1>2, <1>9, <2>1, AnswerEnd DEF g
  <2>3. PICK t : /\ bp' = [bp EXCEPT ![p] = t] /\ ~Over(t) /\ KeepEnd(e, t) /\ KeepTx(e, t) /\ t.queue = e.queue
                 /\ t.RxState = "RxWaitF" /\ (t.FtState = "Switch" => ~Both(t)) /\ Speaks(e, t, g)
    BY <2>2
  <2>4. StreamTo(p, e)
    <3>1. KeepEnd(b, e) /\ KeepTx(b, e) /\ e.queue = b.queue
      BY <1>6, <2>1, Zenon DEF KeepEnd, KeepTx
    <3>2. Listens(b, e, m)
      BY <1>6, <2>1, MuteAfter, Zenon
    <3>3. ~Over(e)
      BY <1>6, <2>1 DEF Over
    <3> QED
      BY <1>1, <1>5, <3>1, <3>2, <3>3 DEF StreamTo, b, m, f
  <2>5. f \notin Told(Tail(v), "FILE")
    <3>1. Marked(Head(v), {"FILE"}, f)
      BY <1>1, <1>2 DEF Marked, f
    <3> QED
      BY <1>2, <1>3, <3>1, AnnouncedOnce, Peers DEF v, q
  <2>6. Emptied'
    BY <1>1, <1>4, <2>3, ClearsEmptied DEF b
  <2> QED
    BY <1>1, <1>3, <1>7, <1>9, <2>2, <2>3, <2>4, <2>5, <2>6, GotEnd DEF f, m, g, v, q
<1>10. CASE ~AlreadyHere(a) /\ bp' = [bp EXCEPT ![p] = Received(d)] /\ wire' = Rest(p)
  <2> DEFINE t == Received(d)
  <2>1. Good(d) /\ KeepTx(a, d) /\ d.queue = a.queue /\ d.rname = f /\ d.rxfp = f /\ d.rxpos = 0 /\ d.RxState = "RxReceD"
    BY <1>2, <1>6, WaitFileView
  <2>2. KeepEnd(a, d) /\ Mute(a, d)
    BY <1>6 DEF Good, Session, KeepEnd, Mute
  <2> HIDE DEF d
  <2>3. KeepEnd(d, t) /\ Mute(d, t) /\ ~Over(t) /\ (t.FtState = "Switch" => ~Both(t)) /\ Keep(d, t)
    BY <2>1, ReceivedEnd, ReceivedView
  <2>4. bp' = [bp EXCEPT ![p] = t]
    BY <1>10
  <2> HIDE DEF t
  <2>5. KeepEnd(b, t) /\ KeepTx(b, t) /\ t.queue = b.queue
    BY <1>6, <2>1, <2>2, <2>3, Zenon DEF KeepEnd, KeepTx, Keep
  <2>6. Listens(b, t, m)
    <3>1. KeepEnd(a, t) /\ Mute(a, t)
      BY <2>2, <2>3, Zenon DEF KeepEnd, Mute
    <3> QED
      BY <1>6, <3>1, MuteAfter, Zenon
  <2>7. t.RxState = "RxReceD" /\ t.rname = f /\ t.rxfp = f /\ t.rxpos = 0
    BY <2>1, <2>3 DEF Keep, KeepRx
  <2>8. StreamTo(p, t)
    BY <1>1, <1>5, <2>3, <2>5, <2>6 DEF StreamTo, b, m, f
  <2>9. Emptied'
    BY <1>1, <1>4, <2>4, ClearsEmptied DEF b
  <2>10. t.rxpos < Size[t.rname]
    BY <1>2, <1>7, <1>10, <2>7
  <2> QED
    BY <1>1, <1>3, <1>10, <2>3, <2>4, <2>7, <2>8, <2>9, <2>10, AwaitEnd DEF f, m
<1> QED
  BY <1>1, <1>8, <1>9, <1>10

\* Only the part of the file that is received changes.
LEMMA WritesEmptied ==
  ASSUME IInv, EInv, NEW p \in Party, NEW t, bp' = [bp EXCEPT ![p] = t],
         ~Over(bp[p]), bp[p].RxState = "RxReceD", NEW h \in File, h = bp[p].rname, Owner[h] = Peer(p),
         \A f \in File : f # h => tmp'[f] = tmp[f], tmp'[h] = <<>> \/ h \in Awaited(t)
  PROVE  Emptied'
<1>1. bp'[p] = t /\ bp'[Peer(p)] = bp[Peer(p)] /\ Peer(Peer(p)) = p
  BY BpView, Peers
<1>2. Awaited(bp[p]) = {h}
  BY DEF Awaited, Await
<1> SUFFICES ASSUME NEW f \in File PROVE tmp'[f] = <<>> \/ f \in Awaited(bp'[Peer(Owner[f])])
  BY DEF Emptied
<1>3. CASE f = h
  BY <1>1, <1>3
<1>4. CASE f # h
  <2>1. Peer(Owner[f]) = p \/ Peer(Owner[f]) = Peer(p)
    BY FilesKnown, Peers
  <2>2. tmp[f] = <<>> \/ f \in Awaited(bp[Peer(Owner[f])])
    BY DEF EInv, Emptied
  <2> QED
    BY <1>1, <1>2, <1>4, <2>1, <2>2
<1> QED
  BY <1>3, <1>4

LEMMA WriteDataEnd == ASSUME IInv, Talk, EInv, NEW p \in Party, WriteData(p) PROVE EInv'
<1> DEFINE q == Peer(p)
           b == bp[p]
           m == Incoming(p)
           f == m.file
           a == [b EXCEPT !.rxpos = @ + 1]
           c == [a EXCEPT !.rxfp = Closed]
           g == [cmd |-> "GOT", file |-> f, offs |-> 0]
<1>1. /\ Arrives(p) /\ m.cmd = "DATA" /\ b.RxState = "RxReceD" /\ line' = line /\ outbound' = outbound
      /\ \/ /\ a.rxpos # Size[a.rname] /\ bp' = [bp EXCEPT ![p] = Received(a)] /\ wire' = Rest(p)
            /\ tmp' = Written(p)
         \/ /\ a.rxpos = Size[a.rname] /\ Answer(p, c, "GOT", 0)
            /\ tmp' = [h \in File |-> IF h = a.rxfp THEN <<>> ELSE tmp[h]]
  BY DEF WriteData, world
<1>2. ~Over(b) /\ Good(b) /\ b.rname \in File /\ Size[b.rname] \in Nat /\ Closed \in File \union {NoFile, Closed}
  BY <1>1, RestView, BpGood, FilesKnown DEF Good, Named
<1>3. f = b.rname /\ m.offs = b.rxpos + 1
  BY <1>1, BlockAwaited DEF Talk
<1>4. b.rxfp = f /\ b.rxpos < Size[f] /\ b.rxpos \in Nat
  <2>1. Receiver(b)
    BY OnView
  <2>2. b.rxpos \in Nat
    BY <1>2, ZenonT(20) DEF Good, Session
  <2> QED
    BY <1>1, <1>3, <2>1, <2>2 DEF Receiver
<1>5. Owner[f] = q /\ Peer(q) = p
  BY <1>2, <1>3, MineView, Peers DEF Mine
<1>6. /\ Good(a) /\ KeepTx(b, a) /\ a.queue = b.queue /\ a.rname = f /\ a.rxfp = f /\ a.RxState = "RxReceD" /\ a.rxpos = m.offs
  BY <1>1, <1>2, <1>3, <1>4, AdvancedView
<1>7. KeepEnd(b, a) /\ Mute(b, a) /\ a.FtState = b.FtState
  BY <1>2 DEF Good, Session, KeepEnd, Mute
<1>8. Awaited(b) = {f}
  BY <1>1, <1>2, <1>3 DEF Awaited, Await
<1> HIDE DEF a, b, m, f, g
<1>9. Listens(b, a, m)
  BY <1>1, <1>7, Zenon DEF Listens, Counted, Tells, Mute, KeepEnd
<1>10. StreamTo(p, a)
  BY <1>1, <1>2, <1>6, <1>7, <1>8, <1>9 DEF StreamTo, Over, b, m, f
<1>11. CASE a.rxpos # Size[a.rname] /\ bp' = [bp EXCEPT ![p] = Received(a)] /\ wire' = Rest(p) /\ tmp' = Written(p)
  <2> DEFINE t == Received(a)
  <2>1. KeepEnd(a, t) /\ Mute(a, t) /\ ~Over(t) /\ (t.FtState = "Switch" => ~Both(t)) /\ Keep(a, t)
    BY <1>6, ReceivedEnd, ReceivedView
  <2>2. bp' = [bp EXCEPT ![p] = t]
    BY <1>11
  <2> HIDE DEF t
  <2>3. t.RxState = "RxReceD" /\ t.rname = f /\ t.rxfp = f /\ t.rxpos = m.offs
    BY <1>6, <2>1 DEF Keep, KeepRx
  <2>4. StreamTo(p, t)
    <3>1. KeepEnd(b, t) /\ KeepTx(b, t) /\ t.queue = b.queue
      BY <1>6, <1>7, <2>1, Zenon DEF KeepEnd, KeepTx, Keep
    <3>2. Listens(b, t, m)
      BY <1>9, <2>1, MuteAfter, Zenon
    <3> QED
      BY <1>1, <1>8, <2>1, <2>3, <3>1, <3>2 DEF StreamTo, b, m, f
  <2>5. t.rxpos < Size[t.rname]
    BY <1>2, <1>3, <1>4, <1>6, <1>11, <2>3
  <2>6. Emptied'
    <3>1. \A h \in File : h # f => tmp'[h] = tmp[h]
      BY <1>4, <1>11 DEF Written, b, m, f
    <3>2. f \in Awaited(t)
      BY <2>1, <2>3 DEF Awaited, Await
    <3> QED
      BY <1>1, <1>2, <1>3, <1>5, <2>2, <3>1, <3>2, WritesEmptied DEF b, q
  <2> QED
    BY <1>1, <1>11, <2>1, <2>2, <2>3, <2>4, <2>5, <2>6, AwaitEnd DEF f, m
<1>12. CASE /\ a.rxpos = Size[a.rname] /\ Answer(p, c, "GOT", 0)
            /\ tmp' = [h \in File |-> IF h = a.rxfp THEN <<>> ELSE tmp[h]]
  <2>1. /\ Good(c) /\ KeepTx(a, c) /\ c.queue = a.queue /\ c.rname = f /\ KeepEnd(a, c) /\ Mute(a, c)
    <3>1. Good(c)
      BY <1>6, ClosedGood
    <3>2. KeepTx(a, c) /\ c.queue = a.queue /\ c.rname = f /\ KeepEnd(a, c) /\ Mute(a, c)
      BY <1>6 DEF Good, Session, KeepTx, KeepEnd, Mute
    <3> QED
      BY <3>1, <3>2
  <2> HIDE DEF c
  <2>2. /\ wire' = Sent(Rest(p), p, g)
        /\ \E t : /\ bp' = [bp EXCEPT ![p] = t] /\ ~Over(t) /\ KeepEnd(c, t) /\ KeepTx(c, t) /\ t.queue = c.queue
                  /\ t.RxState = "RxWaitF" /\ (t.FtState = "Switch" => ~Both(t)) /\ Speaks(c, t, g)
    BY <1>2, <1>3, <1>12, <2>1, AnswerEnd DEF g
  <2>3. PICK t : /\ bp' = [bp EXCEPT ![p] = t] /\ ~Over(t) /\ KeepEnd(c, t) /\ KeepTx(c, t) /\ t.queue = c.queue
                 /\ t.RxState = "RxWaitF" /\ (t.FtState = "Switch" => ~Both(t)) /\ Speaks(c, t, g)
    BY <2>2
  <2>4. KeepEnd(a, t) /\ KeepTx(a, t) /\ t.queue = a.queue
    BY <2>1, <2>3, Zenon DEF KeepEnd, KeepTx
  <2>5. Speaks(a, t, g)
    BY <2>1, <2>3, Zenon DEF Mute, KeepEnd, Speaks, Counted, Tell, TellEnd
  <2>6. f \notin Told(Tail(wire[q]), "FILE")
    <3>1. f \notin Told(wire[q], "FILE")
      BY <1>2, <1>3, <1>5, <1>8, AnnouncedOnce, Peers DEF b, q
    <3>2. wire[q] \in Seq(Frame) /\ wire[q] # <<>>
      BY <1>1, RestView, Peers, WireTyped DEF q
    <3> QED
      BY <3>1, <3>2, ToldTail
  <2>7. Emptied'
    <3>1. /\ \A h \in File : h # f => tmp'[h] = tmp[h]
          /\ tmp'[f] = <<>>
      BY <1>2, <1>3, <1>6, <1>12
    <3> QED
      BY <1>1, <1>2, <1>3, <1>5, <2>3, <3>1, WritesEmptied DEF b, q
  <2>8. Size[f] = m.offs /\ g = [cmd |-> "GOT", file |-> f, offs |-> 0]
    BY <1>6, <1>12 DEF g
  <2> QED
    BY <1>1, <1>5, <1>10, <2>2, <2>3, <2>4, <2>5, <2>6, <2>7, <2>8, GotEnd DEF f, m, q
<1> QED
  BY <1>1, <1>11, <1>12

(***************************************************************************)
(* What cannot happen                                                      *)
(***************************************************************************)
\* While data are awaited nothing else is announced and the batch does not end.
LEMMA NoBreakIn ==
  ASSUME IInv, EInv, NEW p \in Party, Arrives(p), Incoming(p).cmd \in {"FILE", "EOB"} PROVE bp[p].RxState # "RxReceD"
<1> DEFINE b == bp[p]
           v == wire[Peer(p)]
<1> SUFFICES ASSUME b.RxState = "RxReceD" PROVE FALSE
  OBVIOUS
<1>1. v \in Seq(Frame) /\ v # <<>> /\ Incoming(p) = Head(v) /\ ~Over(b) /\ Good(b) /\ b.rname \in File
  BY RestView, Peers, WireTyped, BpGood DEF Good, Named
<1>2. Receiver(b) /\ Chained(v, From(b), To(bp[Peer(p)]))
  BY OnView DEF Onto
<1>3. PICK x \in From(b) : x \in Spot /\ Full(x)
  BY <1>1, <1>2, ChainedTail
<1>4. x = <<b.rname, b.rxpos>> /\ b.rxpos < Size[b.rname]
  BY <1>1, <1>2, <1>3 DEF From, Await, Receiver
<1>5. b.rxpos \in Nat /\ Size[b.rname] \in Nat
  BY <1>1, FilesKnown, ZenonT(20) DEF Good, Session
<1> HIDE DEF b
<1> QED
  BY <1>1, <1>3, <1>4, <1>5, NotFiles DEF Full

\* After the M_EOB of 1.0 the peer only acknowledges.
LEMMA AfterEOB ==
  ASSUME IInv, EInv, NEW p \in Party, Arrives(p), bp[p].RxState = "RxEOB" PROVE Incoming(p).cmd = "GOT"
<1> DEFINE b == bp[p]
           r == bp[Peer(p)]
           w == wire[p]
           v == wire[Peer(p)]
<1>1. v \in Seq(Frame) /\ v # <<>> /\ Incoming(p) = Head(v)
  BY RestView, Peers, WireTyped
<1>2. Receiver(b) /\ Counting(b) /\ Counting(r) /\ Balance(b, r, w, v) /\ r.Minor = b.Minor /\ b.RxState = "RxEOB"
  BY OnView
<1> HIDE DEF b, r, w, v
<1>3. b.Minor = 0 /\ b.remote_EOB
  BY <1>2 DEF Receiver
<1>4. Even(b, r, w, v)
  BY <1>2, <1>3 DEF Balance, Ahead
<1>5. Batch(v, b.remote_EOB, r.local_EOB) /\ b.remote_EOB \in BOOLEAN /\ r.local_EOB \in BOOLEAN
  BY <1>2, <1>4 DEF Even, Level, Counting
<1> QED
  BY <1>1, <1>3, <1>5, BatchTail

LEMMA NothingUnexpected == ASSUME IInv, EInv, NEW p \in Party PROVE ~ReceiveUnexpected(p)
<1> SUFFICES ASSUME ReceiveUnexpected(p) PROVE FALSE
  OBVIOUS
<1>1. /\ Arrives(p)
      /\ \/ Incoming(p).cmd = "BSY"
         \/ Incoming(p).cmd = "EOB" /\ bp[p].RxState # "RxWaitF"
         \/ Incoming(p).cmd \in {"FILE", "DATA"} /\ bp[p].RxState = "RxEOB"
  BY Zenon DEF ReceiveUnexpected
<1>2. Incoming(p).cmd # "BSY"
  BY <1>1, ArrivedPlain DEF Plain
<1>3. bp[p].RxState = "RxEOB" => Incoming(p).cmd = "GOT"
  BY <1>1, AfterEOB
<1>4. Incoming(p).cmd = "EOB" => bp[p].RxState # "RxReceD"
  BY <1>1, NoBreakIn
<1>5. bp[p].RxState \in {"RxWaitF", "RxReceD", "RxEOB"}
  BY BpGood, ZenonT(20) DEF Good, Session
<1> QED
  BY <1>1, <1>2, <1>3, <1>4, <1>5

LEMMA NoneClosed == ASSUME IInv, EInv, NEW p \in Party PROVE ~SeekClosedFile(p)
<1> SUFFICES ASSUME SeekClosedFile(p) PROVE FALSE
  OBVIOUS
<1> DEFINE m == Incoming(p)
           s == Polled(p)
           a == Announced(p)
           known == [s EXCEPT !.rname = m.file, !.rxpos = m.offs]
<1>1. Arrives(p) /\ m.cmd = "FILE" /\ bp[p].RxState \in {"RxWaitF", "RxReceD"} /\ a.rxfp \notin File
  BY Zenon DEF SeekClosedFile
<1>2. bp[p].RxState = "RxWaitF"
  BY <1>1, NoBreakIn
<1>3. m.offs = 0 /\ m.file \in File /\ Good(s)
  BY <1>1, ArrivedPlain, FrameTyped, PolledGood DEF Plain
<1>4. a = [known EXCEPT !.rxfp = m.file, !.rxbytes = Len(tmp[m.file]), !.freqname = @ \/ m.file = Request]
  BY <1>2, <1>3 DEF Announced
<1> HIDE DEF m, s, a
<1>5. a.rxfp = m.file
  BY <1>3, <1>4 DEF Good, Session
<1> QED
  BY <1>1, <1>3, <1>5

\* A block is written to the file that is open.
LEMMA NoFailedWrite == ASSUME NoFault, IInv, EInv, NEW p \in Party PROVE ~WriteFails(p)
<1> SUFFICES ASSUME WriteFails(p) PROVE FALSE
  OBVIOUS
<1>1. bp[p].RxState = "RxReceD" /\ bp[p].rxfp = Closed
  <2>1. bp[p].RxState = "RxReceD" /\ (CanFill \/ bp[p].rxfp = Closed)
    BY Zenon DEF WriteFails
  <2> QED
    BY <2>1 DEF NoFault
<1>2. bp[p].rname \in File /\ Receiver(bp[p])
  BY <1>1, OnView, BpGood DEF Good, Named
<1> QED
  BY <1>1, <1>2, NotFiles DEF Receiver

\* Only acknowledgements wait in the queue, and they find their file open.
LEMMA OnlyGots ==
  ASSUME IInv, EInv, NEW p \in Party, bp[p].queue # <<>> PROVE Message(p).cmd = "GOT" /\ Message(p).file \in File
<1> DEFINE z == bp[p].queue
<1>1. z \in Seq(Queued)
  BY BpGood, ZenonT(20) DEF Good, Session
<1>2. \A i \in 1..Len(z) : z[i].cmd = "GOT"
  BY OnView DEF Sends, Tidy
<1> HIDE DEF z
<1>3. Head(z) = z[1] /\ 1 \in 1..Len(z) /\ Head(z) \in Queued
  BY <1>1, TailFacts DEF z
<1> QED
  BY <1>2, <1>3 DEF Message, Queued, z

LEMMA NoOtherMessage ==
  ASSUME IInv, EInv, NEW p \in Party PROVE ~ProcessGet(p) /\ ~ProcessSkip(p) /\ ~CloseNoFile(p)
<1>1. ~ProcessGet(p) /\ ~ProcessSkip(p)
  BY OnlyGots DEF ProcessGet, ProcessSkip, Processes
<1>2. ASSUME CloseNoFile(p) PROVE FALSE
  <2>1. bp[p].queue # <<>> /\ bp[p].state[Message(p).file] = "Sending" /\ bp[p].txfp = NoFile
    BY <1>2 DEF CloseNoFile, Processes, ClosesNothing
  <2>2. Message(p).file \in File
    BY <2>1, OnlyGots
  <2>3. Sender(bp[p])
    BY OnView DEF Sends
  <2> QED
    BY <2>1, <2>2, <2>3, NotFiles DEF Sender
<1> QED
  BY <1>1, <1>2

\* Who waits for a frame when the peer is through does not wait for ever.
LEMMA NoHangUp == ASSUME NoFault, IInv, EInv, NEW p \in Party PROVE ~HangUp(p)
<1> SUFFICES ASSUME HangUp(p) PROVE FALSE
  OBVIOUS
<1> DEFINE b == bp[p]
           r == bp[Peer(p)]
           w == wire[p]
           v == wire[Peer(p)]
<1>1. Sends(p, b, outbound) /\ Receiver(r) /\ Counting(b) /\ Counting(r) /\ Onto(b, r, w, v) /\ Balance(b, r, w, v) /\ line = TRUE
  BY OnView
<1>2. b.FtState = "Switch" /\ v = <<>> /\ Over(r)
  BY <1>1 DEF HangUp, NoFault, HungUp, Done, Over
<1> HIDE DEF b, r, w, v
<1>3. b.local_EOB /\ w = <<>>
  BY <1>1, <1>2, Silence DEF Silenced
<1>4. Even(b, r, w, v)
  BY <1>1, <1>2 DEF Balance, Ahead
<1>5. Both(r) /\ Batch(<<>>, b.remote_EOB, r.local_EOB) /\ b.remote_EOB \in BOOLEAN /\ r.local_EOB \in BOOLEAN
  BY <1>1, <1>2, <1>4 DEF Even, Level, Finished, Counting
<1>6. Both(b) /\ r.RxState # "RxReceD"
  BY <1>1, <1>3, <1>5, BatchEmpty DEF Both, Receiver
<1>7. Told(v, "GOT") # {}
  BY <1>1, <1>2, <1>3, <1>6, WaitsForGot, ToldNone DEF Sends, Onto
<1> QED
  BY <1>2, <1>7, ToldNone

LEMMA NoRetry == ASSUME IInv, EInv PROVE ~Retry
<1>1. \A p \in Party : bp[p].rc \in {"ok", "none"}
  BY DEF EInv, Side, Tidy
<1> QED
  BY <1>1 DEF Retry

(***************************************************************************)
(* The theorem                                                             *)
(***************************************************************************)
\* At the start nothing is sent, counted or received.
LEMMA NewSessionEnd ==
  ASSUME NEW minor \in 0..1, NEW p \in Party
  PROVE  LET s == NewSession(minor) IN
         /\ Side(p, s, outbound) /\ Way(s, s, <<>>, <<>>) /\ Balance(s, s, <<>>, <<>>) /\ ~Over(s)
<1> DEFINE s == NewSession(minor)
<1>1. /\ s.rc = "none" /\ s.FtState = "Switch" /\ s.queue = <<>> /\ s.TxState = "TxGNF" /\ s.RxState = "RxWaitF"
      /\ s.local_EOB = FALSE /\ s.remote_EOB = FALSE /\ s.messages = 0 /\ s.batchnr = 0 /\ s.tosend = FALSE
      /\ s.state = NoList /\ s.offset = [f \in File |-> 0]
  BY DEF NewSession
<1> HIDE DEF s
<1>2. (\A f \in File : s.state[f] = "Absent" /\ s.offset[f] = 0) /\ ~Over(s) /\ ~Both(s)
  BY <1>1 DEF NoList, Over, Both
<1>3. Len(<<>>) = 0 /\ \A i : i \notin 1..Len(<<>>)
  BY NoFrames
<1>4. Under(s) = {}
  BY <1>2 DEF Under
<1>5. Eobs(s) = 0 /\ ~Extra(s)
  <2>1. Eobs(s) = 0
    BY <1>1 DEF Eobs, One
  <2> QED
    BY <1>1, <2>1 DEF Extra
<1>6. Counting(s)
  <2>1. 0 \in 0..3 /\ 0 >= 0 /\ FALSE \in BOOLEAN
    OBVIOUS
  <2> QED
    BY <1>1, <1>5, <2>1, Zenon DEF Counting
<1>7. Tidy(s)
  BY <1>1, <1>2, <1>3 DEF Tidy
<1>8. Sender(s) /\ Receiver(s) /\ Waits(s) /\ Offered(p, s, outbound)
  BY <1>1, <1>2 DEF Sender, Receiver, Waits, Offered
<1>9. Way(s, s, <<>>, <<>>)
  <2>1. <<NoFile, 0>> \in Complete
    <3> DEFINE x == <<NoFile, 0>>
    <3>1. x \in Place /\ x[1] = NoFile
      BY DEF Place
    <3> HIDE DEF x
    <3> QED
      BY <3>1, NotFiles DEF Complete, Spot, Full, x
  <2>2. From(s) = Complete /\ To(s) = Complete
    BY <1>1 DEF From, To, Await
  <2>3. Chained(<<>>, From(s), To(s))
    BY <2>1, <2>2, ChainedEmpty DEF Complete
  <2> QED
    BY <1>1, <1>4, <2>3 DEF Way, Moving, Answered
<1>10. Balance(s, s, <<>>, <<>>)
  <2>1. Batch(<<>>, s.remote_EOB, s.local_EOB)
    BY <1>1, BatchEmpty
  <2> QED
    BY <1>2, <1>5, <2>1, BusyEmpty DEF Balance, Even, Level, Finished
<1> QED
  BY <1>2, <1>6, <1>7, <1>8, <1>9, <1>10 DEF Side, s

LEMMA InitEnd == ASSUME NoPartial, Init PROVE EInv
<1>1. PICK minor \in Minors : bp = [p \in Party |-> NewSession(minor)]
  BY DEF Init
<1> DEFINE s == NewSession(minor)
<1>2. \A p \in Party : bp[p] = s /\ wire[p] = <<>>
  BY <1>1 DEF Init
<1>3. minor \in 0..1
  BY LimitsKnown
<1>4. line = TRUE
  BY DEF Init
<1>5. Emptied
  <2> SUFFICES ASSUME NEW f \in File PROVE tmp[f] = <<>>
    BY DEF Emptied
  <2>1. tmp[f] = Blocks(f, 1, 0)
    BY DEF Init, NoPartial
  <2>2. Blocks(f, 1, 0) = <<>>
    BY DEF Blocks
  <2> QED
    BY <2>1, <2>2
<1>6. ASSUME NEW p \in Party
      PROVE  Side(p, s, outbound) /\ Way(s, s, <<>>, <<>>) /\ Balance(s, s, <<>>, <<>>)
  BY <1>3, NewSessionEnd
<1>7. \A p \in Party : PlainWire(p, <<>>)
  BY NoFrames DEF PlainWire
<1> HIDE DEF s
<1> QED
  BY <1>2, <1>4, <1>5, <1>6, <1>7, Peers DEF EInv

LEMMA ReceiveEnd == ASSUME NoFault, IInv, Talk, EInv, NEW p \in Party, Receive(p) PROVE EInv'
<1>1. ~LowDiskspace(p) /\ ~CloseFails(p)
  BY DEF NoFault, LowDiskspace, CloseFails
<1>2. ~WriteFails(p) /\ ~ReceiveUnexpected(p) /\ ~SeekClosedFile(p)
  BY NoFailedWrite, NothingUnexpected, NoneClosed
<1> QED
  BY <1>1, <1>2, QueueMessageEnd, IgnoreEnd, ReceiveEOBEnd, AcceptFileEnd, WriteDataEnd, Zenon DEF Receive

LEMMA TransmitEnd == ASSUME NoFault, IInv, Talk, EInv, NEW p \in Party, Transmit(p) PROVE EInv'
<1>1. ~ReadFails(p)
  BY DEF NoFault, ReadFails
<1> QED
  BY <1>1, NoOtherMessage, MakeListEnd, SendFileEnd, PassFileEnd, SendEOBEnd, SendBlockEnd, ProcessGotEnd, WaitAcksEnd,
     Zenon DEF Transmit

LEMMA NextEnd == ASSUME NoFault, IInv, Talk, EInv, [Next]_vars PROVE EInv'
<1>1. CASE \E p \in Party : HangUp(p) \/ Timeout(p) \/ Killed(p) \/ KilledBeforeMove(p)
  <2>1. \A p \in Party : ~Timeout(p) /\ ~Killed(p) /\ ~KilledBeforeMove(p)
    BY DEF NoFault, Timeout, Killed, KilledBeforeMove
  <2> QED
    BY <1>1, <2>1, NoHangUp, Zenon
<1>2. CASE \E p \in Party : Receive(p) \/ Transmit(p)
  BY <1>2, ReceiveEnd, TransmitEnd, Zenon
<1>3. CASE Cut \/ Retry
  <2>1. ~Cut
    BY DEF NoFault, Cut
  <2> QED
    BY <1>3, <2>1, NoRetry
<1>4. CASE (\E f \in File : Replace(f)) \/ UNCHANGED vars
  <2>1. bp' = bp /\ wire' = wire /\ line' = line /\ outbound' = outbound /\ tmp' = tmp
    BY <1>4 DEF Replace, vars
  <2> QED
    BY <2>1 DEF EInv, Emptied
<1> QED
  BY <1>1, <1>2, <1>3, <1>4, Zenon DEF Next

\* Without a fault both sides see the same end of the session, and who ends it
\* well has nothing left to send: for any files, sizes, requests, versions and
\* windows, where no earlier session left a part of a file.  The processes count
\* the messages of a batch each for itself, and from the count alone each decides
\* whether another batch follows.
THEOREM EndsTogether == ASSUME NoFault, NoPartial PROVE Spec => []EndsAgree
<1> DEFINE Inv == IInv /\ Talk /\ EInv
<1>1. Init => Inv
  BY InitTyped, InitTalk, InitEnd
<1>2. Inv /\ [Next]_vars => Inv'
  BY NextTyped, NextTalk, NextEnd
<1>3. Inv => EndsAgree
  <2> SUFFICES ASSUME Inv PROVE EndsAgree
    OBVIOUS
  <2>1. \A p \in Party : Tidy(bp[p]) /\ Offered(p, bp[p], outbound)
    BY DEF EInv, Side
  <2>2. OkSentAll
    <3> SUFFICES ASSUME NEW p \in Party, bp[p].rc = "ok", NEW f \in outbound, Owner[f] = p PROVE FALSE
      BY DEF OkSentAll
    <3>1. Over(bp[p])
      BY <2>1 DEF Tidy
    <3>2. f \in File
      BY DEF IInv, TypeOK
    <3>3. bp[p].state[f] = "Absent"
      BY <2>1, <3>1, <3>2 DEF Tidy
    <3> QED
      BY <2>1, <3>1, <3>3 DEF Offered
  <2>3. SameEnd
    <3> SUFFICES ASSUME AllDone PROVE bp["org"].rc = bp["ans"].rc
      BY DEF SameEnd
    <3>1. \A p \in Party : Over(bp[p])
      BY DEF AllDone, Done, Over
    <3> QED
      BY <2>1, <3>1 DEF Tidy, Party
  <2> QED
    BY <2>2, <2>3 DEF EndsAgree
<1> QED
  BY <1>1, <1>2, <1>3, PTL DEF Spec

=============================================================================
