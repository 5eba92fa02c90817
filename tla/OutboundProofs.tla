--------------------------- MODULE OutboundProofs ---------------------------
(***************************************************************************)
(* Outbound for any mail, files, archive names, kills and weeks: every     *)
(* variable keeps its type, no mail is lost, and what waits in the         *)
(* outbound of a node at which nobody works is listed.                     *)
(***************************************************************************)
EXTENDS Outbound, SequenceTheorems, FiniteSetTheorems, TLAPS

(***************************************************************************)
(* Numbers.  The finite subsets of a set are well-founded, so a set of     *)
(* numbers has a least one: the proofs below that go through numbers or    *)
(* sets one by one are led to a contradiction for the least exception.     *)
(***************************************************************************)
LEMMA LeastNatural ==
  ASSUME NEW T, T \subseteq Nat, T # {}
  PROVE  \E x \in T : \A y \in T : x <= y
<1> DEFINE I(n) == 0..(n - 1)
           U == {I(n) : n \in T}
<1>1. \A n \in Nat : I(n) \in FiniteSubsetsOf(Nat)
  BY FS_Interval DEF FiniteSubsetsOf
<1>2. U \subseteq FiniteSubsetsOf(Nat) /\ U # {}
  BY <1>1
<1>3. \E x \in U : \A y \in U : <<y, x>> \notin StrictSubsetOrdering(Nat)
  BY <1>2, FS_StrictSubsetOrderingWellFounded, WFMin
<1>4. PICK x \in T : \A y \in T : <<I(y), I(x)>> \notin StrictSubsetOrdering(Nat)
  BY <1>3
<1>5. ASSUME NEW y \in T, y < x PROVE FALSE
  <2>1. I(y) \subseteq I(x) /\ I(y) # I(x)
    BY <1>5
  <2> QED
    BY <2>1, <1>1, <1>4 DEF StrictSubsetOrdering, FiniteSubsetsOf
<1> QED
  BY <1>5

\* First gives the least element of a set of numbers.
LEMMA FirstIsLeast ==
  ASSUME NEW T, T \subseteq Nat, T # {}
  PROVE  First(T) \in T /\ \A y \in T : First(T) <= y
BY LeastNatural DEF First

\* An increasing list with a smaller number put before it is increasing.
LEMMA OneBefore ==
  ASSUME NEW X, X \subseteq Nat, NEW m \in X, \A y \in X : m <= y,
         NEW c \in Nat, NEW q \in [1..c -> X \ {m}],
         \A i, j \in 1..c : i < j => q[i] < q[j]
  PROVE  \E r \in [1..(c + 1) -> X] : \A i, j \in 1..(c + 1) : i < j => r[i] < r[j]
<1> DEFINE r == [i \in 1..(c + 1) |-> IF i = 1 THEN m ELSE q[i - 1]]
<1>1. \A i \in 1..(c + 1) : i # 1 => i - 1 \in 1..c
  OBVIOUS
<1>2. r \in [1..(c + 1) -> X]
  BY <1>1
<1>3. ASSUME NEW i \in 1..(c + 1), NEW j \in 1..(c + 1), i < j PROVE r[i] < r[j]
  <2>1. j # 1 /\ j - 1 \in 1..c
    BY <1>3
  <2>2. q[j - 1] \in X \ {m} /\ r[j] = q[j - 1]
    BY <2>1
  <2>3. CASE i = 1
    <3>1. r[i] = m
      BY <2>3
    <3>2. m <= q[j - 1] /\ m # q[j - 1] /\ m \in Nat /\ q[j - 1] \in Nat
      BY <2>2
    <3> QED
      BY <2>2, <3>1, <3>2
  <2>4. CASE i # 1
    <3>1. i - 1 \in 1..c /\ i - 1 < j - 1 /\ r[i] = q[i - 1]
      BY <1>3, <2>4
    <3>2. q[i - 1] < q[j - 1]
      BY <2>1, <3>1
    <3> QED
      BY <2>2, <3>1, <3>2
  <2> QED
    BY <2>3, <2>4
<1>4. \A i, j \in 1..(c + 1) : i < j => r[i] < r[j]
  BY <1>3
<1> HIDE DEF r
<1> QED
  BY <1>2, <1>4

Ordered(X) ==
  \E q \in [1..Cardinality(X) -> X] : \A i, j \in 1..Cardinality(X) : i < j => q[i] < q[j]

\* A finite set of numbers has an order, and InOrder gives it.
LEMMA OrderExists ==
  ASSUME NEW S \in FiniteSubsetsOf(Nat)
  PROVE  Ordered(S)
<1> DEFINE T == {X \in FiniteSubsetsOf(Nat) : ~Ordered(X)}
<1> SUFFICES ASSUME T # {} PROVE FALSE
  OBVIOUS
<1>1. PICK X \in T : \A Y \in T : <<Y, X>> \notin StrictSubsetOrdering(Nat)
  <2>1. T \subseteq FiniteSubsetsOf(Nat) /\ T # {}
    OBVIOUS
  <2> HIDE DEF T
  <2> QED
    BY <2>1, FS_StrictSubsetOrderingWellFounded, WFMin
<1>2. X \subseteq Nat /\ IsFiniteSet(X) /\ ~Ordered(X)
  BY DEF FiniteSubsetsOf
<1>3. X # {}
  <2>1. ASSUME X = {} PROVE Ordered(X)
    <3>1. Cardinality(X) = 0
      BY <2>1, FS_EmptySet
    <3>2. [i \in 1..0 |-> i] \in [1..0 -> X] /\ 1..0 = {}
      OBVIOUS
    <3> QED
      BY <3>1, <3>2 DEF Ordered
  <2> QED
    BY <1>2, <2>1
<1>4. PICK m \in X : \A y \in X : m <= y
  BY <1>2, <1>3, LeastNatural
<1> DEFINE Y == X \ {m}
           c == Cardinality(Y)
<1>5. IsFiniteSet(Y) /\ Cardinality(Y) = Cardinality(X) - 1
  BY <1>2, <1>4, FS_RemoveElement
<1>6. Cardinality(X) \in Nat /\ c \in Nat
  BY <1>2, <1>5, FS_CardinalityType
<1>7. Cardinality(X) = c + 1
  BY <1>5, <1>6
<1>8. Y \subseteq Nat /\ Y \subseteq X /\ Y # X
  BY <1>2, <1>4
<1>9. Y \in FiniteSubsetsOf(Nat) /\ <<Y, X>> \in StrictSubsetOrdering(Nat)
  BY <1>2, <1>5, <1>8 DEF FiniteSubsetsOf, StrictSubsetOrdering
<1>10. Ordered(Y)
  BY <1>1, <1>9
<1>11. PICK q \in [1..c -> Y] : \A i, j \in 1..c : i < j => q[i] < q[j]
  BY <1>10 DEF Ordered
<1>12. Ordered(X)
  <2> HIDE DEF c
  <2>1. \E r \in [1..(c + 1) -> X] : \A i, j \in 1..(c + 1) : i < j => r[i] < r[j]
    BY <1>2, <1>4, <1>6, <1>11, OneBefore
  <2> QED
    BY <1>7, <2>1 DEF Ordered
<1> QED
  BY <1>2, <1>12

LEMMA InOrderType ==
  ASSUME NEW S \in FiniteSubsetsOf(Nat)
  PROVE  InOrder(S) \in [1..Cardinality(S) -> S] /\ Cardinality(S) \in Nat
<1>1. Cardinality(S) \in Nat
  BY FS_CardinalityType DEF FiniteSubsetsOf
<1>2. PICK q \in [1..Cardinality(S) -> S] : \A i, j \in 1..Cardinality(S) : i < j => q[i] < q[j]
  BY OrderExists DEF Ordered
<1>3. \E p \in [1..Cardinality(S) -> S] : \A i, j \in DOMAIN p : i < j => p[i] < p[j]
  BY <1>2
<1> QED
  BY <1>1, <1>3 DEF InOrder

(***************************************************************************)
(* The name of the archive.  The loop goes up, so it ends, and Found,      *)
(* which follows it, is a function from Nr to Nr.                          *)
(***************************************************************************)
Ends(n) == Usable(n, n) \/ Bumped(n, n) = n

LEMMA GoesUp ==
  ASSUME NEW n \in Nr, NEW d
  PROVE  Bumped(d, n) \in Nr /\ n <= Bumped(d, n)
<1> DEFINE n1 == IF n < MaxNr /\ (Truncated(d) \/ TooBig(d)) THEN n + 1 ELSE n
           d1 == IF n1 = n THEN d ELSE n1
           w == WeekOld(d1)
<1>1. Bumped(d, n) = IF n1 < MaxNr /\ w THEN n1 + 1 ELSE n1
  BY DEF Bumped
<1>2. MaxNr \in Nat
  BY BoundsKnown
<1>3. n1 \in Nr /\ n <= n1
  BY <1>2 DEF Nr
<1> HIDE DEF n1, d1, w
<1> QED
  BY <1>1, <1>2, <1>3 DEF Nr

LEMMA FoundExists ==
  \E h : h = [n \in Nr |-> IF Usable(n, n) \/ Bumped(n, n) = n THEN n ELSE h[Bumped(n, n)]]
<1> DEFINE From(k) == \E h \in [Nr -> Nr] :
                        \A n \in Nr : n >= k => h[n] = IF Ends(n) THEN n ELSE h[Bumped(n, n)]
           T == {j \in Nat : j <= MaxNr + 1 /\ ~From(MaxNr + 1 - j)}
<1>1. MaxNr \in Nat
  BY BoundsKnown
<1>2. From(MaxNr + 1)
  <2>1. [n \in Nr |-> n] \in [Nr -> Nr] /\ \A n \in Nr : ~(n >= MaxNr + 1)
    BY <1>1 DEF Nr
  <2> QED
    BY <2>1
<1>3. ASSUME NEW k \in Nr, From(k + 1) PROVE From(k)
  <2>1. PICK h \in [Nr -> Nr] :
          \A n \in Nr : n >= k + 1 => h[n] = IF Ends(n) THEN n ELSE h[Bumped(n, n)]
    BY <1>3
  <2> DEFINE v == IF Ends(k) THEN k ELSE h[Bumped(k, k)]
             g == [h EXCEPT ![k] = v]
  <2>2. v \in Nr
    BY GoesUp
  <2>3. g \in [Nr -> Nr] /\ g[k] = v /\ \A n \in Nr : n # k => g[n] = h[n]
    BY <2>2
  <2>4. ASSUME NEW n \in Nr, n >= k PROVE g[n] = IF Ends(n) THEN n ELSE g[Bumped(n, n)]
    <3>1. ~Ends(n) => Bumped(n, n) \in Nr /\ Bumped(n, n) > n
      BY GoesUp DEF Ends, Nr
    <3>2. ~Ends(n) => g[Bumped(n, n)] = h[Bumped(n, n)]
      <4> HIDE DEF g, v
      <4> QED
        BY <1>1, <2>3, <2>4, <3>1 DEF Nr
    <3>3. CASE n = k
      <4>1. g[n] = IF Ends(n) THEN n ELSE h[Bumped(n, n)]
        BY <2>3, <3>3
      <4> HIDE DEF g, v
      <4> QED
        BY <3>2, <4>1
    <3>4. CASE n # k
      <4> HIDE DEF g, v
      <4>1. n >= k + 1
        BY <1>1, <2>4, <3>4 DEF Nr
      <4> QED
        BY <2>1, <2>3, <3>2, <3>4, <4>1
    <3> QED
      BY <3>3, <3>4
  <2> HIDE DEF g
  <2> QED
    BY <2>3, <2>4
<1>4. From(0)
  <2> SUFFICES ASSUME ~From(0) PROVE FALSE
    OBVIOUS
  <2> HIDE DEF From
  <2>1. MaxNr + 1 \in T
    BY <1>1
  <2>2. PICK j \in T : \A i \in T : j <= i
    <3>1. T \subseteq Nat /\ T # {}
      BY <2>1
    <3> HIDE DEF T
    <3> QED
      BY <3>1, LeastNatural
  <2>3. j # 0
    BY <1>1, <1>2, <2>2
  <2>4. j - 1 \in Nat /\ j - 1 \notin T
    BY <2>2, <2>3
  <2>5. From(MaxNr + 1 - (j - 1))
    BY <1>1, <2>2, <2>4
  <2>6. MaxNr + 1 - j \in Nr /\ MaxNr + 1 - (j - 1) = (MaxNr + 1 - j) + 1
    BY <1>1, <2>2, <2>3 DEF Nr
  <2>7. From(MaxNr + 1 - j)
    BY <1>3, <2>5, <2>6
  <2> QED
    BY <2>2, <2>7
<1>5. PICK h \in [Nr -> Nr] : \A n \in Nr : n >= 0 => h[n] = IF Ends(n) THEN n ELSE h[Bumped(n, n)]
  BY <1>4
<1>6. \A n \in Nr : h[n] = IF Usable(n, n) \/ Bumped(n, n) = n THEN n ELSE h[Bumped(n, n)]
  BY <1>1, <1>5 DEF Ends, Nr
<1>7. h = [n \in Nr |-> IF Usable(n, n) \/ Bumped(n, n) = n THEN n ELSE h[Bumped(n, n)]]
  BY <1>6
<1> QED
  BY <1>7

LEMMA FoundType == \A n \in Nr : Found[n] \in Nr
<1>1. Found = [n \in Nr |-> IF Usable(n, n) \/ Bumped(n, n) = n THEN n ELSE Found[Bumped(n, n)]]
  BY FoundExists, Zenon DEF Found
<1>2. MaxNr \in Nat
  BY BoundsKnown
<1> DEFINE T == {j \in 0..MaxNr : Found[MaxNr - j] \notin Nr}
<1>3. T = {}
  <2> SUFFICES ASSUME T # {} PROVE FALSE
    OBVIOUS
  <2>1. PICK j \in T : \A i \in T : j <= i
    <3>1. T \subseteq Nat /\ T # {}
      BY <1>2
    <3> HIDE DEF T
    <3> QED
      BY <3>1, LeastNatural
  <2> DEFINE n == MaxNr - j
  <2>2. n \in Nr /\ Found[n] \notin Nr
    BY <1>2, <2>1 DEF Nr
  <2>3. ~Ends(n) /\ Found[n] = Found[Bumped(n, n)]
    BY <1>1, <2>2 DEF Ends
  <2>4. Bumped(n, n) \in Nr /\ Bumped(n, n) > n
    BY <2>2, <2>3, GoesUp DEF Ends, Nr
  <2>5. MaxNr - Bumped(n, n) \in 0..MaxNr /\ MaxNr - Bumped(n, n) < j
        /\ MaxNr - (MaxNr - Bumped(n, n)) = Bumped(n, n)
    BY <1>2, <2>1, <2>4 DEF Nr
  <2>6. MaxNr - Bumped(n, n) \in T
    BY <2>2, <2>3, <2>5
  <2> QED
    BY <2>1, <2>5, <2>6
<1>4. ASSUME NEW n \in Nr PROVE Found[n] \in Nr
  <2>1. MaxNr - n \in 0..MaxNr /\ MaxNr - (MaxNr - n) = n
    BY <1>2 DEF Nr
  <2> QED
    BY <1>3, <2>1
<1> QED
  BY <1>4

LEMMA ArcfileType ==
  ASSUME NEW d \in Nr
  PROVE  Arcfile(d) \in Nr
<1>1. 0 \in Nr
  BY BoundsKnown DEF Nr
<1>2. Bumped(d, 0) \in Nr
  BY <1>1, GoesUp
<1> QED
  BY <1>2, FoundType DEF Arcfile

(***************************************************************************)
(* The .flo file.                                                          *)
(***************************************************************************)
LEMMA OpenLine ==
  ASSUME flo \in Seq(Line), NEW name, Listed(name)
  PROVE  /\ First(Open(name)) \in DOMAIN flo
         /\ flo[First(Open(name))].name = name
<1>1. Open(name) \subseteq Nat /\ Open(name) # {}
  BY DEF Open, Listed
<1>2. First(Open(name)) \in Open(name)
  BY <1>1, FirstIsLeast
<1> QED
  BY <1>2 DEF Open

LEMMA DanglingLine ==
  ASSUME flo \in Seq(Line), NEW i \in Dangling
  PROVE  i \in DOMAIN flo /\ flo[i].name \in Nr \ there
<1>1. PICK n \in Missing : i = First(Open(n))
  BY DEF Dangling
<1>2. n \in Nr \ there /\ Listed(n)
  BY <1>1 DEF Missing, Listed
<1> QED
  BY <1>1, <1>2, OpenLine

\* A line that is marked, and a line that is added, in a .flo file.
LEMMA Marked ==
  ASSUME flo \in Seq(Line), NEW l \in DOMAIN flo, flo' = [flo EXCEPT ![l].sent = TRUE]
  PROVE  /\ flo' \in Seq(Line) /\ DOMAIN flo' = DOMAIN flo /\ Len(flo') = Len(flo)
         /\ \A i \in DOMAIN flo : flo'[i].name = flo[i].name
         /\ \A i \in DOMAIN flo : i # l => flo'[i] = flo[i]
<1>1. PICK x : x = [flo[l] EXCEPT !.sent = TRUE]
  OBVIOUS
<1>2. flo[l] \in Line
  OBVIOUS
<1>3. x \in Line /\ x.name = flo[l].name
  BY <1>1, <1>2 DEF Line
<1>4. flo' = [flo EXCEPT ![l] = x]
  BY <1>1
<1>5. PICK n \in Nat : flo \in [1..n -> Line] /\ Len(flo) = n
  OBVIOUS
<1>6. flo' \in [1..n -> Line] /\ flo'[l] = x /\ \A i \in 1..n : i # l => flo'[i] = flo[i]
  BY <1>3, <1>4, <1>5
<1>7. flo' \in Seq(Line) /\ Len(flo') = n /\ DOMAIN flo' = 1..n /\ DOMAIN flo = 1..n
  BY <1>5, <1>6, IsASeq, LenProperties
<1> QED
  BY <1>3, <1>5, <1>6, <1>7

LEMMA MarkedListed ==
  ASSUME flo \in Seq(Line), NEW l \in DOMAIN flo, flo' = [flo EXCEPT ![l].sent = TRUE],
         NEW name, name # flo[l].name, Listed(name)
  PROVE  Listed(name)'
<1>1. PICK i \in DOMAIN flo : flo[i].name = name /\ ~flo[i].sent
  BY DEF Listed, Open
<1>2. flo'[i] = flo[i] /\ i \in DOMAIN flo'
  BY <1>1, Marked
<1> QED
  BY <1>1, <1>2 DEF Listed, Open

LEMMA Appended ==
  ASSUME flo \in Seq(Line), NEW n \in Nr \union File, flo' = Append(flo, [name |-> n, sent |-> FALSE])
  PROVE  flo' \in Seq(Line) /\ Listed(n)' /\ \A name : Listed(name) => Listed(name)'
<1>1. [name |-> n, sent |-> FALSE] \in Line
  BY DEF Line
<1>2. /\ flo' \in Seq(Line) /\ Len(flo) + 1 \in DOMAIN flo'
      /\ flo'[Len(flo) + 1] = [name |-> n, sent |-> FALSE]
      /\ \A i \in DOMAIN flo : i \in DOMAIN flo' /\ flo'[i] = flo[i]
  BY <1>1
<1>3. Listed(n)'
  BY <1>2 DEF Listed, Open
<1>4. ASSUME NEW name, Listed(name) PROVE Listed(name)'
  BY <1>2, <1>4 DEF Listed, Open
<1> QED
  BY <1>2, <1>3, <1>4

LEMMA Left ==
  ASSUME flo \in Seq(Line), flo' = FloLeft
  PROVE  /\ flo' \in Seq(Line) /\ \A name : Listed(name) => Listed(name)'
         /\ \A i \in DOMAIN flo' : i \in DOMAIN flo /\ flo'[i] = flo[i]
<1>1. CASE \A i \in DOMAIN flo : flo[i].sent
  <2>1. flo' = <<>>
    BY <1>1 DEF FloLeft
  <2>2. \A name : ~Listed(name)
    BY <1>1 DEF Listed, Open
  <2> QED
    BY <2>1, <2>2
<1>2. CASE ~\A i \in DOMAIN flo : flo[i].sent
  <2>1. flo' = flo
    BY <1>2 DEF FloLeft
  <2> QED
    BY <2>1 DEF Listed, Open
<1> QED
  BY <1>1, <1>2

\* The list of a session has its lines from the .flo file.
LEMMA ListType ==
  ASSUME flo \in Seq(Line)
  PROVE  /\ List \in Seq(Entry)
         /\ \A k \in DOMAIN List :
              List[k].line \in DOMAIN flo => flo[List[k].line].name = List[k].name
<1> DEFINE S == {i \in DOMAIN flo : ~flo[i].sent /\ i \notin Dangling}
           lines == InOrder(S)
           E == [k \in DOMAIN lines |-> [name |-> flo[lines[k]].name, line |-> lines[k]]]
           p == [name |-> Packet, line |-> 0]
<1>1. S \in FiniteSubsetsOf(Nat)
  <2>1. S \subseteq 1..Len(flo) /\ Len(flo) \in Nat
    OBVIOUS
  <2> HIDE DEF S
  <2>2. IsFiniteSet(1..Len(flo)) /\ S \subseteq Nat
    BY <2>1, FS_Interval
  <2>3. IsFiniteSet(S)
    BY <2>1, <2>2, FS_Subset
  <2> QED
    BY <2>2, <2>3 DEF FiniteSubsetsOf
<1>2. lines \in [1..Cardinality(S) -> S] /\ Cardinality(S) \in Nat
  <2> HIDE DEF S
  <2> QED
    BY <1>1, InOrderType
<1>3. E \in Seq(Entry) /\ \A k \in DOMAIN E : E[k].line \in DOMAIN flo /\ flo[E[k].line].name = E[k].name
  <2>1. PICK c \in Nat : lines \in [1..c -> S]
    BY <1>2
  <2> HIDE DEF lines
  <2>2. ASSUME NEW k \in 1..c
        PROVE /\ [name |-> flo[lines[k]].name, line |-> lines[k]] \in Entry
              /\ lines[k] \in DOMAIN flo
    <3>1. lines[k] \in DOMAIN flo /\ lines[k] \in Nat
      BY <2>1, <1>1 DEF FiniteSubsetsOf
    <3>2. flo[lines[k]] \in Line
      BY <3>1
    <3> QED
      BY <3>1, <3>2 DEF Entry, Line
  <2>3. E \in [1..c -> Entry]
    BY <2>1, <2>2
  <2>4. E \in Seq(Entry) /\ DOMAIN E = 1..c
    BY <2>3, IsASeq
  <2> QED
    BY <2>2, <2>4
<1>4. p \in Entry /\ <<p>> \in Seq(Entry)
  BY DEF Entry
<1>5. List = IF outpkt = {} THEN E ELSE <<p>> \o E
  BY DEF List
<1> HIDE DEF E
<1>6. CASE outpkt = {}
  BY <1>3, <1>5, <1>6
<1>7. CASE outpkt # {}
  <2>1. List = <<p>> \o E /\ List \in Seq(Entry)
    BY <1>3, <1>4, <1>5, <1>7
  <2>2. ASSUME NEW k \in DOMAIN List, List[k].line \in DOMAIN flo
        PROVE  flo[List[k].line].name = List[k].name
    <3>1. k # 1
      BY <1>3, <2>1, <2>2
    <3>2. k - 1 \in DOMAIN E /\ List[k] = E[k - 1]
      BY <1>3, <1>4, <2>1, <2>2, <3>1
    <3> QED
      BY <1>3, <3>2
  <2> QED
    BY <2>1, <2>2
<1> QED
  BY <1>6, <1>7

LEMMA Looked ==
  ASSUME flo \in Seq(Line),
         flo' = [i \in DOMAIN flo |-> [flo[i] EXCEPT !.sent = @ \/ i \in Dangling]]
  PROVE  /\ flo' \in Seq(Line) /\ DOMAIN flo' = DOMAIN flo
         /\ \A i \in DOMAIN flo : flo'[i].name = flo[i].name
         /\ \A name : name \notin Nr \ there /\ Listed(name) => Listed(name)'
<1>1. PICK n \in Nat : flo \in [1..n -> Line]
  OBVIOUS
<1>2. ASSUME NEW i \in 1..n
      PROVE  /\ flo'[i] \in Line /\ flo'[i].name = flo[i].name
             /\ i \notin Dangling => flo'[i] = flo[i]
  <2>1. flo[i] \in Line /\ flo'[i] = [flo[i] EXCEPT !.sent = @ \/ i \in Dangling]
    BY <1>1
  <2>2. CASE i \in Dangling
    <3>1. flo'[i] = [flo[i] EXCEPT !.sent = TRUE]
      BY <2>1, <2>2 DEF Line
    <3> QED
      BY <2>1, <2>2, <3>1, ZenonT(60) DEF Line
  <2>3. CASE i \notin Dangling
    <3>1. flo'[i] = flo[i]
      BY <2>1, <2>3 DEF Line
    <3> QED
      BY <2>1, <3>1 DEF Line
  <2> QED
    BY <2>2, <2>3
<1>3. flo' \in [1..n -> Line]
  BY <1>1, <1>2
<1>4. flo' \in Seq(Line) /\ DOMAIN flo' = 1..n /\ DOMAIN flo = 1..n
  BY <1>1, <1>3, IsASeq
<1>5. ASSUME NEW name, name \notin Nr \ there, Listed(name) PROVE Listed(name)'
  <2>1. PICK i \in DOMAIN flo : flo[i].name = name /\ ~flo[i].sent
    BY <1>5 DEF Listed, Open
  <2>2. i \notin Dangling
    BY <1>5, <2>1, DanglingLine
  <2>3. i \in DOMAIN flo' /\ flo'[i] = flo[i]
    BY <1>2, <1>4, <2>1, <2>2
  <2> QED
    BY <2>1, <2>3 DEF Listed, Open
<1> QED
  BY <1>2, <1>4, <1>5

(***************************************************************************)
(* Every variable keeps its type.  A part of TypeOK for each process and   *)
(* for what they share.                                                    *)
(***************************************************************************)
QueueOK ==
  /\ queue \subseteq Mail \union Net \union File
  /\ new \subseteq Mail \union Net \union File /\ delivered \subseteq Mail \union Net
  /\ due \subseteq File
ArchivesOK ==
  /\ there \subseteq Nr /\ holds \in [Nr -> SUBSET Mail] /\ age \in [Nr -> Age]
  /\ \A n \in Nr \ there : holds[n] = {}
  /\ outpkt \subseteq Net
HistoryOK ==
  purged \subseteq Mail /\ robbed \subseteq Mail /\ spoilt \subseteq Net /\ orphan \subseteq Nr \union File
FlushOK ==
  fl \in [at : {"idle", "left", "pack", "packed", "appended", "files", "unattached"},
          todo : SUBSET (Mail \union File), nr : Nr, item : Mail \union File \union {Packet}, attach : BOOLEAN]
SessionOK ==
  /\ se \in [at : {"idle", "talk", "got", "cut"}, list : Seq(Entry), sent : Nat, got : Nat,
             gone : SUBSET Nat, done : SUBSET Nat, turn : Nat]
  /\ se.got <= se.sent /\ se.sent <= Len(se.list) /\ se.gone \subseteq 1..se.sent
  /\ se.at \in {"got", "cut"} => se.turn \in 1..Len(se.list) + 1
ScanOK == sc \in {[at |-> "idle"]} \union [at : {"empty", "held"}, nr : Nr, saw : SUBSET Mail]
FloOK == flo \in Seq(Line)
OthersOK ==
  /\ lock \in {"free", "ftnfido", "ftncico"}
  /\ faults \in 0..MaxFaults /\ weeks \in 0..MaxWeeks

LEMMA Parts ==
  TypeOK <=> /\ QueueOK /\ ArchivesOK /\ HistoryOK /\ FlushOK /\ SessionOK /\ ScanOK /\ FloOK /\ OthersOK
BY SMTT(60) DEF TypeOK, FloOK, QueueOK, ArchivesOK, HistoryOK, FlushOK, SessionOK, ScanOK, OthersOK

(***************************************************************************)
(* What else holds, whoever is where.                                      *)
(***************************************************************************)

\* Who works at the node has locked it.
Locked ==
  /\ fl.at # "idle" <=> lock = "ftnfido"
  /\ se.at # "idle" <=> lock = "ftncico"

\* What ftnfido is about to take from the queue is in a safe place.
Packed(m) == (\E n \in there : m \in holds[n]) \/ m \in delivered \union purged \union robbed \union spoilt
FlushSafe ==
  /\ fl.at = "packed" => fl.item \in Mail /\ Packed(fl.item)
  /\ fl.at = "appended" => queue \intersect Net \subseteq outpkt \union spoilt
  /\ fl.at \in {"files", "unattached"} => fl.todo \subseteq queue \intersect File
  /\ fl.at = "unattached" => fl.item \in File

\* The session disposes of the entry after those that are acknowledged, whatever turn
\* of the loop over its list it is in.
Turn ==
  /\ se.at \in {"got", "cut"} =>
       /\ se.got < se.sent
       /\ se.turn <= Len(se.list) => se.list[se.turn].name = se.list[se.got + 1].name
  /\ se.at = "cut" => se.turn <= Len(se.list)

\* What was sent has arrived as it is in the outbound now.
HasArrived(name) ==
  /\ name \in Nr => holds[name] \subseteq delivered
  /\ name = Packet => outpkt \subseteq delivered
  /\ name \in due => name \in queue
Sent == se.at # "idle" => \A k \in 1..se.sent : HasArrived(se.list[k].name)

\* The line the session marks is one of the name it has sent.
Lines ==
  se.at # "idle" =>
    \A k \in DOMAIN se.list : se.list[k].line \in DOMAIN flo => flo[se.list[k].line].name = se.list[k].name

\* An archive with mail that no line names is about to be listed or to be truncated.
Held(n) ==
  \/ Listed(n) \/ n \in orphan
  \/ fl.at = "packed" /\ fl.attach /\ fl.nr = n
  \/ se.at = "cut" /\ se.list[se.turn].name = n
ArchivesListed == \A n \in there : holds[n] # {} => Held(n)

FilesListed == \A f \in due : f \in queue \/ Listed(f) \/ f \in orphan

\* The files ftnfido has done are listed, but for those attach could not list.
FilesDone ==
  fl.at \in {"files", "unattached"} =>
    \A f \in queue \intersect File : f \in fl.todo \/ (fl.at = "unattached" /\ f = fl.item) \/ Listed(f) \/ f \in orphan

IInv ==
  /\ TypeOK /\ Locked /\ FlushSafe /\ Turn /\ Sent /\ Lines
  /\ ArchivesListed /\ FilesListed /\ FilesDone /\ NothingLost

\* A line is marked, and what was answered is counted or not.
Marks(i) == \E d \in {se.done, se.done \union {i}} : Mark(i, d)

LEMMA MarkedBy == (ReceiveGot => Marks(NextSame(1))) /\ (MarkAgain => Marks(se.turn))
BY Zenon DEF ReceiveGot, MarkAgain, Marks

\* Who changes what.
LEMMA QueueMoves ==
  [Next]_vars => \/ UNCHANGED <<queue, new, delivered, due>>
                 \/ (\E x \in new : AddMail(x)) \/ Unpack \/ AttachFails \/ DropPacket \/ EndFlush
                 \/ Transfer
BY ZenonT(60) DEF Next, Flush, FlushFails, Talk, vars, files, history, bounds, BeginFlush, NoArchiver,
   LeaveNode, Pack, PackFails, AppendPacket, AppendFails, OpenFails, UnAttach, Attach, FileFails,
   BeginSession, FileGone, ReceiveGot, MarkAgain, Unanswered, Dispose, FloTurn, EndSession, HangUp, Cut,
   ScanLook, ScanUnlink, KillFlush, KillSession, WeekPasses, Idle, Mark

LEMMA ArchivesMove ==
  [Next]_vars => \/ UNCHANGED <<there, holds, age, outpkt>>
                 \/ (\E m \in Mail : Pack(m)) \/ (\E m \in Mail : PackFails(m)) \/ AppendPacket
                 \/ (\E lost \in SUBSET (queue \intersect Net) : AppendFails(lost)) \/ BeginSession
                 \/ Dispose \/ ScanUnlink \/ WeekPasses
BY ZenonT(60) DEF Next, Flush, FlushFails, Talk, vars, files, history, bounds, AddMail, BeginFlush,
   NoArchiver, LeaveNode, Unpack, AttachFails, OpenFails, DropPacket, UnAttach, Attach, FileFails,
   EndFlush, Transfer, FileGone, ReceiveGot, MarkAgain, Unanswered, FloTurn, EndSession, HangUp, Cut,
   ScanLook, KillFlush, KillSession, Idle, Mark

LEMMA HistoryMoves ==
  [Next]_vars => \/ UNCHANGED <<purged, robbed, spoilt, orphan>>
                 \/ (\E m \in Mail : PackFails(m)) \/ Unpack \/ AttachFails
                 \/ (\E lost \in SUBSET (queue \intersect Net) : AppendFails(lost)) \/ Attach
                 \/ FileFails \/ Dispose \/ ScanUnlink \/ KillFlush \/ KillSession
BY ZenonT(60) DEF Next, Flush, FlushFails, Talk, vars, files, history, bounds, AddMail, BeginFlush,
   NoArchiver, LeaveNode, Pack, AppendPacket, OpenFails, DropPacket, UnAttach, EndFlush, BeginSession,
   Transfer, FileGone, ReceiveGot, MarkAgain, Unanswered, FloTurn, EndSession, HangUp, Cut, ScanLook,
   WeekPasses, Idle, Mark

LEMMA FlushMoves ==
  [Next]_vars => \/ UNCHANGED fl
                 \/ BeginFlush \/ NoArchiver \/ LeaveNode \/ (\E m \in Mail : Pack(m))
                 \/ (\E m \in Mail : PackFails(m)) \/ Unpack \/ AttachFails \/ AppendPacket
                 \/ (\E lost \in SUBSET (queue \intersect Net) : AppendFails(lost)) \/ OpenFails
                 \/ DropPacket \/ (\E f \in File : UnAttach(f)) \/ Attach \/ FileFails \/ EndFlush
                 \/ KillFlush
BY ZenonT(60) DEF Next, Flush, FlushFails, Talk, vars, files, history, bounds, AddMail, BeginSession,
   Transfer, FileGone, ReceiveGot, MarkAgain, Unanswered, Dispose, FloTurn, EndSession, HangUp, Cut,
   ScanLook, ScanUnlink, KillSession, WeekPasses, Idle, Mark

LEMMA SessionMoves ==
  [Next]_vars => \/ UNCHANGED se
                 \/ BeginSession \/ Transfer \/ FileGone \/ ReceiveGot \/ MarkAgain \/ Unanswered
                 \/ Dispose \/ FloTurn \/ EndSession \/ HangUp \/ Cut \/ KillSession
BY ZenonT(60) DEF Next, Flush, FlushFails, Talk, vars, files, history, bounds, AddMail, BeginFlush,
   NoArchiver, LeaveNode, Pack, PackFails, Unpack, AttachFails, AppendPacket, AppendFails, OpenFails,
   DropPacket, UnAttach, Attach, FileFails, EndFlush, ScanLook, ScanUnlink, KillFlush, WeekPasses, Idle

LEMMA ScanMoves ==
  [Next]_vars => \/ UNCHANGED sc
                 \/ (\E n \in Nr : ScanLook(n)) \/ ScanUnlink
BY ZenonT(60) DEF Next, Flush, FlushFails, Talk, vars, files, history, bounds, AddMail, BeginFlush,
   NoArchiver, LeaveNode, Pack, PackFails, Unpack, AttachFails, AppendPacket, AppendFails, OpenFails,
   DropPacket, UnAttach, Attach, FileFails, EndFlush, BeginSession, Transfer, FileGone, ReceiveGot,
   MarkAgain, Unanswered, Dispose, FloTurn, EndSession, HangUp, Cut, KillFlush, KillSession, WeekPasses,
   Idle, Mark

LEMMA FloMoves ==
  [Next]_vars => \/ UNCHANGED flo
                 \/ Unpack \/ (\E f \in File : UnAttach(f)) \/ Attach \/ BeginSession \/ ReceiveGot
                 \/ MarkAgain \/ FloTurn \/ EndSession
BY ZenonT(60) DEF Next, Flush, FlushFails, Talk, vars, files, history, bounds, AddMail, BeginFlush,
   NoArchiver, LeaveNode, Pack, PackFails, AttachFails, AppendPacket, AppendFails, OpenFails, DropPacket,
   FileFails, EndFlush, Transfer, FileGone, Unanswered, Dispose, HangUp, Cut, ScanLook, ScanUnlink,
   KillFlush, KillSession, WeekPasses, Idle

LEMMA LockMoves ==
  [Next]_vars => \/ UNCHANGED lock
                 \/ BeginFlush \/ NoArchiver \/ LeaveNode \/ EndFlush \/ KillFlush \/ BeginSession
                 \/ EndSession \/ HangUp \/ Cut \/ KillSession
BY ZenonT(60) DEF Next, Flush, FlushFails, Talk, vars, files, history, bounds, AddMail, Pack, PackFails,
   Unpack, AttachFails, AppendPacket, AppendFails, OpenFails, DropPacket, UnAttach, Attach, FileFails,
   Transfer, FileGone, ReceiveGot, MarkAgain, Unanswered, Dispose, FloTurn, ScanLook, ScanUnlink,
   WeekPasses, Idle, Mark

LEMMA BoundsMove ==
  ASSUME OthersOK, [Next]_vars
  PROVE  faults' \in 0..MaxFaults /\ weeks' \in 0..MaxWeeks
<1>1. \/ UNCHANGED bounds \/ Fault \/ WeekPasses
  BY ZenonT(60) DEF Next, Flush, FlushFails, Talk, vars, files, history, bounds, AddMail, BeginFlush,
     NoArchiver, LeaveNode, Pack, PackFails, Unpack, AttachFails, AppendPacket, AppendFails, OpenFails,
     DropPacket, UnAttach, Attach, FileFails, EndFlush, BeginSession, Transfer, FileGone, ReceiveGot,
     MarkAgain, Unanswered, Dispose, FloTurn, EndSession, HangUp, Cut, ScanLook, ScanUnlink, KillFlush,
     KillSession, Idle, Mark
<1> QED
  BY <1>1, BoundsKnown DEF OthersOK, bounds, Fault, WeekPasses

\* The name the session is about is one of the .flo file or the packet.
LEMMA EntryName ==
  ASSUME SessionOK, NEW k \in 1..Len(se.list)
  PROVE  se.list[k] \in Entry /\ se.list[k].name \in Nr \union File \union {Packet} /\ se.list[k].line \in Nat
<1>1. se.list \in Seq(Entry)
  BY DEF SessionOK
<1>2. se.list[k] \in Entry
  BY <1>1
<1> QED
  BY <1>2 DEF Entry

LEMMA KeepsQueue ==
  ASSUME TypeOK, [Next]_vars
  PROVE  QueueOK'
<1>1. QueueOK /\ ArchivesOK /\ SessionOK
  BY Parts
<1>2. CASE UNCHANGED <<queue, new, delivered, due>>
  BY <1>1, <1>2 DEF QueueOK
<1>3. CASE \E x \in new : AddMail(x)
  BY <1>1, <1>3 DEF QueueOK, AddMail
<1>4. CASE Unpack
  BY <1>1, <1>4 DEF QueueOK, Unpack
<1>5. CASE DropPacket \/ AttachFails
  BY <1>1, <1>5 DEF QueueOK, DropPacket, AttachFails
<1>6. CASE EndFlush
  BY <1>1, <1>6 DEF QueueOK, EndFlush
<1>7. CASE Transfer
  <2> DEFINE name == se.list[se.sent + 1].name
             more == IF name = Packet THEN outpkt ELSE IF name \in Nr THEN holds[name] ELSE {}
  <2>1. more \subseteq Mail \union Net
    BY <1>1 DEF ArchivesOK
  <2>2. delivered' = delivered \union more /\ due' = due \ {name} /\ UNCHANGED <<queue, new>>
    BY <1>7 DEF Transfer
  <2> HIDE DEF more
  <2> QED
    BY <1>1, <2>1, <2>2 DEF QueueOK
<1> QED
  BY <1>2, <1>3, <1>4, <1>5, <1>6, <1>7, QueueMoves

\* An archive that is emptied.
LEMMA EmptiedOK ==
  ASSUME ArchivesOK, NEW n \in Nr, NEW set, Emptied(n, set), set \subseteq Nr, there \ {n} \subseteq set
  PROVE  /\ there' = set /\ holds' \in [Nr -> SUBSET Mail] /\ holds'[n] = {}
         /\ \A k \in Nr : k # n => holds'[k] = holds[k]
         /\ \A k \in Nr \ there' : holds'[k] = {}
<1>1. there' = set /\ holds' = [holds EXCEPT ![n] = {}] /\ holds \in [Nr -> SUBSET Mail]
  BY DEF ArchivesOK, Emptied
<1>2. holds' \in [Nr -> SUBSET Mail] /\ holds'[n] = {} /\ \A k \in Nr : k # n => holds'[k] = holds[k]
  BY <1>1
<1>3. \A k \in Nr \ there' : holds'[k] = {}
  BY <1>1, <1>2 DEF ArchivesOK
<1> QED
  BY <1>1, <1>2, <1>3

LEMMA KeepsArchives ==
  ASSUME TypeOK, [Next]_vars
  PROVE  ArchivesOK'
<1>1. QueueOK /\ ArchivesOK /\ SessionOK /\ FlushOK /\ ScanOK /\ FloOK
  BY Parts
<1>2. CASE UNCHANGED <<there, holds, age, outpkt>>
  BY <1>1, <1>2 DEF ArchivesOK
<1>3. CASE \E m \in Mail : Pack(m)
  <2>1. PICK m \in Mail : Pack(m)
    BY <1>3
  <2>2. PICK n : n = Arcfile(fl.nr)
    OBVIOUS
  <2>3. n \in Nr
    BY <1>1, <2>2, ArcfileType DEF FlushOK
  <2>4. /\ there' = there \union {n} /\ holds' = [holds EXCEPT ![n] = @ \union {m}]
        /\ age' = [age EXCEPT ![n] = 0] /\ UNCHANGED outpkt
    BY <2>1, <2>2 DEF Pack
  <2>5. holds' \in [Nr -> SUBSET Mail] /\ \A k \in Nr : k # n => holds'[k] = holds[k]
    BY <1>1, <2>3, <2>4 DEF ArchivesOK
  <2>6. age' \in [Nr -> Age]
    BY <1>1, <2>3, <2>4 DEF ArchivesOK, Age
  <2> QED
    BY <1>1, <2>3, <2>4, <2>5, <2>6 DEF ArchivesOK
<1>4. CASE \E m \in Mail : PackFails(m)
  <2>1. PICK m \in Mail : PackFails(m)
    BY <1>4
  <2>2. PICK n : n = Arcfile(fl.nr)
    OBVIOUS
  <2>3. n \in Nr
    BY <1>1, <2>2, ArcfileType DEF FlushOK
  <2>4. /\ IF Truncated(n) THEN Emptied(n, there \ {n}) ELSE UNCHANGED <<there, holds>>
        /\ UNCHANGED <<age, outpkt>>
    BY <2>1, <2>2 DEF PackFails
  <2>5. CASE Truncated(n)
    BY <1>1, <2>3, <2>4, <2>5, EmptiedOK DEF ArchivesOK
  <2>6. CASE ~Truncated(n)
    BY <1>1, <2>4, <2>6 DEF ArchivesOK
  <2> QED
    BY <2>5, <2>6
<1>5. CASE AppendPacket \/ \E lost \in SUBSET (queue \intersect Net) : AppendFails(lost)
  <2>1. UNCHANGED files /\ outpkt' \subseteq outpkt \union Net
    BY <1>5 DEF AppendPacket, AppendFails
  <2> QED
    BY <1>1, <2>1 DEF ArchivesOK, files
<1>6. CASE BeginSession
  <2>1. there' = there \union Missing /\ Missing \subseteq Nr /\ UNCHANGED <<holds, outpkt>>
    BY <1>6 DEF BeginSession, Missing
  <2>2. age' = [n \in Nr |-> IF n \in Missing THEN 0 ELSE age[n]]
    BY <1>6 DEF BeginSession
  <2>3. age' \in [Nr -> Age]
    BY <1>1, <2>2 DEF ArchivesOK, Age
  <2> QED
    BY <1>1, <2>1, <2>3 DEF ArchivesOK
<1>7. CASE Dispose
  <2>1. PICK name : name = se.list[se.turn].name
    OBVIOUS
  <2>2. outpkt' \subseteq Net
    BY <1>1, <1>7 DEF Dispose, ArchivesOK
  <2>3. CASE name \in Nr
    <3>1. Emptied(name, there \union {name}) /\ age' = [age EXCEPT ![name] = 0]
      BY <1>7, <2>1, <2>3 DEF Dispose
    <3>2. age' \in [Nr -> Age]
      BY <1>1, <2>3, <3>1 DEF ArchivesOK, Age
    <3>3. there \union {name} \subseteq Nr
      BY <1>1, <2>3 DEF ArchivesOK
    <3> QED
      BY <1>1, <2>2, <2>3, <3>1, <3>2, <3>3, EmptiedOK DEF ArchivesOK
  <2>4. CASE name \notin Nr
    BY <1>1, <1>7, <2>1, <2>2, <2>4 DEF Dispose, ArchivesOK, files
  <2> QED
    BY <2>3, <2>4
<1>8. CASE ScanUnlink
  <2>1. sc.nr \in Nr /\ Emptied(sc.nr, there \ {sc.nr}) /\ UNCHANGED <<age, outpkt>>
    BY <1>1, <1>8 DEF ScanUnlink, ScanOK
  <2> QED
    BY <1>1, <2>1, EmptiedOK DEF ArchivesOK
<1>9. CASE WeekPasses
  <2>1. /\ age' = [n \in Nr |-> IF n \in there /\ age[n] < 2 THEN age[n] + 1 ELSE age[n]]
        /\ UNCHANGED <<there, holds, outpkt>>
    BY <1>9 DEF WeekPasses
  <2>2. age' \in [Nr -> Age]
    BY <1>1, <2>1 DEF ArchivesOK, Age
  <2> QED
    BY <1>1, <2>1, <2>2 DEF ArchivesOK
<1> QED
  BY <1>2, <1>3, <1>4, <1>5, <1>6, <1>7, <1>8, <1>9, ArchivesMove

LEMMA KeepsHistory ==
  ASSUME TypeOK, FlushSafe, [Next]_vars
  PROVE  HistoryOK'
<1>1. ArchivesOK /\ HistoryOK /\ FlushOK /\ ScanOK
  BY Parts
<1>2. CASE UNCHANGED <<purged, robbed, spoilt, orphan>>
  BY <1>1, <1>2 DEF HistoryOK
<1>3. CASE \E m \in Mail : PackFails(m)
  BY <1>1, <1>3 DEF HistoryOK, PackFails, Emptied, history
<1>4. CASE Unpack \/ AttachFails \/ Attach \/ FileFails
  <2>1. fl.nr \in Nr /\ UNCHANGED <<purged, robbed, spoilt>>
    BY <1>1, <1>4 DEF FlushOK, Unpack, AttachFails, Attach, FileFails, history
  <2>2. orphan' \subseteq orphan \union Nr \union File
    BY <1>4, <2>1 DEF Unpack, AttachFails, Attach, FileFails, FlushSafe
  <2> QED
    BY <1>1, <2>1, <2>2 DEF HistoryOK
<1>9. CASE \E lost \in SUBSET (queue \intersect Net) : AppendFails(lost)
  BY <1>1, <1>9 DEF HistoryOK, AppendFails
<1>5. CASE Dispose
  BY <1>1, <1>5 DEF HistoryOK, Dispose, Emptied, history
<1>6. CASE ScanUnlink
  <2>1. sc.nr \in Nr
    BY <1>1, <1>6 DEF ScanUnlink, ScanOK
  <2>2. holds[sc.nr] \subseteq Mail
    BY <1>1, <2>1 DEF ArchivesOK
  <2> QED
    BY <1>1, <1>6, <2>2 DEF HistoryOK, ScanUnlink, Emptied
<1>7. CASE KillFlush
  BY <1>1, <1>7 DEF HistoryOK, KillFlush, FlushOK, history
<1>8. CASE KillSession
  BY <1>1, <1>8 DEF HistoryOK, KillSession, ArchivesOK, history
<1> QED
  BY <1>2, <1>3, <1>4, <1>5, <1>6, <1>7, <1>8, <1>9, HistoryMoves

LEMMA NoFlushOK == NoFlush \in [at : {"idle", "left", "pack", "packed", "appended", "files", "unattached"},
          todo : SUBSET (Mail \union File), nr : Nr, item : Mail \union File \union {Packet}, attach : BOOLEAN]
BY BoundsKnown DEF NoFlush, Nr

LEMMA KeepsFlush ==
  ASSUME TypeOK, [Next]_vars
  PROVE  FlushOK'
<1>1. QueueOK /\ FlushOK
  BY Parts
<1>2. CASE UNCHANGED fl
  BY <1>1, <1>2 DEF FlushOK
<1>3. CASE BeginFlush
  <2>1. fl' = [NoFlush EXCEPT !.at = "pack", !.todo = queue \intersect Mail]
    BY <1>3 DEF BeginFlush
  <2> QED
    BY <2>1, NoFlushOK DEF FlushOK
<1>4. CASE \E m \in Mail : Pack(m)
  <2>1. PICK m \in Mail : Pack(m)
    BY <1>4
  <2>2. PICK n : n = Arcfile(fl.nr)
    OBVIOUS
  <2>3. n \in Nr
    BY <1>1, <2>2, ArcfileType DEF FlushOK
  <2>4. PICK a \in BOOLEAN : a = Fresh(n)
    BY DEF Fresh
  <2>5. fl' = [at |-> "packed", todo |-> fl.todo \ {m}, nr |-> n, item |-> m, attach |-> a]
    BY <2>1, <2>2, <2>4 DEF Pack
  <2> QED
    BY <1>1, <2>3, <2>5 DEF FlushOK
<1>5. CASE \E m \in Mail : PackFails(m)
  <2>1. PICK m \in Mail : PackFails(m)
    BY <1>5
  <2>2. PICK n : n = Arcfile(fl.nr)
    OBVIOUS
  <2>3. n \in Nr
    BY <1>1, <2>2, ArcfileType DEF FlushOK
  <2>4. fl' = [fl EXCEPT !.todo = @ \ {m}, !.nr = n]
    BY <2>1, <2>2 DEF PackFails
  <2> QED
    BY <1>1, <2>3, <2>4 DEF FlushOK
<1>6. CASE Unpack \/ AttachFails
  BY <1>1, <1>6 DEF FlushOK, Unpack, AttachFails
<1>7. CASE AppendPacket \/ \E lost \in SUBSET (queue \intersect Net) : AppendFails(lost)
  <2>1. fl' = [fl EXCEPT !.at = "appended"]
    BY <1>7 DEF AppendPacket, AppendFails
  <2> QED
    BY <1>1, <2>1 DEF FlushOK
<1>8. CASE DropPacket \/ OpenFails
  BY <1>1, <1>8 DEF FlushOK, DropPacket, OpenFails
<1>9. CASE \E f \in File : UnAttach(f)
  <2>1. PICK f \in File : UnAttach(f)
    BY <1>9
  <2>2. fl' = [fl EXCEPT !.at = "unattached", !.todo = @ \ {f}, !.item = f]
    BY <2>1 DEF UnAttach
  <2> QED
    BY <1>1, <2>2 DEF FlushOK
<1>10. CASE Attach \/ FileFails
  BY <1>1, <1>10 DEF FlushOK, Attach, FileFails
<1>11. CASE EndFlush \/ LeaveNode \/ KillFlush
  BY <1>11, NoFlushOK DEF FlushOK, EndFlush, LeaveNode, KillFlush
<1>12. CASE NoArchiver
  <2>1. fl' = [NoFlush EXCEPT !.at = "left"]
    BY <1>12 DEF NoArchiver
  <2> QED
    BY <2>1, NoFlushOK DEF FlushOK
<1> QED
  BY <1>2, <1>3, <1>4, <1>5, <1>6, <1>7, <1>8, <1>9, <1>10, <1>11, <1>12, FlushMoves

\* NextSame gives an entry of the acknowledged name, or the end of the list.
LEMMA NextSameIs ==
  ASSUME SessionOK, NEW i \in Nat, i >= 1
  PROVE  /\ NextSame(i) \in 1..Len(se.list) + 1
         /\ NextSame(i) <= Len(se.list) => se.list[NextSame(i)].name = se.list[se.got + 1].name
         /\ Same(i) # {} => NextSame(i) <= Len(se.list)
<1>1. Len(se.list) \in Nat
  BY DEF SessionOK
<1>2. CASE Same(i) = {}
  <2>1. NextSame(i) = Len(se.list) + 1
    BY <1>2 DEF NextSame
  <2> QED
    BY <1>1, <1>2, <2>1
<1>3. CASE Same(i) # {}
  <2>1. Same(i) \subseteq Nat
    BY <1>1 DEF Same
  <2>2. First(Same(i)) \in Same(i)
    BY <1>3, <2>1, FirstIsLeast
  <2>3. NextSame(i) \in Same(i)
    BY <1>3, <2>2 DEF NextSame
  <2>4. NextSame(i) \in i..Len(se.list) /\ se.list[NextSame(i)].name = se.list[se.got + 1].name
    BY <2>3 DEF Same
  <2> QED
    BY <1>1, <2>4
<1> QED
  BY <1>2, <1>3

SessionType == [at : {"idle", "talk", "got", "cut"}, list : Seq(Entry), sent : Nat, got : Nat,
                gone : SUBSET Nat, done : SUBSET Nat, turn : Nat]

LEMMA NoSessionOK ==
  /\ NoSession \in SessionType
  /\ NoSession.got <= NoSession.sent /\ NoSession.sent <= Len(NoSession.list)
  /\ NoSession.gone \subseteq 1..NoSession.sent /\ NoSession.at = "idle"
<1>1. <<>> \in Seq(Entry) /\ Len(<<>>) = 0
  BY EmptySeq
<1> QED
  BY <1>1 DEF NoSession, SessionType

\* One field of the session after the other.
LEMMA SetSent == \A r \in SessionType : \A n \in Nat : [r EXCEPT !.sent = n] \in SessionType
BY DEF SessionType
LEMMA SetGot == \A r \in SessionType : \A n \in Nat : [r EXCEPT !.got = n] \in SessionType
BY DEF SessionType
LEMMA SetTurn == \A r \in SessionType : \A n \in Nat : [r EXCEPT !.turn = n] \in SessionType
BY DEF SessionType
LEMMA SetGone == \A r \in SessionType : \A g \in SUBSET Nat : [r EXCEPT !.gone = g] \in SessionType
BY DEF SessionType
LEMMA SetDone == \A r \in SessionType : \A g \in SUBSET Nat : [r EXCEPT !.done = g] \in SessionType
BY DEF SessionType
LEMMA SetAt ==
  \A r \in SessionType : \A a \in {"idle", "talk", "got", "cut"} : [r EXCEPT !.at = a] \in SessionType
BY DEF SessionType

LEMMA KeepsSession ==
  ASSUME TypeOK, Turn, [Next]_vars
  PROVE  SessionOK'
<1>1. SessionOK /\ FloOK /\ se \in SessionType /\ Len(se.list) \in Nat
  BY Parts DEF SessionOK, SessionType
<1>0. se.sent + 1 \in Nat /\ se.got + 1 \in Nat
  BY <1>1 DEF SessionType
<1>2. CASE UNCHANGED se
  BY <1>1, <1>2 DEF SessionOK
<1>3. CASE BeginSession
  <2>1. se' = [NoSession EXCEPT !.at = "talk", !.list = List]
    BY <1>3 DEF BeginSession
  <2>2. List \in Seq(Entry) /\ Len(List) \in Nat
    BY <1>1, ListType DEF FloOK
  <2>3. /\ se'.at = "talk" /\ se'.list = List /\ se'.sent = 0 /\ se'.got = 0 /\ se'.gone = {}
        /\ se' \in SessionType
    BY <2>1, <2>2, NoSessionOK DEF NoSession, SessionType
  <2> QED
    BY <2>2, <2>3 DEF SessionOK, SessionType
<1>4. CASE Transfer
  <2>1. se' = [se EXCEPT !.sent = @ + 1] /\ se.at = "talk" /\ se.sent < Len(se.list)
    BY <1>4 DEF Transfer
  <2>2. /\ se'.at = "talk" /\ se'.list = se.list /\ se'.sent = se.sent + 1
        /\ se'.got = se.got /\ se'.gone = se.gone
    BY <1>1, <2>1 DEF SessionType
  <2>9. se' \in SessionType
    BY <1>1, <2>1, <1>0, SetSent, SetGot, SetTurn, SetGone, SetAt
  <2> QED
    BY <1>1, <2>1, <2>2, <2>9 DEF SessionOK, SessionType
<1>5. CASE FileGone
  <2>0. PICK g : g = se.gone \union {se.sent + 1}
    OBVIOUS
  <2>1. PICK d : /\ d = se.done \union {se.sent + 1}
                 /\ se' = [se EXCEPT !.sent = @ + 1, !.gone = g, !.done = d]
                 /\ se.at = "talk" /\ se.sent < Len(se.list)
    BY <1>5, <2>0 DEF FileGone
  <2>3. g \subseteq Nat /\ d \subseteq Nat
    BY <1>1, <2>0, <2>1 DEF SessionType
  <2>2. /\ se'.at = "talk" /\ se'.list = se.list /\ se'.sent = se.sent + 1
        /\ se'.got = se.got /\ se'.gone = g
    BY <1>1, <2>1, <2>3 DEF SessionType
  <2>9. se' \in SessionType
    BY <1>1, <2>1, <2>3, <1>0, SetSent, SetGone, SetDone
  <2> QED
    BY <1>1, <2>0, <2>1, <2>2, <2>3, <2>9 DEF SessionOK, SessionType
<1>6. ASSUME NEW i \in 1..Len(se.list) + 1, Marks(i) PROVE SessionOK'
  <2>0. PICK d \in {se.done, se.done \union {i}} : Mark(i, d)
    BY <1>6 DEF Marks
  <2>1. se' = [se EXCEPT !.at = "cut", !.turn = i, !.done = d]
    BY <2>0 DEF Mark
  <2>2. /\ se'.list = se.list /\ se'.sent = se.sent /\ se'.turn = i
        /\ se'.got = se.got /\ se'.gone = se.gone
    BY <1>1, <2>1 DEF SessionType
  <2>8. i \in Nat /\ d \subseteq Nat
    BY <1>1, <2>0 DEF SessionType
  <2>9. se' \in SessionType
    BY <1>1, <2>8, <2>1, SetTurn, SetDone, SetAt
  <2> QED
    BY <1>1, <2>2, <2>9 DEF SessionOK, SessionType
<1>7. CASE ReceiveGot
  <2>1. NextSame(1) \in 1..Len(se.list) + 1 /\ Marks(NextSame(1))
    BY <1>1, <1>7, NextSameIs, MarkedBy
  <2> QED
    BY <1>6, <2>1
<1>8. CASE MarkAgain
  <2>1. se.turn \in 1..Len(se.list) + 1 /\ Marks(se.turn)
    BY <1>1, <1>8, MarkedBy DEF MarkAgain, SessionOK
  <2> QED
    BY <1>6, <2>1
<1>9. CASE Unanswered
  <2>1. se' = [se EXCEPT !.got = @ + 1] /\ se.at = "talk" /\ se.got < se.sent
    BY <1>9 DEF Unanswered
  <2>2. /\ se'.at = "talk" /\ se'.list = se.list /\ se'.sent = se.sent
        /\ se'.got = se.got + 1 /\ se'.gone = se.gone
    BY <1>1, <2>1 DEF SessionType
  <2>9. se' \in SessionType
    BY <1>1, <2>1, <1>0, SetSent, SetGot, SetTurn, SetGone, SetAt
  <2>3. se.got + 1 <= se.sent
    BY <1>1, <2>1 DEF SessionOK, SessionType
  <2> QED
    BY <1>1, <2>2, <2>3, <2>9 DEF SessionOK, SessionType
<1>10. CASE Dispose
  <2>1. PICK t : t = NextSame(se.turn + 1)
    OBVIOUS
  <2>2. t \in 1..Len(se.list) + 1
    BY <1>1, <1>10, <2>1, NextSameIs DEF Dispose, SessionOK
  <2>3. se' = [se EXCEPT !.at = "got", !.turn = t]
    BY <1>10, <2>1 DEF Dispose
  <2>4. /\ se'.list = se.list /\ se'.sent = se.sent /\ se'.turn = t
        /\ se'.got = se.got /\ se'.gone = se.gone
    BY <1>1, <2>2, <2>3 DEF SessionType
  <2>8. t \in Nat
    BY <1>1, <2>2
  <2>9. se' \in SessionType
    BY <1>1, <2>8, <2>2, <2>3, <1>0, SetSent, SetGot, SetTurn, SetGone, SetAt
  <2> QED
    BY <1>1, <2>2, <2>4, <2>9 DEF SessionOK, SessionType
<1>11. CASE FloTurn
  <2>1. se' = [se EXCEPT !.at = "talk", !.got = @ + 1, !.turn = 1] /\ se.at = "got"
    BY <1>11 DEF FloTurn
  <2>2. /\ se'.at = "talk" /\ se'.list = se.list /\ se'.sent = se.sent
        /\ se'.got = se.got + 1 /\ se'.gone = se.gone
    BY <1>1, <2>1 DEF SessionType
  <2>9. se' \in SessionType
    BY <1>1, <2>1, <1>0, SetSent, SetGot, SetTurn, SetGone, SetAt
  <2>3. se.got + 1 <= se.sent
    BY <1>1, <2>1 DEF Turn, SessionType
  <2> QED
    BY <1>1, <2>2, <2>3, <2>9 DEF SessionOK, SessionType
<1>12. CASE EndSession \/ HangUp \/ Cut \/ KillSession
  <2>1. se' = NoSession
    BY <1>12 DEF EndSession, HangUp, Cut, KillSession
  <2> QED
    BY <2>1, NoSessionOK DEF SessionOK, SessionType
<1> QED
  BY <1>2, <1>3, <1>4, <1>5, <1>7, <1>8, <1>9, <1>10, <1>11, <1>12, SessionMoves

LEMMA KeepsScan ==
  ASSUME TypeOK, [Next]_vars
  PROVE  ScanOK'
<1>1. ScanOK /\ ArchivesOK
  BY Parts
<1>2. CASE UNCHANGED sc
  BY <1>1, <1>2 DEF ScanOK
<1>3. CASE \E n \in Nr : ScanLook(n)
  <2>1. PICK n \in Nr : ScanLook(n)
    BY <1>3
  <2>2. holds[n] \in SUBSET Mail
    BY <1>1 DEF ArchivesOK
  <2> QED
    BY <2>1, <2>2 DEF ScanLook, ScanOK
<1>4. CASE ScanUnlink
  BY <1>4 DEF ScanUnlink, ScanOK
<1> QED
  BY <1>2, <1>3, <1>4, ScanMoves

LEMMA KeepsFlo ==
  ASSUME TypeOK, FlushSafe, [Next]_vars
  PROVE  FloOK'
<1>1. FloOK /\ FlushOK /\ SessionOK /\ flo \in Seq(Line)
  BY Parts DEF FloOK
<1>2. CASE UNCHANGED flo
  BY <1>1, <1>2 DEF FloOK
<1>3. CASE Unpack
  <2>1. \/ flo' = flo
        \/ flo' = Append(flo, [name |-> fl.nr, sent |-> FALSE])
    BY <1>3 DEF Unpack
  <2>2. fl.nr \in Nr
    BY <1>1 DEF FlushOK
  <2> QED
    BY <1>1, <2>1, <2>2, Appended DEF FloOK
<1>4. CASE \E f \in File : UnAttach(f)
  <2>1. PICK f \in File : UnAttach(f)
    BY <1>4
  <2>2. CASE Listed(f)
    <3>1. First(Open(f)) \in DOMAIN flo /\ flo' = [flo EXCEPT ![First(Open(f))].sent = TRUE]
      BY <1>1, <2>1, <2>2, OpenLine DEF UnAttach, Unlisted, Listed
    <3> QED
      BY <1>1, <3>1, Marked DEF FloOK
  <2>3. CASE ~Listed(f)
    BY <1>1, <2>1, <2>3 DEF UnAttach, Unlisted, Listed, FloOK
  <2> QED
    BY <2>2, <2>3
<1>5. CASE Attach
  <2>1. flo' = Append(flo, [name |-> fl.item, sent |-> FALSE]) /\ fl.item \in File
    BY <1>5 DEF Attach, FlushSafe
  <2> QED
    BY <1>1, <2>1, Appended DEF FloOK
<1>6. CASE BeginSession
  <2>1. flo' = [i \in DOMAIN flo |-> [flo[i] EXCEPT !.sent = @ \/ i \in Dangling]]
    BY <1>6 DEF BeginSession
  <2> QED
    BY <1>1, <2>1, Looked DEF FloOK
<1>7. CASE ReceiveGot \/ MarkAgain
  <2>1. PICK i : Marks(i)
    BY <1>7, MarkedBy
  <2>2. CASE se.list[i].line \in DOMAIN flo
    <3>1. flo' = [flo EXCEPT ![se.list[i].line].sent = TRUE]
      BY <2>1, <2>2 DEF Marks, Mark
    <3> QED
      BY <1>1, <2>2, <3>1, Marked DEF FloOK
  <2>3. CASE se.list[i].line \notin DOMAIN flo
    BY <1>1, <2>1, <2>3 DEF Marks, Mark, FloOK
  <2> QED
    BY <2>2, <2>3
<1>8. CASE FloTurn \/ EndSession
  <2>1. flo' = FloLeft
    BY <1>8 DEF FloTurn, EndSession
  <2> QED
    BY <1>1, <2>1, Left DEF FloOK
<1> QED
  BY <1>2, <1>3, <1>4, <1>5, <1>6, <1>7, <1>8, FloMoves

LEMMA KeepsOthers ==
  ASSUME TypeOK, [Next]_vars
  PROVE  OthersOK'
<1>1. OthersOK
  BY Parts
<1>2. lock' \in {"free", "ftnfido", "ftncico"}
  BY <1>1, LockMoves
     DEF OthersOK, BeginFlush, NoArchiver, LeaveNode, EndFlush, KillFlush, BeginSession, EndSession, HangUp,
         Cut, KillSession
<1> QED
  BY <1>1, <1>2, BoundsMove DEF OthersOK

(***************************************************************************)
(* The lock keeps the flush and the session apart.                         *)
(***************************************************************************)
FlushStep ==
  \/ (\E m \in Mail : Pack(m)) \/ (\E m \in Mail : PackFails(m)) \/ Unpack \/ AttachFails \/ AppendPacket
  \/ (\E lost \in SUBSET (queue \intersect Net) : AppendFails(lost)) \/ OpenFails \/ DropPacket
  \/ (\E f \in File : UnAttach(f)) \/ Attach \/ FileFails
FlushBegin == BeginFlush \/ NoArchiver
FlushEnd == EndFlush \/ LeaveNode \/ KillFlush
SessionStep ==
  Transfer \/ FileGone \/ ReceiveGot \/ MarkAgain \/ Unanswered \/ Dispose \/ FloTurn
SessionEnd == EndSession \/ HangUp \/ Cut \/ KillSession
ScanStep == (\E n \in Nr : ScanLook(n)) \/ ScanUnlink

LEMMA Steps ==
  [Next]_vars => \/ UNCHANGED vars \/ (\E x \in new : AddMail(x)) \/ WeekPasses \/ ScanStep
                 \/ FlushBegin \/ FlushStep \/ FlushEnd
                 \/ BeginSession \/ SessionStep \/ SessionEnd
BY Zenon DEF Next, Flush, FlushFails, Talk, Idle, FlushStep, FlushBegin, FlushEnd, SessionStep, SessionEnd, ScanStep

LEMMA FlushStepIs ==
  ASSUME FlushOK, FlushStep
  PROVE  fl.at # "idle" /\ fl'.at # "idle" /\ UNCHANGED <<se, lock, new>>
<1>1. CASE \E m \in Mail : Pack(m)
  BY <1>1 DEF Pack
<1>2. CASE \E m \in Mail : PackFails(m)
  BY <1>2 DEF PackFails, FlushOK
<1>3. CASE Unpack \/ AppendPacket \/ DropPacket \/ Attach
  BY <1>3 DEF Unpack, AppendPacket, DropPacket, Attach, FlushOK
<1>5. CASE AttachFails \/ OpenFails \/ FileFails
  BY <1>5 DEF AttachFails, OpenFails, FileFails, FlushOK
<1>6. CASE \E lost \in SUBSET (queue \intersect Net) : AppendFails(lost)
  BY <1>6 DEF AppendFails, FlushOK
<1>4. CASE \E f \in File : UnAttach(f)
  BY <1>4 DEF UnAttach, FlushOK
<1> QED
  BY <1>1, <1>2, <1>3, <1>4, <1>5, <1>6 DEF FlushStep

LEMMA SessionStepIs ==
  ASSUME SessionOK, SessionStep
  PROVE  se.at # "idle" /\ se'.at # "idle" /\ UNCHANGED <<fl, lock, new>>
<1>1. CASE ReceiveGot \/ MarkAgain
  <2>1. PICK i : Marks(i)
    BY <1>1, MarkedBy
  <2> QED
    BY <1>1, <2>1 DEF ReceiveGot, MarkAgain, Marks, Mark, SessionOK
<1>2. CASE Transfer \/ FileGone \/ Unanswered
  BY <1>2 DEF Transfer, FileGone, Unanswered, SessionOK
<1>3. CASE Dispose
  BY <1>3 DEF Dispose, SessionOK
<1>4. CASE FloTurn
  BY <1>4 DEF FloTurn, SessionOK
<1> QED
  BY <1>1, <1>2, <1>3, <1>4 DEF SessionStep

LEMMA KeepsLocked ==
  ASSUME TypeOK, Locked, [Next]_vars
  PROVE  Locked'
<1>1. FlushOK /\ SessionOK
  BY Parts
<1>2. CASE UNCHANGED vars \/ (\E x \in new : AddMail(x)) \/ WeekPasses \/ ScanStep
  <2>1. UNCHANGED <<fl, se, lock>>
    BY <1>2 DEF vars, AddMail, WeekPasses, ScanStep, ScanLook, ScanUnlink
  <2> QED
    BY <2>1 DEF Locked
<1>3. CASE FlushBegin
  BY <1>3 DEF FlushBegin, BeginFlush, NoArchiver, NoFlush, Locked
<1>4. CASE FlushStep
  BY <1>1, <1>4, FlushStepIs DEF Locked
<1>5. CASE FlushEnd
  <2>1. fl.at # "idle" /\ fl'.at = "idle" /\ UNCHANGED se /\ lock' = IF lock = "ftnfido" THEN "free" ELSE lock
    BY <1>5 DEF FlushEnd, EndFlush, LeaveNode, KillFlush, NoFlush
  <2> QED
    BY <2>1 DEF Locked
<1>6. CASE BeginSession
  BY <1>6 DEF BeginSession, NoSession, Locked
<1>7. CASE SessionStep
  BY <1>1, <1>7, SessionStepIs DEF Locked
<1>8. CASE SessionEnd
  <2>1. se.at # "idle" /\ se'.at = "idle" /\ UNCHANGED fl /\ lock' = IF lock = "ftncico" THEN "free" ELSE lock
    BY <1>8 DEF SessionEnd, EndSession, HangUp, Cut, KillSession, NoSession
  <2> QED
    BY <2>1 DEF Locked
<1> QED
  BY <1>2, <1>3, <1>4, <1>5, <1>6, <1>7, <1>8, Steps

LEMMA FlushAlone ==
  ASSUME TypeOK, Locked, [Next]_vars, fl.at # "idle"
  PROVE  UNCHANGED vars \/ ScanStep \/ FlushStep \/ FlushEnd
<1>1. SessionOK /\ se.at = "idle" /\ lock # "free"
  BY Parts DEF Locked
<1>2. ~SessionStep /\ ~SessionEnd /\ ~BeginSession /\ ~FlushBegin
  BY <1>1, SessionStepIs
     DEF SessionEnd, EndSession, HangUp, Cut, KillSession, BeginSession, FlushBegin, BeginFlush, NoArchiver
<1>3. ~WeekPasses /\ ~(\E x \in new : AddMail(x))
  BY DEF WeekPasses, AddMail
<1> QED
  BY <1>2, <1>3, Steps

LEMMA SessionAlone ==
  ASSUME TypeOK, Locked, [Next]_vars, se.at # "idle"
  PROVE  UNCHANGED vars \/ ScanStep \/ SessionStep \/ SessionEnd \/ (\E x \in new : AddMail(x))
<1>1. FlushOK /\ fl.at = "idle" /\ lock # "free"
  BY Parts DEF Locked
<1>2. ~FlushStep /\ ~FlushEnd /\ ~BeginSession /\ ~FlushBegin /\ ~WeekPasses
  BY <1>1, FlushStepIs
     DEF FlushEnd, EndFlush, LeaveNode, KillFlush, BeginSession, FlushBegin, BeginFlush, NoArchiver, WeekPasses
<1> QED
  BY <1>2, Steps

LEMMA KeepsTurn ==
  ASSUME TypeOK, Turn, [Next]_vars
  PROVE  Turn'
<1>1. SessionOK /\ Len(se.list) \in Nat /\ se.got \in Nat /\ se.sent \in Nat /\ se.got <= se.sent
  BY Parts DEF SessionOK
<1>2. CASE UNCHANGED se
  BY <1>2 DEF Turn
<1>3. CASE BeginSession \/ SessionEnd
  <2>1. CASE BeginSession
    <3>1. se'.at = "talk"
      BY <2>1 DEF BeginSession, NoSession
    <3> QED
      BY <3>1 DEF Turn
  <2>2. CASE SessionEnd
    <3>1. se'.at = "idle"
      BY <2>2 DEF SessionEnd, EndSession, HangUp, Cut, KillSession, NoSession
    <3> QED
      BY <3>1 DEF Turn
  <2> QED
    BY <1>3, <2>1, <2>2
<1>4. CASE Transfer \/ FileGone \/ Unanswered \/ FloTurn
  <2>1. se'.at \notin {"got", "cut"}
    BY <1>1, <1>4 DEF Transfer, FileGone, Unanswered, FloTurn, SessionOK
  <2> QED
    BY <2>1 DEF Turn
<1>5. ASSUME NEW i \in 1..Len(se.list), Marks(i), se.got < se.sent,
             se.list[i].name = se.list[se.got + 1].name
      PROVE  Turn'
  <2>1. /\ se'.at = "cut" /\ se'.turn = i /\ se'.list = se.list /\ se'.got = se.got /\ se'.sent = se.sent
    BY <1>1, <1>5 DEF Marks, Mark, SessionOK
  <2> QED
    BY <1>1, <1>5, <2>1 DEF Turn
<1>6. CASE ReceiveGot
  <2>1. se.got < se.sent /\ Marks(NextSame(1))
    BY <1>6, MarkedBy DEF ReceiveGot
  <2>2. se.got + 1 \in Same(1)
    BY <1>1, <2>1 DEF Same, SessionOK
  <2>3. NextSame(1) \in 1..Len(se.list) /\ se.list[NextSame(1)].name = se.list[se.got + 1].name
    BY <1>1, <2>2, NextSameIs
  <2> QED
    BY <1>5, <2>1, <2>3
<1>7. CASE MarkAgain
  <2>1. Marks(se.turn) /\ se.turn \in 1..Len(se.list) /\ se.at = "got"
    BY <1>1, <1>7, MarkedBy DEF MarkAgain, SessionOK
  <2> QED
    BY <1>5, <2>1 DEF Turn
<1>8. CASE Dispose
  <2>1. PICK t : t = NextSame(se.turn + 1)
    OBVIOUS
  <2>2. se.turn + 1 \in Nat /\ se.turn + 1 >= 1 /\ se.got < se.sent
    BY <1>1, <1>8 DEF Dispose, SessionOK, Turn
  <2>3. t <= Len(se.list) => se.list[t].name = se.list[se.got + 1].name
    BY <1>1, <2>1, <2>2, NextSameIs
  <2>4. se' = [se EXCEPT !.at = "got", !.turn = t]
    BY <1>8, <2>1 DEF Dispose
  <2>5. /\ se'.at = "got" /\ se'.turn = t /\ se'.list = se.list /\ se'.got = se.got /\ se'.sent = se.sent
    BY <1>1, <2>4 DEF SessionOK
  <2> QED
    BY <2>2, <2>3, <2>5 DEF Turn
<1> QED
  BY <1>2, <1>3, <1>4, <1>6, <1>7, <1>8, SessionMoves DEF SessionEnd

(***************************************************************************)
(* What was sent stays arrived while the session holds the lock.           *)
(***************************************************************************)
LEMMA StaysArrived ==
  ASSUME NEW name, HasArrived(name),
         \A n \in Nr : holds'[n] \subseteq holds[n], outpkt' \subseteq outpkt,
         delivered \subseteq delivered', queue \subseteq queue', due' \subseteq due \union queue'
  PROVE  HasArrived(name)'
BY DEF HasArrived

LEMMA UnlinkShrinks ==
  ASSUME ArchivesOK, ScanOK, ScanUnlink
  PROVE  \A n \in Nr : holds'[n] \subseteq holds[n]
<1>1. sc.nr \in Nr /\ Emptied(sc.nr, there \ {sc.nr})
  BY DEF ScanUnlink, ScanOK
<1> QED
  BY <1>1 DEF Emptied, ArchivesOK

LEMMA KeepsSent ==
  ASSUME TypeOK, Locked, Turn, Sent, [Next]_vars
  PROVE  Sent'
<1>1. SessionOK /\ ArchivesOK /\ ScanOK /\ QueueOK /\ Len(se.list) \in Nat /\ se.sent \in Nat
  BY Parts DEF SessionOK
<1>2. CASE se.at = "idle"
  <2>1. CASE BeginSession
    <3>1. se'.sent = 0
      BY <2>1 DEF BeginSession, NoSession
    <3> QED
      BY <3>1 DEF Sent
  <2>2. CASE UNCHANGED se
    BY <1>2, <2>2 DEF Sent
  <2>3. CASE SessionEnd
    <3>1. se'.at = "idle"
      BY <2>3 DEF SessionEnd, EndSession, HangUp, Cut, KillSession, NoSession
    <3> QED
      BY <3>1 DEF Sent
  <2> QED
    BY <1>1, <1>2, <2>1, <2>2, <2>3, SessionMoves, SessionStepIs DEF SessionStep, SessionEnd
<1> SUFFICES ASSUME se.at # "idle" PROVE Sent'
  BY <1>2
<1>3. ASSUME se'.list = se.list, se'.sent = se.sent,
             \A n \in Nr : holds'[n] \subseteq holds[n], outpkt' \subseteq outpkt,
             delivered \subseteq delivered', queue \subseteq queue', due' \subseteq due \union queue'
      PROVE  Sent'
  BY <1>3, StaysArrived DEF Sent
<1>4. CASE UNCHANGED vars
  BY <1>3, <1>4 DEF vars
<1>5. CASE \E n \in Nr : ScanLook(n)
  BY <1>3, <1>5 DEF ScanLook, files
<1>6. CASE ScanUnlink
  BY <1>1, <1>3, <1>6, UnlinkShrinks DEF ScanUnlink
<1>7. CASE SessionEnd
  <2>1. se'.at = "idle"
    BY <1>7 DEF SessionEnd, EndSession, HangUp, Cut, KillSession, NoSession
  <2> QED
    BY <2>1 DEF Sent
<1>8. CASE \E x \in new : AddMail(x)
  <2>1. PICK x \in new : AddMail(x)
    BY <1>8
  <2>2. queue \subseteq queue' /\ due' \subseteq due \union queue' /\ UNCHANGED <<holds, outpkt, delivered, se>>
    BY <2>1 DEF AddMail, files
  <2> QED
    BY <1>3, <2>2
<1>9. CASE Unanswered \/ FloTurn
  <2>1. /\ se'.list = se.list /\ se'.sent = se.sent
        /\ UNCHANGED <<queue, holds, outpkt, delivered, due>>
    BY <1>1, <1>9 DEF Unanswered, FloTurn, files, SessionOK
  <2> QED
    BY <1>3, <2>1
<1>10. CASE ReceiveGot \/ MarkAgain
  <2>1. PICK i : Marks(i)
    BY <1>10, MarkedBy
  <2>2. /\ se'.list = se.list /\ se'.sent = se.sent
        /\ UNCHANGED <<queue, holds, outpkt, delivered, due>>
    BY <1>1, <2>1 DEF Marks, Mark, files, SessionOK
  <2> QED
    BY <1>3, <2>2
<1>11. CASE Dispose
  <2>1. se'.list = se.list /\ se'.sent = se.sent /\ UNCHANGED <<queue, delivered, due>> /\ outpkt' \subseteq outpkt
    BY <1>1, <1>11 DEF Dispose, SessionOK
  <2>2. \A n \in Nr : holds'[n] \subseteq holds[n]
    BY <1>1, <1>11 DEF Dispose, Emptied, ArchivesOK, files
  <2> QED
    BY <1>3, <2>1, <2>2
<1>12. ASSUME NEW name, name = se.list[se.sent + 1].name, HasArrived(name)',
              se'.list = se.list, se'.sent = se.sent + 1, UNCHANGED <<holds, outpkt, queue>>,
              delivered \subseteq delivered', due' \subseteq due
       PROVE  Sent'
  <2>1. ASSUME NEW k \in 1..se.sent PROVE HasArrived(se.list[k].name)'
    <3>1. HasArrived(se.list[k].name)
      BY DEF Sent
    <3>2. PICK nm : nm = se.list[k].name
      OBVIOUS
    <3>3. HasArrived(nm)'
      BY <1>12, <3>1, <3>2, StaysArrived
    <3> QED
      BY <1>12, <3>2, <3>3
  <2>2. ASSUME NEW k \in 1..se'.sent PROVE HasArrived(se.list[k].name)'
    <3>1. k \in 1..se.sent \/ k = se.sent + 1
      BY <1>1, <1>12
    <3>2. CASE k = se.sent + 1
      BY <1>12, <3>2
    <3> QED
      BY <2>1, <3>1, <3>2
  <2> QED
    BY <1>12, <2>2 DEF Sent
<1>13. CASE Transfer
  <2>1. /\ se'.list = se.list /\ se'.sent = se.sent + 1 /\ UNCHANGED <<holds, outpkt, queue>>
    BY <1>1, <1>13 DEF Transfer, files, SessionOK
  <2>2. PICK name : name = se.list[se.sent + 1].name /\ name = se'.list[se.sent + 1].name
    BY <2>1
  <2>3. /\ delivered' = delivered \union (IF name = Packet THEN outpkt ELSE IF name \in Nr THEN holds[name] ELSE {})
        /\ due' = due \ {name}
    BY <1>13, <2>2 DEF Transfer
  <2>4. HasArrived(name)'
    BY <2>1, <2>3, NamesApart DEF HasArrived
  <2> QED
    BY <1>12, <2>1, <2>2, <2>3, <2>4
<1>14. CASE FileGone
  <2>1. /\ se'.list = se.list /\ se'.sent = se.sent + 1 /\ UNCHANGED <<holds, outpkt, queue, delivered, due>>
    BY <1>1, <1>14 DEF FileGone, files, SessionOK
  <2>2. PICK name : name = se.list[se.sent + 1].name /\ name = se'.list[se.sent + 1].name
    BY <2>1
  <2>3. name \in Nr \ there
    BY <1>14, <2>2 DEF FileGone
  <2>4. holds[name] = {} /\ name # Packet /\ name \notin due
    BY <1>1, <2>3, NamesApart DEF ArchivesOK, QueueOK
  <2>5. HasArrived(name)'
    BY <2>1, <2>4 DEF HasArrived
  <2> QED
    BY <1>12, <2>1, <2>2, <2>5
<1> QED
  BY <1>4, <1>5, <1>6, <1>7, <1>8, <1>9, <1>10, <1>11, <1>13, <1>14, SessionAlone DEF SessionStep, ScanStep

LEMMA KeepsLines ==
  ASSUME TypeOK, Locked, Lines, [Next]_vars
  PROVE  Lines'
<1>1. SessionOK /\ FloOK /\ flo \in Seq(Line)
  BY Parts DEF FloOK
<1>2. CASE BeginSession
  <2>1. se'.list = List /\ flo' = [i \in DOMAIN flo |-> [flo[i] EXCEPT !.sent = @ \/ i \in Dangling]]
    BY <1>2 DEF BeginSession, NoSession
  <2>2. DOMAIN flo' = DOMAIN flo /\ \A i \in DOMAIN flo : flo'[i].name = flo[i].name
    BY <1>1, <2>1, Looked
  <2>3. \A k \in DOMAIN List : List[k].line \in DOMAIN flo => flo[List[k].line].name = List[k].name
    BY <1>1, ListType
  <2> QED
    BY <2>1, <2>2, <2>3 DEF Lines
<1>3. CASE SessionEnd
  <2>1. se'.at = "idle"
    BY <1>3 DEF SessionEnd, EndSession, HangUp, Cut, KillSession, NoSession
  <2> QED
    BY <2>1 DEF Lines
<1>4. CASE se.at = "idle" /\ UNCHANGED se
  BY <1>4 DEF Lines
<1>5. ASSUME se.at # "idle", se'.list = se.list,
             \A l \in DOMAIN flo' : l \in DOMAIN flo /\ flo'[l].name = flo[l].name
      PROVE  Lines'
  BY <1>5 DEF Lines
<1>6. CASE se.at # "idle" /\ (UNCHANGED vars \/ ScanStep \/ \E x \in new : AddMail(x))
  <2>1. UNCHANGED <<se, flo>>
    BY <1>6 DEF vars, ScanStep, ScanLook, ScanUnlink, AddMail
  <2> QED
    BY <1>5, <1>6, <2>1
<1>7. CASE Transfer \/ FileGone \/ Unanswered \/ Dispose
  <2>1. se.at # "idle" /\ se'.list = se.list /\ UNCHANGED flo
    BY <1>1, <1>7 DEF Transfer, FileGone, Unanswered, Dispose, SessionOK
  <2> QED
    BY <1>5, <2>1
<1>8. CASE ReceiveGot \/ MarkAgain
  <2>1. PICK i : Marks(i)
    BY <1>8, MarkedBy
  <2>2. se.at # "idle" /\ se'.list = se.list
    BY <1>1, <1>8, <2>1 DEF ReceiveGot, MarkAgain, Marks, Mark, SessionOK
  <2>3. CASE se.list[i].line \in DOMAIN flo
    <3>1. flo' = [flo EXCEPT ![se.list[i].line].sent = TRUE]
      BY <2>1, <2>3 DEF Marks, Mark
    <3> QED
      BY <1>1, <1>5, <2>2, <2>3, <3>1, Marked
  <2>4. CASE se.list[i].line \notin DOMAIN flo
    <3>1. UNCHANGED flo
      BY <2>1, <2>4 DEF Marks, Mark
    <3> QED
      BY <1>5, <2>2, <3>1
  <2> QED
    BY <2>3, <2>4
<1>9. CASE FloTurn
  <2>1. se.at # "idle" /\ se'.list = se.list /\ flo' = FloLeft
    BY <1>1, <1>9 DEF FloTurn, SessionOK
  <2> QED
    BY <1>1, <1>5, <2>1, Left
<1>10. CASE se.at = "idle"
  BY <1>1, <1>2, <1>3, <1>4, <1>10, SessionMoves, SessionStepIs DEF SessionStep, SessionEnd
<1>11. CASE se.at # "idle"
  BY <1>3, <1>6, <1>7, <1>8, <1>9, <1>11, SessionAlone DEF SessionStep
<1> QED
  BY <1>10, <1>11

(***************************************************************************)
(* No mail is lost.                                                        *)
(***************************************************************************)
LEMMA LostIs ==
  NothingLost <=> \A m \in (Mail \union Net) \ new : m \in queue \union outpkt \/ Packed(m)
<1>1. \A m : m \in UNION {holds[n] : n \in there} <=> \E n \in there : m \in holds[n]
  OBVIOUS
<1> QED
  BY <1>1 DEF NothingLost, Packed

\* What is packed, purged or delivered stays so whatever happens.
LEMMA StaysPacked ==
  ASSUME TypeOK, Locked, Turn, Sent, [Next]_vars, NEW m, Packed(m)
  PROVE  Packed(m)'
<1>1. ArchivesOK /\ SessionOK /\ ScanOK /\ FlushOK
  BY Parts
<1>2. ASSUME UNCHANGED <<holds, purged, robbed, spoilt>>, there \subseteq there', delivered \subseteq delivered'
      PROVE  Packed(m)'
  BY <1>2 DEF Packed
<1>3. UNCHANGED delivered \/ Transfer
  BY QueueMoves DEF AddMail, Unpack, AttachFails, DropPacket, EndFlush
<1>4. CASE Transfer
  BY <1>2, <1>4 DEF Transfer, files, history
<1>5. CASE UNCHANGED <<there, holds, age, outpkt>> /\ UNCHANGED delivered
  <2>1. \/ UNCHANGED <<purged, robbed, spoilt>> \/ ScanUnlink
        \/ \E lost \in SUBSET (queue \intersect Net) : AppendFails(lost)
    BY HistoryMoves DEF PackFails, Unpack, AttachFails, Attach, FileFails, Dispose, KillFlush, KillSession, history
  <2>2. purged \subseteq purged' /\ robbed \subseteq robbed' /\ spoilt \subseteq spoilt'
    BY <2>1 DEF ScanUnlink, AppendFails
  <2> QED
    BY <1>5, <2>2 DEF Packed
<1>6. CASE \E x \in Mail : Pack(x)
  <2>1. PICK x \in Mail : Pack(x)
    BY <1>6
  <2>2. PICK n : n = Arcfile(fl.nr)
    OBVIOUS
  <2>3. /\ there' = there \union {n} /\ holds' = [holds EXCEPT ![n] = @ \union {x}]
        /\ UNCHANGED <<delivered, purged, robbed, spoilt>>
    BY <2>1, <2>2 DEF Pack, history
  <2>4. \A k \in there : k \in there' /\ holds[k] \subseteq holds'[k]
    BY <1>1, <2>3 DEF ArchivesOK
  <2> QED
    BY <2>3, <2>4 DEF Packed
<1>7. CASE \E x \in Mail : PackFails(x)
  <2>1. PICK x \in Mail : PackFails(x)
    BY <1>7
  <2>2. PICK n : n = Arcfile(fl.nr)
    OBVIOUS
  <2>3. /\ IF Truncated(n) THEN Emptied(n, there \ {n}) ELSE UNCHANGED <<there, holds>>
        /\ UNCHANGED <<delivered, purged, robbed, spoilt>>
    BY <2>1, <2>2 DEF PackFails, history
  <2>4. CASE Truncated(n)
    <3>1. there' = there \ {n} /\ holds' = [holds EXCEPT ![n] = {}] /\ holds[n] = {}
      BY <2>3, <2>4 DEF Emptied, Truncated
    <3>2. \A k \in there : m \in holds[k] => k \in there' /\ m \in holds'[k]
      BY <1>1, <3>1 DEF ArchivesOK
    <3> QED
      BY <2>3, <3>2 DEF Packed
  <2>5. CASE ~Truncated(n)
    BY <1>2, <2>3, <2>5
  <2> QED
    BY <2>4, <2>5
<1>11. CASE \E lost \in SUBSET (queue \intersect Net) : AppendFails(lost)
  <2>1. UNCHANGED <<holds, there, delivered, purged, robbed>> /\ spoilt \subseteq spoilt'
    BY <1>11 DEF AppendFails, files
  <2> QED
    BY <2>1 DEF Packed
<1>8. CASE AppendPacket \/ WeekPasses \/ BeginSession
  <2>1. UNCHANGED <<holds, delivered, purged, robbed, spoilt>> /\ there \subseteq there'
    BY <1>8 DEF AppendPacket, WeekPasses, BeginSession, files, history
  <2> QED
    BY <1>2, <2>1
<1>9. CASE Dispose
  <2>1. PICK name : name = se.list[se.turn].name
    OBVIOUS
  <2>2. UNCHANGED <<delivered, purged, robbed, spoilt>>
    BY <1>9 DEF Dispose, history
  <2>3. CASE name \in Nr
    <3>1. there' = there \union {name} /\ holds' = [holds EXCEPT ![name] = {}]
      BY <1>9, <2>1, <2>3 DEF Dispose, Emptied
    <3>2. /\ se.at = "cut" /\ se.got + 1 \in 1..se.sent /\ name = se.list[se.got + 1].name
      BY <1>1, <1>9, <2>1 DEF Dispose, Turn, SessionOK
    <3>3. HasArrived(name)
      BY <3>2 DEF Sent
    <3>4. \A k \in there : m \in holds[k] => m \in delivered \/ m \in holds'[k]
      BY <1>1, <2>3, <3>1, <3>3 DEF ArchivesOK, HasArrived
    <3> QED
      BY <2>2, <3>1, <3>4 DEF Packed
  <2>4. CASE name \notin Nr
    BY <1>2, <1>9, <2>1, <2>2, <2>4 DEF Dispose, files
  <2> QED
    BY <2>3, <2>4
<1>10. CASE ScanUnlink
  <2>1. sc.nr \in Nr /\ there' = there \ {sc.nr} /\ holds' = [holds EXCEPT ![sc.nr] = {}]
    BY <1>1, <1>10 DEF ScanUnlink, Emptied, ScanOK
  <2>2. /\ delivered' = delivered /\ spoilt' = spoilt /\ purged' = purged \union (holds[sc.nr] \intersect sc.saw)
        /\ robbed' = robbed \union (holds[sc.nr] \ sc.saw)
    BY <1>10 DEF ScanUnlink
  <2>3. \A k \in there : m \in holds[k] => \/ k \in there' /\ m \in holds'[k]
                                        \/ m \in purged' \union robbed'
    BY <1>1, <2>1, <2>2 DEF ArchivesOK
  <2> QED
    BY <2>2, <2>3 DEF Packed
<1> QED
  BY <1>3, <1>4, <1>5, <1>6, <1>7, <1>8, <1>9, <1>10, <1>11, ArchivesMove

LEMMA KeepsFlushSafe ==
  ASSUME TypeOK, Locked, Turn, Sent, FlushSafe, [Next]_vars
  PROVE  FlushSafe'
<1>1. FlushOK /\ QueueOK /\ ArchivesOK
  BY Parts
<1>2. ASSUME fl'.at \in {"idle", "left", "pack"} PROVE FlushSafe'
  BY <1>2 DEF FlushSafe
<1>3. CASE FlushEnd \/ FlushBegin
  <2>1. FlushEnd => fl'.at = "idle"
    BY DEF FlushEnd, EndFlush, LeaveNode, KillFlush, NoFlush
  <2>2. FlushBegin => fl'.at \in {"left", "pack"}
    BY DEF FlushBegin, BeginFlush, NoArchiver, NoFlush
  <2> QED
    BY <1>2, <1>3, <2>1, <2>2
<1>4. CASE UNCHANGED fl /\ fl.at = "idle"
  BY <1>2, <1>4
<1>5. CASE UNCHANGED vars \/ ScanStep
  <2>1. UNCHANGED <<fl, queue, outpkt, spoilt>>
    BY <1>5 DEF vars, ScanStep, ScanLook, ScanUnlink, history
  <2>2. fl.at = "packed" => Packed(fl.item)'
    <3>1. PICK m : m = fl.item /\ m = fl'.item
      BY <2>1
    <3>2. fl.at = "packed" => Packed(m)'
      BY <3>1, StaysPacked DEF FlushSafe
    <3> QED
      BY <2>1, <3>1, <3>2
  <2> QED
    BY <2>1, <2>2 DEF FlushSafe
<1>6. CASE \E m \in Mail : Pack(m)
  <2>1. PICK m \in Mail : Pack(m)
    BY <1>6
  <2>2. PICK n : n = Arcfile(fl.nr)
    OBVIOUS
  <2>3. n \in Nr
    BY <1>1, <2>2, ArcfileType DEF FlushOK
  <2>4. /\ there' = there \union {n} /\ holds' = [holds EXCEPT ![n] = @ \union {m}]
        /\ fl'.at = "packed" /\ fl'.item = m
    BY <2>1, <2>2 DEF Pack
  <2>5. n \in there' /\ m \in holds'[n]
    BY <1>1, <2>3, <2>4 DEF ArchivesOK
  <2> QED
    BY <2>4, <2>5 DEF FlushSafe, Packed
<1>7. CASE (\E m \in Mail : PackFails(m)) \/ Unpack \/ AttachFails
  <2>1. fl'.at = "pack"
    BY <1>1, <1>7 DEF PackFails, Unpack, AttachFails, FlushOK
  <2> QED
    BY <1>2, <2>1
<1>8. CASE AppendPacket
  <2>1. fl'.at = "appended" /\ queue' = queue /\ outpkt' = outpkt \union (queue \intersect Net)
    BY <1>1, <1>8 DEF AppendPacket, FlushOK
  <2> QED
    BY <2>1 DEF FlushSafe
<1>14. CASE \E lost \in SUBSET (queue \intersect Net) : AppendFails(lost)
  <2>1. PICK lost \in SUBSET (queue \intersect Net) : AppendFails(lost)
    BY <1>14
  <2>2. /\ fl'.at = "appended" /\ queue' = queue /\ spoilt' = spoilt \union lost
        /\ outpkt' = outpkt \union ((queue \intersect Net) \ lost)
    BY <1>1, <2>1 DEF AppendFails, FlushOK
  <2> QED
    BY <2>2 DEF FlushSafe
<1>15. CASE OpenFails
  <2>1. fl'.at = "files" /\ fl'.todo = queue \intersect File /\ queue' = queue
    BY <1>1, <1>15 DEF OpenFails, FlushOK
  <2> QED
    BY <2>1 DEF FlushSafe
<1>9. CASE DropPacket
  <2>1. fl'.at = "files" /\ fl'.todo = queue \intersect File /\ queue' = queue \ Net
    BY <1>1, <1>9 DEF DropPacket, FlushOK
  <2> QED
    BY <2>1, NamesApart DEF FlushSafe
<1>10. CASE \E f \in File : UnAttach(f)
  <2>1. PICK f \in File : UnAttach(f)
    BY <1>10
  <2>2. /\ fl.at = "files" /\ fl'.at = "unattached" /\ fl'.todo = fl.todo \ {f} /\ fl'.item = f
        /\ UNCHANGED queue
    BY <1>1, <2>1 DEF UnAttach, FlushOK
  <2> QED
    BY <2>2 DEF FlushSafe
<1>11. CASE Attach \/ FileFails
  <2>1. fl.at = "unattached" /\ fl'.at = "files" /\ fl'.todo = fl.todo /\ UNCHANGED queue
    BY <1>1, <1>11 DEF Attach, FileFails, FlushOK
  <2> QED
    BY <2>1 DEF FlushSafe
<1>12. CASE fl.at = "idle"
  <2>1. UNCHANGED fl \/ FlushBegin
    BY <1>1, <1>12, FlushMoves, FlushStepIs DEF FlushStep, FlushBegin, EndFlush, LeaveNode, KillFlush
  <2> QED
    BY <1>3, <1>4, <1>12, <2>1
<1>13. CASE fl.at # "idle"
  BY <1>3, <1>5, <1>6, <1>7, <1>8, <1>9, <1>10, <1>11, <1>13, <1>14, <1>15, FlushAlone DEF FlushStep
<1> QED
  BY <1>12, <1>13

LEMMA KeepsMail ==
  ASSUME TypeOK, Locked, Turn, Sent, FlushSafe, NothingLost, [Next]_vars
  PROVE  NothingLost'
<1>1. QueueOK /\ ArchivesOK /\ SessionOK
  BY Parts
<1> SUFFICES ASSUME NEW m \in Mail \union Net, m \notin new', m \notin queue' \union outpkt'
             PROVE  Packed(m)'
  <2>1. \A x \in (Mail \union Net) \ new' : x \in queue' \union outpkt' \/ Packed(x)'
    OBVIOUS
  <2>2. \A x : x \in (UNION {holds[n] : n \in there})' <=> \E n \in there' : x \in holds'[n]
    OBVIOUS
  <2> QED
    BY <2>1, <2>2 DEF NothingLost, Packed
<1>2. m \notin new => m \in queue \union outpkt \/ Packed(m)
  BY LostIs
<1>3. CASE Packed(m)
  BY <1>3, StaysPacked
<1>4. CASE m \in new
  <2>1. \E x \in new : AddMail(x)
    BY <1>4, QueueMoves DEF Unpack, AttachFails, DropPacket, EndFlush, Transfer
  <2> QED
    BY <1>4, <2>1 DEF AddMail
<1>5. CASE m \in queue
  <2>1. Unpack \/ AttachFails \/ DropPacket \/ EndFlush
    BY <1>5, QueueMoves DEF AddMail, Transfer
  <2>2. CASE Unpack \/ AttachFails
    <3>1. m = fl.item /\ fl.at = "packed"
      BY <1>5, <2>2 DEF Unpack, AttachFails
    <3> QED
      BY <1>3, <3>1 DEF FlushSafe
  <2>3. CASE DropPacket
    <3>1. m \in spoilt
      BY <1>5, <2>3 DEF DropPacket, FlushSafe
    <3> QED
      BY <1>3, <3>1 DEF Packed
  <2>4. CASE EndFlush
    BY <1>5, <2>4, NamesApart DEF EndFlush
  <2> QED
    BY <2>1, <2>2, <2>3, <2>4
<1>6. CASE m \in outpkt
  <2>1. Dispose
    BY <1>6, ArchivesMove DEF Pack, PackFails, AppendPacket, AppendFails, BeginSession, ScanUnlink, WeekPasses
  <2>2. se.at = "cut" /\ se.list[se.turn].name = Packet
    BY <1>6, <2>1 DEF Dispose
  <2>3. se.got + 1 \in 1..se.sent /\ se.list[se.got + 1].name = Packet
    BY <1>1, <2>2 DEF Turn, SessionOK
  <2>4. HasArrived(Packet)
    BY <2>2, <2>3 DEF Sent
  <2> QED
    BY <1>3, <1>6, <2>4 DEF HasArrived, Packed
<1> QED
  BY <1>2, <1>3, <1>4, <1>5, <1>6

(***************************************************************************)
(* What waits in the outbound is listed.                                   *)
(***************************************************************************)
LEMMA NameKinds == Nr \intersect File = {} /\ Packet \notin Nr \union File /\ Mail \intersect File = {}
BY NamesApart

\* What a mark leaves listed: all but the name of the entry.
LEMMA MarkKeeps ==
  ASSUME TypeOK, Lines, NEW i \in 1..Len(se.list), se.at # "idle", Marks(i),
         NEW name, name # se.list[i].name, Listed(name)
  PROVE  Listed(name)'
<1>1. SessionOK /\ flo \in Seq(Line)
  BY Parts DEF FloOK
<1>2. CASE se.list[i].line \in DOMAIN flo
  <2>1. flo' = [flo EXCEPT ![se.list[i].line].sent = TRUE]
    BY <1>2 DEF Marks, Mark
  <2>2. flo[se.list[i].line].name = se.list[i].name
    BY <1>1, <1>2 DEF Lines, SessionOK
  <2> QED
    BY <1>1, <1>2, <2>1, <2>2, MarkedListed
<1>3. CASE se.list[i].line \notin DOMAIN flo
  BY <1>3 DEF Marks, Mark, Listed, Open
<1> QED
  BY <1>2, <1>3

\* What the .flo file lists after a step it listed before, or it is added.
LEMMA StaysListed ==
  ASSUME TypeOK, Locked, FlushSafe, Turn, Lines, [Next]_vars, NEW name, Listed(name),
         ~((ReceiveGot \/ MarkAgain) /\ \E i \in 1..Len(se.list) : Marks(i) /\ se.list[i].name = name),
         name \notin Nr \ there,
         ~UnAttach(name) \/ name \notin File
  PROVE  Listed(name)'
<1>1. flo \in Seq(Line) /\ FlushOK /\ SessionOK
  BY Parts DEF FloOK
<1>2. CASE UNCHANGED flo
  BY <1>2 DEF Listed, Open
<1>3. CASE Unpack
  <2>1. \/ flo' = flo
        \/ flo' = Append(flo, [name |-> fl.nr, sent |-> FALSE])
    BY <1>3 DEF Unpack
  <2>2. fl.nr \in Nr
    BY <1>1 DEF FlushOK
  <2> QED
    BY <1>1, <1>2, <2>1, <2>2, Appended
<1>4. CASE \E f \in File : UnAttach(f)
  <2>1. PICK f \in File : UnAttach(f)
    BY <1>4
  <2>2. f # name
    BY <2>1
  <2>3. CASE Listed(f)
    <3>1. First(Open(f)) \in DOMAIN flo /\ flo[First(Open(f))].name = f
      BY <1>1, <2>3, OpenLine
    <3>2. flo' = [flo EXCEPT ![First(Open(f))].sent = TRUE]
      BY <2>1, <2>3 DEF UnAttach, Unlisted, Listed
    <3> QED
      BY <1>1, <2>2, <3>1, <3>2, MarkedListed
  <2>4. CASE ~Listed(f)
    BY <1>2, <2>1, <2>4 DEF UnAttach, Unlisted, Listed
  <2> QED
    BY <2>3, <2>4
<1>5. CASE Attach
  <2>1. flo' = Append(flo, [name |-> fl.item, sent |-> FALSE]) /\ fl.item \in File
    BY <1>5 DEF Attach, FlushSafe
  <2> QED
    BY <1>1, <2>1, Appended
<1>6. CASE BeginSession
  <2>1. flo' = [i \in DOMAIN flo |-> [flo[i] EXCEPT !.sent = @ \/ i \in Dangling]]
    BY <1>6 DEF BeginSession
  <2> QED
    BY <1>1, <2>1, Looked
<1>7. CASE ReceiveGot \/ MarkAgain
  <2>1. PICK i \in 1..Len(se.list) : Marks(i)
    <3>1. CASE ReceiveGot
      <4>1. se.got + 1 \in Same(1)
        BY <1>1, <3>1 DEF ReceiveGot, Same, SessionOK
      <4>2. NextSame(1) \in 1..Len(se.list)
        BY <1>1, <4>1, NextSameIs DEF SessionOK
      <4> QED
        BY <3>1, <4>2, MarkedBy
    <3>2. CASE MarkAgain
      BY <1>1, <3>2, MarkedBy DEF MarkAgain, SessionOK
    <3> QED
      BY <1>7, <3>1, <3>2
  <2>2. se.at # "idle" /\ name # se.list[i].name
    BY <1>7, <2>1 DEF ReceiveGot, MarkAgain
  <2> QED
    BY <2>1, <2>2, MarkKeeps
<1>8. CASE FloTurn \/ EndSession
  <2>1. flo' = FloLeft
    BY <1>8 DEF FloTurn, EndSession
  <2> QED
    BY <1>1, <2>1, Left
<1> QED
  BY <1>2, <1>3, <1>4, <1>5, <1>6, <1>7, <1>8, FloMoves

\* Mail that is in an archive after a step was in it before, or it is packed just now.
LEMMA HeldBefore ==
  ASSUME TypeOK, [Next]_vars, NEW n \in there', holds'[n] # {}
  PROVE  \/ n \in there /\ holds[n] # {}
         \/ fl'.at = "packed" /\ fl'.attach /\ fl'.nr = n
<1>1. ArchivesOK /\ FlushOK /\ ScanOK
  BY Parts
<1>2. CASE \/ UNCHANGED <<there, holds, age, outpkt>> \/ AppendPacket \/ WeekPasses
           \/ \E lost \in SUBSET (queue \intersect Net) : AppendFails(lost)
  BY <1>2 DEF AppendPacket, AppendFails, WeekPasses, files
<1>3. CASE \E m \in Mail : Pack(m)
  <2>1. PICK m \in Mail : Pack(m)
    BY <1>3
  <2>2. PICK k : k = Arcfile(fl.nr)
    OBVIOUS
  <2>3. k \in Nr
    BY <1>1, <2>2, ArcfileType DEF FlushOK
  <2>4. PICK a \in BOOLEAN : a = Fresh(k)
    BY DEF Fresh
  <2>5. /\ there' = there \union {k} /\ holds' = [holds EXCEPT ![k] = @ \union {m}]
        /\ fl' = [at |-> "packed", todo |-> fl.todo \ {m}, nr |-> k, item |-> m, attach |-> a]
    BY <2>1, <2>2, <2>4 DEF Pack
  <2>6. CASE n = k
    <3>1. CASE Fresh(k)
      BY <2>4, <2>5, <2>6, <3>1
    <3>2. CASE ~Fresh(k)
      BY <2>6, <3>2 DEF Fresh, Truncated
    <3> QED
      BY <3>1, <3>2
  <2>7. CASE n # k
    BY <1>1, <2>5, <2>7 DEF ArchivesOK
  <2> QED
    BY <2>6, <2>7
<1>4. CASE \E m \in Mail : PackFails(m)
  <2>1. PICK m \in Mail : PackFails(m)
    BY <1>4
  <2>2. PICK k : k = Arcfile(fl.nr)
    OBVIOUS
  <2>3. IF Truncated(k) THEN Emptied(k, there \ {k}) ELSE UNCHANGED <<there, holds>>
    BY <2>1, <2>2 DEF PackFails
  <2> QED
    BY <1>1, <2>3 DEF Emptied, ArchivesOK
<1>5. CASE BeginSession
  BY <1>1, <1>5 DEF BeginSession, Missing, ArchivesOK
<1>6. CASE Dispose
  <2>1. PICK k : k = se.list[se.turn].name
    OBVIOUS
  <2>2. CASE k \in Nr
    <3>1. Emptied(k, there \union {k})
      BY <1>6, <2>1, <2>2 DEF Dispose
    <3> QED
      BY <1>1, <2>2, <3>1 DEF Emptied, ArchivesOK
  <2>3. CASE k \notin Nr
    BY <1>6, <2>1, <2>3 DEF Dispose, files
  <2> QED
    BY <2>2, <2>3
<1>7. CASE ScanUnlink
  BY <1>1, <1>7 DEF ScanUnlink, Emptied, ArchivesOK
<1> QED
  BY <1>2, <1>3, <1>4, <1>5, <1>6, <1>7, ArchivesMove

LEMMA KeepsArchivesListed ==
  ASSUME TypeOK, Locked, FlushSafe, Turn, Lines, ArchivesListed, [Next]_vars
  PROVE  ArchivesListed'
<1>1. ArchivesOK /\ FlushOK /\ SessionOK /\ ScanOK /\ flo \in Seq(Line)
  BY Parts DEF FloOK
<1> SUFFICES ASSUME NEW n \in there', holds'[n] # {} PROVE Held(n)'
  BY DEF ArchivesListed
<1>2. CASE ~(n \in there /\ holds[n] # {})
  BY <1>2, HeldBefore DEF Held
<1> SUFFICES ASSUME n \in there, holds[n] # {} PROVE Held(n)'
  BY <1>2
<1>3. n \in Nr /\ n \notin File
  BY <1>1, NameKinds DEF ArchivesOK
<1>4. CASE Listed(n)
  <2>1. CASE (ReceiveGot \/ MarkAgain) /\ \E i \in 1..Len(se.list) : Marks(i) /\ se.list[i].name = n
    <3>1. PICK i \in 1..Len(se.list) : Marks(i) /\ se.list[i].name = n
      BY <2>1
    <3>2. se'.at = "cut" /\ se'.turn = i /\ se'.list = se.list
      BY <1>1, <3>1 DEF Marks, Mark, SessionOK
    <3> QED
      BY <3>1, <3>2 DEF Held
  <2>2. CASE ~((ReceiveGot \/ MarkAgain) /\ \E i \in 1..Len(se.list) : Marks(i) /\ se.list[i].name = n)
    BY <1>3, <1>4, <2>2, StaysListed DEF Held
  <2> QED
    BY <2>1, <2>2
<1>5. CASE n \in orphan
  <2>1. CASE UNCHANGED orphan \/ AttachFails \/ FileFails \/ KillFlush \/ KillSession
    BY <1>5, <2>1 DEF Held, AttachFails, FileFails, KillFlush, KillSession
  <2>6. CASE Attach
    BY <1>3, <1>5, <2>6 DEF Attach, FlushSafe, Held
  <2>7. (\E lost \in SUBSET (queue \intersect Net) : AppendFails(lost)) => UNCHANGED orphan
    BY DEF AppendFails
  <2>2. CASE \E m \in Mail : PackFails(m)
    <3>1. PICK m \in Mail : PackFails(m)
      BY <2>2
    <3>2. PICK k : k = Arcfile(fl.nr)
      OBVIOUS
    <3>3. IF Truncated(k) THEN Emptied(k, there \ {k}) ELSE UNCHANGED orphan
      BY <3>1, <3>2 DEF PackFails
    <3> QED
      BY <1>5, <3>3 DEF Emptied, Held
  <2>3. CASE Unpack
    <3>1. CASE fl.attach /\ fl.nr = n
      <4>1. flo' = Append(flo, [name |-> n, sent |-> FALSE])
        BY <2>3, <3>1 DEF Unpack
      <4> QED
        BY <1>1, <1>3, <4>1, Appended DEF Held
    <3>2. CASE ~(fl.attach /\ fl.nr = n)
      BY <1>5, <2>3, <3>2 DEF Unpack, Held
    <3> QED
      BY <3>1, <3>2
  <2>4. CASE Dispose
    <3>1. PICK k : k = se.list[se.turn].name
      OBVIOUS
    <3>2. IF k \in Nr THEN Emptied(k, there \union {k}) ELSE UNCHANGED orphan
      BY <2>4, <3>1 DEF Dispose
    <3>3. CASE k \in Nr /\ n = k
      BY <1>1, <3>2, <3>3 DEF Emptied, ArchivesOK
    <3>4. CASE ~(k \in Nr /\ n = k)
      BY <1>5, <3>2, <3>4 DEF Emptied, Held
    <3> QED
      BY <3>3, <3>4
  <2>5. CASE ScanUnlink
    BY <1>5, <2>5 DEF ScanUnlink, Emptied, Held
  <2> QED
    BY <2>1, <2>2, <2>3, <2>4, <2>5, <2>6, <2>7, HistoryMoves
<1>6. CASE fl.at = "packed" /\ fl.attach /\ fl.nr = n
  <2>1. CASE UNCHANGED vars \/ ScanStep
    <3>1. UNCHANGED fl
      BY <2>1 DEF vars, ScanStep, ScanLook, ScanUnlink
    <3> QED
      BY <1>6, <3>1 DEF Held
  <2>2. CASE Unpack
    <3>1. flo' = Append(flo, [name |-> n, sent |-> FALSE])
      BY <1>6, <2>2 DEF Unpack
    <3> QED
      BY <1>1, <1>3, <3>1, Appended DEF Held
  <2>3. CASE KillFlush \/ AttachFails
    BY <1>6, <2>3 DEF KillFlush, AttachFails, Held
  <2>4. /\ ~(\E m \in Mail : Pack(m)) /\ ~(\E m \in Mail : PackFails(m)) /\ ~AppendPacket /\ ~DropPacket
        /\ ~(\E lost \in SUBSET (queue \intersect Net) : AppendFails(lost))
    BY <1>6 DEF Pack, PackFails, AppendPacket, AppendFails, DropPacket
  <2>5. /\ ~(\E f \in File : UnAttach(f)) /\ ~Attach /\ ~EndFlush
        /\ ~OpenFails /\ ~FileFails /\ ~LeaveNode
    BY <1>6 DEF UnAttach, Attach, EndFlush, OpenFails, FileFails, LeaveNode
  <2> QED
    BY <1>6, <2>1, <2>2, <2>3, <2>4, <2>5, FlushAlone DEF FlushStep, FlushEnd
<1>7. CASE se.at = "cut" /\ se.list[se.turn].name = n
  <2>1. CASE UNCHANGED vars \/ ScanStep \/ \E x \in new : AddMail(x)
    <3>1. UNCHANGED se
      BY <2>1 DEF vars, ScanStep, ScanLook, ScanUnlink, AddMail
    <3> QED
      BY <1>7, <3>1 DEF Held
  <2>2. CASE Dispose
    <3>1. holds' = [holds EXCEPT ![n] = {}]
      BY <1>3, <1>7, <2>2 DEF Dispose, Emptied
    <3> QED
      BY <1>1, <1>3, <3>1 DEF ArchivesOK
  <2>3. CASE KillSession
    BY <1>7, <2>3 DEF KillSession, Held
  <2>4. ~Transfer /\ ~FileGone /\ ~ReceiveGot /\ ~MarkAgain /\ ~Unanswered
    BY <1>7 DEF Transfer, FileGone, ReceiveGot, MarkAgain, Unanswered
  <2>5. ~FloTurn /\ ~EndSession /\ ~HangUp /\ ~Cut
    BY <1>7 DEF FloTurn, EndSession, HangUp, Cut
  <2> QED
    BY <1>7, <2>1, <2>2, <2>3, <2>4, <2>5, SessionAlone DEF SessionStep, SessionEnd
<1>8. Held(n)
  BY DEF ArchivesListed
<1> QED
  BY <1>4, <1>5, <1>6, <1>7, <1>8 DEF Held

\* A file attach could not list stays so until it is listed.
LEMMA StaysOrphan ==
  ASSUME TypeOK, FlushSafe, [Next]_vars, NEW f \in File, f \in orphan
  PROVE  f \in orphan' \/ Listed(f)'
<1>1. FlushOK /\ SessionOK /\ ScanOK /\ flo \in Seq(Line)
  BY Parts DEF FloOK
<1>2. f \notin Nr
  BY NameKinds
<1>3. CASE UNCHANGED orphan \/ AttachFails \/ FileFails \/ KillFlush \/ KillSession
  BY <1>3 DEF AttachFails, FileFails, KillFlush, KillSession
<1>4. CASE \E lost \in SUBSET (queue \intersect Net) : AppendFails(lost)
  BY <1>4 DEF AppendFails
<1>5. CASE \E m \in Mail : PackFails(m)
  <2>1. PICK m \in Mail : PackFails(m)
    BY <1>5
  <2>2. PICK k : k = Arcfile(fl.nr)
    OBVIOUS
  <2>3. k \in Nr
    BY <1>1, <2>2, ArcfileType DEF FlushOK
  <2>4. IF Truncated(k) THEN Emptied(k, there \ {k}) ELSE UNCHANGED orphan
    BY <2>1, <2>2 DEF PackFails
  <2> QED
    BY <1>2, <2>3, <2>4 DEF Emptied
<1>6. CASE Unpack
  BY <1>1, <1>2, <1>6 DEF Unpack, FlushOK
<1>7. CASE Attach
  <2>1. PICK g \in File : g = fl.item
    BY <1>7 DEF Attach, FlushSafe
  <2>2. flo' = Append(flo, [name |-> g, sent |-> FALSE]) /\ orphan' = orphan \ {g}
    BY <1>7, <2>1 DEF Attach
  <2>3. Listed(g)'
    BY <1>1, <2>2, Appended
  <2> QED
    BY <2>2, <2>3
<1>8. CASE Dispose
  <2>1. PICK k : k = se.list[se.turn].name
    OBVIOUS
  <2>2. IF k \in Nr THEN Emptied(k, there \union {k}) ELSE UNCHANGED orphan
    BY <1>8, <2>1 DEF Dispose
  <2> QED
    BY <1>2, <2>2 DEF Emptied
<1>9. CASE ScanUnlink
  <2>1. sc.nr \in Nr /\ orphan' = orphan \ {sc.nr}
    BY <1>1, <1>9 DEF ScanUnlink, Emptied, ScanOK
  <2> QED
    BY <1>2, <2>1
<1> QED
  BY <1>3, <1>4, <1>5, <1>6, <1>7, <1>8, <1>9, HistoryMoves

LEMMA KeepsFilesListed ==
  ASSUME TypeOK, Locked, FlushSafe, Turn, Sent, Lines, FilesListed, FilesDone, [Next]_vars
  PROVE  FilesListed'
<1>1. QueueOK /\ FlushOK /\ SessionOK
  BY Parts
<1> SUFFICES ASSUME NEW f \in due' PROVE f \in queue' \/ Listed(f)' \/ f \in orphan'
  BY DEF FilesListed
<1>2. CASE f \notin due
  BY <1>2, QueueMoves DEF AddMail, Unpack, AttachFails, DropPacket, EndFlush, Transfer
<1> SUFFICES ASSUME f \in due, f \notin orphan PROVE f \in queue' \/ Listed(f)'
  BY <1>1, <1>2, StaysOrphan DEF QueueOK
<1>3. f \in File /\ f \notin Nr /\ f \notin Mail /\ f \notin Net
  BY <1>1, NamesApart DEF QueueOK
<1>4. CASE f \in queue
  <2>1. CASE EndFlush
    <3>1. Listed(f)
      BY <1>3, <1>4, <2>1 DEF EndFlush, FilesDone
    <3>2. flo' = flo
      BY <2>1 DEF EndFlush
    <3> QED
      BY <3>1, <3>2 DEF Listed, Open
  <2>2. CASE Unpack \/ AttachFails
    BY <1>3, <1>4, <2>2 DEF Unpack, AttachFails, FlushSafe
  <2>3. CASE DropPacket
    BY <1>3, <1>4, <2>3 DEF DropPacket
  <2>4. CASE UNCHANGED <<queue, new, delivered, due>> \/ Transfer \/ \E x \in new : AddMail(x)
    BY <1>4, <2>4 DEF Transfer, AddMail
  <2> QED
    BY <2>1, <2>2, <2>3, <2>4, QueueMoves
<1>5. CASE f \notin queue
  <2>1. Listed(f)
    BY <1>5 DEF FilesListed
  <2>2. ~UnAttach(f)
    BY <1>5 DEF UnAttach, FlushSafe
  <2>3. ASSUME ReceiveGot \/ MarkAgain, NEW i \in 1..Len(se.list), Marks(i), se.list[i].name = f PROVE FALSE
    <3>1. se.at # "idle" /\ se.got < se.sent /\ f = se.list[se.got + 1].name
      <4>1. CASE ReceiveGot
        <5>1. se.got + 1 \in Same(1)
          BY <1>1, <4>1 DEF ReceiveGot, Same, SessionOK
        <5>2. se.list[NextSame(1)].name = se.list[se.got + 1].name /\ NextSame(1) \in 1..Len(se.list)
          <6>1. Len(se.list) \in Nat
            BY <1>1 DEF SessionOK
          <6> QED
            BY <1>1, <5>1, <6>1, NextSameIs, SMTT(60)
        <5>3. se'.turn = NextSame(1) /\ se'.turn = i
          BY <1>1, <2>3, <4>1 DEF ReceiveGot, Marks, Mark, SessionOK
        <5> QED
          BY <2>3, <4>1, <5>2, <5>3 DEF ReceiveGot
      <4>2. CASE MarkAgain
        <5>1. se'.turn = se.turn /\ se'.turn = i
          BY <1>1, <2>3, <4>2 DEF MarkAgain, Marks, Mark, SessionOK
        <5> QED
          BY <2>3, <4>2, <5>1 DEF MarkAgain, Turn
      <4> QED
        BY <2>3, <4>1, <4>2
    <3>2. se.got + 1 \in 1..se.sent
      BY <1>1, <3>1 DEF SessionOK
    <3>3. HasArrived(f)
      BY <3>1, <3>2 DEF Sent
    <3> QED
      BY <1>5, <3>3 DEF HasArrived
  <2> QED
    BY <1>3, <2>1, <2>2, <2>3, StaysListed
<1> QED
  BY <1>4, <1>5

LEMMA KeepsFilesDone ==
  ASSUME TypeOK, Locked, FlushSafe, Turn, Lines, FilesDone, [Next]_vars
  PROVE  FilesDone'
<1>1. QueueOK /\ FlushOK /\ flo \in Seq(Line)
  BY Parts DEF FloOK
<1>2. CASE fl'.at \notin {"files", "unattached"}
  BY <1>2 DEF FilesDone
<1> SUFFICES ASSUME fl'.at \in {"files", "unattached"} PROVE FilesDone'
  BY <1>2
<1>3. CASE UNCHANGED vars \/ ScanStep
  <2>1. UNCHANGED <<fl, flo, queue>>
    BY <1>3 DEF vars, ScanStep, ScanLook, ScanUnlink
  <2>2. \A name : Listed(name) => Listed(name)'
    BY <2>1 DEF Listed, Open
  <2> QED
    BY <2>1, <2>2, StaysOrphan DEF FilesDone
<1>4. CASE DropPacket \/ OpenFails
  <2>1. fl'.at = "files" /\ fl'.todo = queue \intersect File /\ queue' \subseteq queue
    BY <1>1, <1>4 DEF DropPacket, OpenFails, FlushOK
  <2> QED
    BY <2>1 DEF FilesDone
<1>5. CASE \E f \in File : UnAttach(f)
  <2>1. PICK g \in File : UnAttach(g)
    BY <1>5
  <2>2. /\ fl.at = "files" /\ fl'.at = "unattached" /\ fl'.todo = fl.todo \ {g} /\ fl'.item = g
        /\ UNCHANGED queue
    BY <1>1, <2>1 DEF UnAttach, FlushOK
  <2>3. ASSUME NEW f \in queue \intersect File, f # g, f \notin fl.todo PROVE Listed(f)' \/ f \in orphan'
    <3>0. CASE f \in orphan
      BY <3>0, StaysOrphan
    <3> SUFFICES ASSUME f \notin orphan PROVE Listed(f)'
      BY <3>0
    <3>1. Listed(f) /\ f \notin Nr
      BY <2>2, <2>3, NameKinds DEF FilesDone
    <3>2. ~UnAttach(f) /\ ~ReceiveGot /\ ~MarkAgain
      BY <1>1, <2>1, <2>2, <2>3 DEF UnAttach, ReceiveGot, MarkAgain, Marks, Mark
    <3> QED
      BY <3>1, <3>2, StaysListed
  <2> QED
    BY <2>2, <2>3 DEF FilesDone
<1>6. CASE Attach
  <2>1. /\ fl.at = "unattached" /\ fl'.at = "files" /\ fl'.todo = fl.todo
        /\ flo' = Append(flo, [name |-> fl.item, sent |-> FALSE])
        /\ UNCHANGED queue
    BY <1>1, <1>6 DEF Attach, FlushOK
  <2>2. fl.item \in File
    BY <2>1 DEF FlushSafe
  <2>4. PICK g : g = fl.item
    OBVIOUS
  <2>5. Listed(g)' /\ \A name : Listed(name) => Listed(name)'
    BY <1>1, <2>1, <2>2, <2>4, Appended
  <2> QED
    BY <2>1, <2>4, <2>5, StaysOrphan DEF FilesDone
<1>13. CASE FileFails
  <2>1. /\ fl.at = "unattached" /\ fl'.at = "files" /\ fl'.todo = fl.todo
        /\ orphan' = orphan \union {fl.item} /\ UNCHANGED <<flo, queue>>
    BY <1>1, <1>13 DEF FileFails, FlushOK
  <2>2. \A name : Listed(name) => Listed(name)'
    BY <2>1 DEF Listed, Open
  <2> QED
    BY <2>1, <2>2 DEF FilesDone
<1>7. ~FlushBegin
  BY DEF FlushBegin, BeginFlush, NoArchiver, NoFlush
<1>8. ~FlushEnd
  BY DEF FlushEnd, EndFlush, LeaveNode, KillFlush, NoFlush
<1>9. ~(\E m \in Mail : Pack(m))
  BY DEF Pack
<1>10. ~(\E m \in Mail : PackFails(m))
  BY <1>1 DEF PackFails, FlushOK
<1>11. ~Unpack /\ ~AttachFails /\ ~AppendPacket
  BY <1>1 DEF Unpack, AttachFails, AppendPacket, FlushOK
<1>14. ~(\E lost \in SUBSET (queue \intersect Net) : AppendFails(lost))
  BY <1>1 DEF AppendFails, FlushOK
<1>12. fl.at # "idle"
  <2>1. fl.at = "idle" => fl' = fl
    BY <1>1, <1>7, <1>8, FlushMoves, FlushStepIs DEF FlushStep, FlushBegin, FlushEnd
  <2> QED
    BY <2>1
<1> QED
  BY <1>3, <1>4, <1>5, <1>6, <1>8, <1>9, <1>10, <1>11, <1>12, <1>13, <1>14, FlushAlone DEF FlushStep

LEMMA Initially == Init => IInv
<1> SUFFICES ASSUME Init PROVE IInv
  OBVIOUS
<1>1. TypeOK
  <2>1. QueueOK
    BY DEF Init, QueueOK
  <2>2. ArchivesOK /\ HistoryOK
    BY BoundsKnown DEF Init, ArchivesOK, HistoryOK, Age, Nr
  <2>3. FlushOK
    BY NoFlushOK DEF Init, FlushOK
  <2>4. SessionOK
    BY NoSessionOK DEF Init, SessionOK, SessionType
  <2>5. ScanOK /\ FloOK /\ OthersOK
    BY BoundsKnown DEF Init, ScanOK, FloOK, OthersOK
  <2> QED
    BY <2>1, <2>2, <2>3, <2>4, <2>5, Parts
<1>2. fl.at = "idle" /\ se.at = "idle" /\ lock = "free"
  BY DEF Init, NoFlush, NoSession
<1>3. Locked /\ FlushSafe /\ Turn /\ Sent /\ Lines /\ FilesDone
  BY <1>2 DEF Locked, FlushSafe, Turn, Sent, Lines, FilesDone
<1>4. ArchivesListed /\ FilesListed /\ NothingLost
  BY DEF Init, ArchivesListed, FilesListed, NothingLost
<1> QED
  BY <1>1, <1>3, <1>4 DEF IInv

LEMMA Inductive == IInv /\ [Next]_vars => IInv'
<1> SUFFICES ASSUME IInv, [Next]_vars PROVE IInv'
  OBVIOUS
<1> USE DEF IInv
<1>1. QueueOK' /\ ArchivesOK' /\ HistoryOK'
  BY KeepsQueue, KeepsArchives, KeepsHistory
<1>2. FlushOK' /\ SessionOK' /\ ScanOK'
  BY KeepsFlush, KeepsSession, KeepsScan
<1>3. FloOK' /\ OthersOK'
  BY KeepsFlo, KeepsOthers
<1>4. TypeOK'
  BY <1>1, <1>2, <1>3, SMTT(60)
     DEF TypeOK, QueueOK, ArchivesOK, HistoryOK, FlushOK, SessionOK, ScanOK, FloOK, OthersOK
<1>5. Locked' /\ FlushSafe' /\ Turn' /\ Sent' /\ Lines'
  BY KeepsLocked, KeepsFlushSafe, KeepsTurn, KeepsSent, KeepsLines
<1>6. ArchivesListed' /\ FilesListed' /\ FilesDone' /\ NothingLost'
  BY KeepsArchivesListed, KeepsFilesListed, KeepsFilesDone, KeepsMail
<1> QED
  BY <1>4, <1>5, <1>6

LEMMA Always == Spec => []IInv
BY Initially, Inductive, PTL DEF Spec

(***************************************************************************)
(* Theorems                                                                *)
(***************************************************************************)

\* Every variable of the outbound keeps its type; the loop over the names of archives
\* (flush_dir in ftnfido/queue.c) ends with a name there is.
THEOREM TypeCorrect == Spec => []TypeOK
BY Always, PTL DEF IInv

\* No packet and no netmail that was queued is lost, whoever of ftnfido, the session
\* and scanout runs or is killed: all but scanout, and but for netmail that is appended to
\* the packet on a full disk, leaves it in the queue, in the outbound or at the other side.
THEOREM MailKept == Spec => []NothingLost
BY Always, PTL DEF IInv

\* While nobody works at the node what waits in its outbound is named by a line that
\* is not marked, but for what a kill left, or attach when it could not open the .flo.
THEOREM WaitingIsListed == Spec => []Attached
<1>1. IInv => Attached
  BY Zenon DEF IInv, Attached, Locked, ArchivesListed, FilesListed, Held
<1> QED
  BY <1>1, Always, PTL

=============================================================================
