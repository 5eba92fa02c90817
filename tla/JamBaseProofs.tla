---------------------------- MODULE JamBaseProofs ----------------------------
(***************************************************************************)
(* JamBase for any number of programs, messages and files, whoever is      *)
(* killed: nobody changes a header file that somebody else is changing,    *)
(* types are kept, no message is lost, count and index are right, and      *)
(* nothing is taken for read that was not shown.                           *)
(***************************************************************************)
EXTENDS JamBase, SequenceTheorems, FiniteSetTheorems, TLAPS

(***************************************************************************)
(* Numbers and counts.  The finite subsets of a set are well-founded, so a *)
(* set of numbers has a least one: the lemmas about counts that go from    *)
(* one message to the next are led to a contradiction for the least number *)
(* at which they fail.                                                     *)
(***************************************************************************)
LEMMA LeastNatural ==
  ASSUME NEW T, T \subseteq Nat, T # {}
  PROVE  \E x \in T : \A y \in T : x <= y
<1> DEFINE I(n) == 0..(n - 1)
           U == {I(n) : n \in T}
<1>1. \A n \in Nat : I(n) \in FiniteSubsetsOf(Nat)
  BY FS_Interval DEF FiniteSubsetsOf
<1>2. U \subseteq FiniteSubsetsOf(Nat) /\ U # {}
  BY <1>1
<1>3. \E x \in U : \A y \in U : <<y, x>> \notin StrictSubsetOrdering(Nat)
  BY <1>2, FS_StrictSubsetOrderingWellFounded, WFMin
<1>4. PICK x \in T : \A y \in T : <<I(y), I(x)>> \notin StrictSubsetOrdering(Nat)
  BY <1>3
<1>5. ASSUME NEW y \in T, y < x PROVE FALSE
  <2>1. I(y) \subseteq I(x) /\ I(y) # I(x)
    BY <1>5
  <2> QED
    BY <2>1, <1>1, <1>4 DEF StrictSubsetOrdering, FiniteSubsetsOf
<1> QED
  BY <1>5

\* The active messages of a header file, those among the first i, and how many these are.
Act(m) == {i \in DOMAIN m : ~ m[i].del}
Upto(m, i) == {k \in 1..i : ~ m[k].del}
N(m, i) == Cardinality(Upto(m, i))

LEMMA Counts ==
  ASSUME NEW m, NEW i \in Nat
  PROVE  IsFiniteSet(Upto(m, i)) /\ N(m, i) \in Nat /\ N(m, i) <= i
<1>1. IsFiniteSet(1..i) /\ Cardinality(1..i) = i
  BY FS_Interval
<1>2. Upto(m, i) \in SUBSET (1..i)
  BY DEF Upto
<1> QED BY <1>1, <1>2, FS_Subset, FS_CardinalityType DEF N

LEMMA CountZero == ASSUME NEW m PROVE N(m, 0) = 0
<1>1. Upto(m, 0) = {}
  BY DEF Upto
<1> QED BY <1>1, FS_EmptySet DEF N

LEMMA CountStep ==
  ASSUME NEW m, NEW i \in Nat, i > 0
  PROVE  /\ m[i].del => N(m, i) = N(m, i - 1)
         /\ ~ m[i].del => N(m, i) = N(m, i - 1) + 1
<1>1. ASSUME m[i].del PROVE N(m, i) = N(m, i - 1)
  <2>1. Upto(m, i) = Upto(m, i - 1)
    BY <1>1 DEF Upto
  <2> QED BY <2>1 DEF N
<1>2. ASSUME ~ m[i].del PROVE N(m, i) = N(m, i - 1) + 1
  <2>1. Upto(m, i) = Upto(m, i - 1) \cup {i} /\ i \notin Upto(m, i - 1) /\ i - 1 \in Nat
    BY <1>2 DEF Upto
  <2> QED BY <2>1, Counts, FS_AddElement DEF N
<1> QED BY <1>1, <1>2

\* Each active message raises the count.
LEMMA CountGrows ==
  ASSUME NEW m, NEW i \in Nat, NEW j \in Nat, i <= j
  PROVE  N(m, i) <= N(m, j) /\ (i < j /\ ~ m[j].del => N(m, i) < N(m, j))
<1>1. ASSUME NEW k \in Nat, i <= k PROVE N(m, i) <= N(m, k)
  <2>1. Upto(m, i) \in SUBSET Upto(m, k)
    BY <1>1 DEF Upto
  <2> QED BY <2>1, Counts, FS_Subset DEF N
<1>2. ASSUME i < j, ~ m[j].del PROVE N(m, i) < N(m, j)
  <2>1. j - 1 \in Nat /\ i <= j - 1
    BY <1>2
  <2> QED BY <1>1, <1>2, <2>1, CountStep, Counts
<1> QED BY <1>1, <1>2

\* The count takes every value on its way, each at an active message.
LEMMA CountOnto ==
  ASSUME NEW m, NEW r \in Nat, NEW n \in 1..N(m, r)
  PROVE  \E i \in 1..r : ~ m[i].del /\ N(m, i) = n
<1> DEFINE T == {i \in 0..r : N(m, i) >= n}
<1>0. n \in Nat /\ n > 0 /\ N(m, r) \in Nat /\ n <= N(m, r)
  BY Counts
<1>1. T \subseteq Nat /\ r \in T
  BY <1>0
<1>2. PICK i \in T : \A y \in T : i <= y
  BY <1>1, LeastNatural
<1>3. i \in 0..r /\ i \in Nat /\ N(m, i) >= n /\ i # 0
  BY <1>0, <1>2, CountZero
<1>4. i - 1 \in 0..r /\ i - 1 \in Nat /\ i \in 1..r
  BY <1>3
<1>5. ~ (N(m, i - 1) >= n)
  BY <1>2, <1>3, <1>4
<1>6. N(m, i) \in Nat /\ N(m, i - 1) \in Nat
  BY <1>3, <1>4, Counts
<1>7. ~ m[i].del /\ N(m, i) = N(m, i - 1) + 1
  <2>1. m[i].del => N(m, i) = N(m, i - 1)
    BY <1>3, <1>4, CountStep
  <2>2. ~ m[i].del
    BY <2>1, <1>0, <1>3, <1>5, <1>6
  <2> QED BY <2>2, <1>3, <1>4, CountStep
<1> QED BY <1>0, <1>3, <1>4, <1>5, <1>6, <1>7

LEMMA CountSame ==
  ASSUME NEW m, NEW w, NEW i \in Nat, \A k \in 1..i : w[k].del = m[k].del
  PROVE  N(w, i) = N(m, i)
<1>1. Upto(w, i) = Upto(m, i)
  BY DEF Upto
<1> QED BY <1>1 DEF N

LEMMA CountAll ==
  ASSUME NEW m \in Seq(Header)
  PROVE  Act(m) = Upto(m, Len(m)) /\ Cardinality(Act(m)) = N(m, Len(m)) /\ IsFiniteSet(Act(m))
<1>1. Act(m) = Upto(m, Len(m)) /\ Len(m) \in Nat
  BY LenProperties DEF Act, Upto
<1> QED BY <1>1, Counts DEF N

(***************************************************************************)
(* What a pack reads and writes.                                           *)
(***************************************************************************)

\* The headers that are reached are the first ones.
LEMMA ReachedIs ==
  ASSUME NEW p, Headers(p) \in Seq(Header)
  PROVE  \E r \in 0..Len(Headers(p)) : Reached(p) = 1..r
<1> DEFINE m == Headers(p)
           T == {i \in 1..Len(m) : i \notin Reached(p)}
<1>1. DOMAIN m = 1..Len(m) /\ Len(m) \in Nat
  BY LenProperties
<1>2. Reached(p) \subseteq 1..Len(m)
  BY <1>1 DEF Reached
<1>3. CASE T = {}
  <2>1. Reached(p) = 1..Len(m)
    BY <1>2, <1>3
  <2>2. Len(m) \in 0..Len(m)
    BY <1>1
  <2> HIDE DEF m
  <2> QED BY <2>1, <2>2 DEF m
<1>4. CASE T # {}
  <2>1. T \subseteq Nat
    OBVIOUS
  <2>2. PICK i \in T : \A y \in T : i <= y
    BY <1>4, <2>1, LeastNatural
  <2>3. PICK k \in 1..i : ~ Readable(p, k)
    BY <2>2, <1>1 DEF Reached
  <2>4. \A j \in 1..Len(m) : j >= i => j \notin Reached(p)
    BY <2>2, <2>3 DEF Reached
  <2>5. \A j \in 1..Len(m) : j < i => j \in Reached(p)
    BY <2>2
  <2>6. i \in 1..Len(m)
    BY <2>2
  <2> HIDE DEF T
  <2>7. i - 1 \in 0..Len(m)
    BY <1>1, <2>6
  <2>8. Reached(p) = 1..(i - 1)
    <3>1. ASSUME NEW j \in 1..Len(m), j \in Reached(p) PROVE j \in 1..(i - 1)
      BY <1>1, <2>4, <2>6, <3>1
    <3>2. ASSUME NEW j \in 1..(i - 1) PROVE j \in Reached(p)
      BY <1>1, <2>5, <2>6
    <3> QED BY <1>2, <3>1, <3>2
  <2> QED BY <2>7, <2>8
<1> QED BY <1>3, <1>4

LEMMA ReachedCount ==
  ASSUME NEW p, NEW r \in Nat, Reached(p) = 1..r
  PROVE  Cardinality(Reached(p)) = r
BY FS_Interval

LEMMA SetPacked ==
  \A h \in Header : \A n \in Nat : [h EXCEPT !.num = n, !.tail = FALSE] \in Header
BY DEF Header

\* The pack keeps the active messages it reaches, in their order, each at its new number.
LEMMA PackedIs ==
  ASSUME NEW p, Headers(p) \in Seq(Header), NEW r \in 0..Len(Headers(p)), Reached(p) = 1..r
  PROVE  /\ Packed(p) \in Seq(Header) /\ Len(Packed(p)) = N(Headers(p), r)
         /\ \A n \in 1..N(Headers(p), r) :
              \E i \in 1..r : /\ ~ Headers(p)[i].del /\ N(Headers(p), i) = n
                              /\ Packed(p)[n] = [Headers(p)[i] EXCEPT !.num = n, !.tail = FALSE]
<1> DEFINE m == Headers(p)
           kept == {i \in Reached(p) : ~ m[i].del}
           Of(n) == CHOOSE i \in kept : NewNumber(p, i) = n
           E(n) == [m[Of(n)] EXCEPT !.num = n, !.tail = FALSE]
<1>1. Len(m) \in Nat /\ m \in [1..Len(m) -> Header] /\ r \in Nat /\ r <= Len(m)
  BY LenProperties
<1>2. kept = Upto(m, r)
  BY DEF Upto
<1>3. Cardinality(kept) = N(m, r) /\ N(m, r) \in Nat
  BY <1>1, <1>2, Counts DEF N
<1>4. \A i : NewNumber(p, i) = N(m, i)
  BY DEF NewNumber, N, Upto
<1>5. Packed(p) = [n \in 1..N(m, r) |-> E(n)]
  BY <1>3, Zenon DEF Packed
<1>6. ASSUME NEW n \in 1..N(m, r)
      PROVE  Of(n) \in 1..r /\ ~ m[Of(n)].del /\ N(m, Of(n)) = n
  <2>1. \E i \in 1..r : ~ m[i].del /\ N(m, i) = n
    BY <1>1, CountOnto
  <2>2. \E i \in kept : NewNumber(p, i) = n
    BY <2>1, <1>4
  <2>3. Of(n) \in kept /\ NewNumber(p, Of(n)) = n
    BY <2>2
  <2> QED BY <2>3, <1>4
<1> HIDE DEF Of
<1>7. ASSUME NEW n \in 1..N(m, r) PROVE E(n) \in Header
  <2>1. Of(n) \in 1..Len(m) /\ n \in Nat
    BY <1>1, <1>3, <1>6
  <2>2. m[Of(n)] \in Header
    BY <1>1, <2>1
  <2> QED BY <2>1, <2>2, SetPacked
<1>8. \A n \in 1..N(m, r) : Packed(p)[n] = E(n)
  BY <1>5
<1>9. Packed(p) \in [1..N(m, r) -> Header]
  BY <1>5, <1>7
<1>10. Packed(p) \in Seq(Header) /\ Len(Packed(p)) = N(m, r)
  <2>1. Packed(p) \in Seq(Header)
    BY <1>3, <1>9, SeqDef
  <2> QED BY <1>3, <1>9, <2>1, LenProperties
<1>11. ASSUME NEW n \in 1..N(m, r)
       PROVE  \E i \in 1..r : /\ ~ m[i].del /\ N(m, i) = n
                              /\ Packed(p)[n] = [m[i] EXCEPT !.num = n, !.tail = FALSE]
  BY <1>6, <1>8
<1> QED BY <1>10, <1>11

\* One step of the pointers, and all of them as the function Moved goes through.
Follow(p, v, i) == [u \in Proc |-> IF v[u] = Headers(p)[i].num THEN NewNumber(p, i) ELSE v[u]]
Goes(p, w, r) == w = [i \in 0..r |-> IF i = 0 THEN rest[proc[p].rest].high ELSE Follow(p, w[i - 1], i)]
Walk(p) ==
  CHOOSE m : m = [i \in 0..Cardinality(Reached(p)) |->
    IF i = 0 THEN rest[proc[p].rest].high
    ELSE [u \in Proc |-> IF m[i - 1][u] = Headers(p)[i].num THEN NewNumber(p, i) ELSE m[i - 1][u]]]

LEMMA WalkExists ==
  ASSUME NEW p, NEW r \in Nat
  PROVE  \E w : Goes(p, w, r)
<1> DEFINE T == {i \in Nat : ~ \E w : Goes(p, w, i)}
<1>1. SUFFICES ASSUME T # {} PROVE FALSE
  OBVIOUS
<1>2. PICK n \in T : \A y \in T : n <= y
  BY <1>1, LeastNatural
<1>3. n \in Nat /\ ~ \E w : Goes(p, w, n)
  BY <1>2
<1>4. n # 0
  <2> DEFINE w == [i \in 0..0 |-> rest[proc[p].rest].high]
  <2>1. w = [i \in 0..0 |-> IF i = 0 THEN rest[proc[p].rest].high ELSE Follow(p, w[i - 1], i)]
    BY \A i \in 0..0 : i = 0
  <2>2. Goes(p, w, 0)
    BY <2>1 DEF Goes
  <2> QED BY <1>3, <2>2
<1>5. n - 1 \in Nat /\ n - 1 \notin T
  BY <1>2, <1>3, <1>4
<1>6. PICK w : Goes(p, w, n - 1)
  BY <1>5
<1> DEFINE e == [i \in 0..n |-> IF i = n THEN Follow(p, w[n - 1], n) ELSE w[i]]
<1>7. ASSUME NEW i \in 0..n
      PROVE  e[i] = IF i = 0 THEN rest[proc[p].rest].high ELSE Follow(p, e[i - 1], i)
  <2>1. CASE i = 0
    <3>1. e[i] = w[0] /\ 0 \in 0..(n - 1)
      BY <2>1, <1>3, <1>4
    <3>2. w[0] = rest[proc[p].rest].high
      BY <3>1, <1>6 DEF Goes
    <3> QED BY <2>1, <3>1, <3>2
  <2>2. CASE i # 0 /\ i # n
    <3>1. i \in 0..(n - 1) /\ i - 1 \in 0..n /\ i - 1 # n
      BY <2>2, <1>3
    <3>2. e[i] = w[i] /\ e[i - 1] = w[i - 1]
      BY <2>2, <3>1
    <3>3. w[i] = Follow(p, w[i - 1], i)
      BY <1>6, <2>2, <3>1 DEF Goes
    <3> QED BY <2>2, <3>2, <3>3
  <2>3. CASE i = n
    <3>1. n - 1 \in 0..n /\ n - 1 # n
      BY <1>3, <1>4
    <3>2. e[i] = Follow(p, w[n - 1], n) /\ e[n - 1] = w[n - 1]
      BY <2>3, <3>1
    <3> QED BY <2>3, <3>2, <1>4
  <2> QED BY <2>1, <2>2, <2>3
<1>8. DOMAIN e = 0..n /\ e = [i \in 0..n |-> e[i]]
  OBVIOUS
<1> HIDE DEF e
<1>9. Goes(p, e, n)
  BY <1>7, <1>8, Zenon DEF Goes
<1> QED BY <1>3, <1>9

LEMMA WalkIs ==
  ASSUME NEW p, NEW r \in Nat, Cardinality(Reached(p)) = r
  PROVE  /\ Moved(p) = Walk(p)[r] /\ Walk(p)[0] = rest[proc[p].rest].high
         /\ \A i \in 1..r : Walk(p)[i] = Follow(p, Walk(p)[i - 1], i)
<1>1. Moved(p) = Walk(p)[Cardinality(Reached(p))]
  BY Zenon DEF Moved, Walk
<1>2. \E w : Goes(p, w, Cardinality(Reached(p)))
  BY WalkExists
<1>3. Goes(p, Walk(p), Cardinality(Reached(p)))
  BY <1>2, Zenon DEF Walk, Goes, Follow
<1>4. Walk(p) = [i \in 0..r |-> IF i = 0 THEN rest[proc[p].rest].high ELSE Follow(p, Walk(p)[i - 1], i)]
  BY <1>3 DEF Goes
<1>5. Walk(p)[0] = rest[proc[p].rest].high
  BY <1>4
<1>6. ASSUME NEW i \in 1..r PROVE Walk(p)[i] = Follow(p, Walk(p)[i - 1], i)
  <2>1. i \in 0..r /\ i # 0
    OBVIOUS
  <2> QED BY <1>4, <2>1
<1> QED BY <1>1, <1>5, <1>6

\* The pointers are numbers, and where every message has the number of its place
\* each pointer follows its message.
LEMMA MovedType ==
  ASSUME NEW p, NEW r \in Nat, Reached(p) = 1..r, rest[proc[p].rest].high \in [Proc -> Nat]
  PROVE  Moved(p) \in [Proc -> Nat]
<1> DEFINE T == {i \in 0..r : Walk(p)[i] \notin [Proc -> Nat]}
<1>1. Cardinality(Reached(p)) = r
  BY ReachedCount
<1>2. SUFFICES ASSUME T # {} PROVE FALSE
  <2>1. SUFFICES ASSUME T = {} PROVE Moved(p) \in [Proc -> Nat]
    BY <1>2
  <2>2. r \in 0..r
    OBVIOUS
  <2>3. Walk(p)[r] \in [Proc -> Nat]
    BY <2>1, <2>2, Zenon
  <2> QED BY <2>3, <1>1, WalkIs
<1>3. PICK n \in T : \A y \in T : n <= y
  <2>1. T \subseteq Nat
    OBVIOUS
  <2> QED BY <1>2, <2>1, LeastNatural
<1>4. n \in 1..r /\ n - 1 \in 0..r /\ n \in Nat
  <2>1. n # 0
    BY <1>1, <1>3, WalkIs
  <2> QED BY <1>3, <2>1
<1>5. Walk(p)[n - 1] \in [Proc -> Nat]
  <2>1. ~ (n <= n - 1)
    BY <1>4
  <2> QED BY <1>3, <1>4, <2>1
<1>6. NewNumber(p, n) \in Nat
  BY <1>4, Counts DEF N, Upto, NewNumber
<1>7. Follow(p, Walk(p)[n - 1], n) \in [Proc -> Nat]
  BY <1>5, <1>6 DEF Follow
<1> QED BY <1>1, <1>3, <1>4, <1>7, WalkIs

LEMMA MovedIs ==
  ASSUME NEW p, NEW r \in Nat, Reached(p) = 1..r, rest[proc[p].rest].high \in [Proc -> Nat],
         \A i \in 1..r : Headers(p)[i].num = i, NEW u \in Proc
  PROVE  Moved(p)[u] = LET h == rest[proc[p].rest].high[u] IN IF h \in 1..r THEN N(Headers(p), h) ELSE h
<1> DEFINE h == rest[proc[p].rest].high[u]
           Right(i) == Walk(p)[i][u] = IF h \in 1..i THEN N(Headers(p), h) ELSE h
           T == {i \in 0..r : ~ Right(i)}
<1>1. Cardinality(Reached(p)) = r /\ h \in Nat
  BY ReachedCount
<1>2. SUFFICES ASSUME T # {} PROVE FALSE
  <2>1. SUFFICES ASSUME T = {} PROVE Moved(p)[u] = IF h \in 1..r THEN N(Headers(p), h) ELSE h
    BY <1>2
  <2>2. Right(r)
    BY <2>1
  <2> QED BY <2>2, <1>1, WalkIs
<1>3. PICK n \in T : \A y \in T : n <= y
  <2>1. T \subseteq Nat
    OBVIOUS
  <2> QED BY <1>2, <2>1, LeastNatural
<1>4. Right(0)
  <2>1. h \notin 1..0
    OBVIOUS
  <2> QED BY <2>1, <1>1, WalkIs
<1>5. n \in 1..r /\ n - 1 \in 0..r /\ n \in Nat /\ n - 1 \in Nat
  BY <1>3, <1>4
<1>6. Right(n - 1)
  BY <1>3, <1>5
<1>7. Walk(p)[n][u] = IF Walk(p)[n - 1][u] = n THEN N(Headers(p), n) ELSE Walk(p)[n - 1][u]
  <2>1. Walk(p)[n] = Follow(p, Walk(p)[n - 1], n) /\ Headers(p)[n].num = n
    BY <1>1, <1>5, WalkIs
  <2>2. NewNumber(p, n) = N(Headers(p), n)
    BY DEF NewNumber, N, Upto
  <2> QED BY <2>1, <2>2 DEF Follow
<1>8. CASE h \in 1..(n - 1)
  <2>1. h \in Nat /\ N(Headers(p), h) <= h /\ N(Headers(p), h) \in Nat /\ h \in 1..n /\ h < n
    BY <1>5, <1>8, Counts
  <2>2. Walk(p)[n - 1][u] = N(Headers(p), h) /\ N(Headers(p), h) # n
    BY <1>6, <1>8, <2>1, <1>5
  <2>3. Right(n)
    BY <1>7, <2>1, <2>2
  <2> QED BY <1>3, <2>3
<1>9. CASE h = n
  <2>1. h \notin 1..(n - 1) /\ h \in 1..n
    BY <1>5, <1>9
  <2>2. Walk(p)[n - 1][u] = n
    BY <1>6, <1>9, <2>1
  <2>3. Right(n)
    BY <1>7, <1>9, <2>1, <2>2
  <2> QED BY <1>3, <2>3
<1>10. CASE h \notin 1..n
  <2>1. h \notin 1..(n - 1) /\ h # n
    BY <1>5, <1>10
  <2>2. Walk(p)[n - 1][u] = h
    BY <1>6, <2>1
  <2>3. Right(n)
    BY <1>7, <1>10, <2>1, <2>2
  <2> QED BY <1>3, <2>3
<1> QED BY <1>1, <1>5, <1>8, <1>9, <1>10

Fields == {"at", "job", "hdr", "rest", "cached", "num", "id", "top", "next", "new"}

\* What the lock needs to know of the types.
Shape ==
  /\ lock \in [File -> Proc \union {Free}]
  /\ DOMAIN proc = Proc /\ \A p \in Proc : DOMAIN proc[p] = Fields

LInv == Shape /\ LockHeld

LEMMA InitL == Init => LInv
BY FreeKnown DEF Init, LInv, Shape, LockHeld, Fields, Holding

\* A process goes on without a change of the lock.
LEMMA GoesOn ==
  ASSUME LInv, NEW p \in Proc, NEW r, DOMAIN r = Fields, proc' = [proc EXCEPT ![p] = r], lock' = lock,
         \/ r.hdr = proc[p].hdr /\ r.at \in Holding /\ proc[p].at \in Holding
         \/ r.at \notin Holding /\ proc[p].at \notin Holding
  PROVE LInv'
<1>1. Shape'
  BY DEF LInv, Shape
<1>2. ASSUME NEW q \in Proc, NEW f \in File PROVE lock'[f] = q <=> proc'[q].hdr = f /\ proc'[q].at \in Holding
  <2>1. CASE q = p
    BY <2>1, SMT DEF LInv, Shape, LockHeld
  <2>2. CASE q # p
    BY <2>2 DEF LInv, Shape, LockHeld
  <2> QED BY <2>1, <2>2
<1> QED BY <1>1, <1>2 DEF LInv, LockHeld

\* A process gives its lock back.
LEMMA Leaves ==
  ASSUME LInv, NEW p \in Proc, NEW r, DOMAIN r = Fields, proc' = [proc EXCEPT ![p] = r], lock' = Unlocked(p),
         r.at \notin Holding
  PROVE LInv'
<1>1. Shape'
  BY DEF LInv, Shape, Unlocked
<1>2. ASSUME NEW q \in Proc, NEW f \in File PROVE lock'[f] = q <=> proc'[q].hdr = f /\ proc'[q].at \in Holding
  <2>1. CASE q = p
    BY <2>1, FreeKnown DEF LInv, Shape, LockHeld, Unlocked
  <2>2. CASE q # p
    BY <2>2, FreeKnown DEF LInv, Shape, LockHeld, Unlocked
  <2> QED BY <2>1, <2>2
<1> QED BY <1>1, <1>2 DEF LInv, LockHeld

LEMMA Takes == ASSUME LInv, NEW p \in Proc, JAM_Lock(p) PROVE LInv'
<1> DEFINE r == [proc[p] EXCEPT !.at = "locked"]
<1>1. proc' = [proc EXCEPT ![p] = r] /\ DOMAIN r = Fields /\ r.hdr = proc[p].hdr /\ r.at = "locked"
  BY DEF JAM_Lock, Go, LInv, Shape, Fields
<1>2. lock' = [lock EXCEPT ![proc[p].hdr] = p] /\ lock[proc[p].hdr] = Free /\ proc[p].at \notin Holding
  BY DEF JAM_Lock, Holding
<1> HIDE DEF r
<1>3. Shape'
  BY <1>1, <1>2 DEF LInv, Shape
<1>4. ASSUME NEW q \in Proc, NEW f \in File PROVE lock'[f] = q <=> proc'[q].hdr = f /\ proc'[q].at \in Holding
  <2>1. CASE q = p
    BY <1>1, <1>2, <2>1, FreeKnown DEF LInv, Shape, LockHeld, Holding
  <2>2. CASE q # p
    BY <1>1, <1>2, <2>2, FreeKnown DEF LInv, Shape, LockHeld
  <2> QED BY <2>1, <2>2
<1> QED BY <1>3, <1>4 DEF LInv, LockHeld

LEMMA Opens ==
  ASSUME LInv, NEW p \in Proc,
         (\E j \in Job : OpenHeader(p, j)) \/ OpenRest(p) \/ SetMsgArea(p)
  PROVE LInv'
<1>1. ASSUME NEW j \in Job, OpenHeader(p, j) PROVE LInv'
  <2>1. proc[p].at \notin Holding /\ lock' = lock
    BY <1>1, ZenonT(60) DEF OpenHeader, Holding
  <2> DEFINE old == [proc[p] EXCEPT !.at = "header", !.job = j, !.hdr = name["hdr"], !.cached = jhr[name["hdr"]].active]
             made == [proc[p] EXCEPT !.at = "header", !.job = j, !.hdr = files + 1]
  <2>2. proc' = [proc EXCEPT ![p] = old] \/ proc' = [proc EXCEPT ![p] = made]
    BY <1>1, Zenon DEF OpenHeader, LInv, Shape
  <2>3. {DOMAIN old, DOMAIN made} = {Fields} /\ old.at = "header" /\ made.at = "header"
    BY DEF LInv, Shape, Fields
  <2> HIDE DEF old, made
  <2> QED BY <2>1, <2>2, <2>3, GoesOn, SMTT(60) DEF Holding
<1>2. ASSUME OpenRest(p) PROVE LInv'
  <2>1. proc[p].at \notin Holding /\ lock' = lock
    BY <1>2 DEF OpenRest, Holding
  <2>2. PICK n : proc' = [proc EXCEPT ![p] = [proc[p] EXCEPT !.at = "open", !.rest = n]]
    BY <1>2 DEF OpenRest, LInv, Shape
  <2> DEFINE r == [proc[p] EXCEPT !.at = "open", !.rest = n]
  <2>3. DOMAIN r = Fields /\ r.at = "open"
    BY DEF LInv, Shape, Fields
  <2> QED BY <2>1, <2>2, <2>3, GoesOn DEF Holding
<1>3. ASSUME SetMsgArea(p) PROVE LInv'
  <2>1. proc[p].at = "off" /\ lock' = lock
    BY <1>3 DEF SetMsgArea, base
  <2>2. PICK t : proc' = [proc EXCEPT ![p].top = t]
    BY <1>3 DEF SetMsgArea
  <2> DEFINE r == [proc[p] EXCEPT !.top = t]
  <2>3. proc' = [proc EXCEPT ![p] = r] /\ DOMAIN r = Fields /\ r.at = "off"
    BY <2>1, <2>2 DEF LInv, Shape, Fields
  <2> QED BY <2>1, <2>3, GoesOn DEF Holding
<1> QED BY <1>1, <1>2, <1>3

\* The steps that change no lock and nothing of a process but its place.
LEMMA Stays ==
  ASSUME LInv, NEW p \in Proc, NEW at, Go(p, at), lock' = lock,
         at \in Holding <=> proc[p].at \in Holding
  PROVE LInv'
<1> DEFINE r == [proc[p] EXCEPT !.at = at]
<1>1. proc' = [proc EXCEPT ![p] = r] /\ DOMAIN r = Fields /\ r.hdr = proc[p].hdr /\ r.at = at
  BY DEF Go, LInv, Shape, Fields
<1> HIDE DEF r
<1> QED BY <1>1, GoesOn

LEMMA ClosedShape ==
  ASSUME LInv, NEW p \in Proc
  PROVE DOMAIN Closed(p) = Fields /\ Closed(p).at = "off"
BY DEF Closed, LInv, Shape, Fields

\* The steps that end with JAM_Close, with or without the lock.
LEMMA Closes ==
  ASSUME LInv, NEW p \in Proc, JAM_Close(p),
         lock' = Unlocked(p) \/ (lock' = lock /\ proc[p].at \notin Holding)
  PROVE LInv'
<1>1. proc' = [proc EXCEPT ![p] = Closed(p)]
  BY DEF JAM_Close
<1> QED BY <1>1, ClosedShape, GoesOn, Leaves DEF Holding

LEMMA Adds == ASSUME LInv, NEW p \in Proc, AddIndex(p) \/ AddBegin(p) \/ AddEnd(p) \/ AddCount(p) PROVE LInv'
<1>0. CASE AddIndex(p)
  <2>1. {proc[p].at, "indexed"} \subseteq Holding /\ lock' = lock
    BY <1>0 DEF AddIndex, At, Holding
  <2>2. PICK n : proc' = [proc EXCEPT ![p] = [proc[p] EXCEPT !.at = "indexed", !.next = n]]
    BY <1>0 DEF AddIndex, LInv, Shape
  <2> DEFINE r == [proc[p] EXCEPT !.at = "indexed", !.next = n]
  <2>3. DOMAIN r = Fields /\ r.at = "indexed" /\ r.hdr = proc[p].hdr
    BY DEF LInv, Shape, Fields
  <2> HIDE DEF r
  <2> QED BY <2>1, <2>2, <2>3, GoesOn DEF r
<1>1. CASE AddBegin(p)
  BY <1>1, Stays DEF AddBegin, Holding
<1>2. CASE AddEnd(p)
  BY <1>2, Stays DEF AddEnd, Holding
<1>3. CASE AddCount(p)
  BY <1>3, Closes DEF AddCount
<1> QED BY <1>0, <1>1, <1>2, <1>3

LEMMA Reads ==
  ASSUME LInv, NEW p \in Proc,
         (\E n \in Msg : Show(p, n) \/ ShowPhantom(p, n)) \/ ShowNone(p) \/ LockFails(p) \/ MarkRead(p)
  PROVE LInv'
<1>1. ASSUME NEW n \in Msg, Show(p, n) \/ ShowPhantom(p, n) PROVE LInv'
  <2>1. proc[p].at \notin Holding /\ lock' = lock
    BY <1>1 DEF Show, ShowPhantom, At, Holding, base
  <2>2. PICK id : proc' = [proc EXCEPT ![p] = [proc[p] EXCEPT !.at = "found", !.num = n, !.id = id]]
    <3>1. CASE Show(p, n)
      BY <3>1 DEF Show, LInv, Shape
    <3>2. CASE ShowPhantom(p, n)
      BY <3>2 DEF ShowPhantom, LInv, Shape
    <3> QED BY <1>1, <3>1, <3>2
  <2> DEFINE r == [proc[p] EXCEPT !.at = "found", !.num = n, !.id = id]
  <2>3. DOMAIN r = Fields /\ r.at = "found"
    BY DEF LInv, Shape, Fields
  <2> QED BY <2>1, <2>2, <2>3, GoesOn DEF Holding
<1>2. CASE ShowNone(p)
  BY <1>2, Closes DEF ShowNone, At, Holding, base
<1>3. CASE LockFails(p)
  BY <1>3, Closes, SMTT(60) DEF LockFails, Holding, base
<1>4. CASE MarkRead(p)
  BY <1>4, Closes, ZenonT(60) DEF MarkRead
<1> QED BY <1>1, <1>2, <1>3, <1>4

LEMMA Deletes ==
  ASSUME LInv, NEW p \in Proc,
         (\E n \in Msg : JAM_Delete(p, n) \/ DeletePhantom(p, n)) \/ DeleteCount(p) \/ DeleteEnd(p)
  PROVE LInv'
<1>1. ASSUME NEW n \in Msg, JAM_Delete(p, n) \/ DeletePhantom(p, n) PROVE LInv'
  BY <1>1, Stays, Zenon DEF JAM_Delete, DeletePhantom, At, Holding
<1>2. CASE DeleteCount(p)
  <2>1. CASE proc[p].job = "kill"
    BY <1>2, <2>1, Stays DEF DeleteCount, Holding
  <2>2. CASE proc[p].job # "kill"
    BY <1>2, <2>2, Closes DEF DeleteCount
  <2> QED BY <2>1, <2>2
<1>3. CASE DeleteEnd(p)
  BY <1>3, Closes DEF DeleteEnd
<1> QED BY <1>1, <1>2, <1>3

LEMMA Packs ==
  ASSUME LInv, NEW p \in Proc, (\E short \in BOOLEAN : PackCopy(p, short)) \/ PackClose(p) \/ PackReplace(p)
  PROVE LInv'
<1>1. ASSUME NEW short \in BOOLEAN, PackCopy(p, short) PROVE LInv'
  <2>1. proc[p].at \in Holding /\ lock' = lock
    BY <1>1 DEF PackCopy, At, Holding
  <2> DEFINE r == [proc[p] EXCEPT !.at = "packed", !.new = files + 1]
  <2>2. proc' = [proc EXCEPT ![p] = r]
    BY <1>1 DEF PackCopy, LInv, Shape
  <2>3. DOMAIN r = Fields /\ r.at = "packed" /\ r.hdr = proc[p].hdr
    BY DEF LInv, Shape, Fields
  <2> HIDE DEF r
  <2> QED BY <2>1, <2>2, <2>3, GoesOn DEF Holding
<1>2. CASE PackClose(p)
  <2> DEFINE r == [proc[p] EXCEPT !.at = "unlinkhdr", !.hdr = 0, !.rest = 0]
  <2>1. proc' = [proc EXCEPT ![p] = r] /\ lock' = Unlocked(p)
    BY <1>2 DEF PackClose, LInv, Shape
  <2>2. DOMAIN r = Fields /\ r.at = "unlinkhdr"
    BY DEF LInv, Shape, Fields
  <2> HIDE DEF r
  <2> QED BY <2>1, <2>2, Leaves DEF Holding
<1>3. CASE PackReplace(p)
  <2>1. ASSUME Unlink(p, "hdr", "unlinkhdr", "renamehdr") \/ Unlink(p, "rest", "unlinkrest", "renamerest") PROVE LInv'
    BY <2>1, Stays DEF Unlink, Holding
  <2>2. CASE Rename(p, "hdr", "renamehdr")
    BY <2>2, Stays DEF Rename, Holding
  <2>3. CASE Rename(p, "rest", "renamerest")
    BY <2>3, Closes DEF Rename, Holding
  <2> QED BY <1>3, <2>1, <2>2, <2>3 DEF PackReplace
<1> QED BY <1>1, <1>2, <1>3

LEMMA Killed == ASSUME LInv, NEW p \in Proc, Kill(p) PROVE LInv'
<1> DEFINE r == [Closed(p) EXCEPT !.num = 0, !.id = 0, !.top = 0]
<1>1. proc' = [proc EXCEPT ![p] = r] /\ lock' = Unlocked(p)
  BY DEF Kill
<1>2. DOMAIN r = Fields /\ r.at = "off"
  BY ClosedShape DEF Fields
<1> HIDE DEF r
<1> QED BY <1>1, <1>2, Leaves DEF Holding

LEMMA StepL == LInv /\ [Next]_vars => LInv'
<1> SUFFICES ASSUME LInv, [Next]_vars PROVE LInv'
  OBVIOUS
<1>1. CASE UNCHANGED vars
  BY <1>1 DEF vars, base, LInv, Shape, LockHeld
<1>2. ASSUME Next PROVE LInv'
  <2>1. PICK p \in Proc :
          \/ (\E j \in Job : OpenHeader(p, j)) \/ OpenRest(p) \/ SetMsgArea(p) \/ JAM_Lock(p)
          \/ AddIndex(p) \/ AddBegin(p) \/ AddEnd(p) \/ AddCount(p)
          \/ (\E n \in Msg : Show(p, n) \/ ShowPhantom(p, n)) \/ ShowNone(p) \/ LockFails(p) \/ MarkRead(p)
          \/ (\E n \in Msg : JAM_Delete(p, n) \/ DeletePhantom(p, n)) \/ DeleteCount(p) \/ DeleteEnd(p)
          \/ (\E short \in BOOLEAN : PackCopy(p, short)) \/ PackClose(p) \/ PackReplace(p) \/ Kill(p)
    BY <1>2, Zenon DEF Next
  <2> QED BY <2>1, Opens, Takes, Adds, Reads, Deletes, Packs, Killed, Zenon
<1> QED BY <1>1, <1>2

\* A process that changes a header file, from JAM_Lock to JAM_UnLock or the close of
\* the files, holds its lock (JAM_Lock and JAM_Pack of lib/jammsg.c).
THEOREM LocksHeld == Spec => []LockHeld
<1>1. LInv => LockHeld
  BY DEF LInv
<1> QED BY InitL, StepL, <1>1, PTL DEF Spec

\* Two processes that change the same header file at one time.
Beside(p, q) == p # q /\ {proc[p].at, proc[q].at} \subseteq Holding /\ proc[p].hdr = proc[q].hdr /\ proc[p].hdr \in File

\* There are none, so that a count that is read and written back is not lost.
THEOREM OneWriter == Spec => [](\A p, q \in Proc : ~ Beside(p, q))
<1>1. LInv => \A p, q \in Proc : ~ Beside(p, q)
  BY DEF LInv, LockHeld, Beside
<1> QED BY InitL, StepL, <1>1, PTL DEF Spec

(***************************************************************************)
(* The types, and what they rest on: what a process in its place has open, *)
(* what the names stand for, that the files which were not made are blank  *)
(* and that the messages of a file are in the order they were begun.       *)
(***************************************************************************)
FileType == [active : 0..(Wide - 1), msgs : Seq(Header)]
RestType == [idx : Seq(Nat), high : [Proc -> Nat]]

WithHeader == {"header", "open", "found", "locked", "indexed", "half", "full", "gone", "packed"}
WithRest == WithHeader \ {"header"}
Packing == {"packed", "unlinkhdr", "renamehdr", "unlinkrest", "renamerest"}

PlaceOf(p) ==
  /\ proc[p].at \in WithHeader => proc[p].hdr \in 1..files
  /\ proc[p].at \in WithRest => proc[p].rest \in 1..files
  /\ proc[p].at # "off" => proc[p].job \in Jobs[p]
  /\ proc[p].at \in Packing => proc[p].job = "pack" /\ proc[p].new \in 1..files
  /\ proc[p].job = "pack" /\ proc[p].at \in WithHeader => proc[p].hdr = name["hdr"]
  /\ proc[p].at = "half" => jhr[proc[p].hdr].msgs # <<>>
  /\ proc[p].at = "indexed" => proc[p].job = "add"

Places == \A p \in Proc : PlaceOf(p)

Names ==
  /\ name["hdr"] \in 0..files /\ name["rest"] \in 0..files
  /\ name["hdr"] = 0 => torn \/ \E k \in Proc : proc[k].at = "renamehdr"

Unmade == \A f \in File : f > files => jhr[f] = Blank /\ rest[f] = BlankRest

OrderOf(f) ==
  /\ Len(jhr[f].msgs) <= ids
  /\ \A i \in 1..Len(jhr[f].msgs) : jhr[f].msgs[i].id <= ids
  /\ \A i, j \in 1..Len(jhr[f].msgs) : i < j => jhr[f].msgs[i].id < jhr[f].msgs[j].id
  /\ \A i \in 1..Len(jhr[f].msgs) : jhr[f].msgs[i].del => jhr[f].msgs[i].id \in deleted

Ordered == \A f \in File : OrderOf(f)

Types ==
  /\ jhr \in [File -> FileType] /\ rest \in [File -> RestType]
  /\ name \in [{"hdr", "rest"} -> 0..MaxFiles] /\ lock \in [File -> Proc \union {Free}]
  /\ proc \in [Proc -> ProcType] /\ files \in 1..MaxFiles
Sizes == ids \in 0..MaxMsgs /\ jobs \in 0..MaxJobs /\ kills \in 0..MaxKills
Histories ==
  /\ stored \subseteq Msg /\ deleted \subseteq Msg /\ strayed \subseteq Msg /\ shown \in [Proc -> 0..MaxMsgs]
  /\ cut \subseteq File /\ crossed \subseteq File /\ torn \in BOOLEAN /\ mistaken \in BOOLEAN

First == Types /\ Sizes /\ Histories /\ LInv /\ Places /\ Names /\ Unmade /\ Ordered

LEMMA TypesAre == Types /\ Sizes /\ Histories /\ LockHeld <=> TypeOK
BY DEF Types, Sizes, Histories, TypeOK, FileType, RestType

LEMMA Bounded ==
  /\ Already \in Nat /\ MaxMsgs \in Nat /\ MaxJobs \in Nat /\ MaxKills \in Nat
  /\ MaxFiles \in Nat /\ MaxFiles > 0 /\ Wide \in Nat /\ Wide > 0 /\ Already <= MaxMsgs /\ MaxMsgs < Wide
BY BoundsKnown

(***************************************************************************)
(* Records with one field changed.                                         *)
(***************************************************************************)
LEMMA SetMsgs ==
  \A r \in FileType : \A m \in Seq(Header) :
    LET w == [r EXCEPT !.msgs = m] IN w \in FileType /\ w.msgs = m /\ w.active = r.active
BY DEF FileType
LEMMA SetActive ==
  \A r \in FileType : \A a \in 0..(Wide - 1) :
    LET w == [r EXCEPT !.active = a] IN w \in FileType /\ w.msgs = r.msgs /\ w.active = a
BY DEF FileType
LEMMA SetIdx ==
  \A r \in RestType : \A x \in Seq(Nat) :
    LET w == [r EXCEPT !.idx = x] IN w \in RestType /\ w.idx = x /\ w.high = r.high
BY DEF RestType
LEMMA SetHigh ==
  \A r \in RestType : \A x \in [Proc -> Nat] :
    LET w == [r EXCEPT !.high = x] IN w \in RestType /\ w.idx = r.idx /\ w.high = x
BY DEF RestType
LEMMA SetAt == \A r \in ProcType : \A x \in Place : [r EXCEPT !.at = x] \in ProcType
BY DEF ProcType
LEMMA SetJob == \A r \in ProcType : \A x \in Job : [r EXCEPT !.job = x] \in ProcType
BY DEF ProcType
LEMMA SetHdr == \A r \in ProcType : \A x \in 0..MaxFiles : [r EXCEPT !.hdr = x] \in ProcType
BY DEF ProcType
LEMMA SetRest == \A r \in ProcType : \A x \in 0..MaxFiles : [r EXCEPT !.rest = x] \in ProcType
BY DEF ProcType
LEMMA SetCached == \A r \in ProcType : \A x \in 0..(Wide - 1) : [r EXCEPT !.cached = x] \in ProcType
BY DEF ProcType
LEMMA SetNum == \A r \in ProcType : \A x \in Nat : [r EXCEPT !.num = x] \in ProcType
BY DEF ProcType
LEMMA SetId == \A r \in ProcType : \A x \in 0..MaxMsgs : [r EXCEPT !.id = x] \in ProcType
BY DEF ProcType
LEMMA SetNext == \A r \in ProcType : \A x \in Nat : [r EXCEPT !.next = x] \in ProcType
BY DEF ProcType
LEMMA SetTop == \A r \in ProcType : \A x \in Nat : [r EXCEPT !.top = x] \in ProcType
BY DEF ProcType
LEMMA SetNew == \A r \in ProcType : \A x \in 0..MaxFiles : [r EXCEPT !.new = x] \in ProcType
BY DEF ProcType

\* What a process finds has its types.
LEMMA Finding ==
  ASSUME First, NEW p \in Proc
  PROVE  /\ proc[p] \in ProcType
         /\ proc[p].at \in WithHeader => proc[p].hdr \in File /\ proc[p].hdr <= files
         /\ proc[p].at \in WithRest => proc[p].rest \in File /\ proc[p].rest <= files
<1>1. proc[p] \in ProcType /\ files \in 1..MaxFiles /\ PlaceOf(p)
  BY DEF First, Types, Places
<1> QED BY <1>1, Bounded DEF PlaceOf, File

LEMMA FileIs ==
  ASSUME First, NEW f \in File
  PROVE  /\ jhr[f] \in FileType /\ jhr[f].active \in 0..(Wide - 1) /\ jhr[f].msgs \in Seq(Header)
         /\ Len(jhr[f].msgs) \in Nat /\ DOMAIN jhr[f].msgs = 1..Len(jhr[f].msgs)
         /\ \A i \in 1..Len(jhr[f].msgs) : jhr[f].msgs[i] \in Header
         /\ rest[f] \in RestType /\ rest[f].idx \in Seq(Nat) /\ rest[f].high \in [Proc -> Nat]
         /\ Len(rest[f].idx) \in Nat /\ DOMAIN rest[f].idx = 1..Len(rest[f].idx)
         /\ \A i \in 1..Len(rest[f].idx) : rest[f].idx[i] \in Nat
<1>1. jhr[f] \in FileType /\ rest[f] \in RestType
  BY DEF First, Types
<1>2. jhr[f].active \in 0..(Wide - 1) /\ jhr[f].msgs \in Seq(Header)
  BY <1>1 DEF FileType
<1>3. rest[f].idx \in Seq(Nat) /\ rest[f].high \in [Proc -> Nat]
  BY <1>1 DEF RestType
<1>4. /\ Len(jhr[f].msgs) \in Nat /\ DOMAIN jhr[f].msgs = 1..Len(jhr[f].msgs)
      /\ jhr[f].msgs \in [1..Len(jhr[f].msgs) -> Header]
  BY <1>2, LenProperties
<1>5. /\ Len(rest[f].idx) \in Nat /\ DOMAIN rest[f].idx = 1..Len(rest[f].idx)
      /\ rest[f].idx \in [1..Len(rest[f].idx) -> Nat]
  BY <1>3, LenProperties
<1>6. \A i \in 1..Len(jhr[f].msgs) : jhr[f].msgs[i] \in Header
  BY <1>4
<1>7. \A i \in 1..Len(rest[f].idx) : rest[f].idx[i] \in Nat
  BY <1>5
<1> QED BY <1>1, <1>2, <1>3, <1>4, <1>5, <1>6, <1>7

\* What is read is a header that is there and not deleted, and has the number.
LEMMA ReadIs ==
  ASSUME NEW p, NEW n, NEW i \in JAM_ReadHeader(p, n)
  PROVE  /\ i \in DOMAIN Headers(p) /\ ~ Headers(p)[i].del /\ Headers(p)[i].num = n
         /\ \E k \in DOMAIN Index(p) : Index(p)[k] = i
BY DEF JAM_ReadHeader, Finds

\* Where the last index names a header, the highest number is the one of some header.
LEMMA HighestIs ==
  ASSUME First, NEW r, r.hdr \in File, r.rest \in File, r.cached \in Nat, NEW h \in HighestOf(r)
  PROVE  /\ h \in Nat
         /\ \/ h = 0
            \/ \E i \in 1..Len(jhr[r.hdr].msgs) : h = jhr[r.hdr].msgs[i].num
            \/ /\ rest[r.rest].idx # <<>>
               /\ rest[r.rest].idx[Len(rest[r.rest].idx)] \notin 1..Len(jhr[r.hdr].msgs)
<1> DEFINE idx == rest[r.rest].idx
           msgs == jhr[r.hdr].msgs
           i == idx[Len(idx)]
<1>1. DOMAIN msgs = 1..Len(msgs) /\ \A k \in 1..Len(msgs) : msgs[k] \in Header
  BY FileIs
<1>2. \A k \in 1..Len(msgs) : msgs[k].num \in Nat
  BY <1>1, SMTT(60) DEF Header
<1>3. h \in IF r.cached = 0 \/ idx = <<>> THEN {0} ELSE IF i \in DOMAIN msgs THEN {msgs[i].num} ELSE 0..MaxMsgs
  BY Zenon DEF HighestOf
<1> HIDE DEF i
<1>4. CASE r.cached = 0 \/ idx = <<>>
  BY <1>3, <1>4
<1>5. CASE ~ (r.cached = 0 \/ idx = <<>>) /\ i \in DOMAIN msgs
  <2>1. h = msgs[i].num
    BY <1>3, <1>5
  <2> QED BY <2>1, <1>1, <1>2, <1>5, ZenonT(60)
<1>6. CASE ~ (r.cached = 0 \/ idx = <<>>) /\ i \notin DOMAIN msgs
  <2>1. h \in 0..MaxMsgs
    BY <1>3, <1>6
  <2>2. h \in Nat
    BY <2>1, Bounded
  <2> QED BY <2>2, <1>1, <1>6 DEF i
<1> QED BY <1>4, <1>5, <1>6

(***************************************************************************)
(* What the steps do to the header files and to the index files.           *)
(***************************************************************************)
MsgsOnly(h, m) ==
  /\ h \in File /\ h <= files /\ m \in Seq(Header) /\ jhr' \in [File -> FileType]
  /\ jhr'[h].msgs = m /\ jhr'[h].active = jhr[h].active
  /\ \A f \in File \ {h} : jhr'[f] = jhr[f]
ActiveOnly(h, a) ==
  /\ h \in File /\ h <= files /\ jhr' \in [File -> FileType]
  /\ jhr'[h].msgs = jhr[h].msgs /\ jhr'[h].active = a
  /\ \A f \in File \ {h} : jhr'[f] = jhr[f]

LEMMA ChangesMsgs ==
  ASSUME First, NEW h \in File, h <= files, NEW m \in Seq(Header),
         jhr' = [jhr EXCEPT ![h] = [jhr[h] EXCEPT !.msgs = m]]
  PROVE  MsgsOnly(h, m)
<1> DEFINE w == [jhr[h] EXCEPT !.msgs = m]
<1>1. w \in FileType /\ w.msgs = m /\ w.active = jhr[h].active
  BY FileIs, SetMsgs
<1> HIDE DEF w
<1>2. jhr \in [File -> FileType] /\ jhr' = [jhr EXCEPT ![h] = w]
  BY DEF First, Types, w
<1> QED BY <1>1, <1>2 DEF MsgsOnly

LEMMA ChangesActive ==
  ASSUME First, NEW h \in File, h <= files, NEW a \in 0..(Wide - 1),
         jhr' = [jhr EXCEPT ![h] = [jhr[h] EXCEPT !.active = a]]
  PROVE  ActiveOnly(h, a)
<1> DEFINE w == [jhr[h] EXCEPT !.active = a]
<1>1. w \in FileType /\ w.msgs = jhr[h].msgs /\ w.active = a
  BY FileIs, SetActive
<1> HIDE DEF w
<1>2. jhr \in [File -> FileType] /\ jhr' = [jhr EXCEPT ![h] = w]
  BY DEF First, Types, w
<1> QED BY <1>1, <1>2 DEF ActiveOnly

\* The same messages but for the end of the last one, and but for one that is deleted.
Retailed(m, w, t) ==
  /\ Len(w) = Len(m)
  /\ \A i \in 1..Len(m) : /\ w[i].num = m[i].num /\ w[i].id = m[i].id /\ w[i].del = m[i].del
                          /\ w[i].tail = IF i = Len(m) THEN t ELSE m[i].tail
Undone(m, w, i) ==
  /\ Len(w) = Len(m)
  /\ \A j \in 1..Len(m) : /\ w[j].num = m[j].num /\ w[j].id = m[j].id /\ w[j].tail = m[j].tail
                          /\ w[j].del = IF j = i THEN TRUE ELSE m[j].del

LEMMA ReadyFile == ASSUME First, NEW p \in Proc, proc[p].at \in WithHeader
  PROVE /\ proc[p].hdr \in File /\ proc[p].hdr <= files /\ Headers(p) = jhr[proc[p].hdr].msgs
        /\ Headers(p) \in Seq(Header) /\ Len(Headers(p)) \in Nat /\ DOMAIN Headers(p) = 1..Len(Headers(p))
        /\ \A i \in 1..Len(Headers(p)) : Headers(p)[i] \in Header
BY Finding, FileIs DEF Headers

Begun(p) == [num |-> proc[p].next, id |-> ids + 1, del |-> FALSE, tail |-> TRUE]

LEMMA BeginDoes ==
  ASSUME First, NEW p \in Proc, AddBegin(p)
  PROVE  Begun(p) \in Header /\ MsgsOnly(proc[p].hdr, Append(Headers(p), Begun(p)))
<1>1. proc[p].at \in WithHeader /\ ids < MaxMsgs
  BY DEF AddBegin, WithHeader
<1>2. proc[p].next \in Nat
  BY Finding DEF ProcType
<1>3. ids + 1 \in Msg
  BY <1>1, Bounded DEF First, Sizes, Msg
<1>4. Begun(p) \in Header
  BY <1>2, <1>3 DEF Begun, Header
<1>5. Append(Headers(p), Begun(p)) \in Seq(Header)
  BY <1>1, <1>4, ReadyFile, AppendProperties
<1>6. jhr' = [jhr EXCEPT ![proc[p].hdr] = [jhr[proc[p].hdr] EXCEPT !.msgs = Append(Headers(p), Begun(p))]]
  BY DEF AddBegin, Begun, Headers
<1> QED BY <1>1, <1>4, <1>5, <1>6, ReadyFile, ChangesMsgs

\* A header that is written where none is: of a message, or deleted by one who did not find it.
Adds1(p, e) ==
  /\ e \in Header /\ e.id = ids + 1 /\ ids' = ids + 1 /\ ids < MaxMsgs
  /\ MsgsOnly(proc[p].hdr, Append(Headers(p), e))

LEMMA PhantomDoes ==
  ASSUME First, NEW p \in Proc, NEW n \in Msg, DeletePhantom(p, n)
  PROVE  /\ proc[p].at = "locked" /\ deleted' = deleted \union {ids + 1}
         /\ \E e \in Header : Adds1(p, e) /\ e.del
<1>1. proc[p].at = "locked" /\ proc[p].at \in WithHeader /\ ids < MaxMsgs /\ ids' = ids + 1
  BY DEF DeletePhantom, At, WithHeader
<1>2. PICK t \in BOOLEAN :
        jhr' = [jhr EXCEPT ![proc[p].hdr].msgs = Append(@, [num |-> n, id |-> ids + 1, del |-> TRUE, tail |-> t])]
  BY DEF DeletePhantom
<1> DEFINE e == [num |-> n, id |-> ids + 1, del |-> TRUE, tail |-> t]
<1>3. ids + 1 \in Msg /\ n \in Nat
  BY <1>1, Bounded DEF First, Sizes, Msg
<1>4. e \in Header /\ e.id = ids + 1 /\ e.del
  BY <1>3 DEF Header
<1>5. jhr' = [jhr EXCEPT ![proc[p].hdr] = [jhr[proc[p].hdr] EXCEPT !.msgs = Append(Headers(p), e)]]
  BY <1>2 DEF Headers
<1> HIDE DEF e
<1>6. Append(Headers(p), e) \in Seq(Header)
  BY <1>1, <1>4, ReadyFile, AppendProperties
<1>7. MsgsOnly(proc[p].hdr, Append(Headers(p), e))
  BY <1>1, <1>5, <1>6, ReadyFile, ChangesMsgs
<1>8. deleted' = deleted \union {ids + 1}
  BY DEF DeletePhantom
<1> QED BY <1>1, <1>4, <1>7, <1>8 DEF Adds1

LEMMA SetTail ==
  \A h \in Header : \A t \in BOOLEAN :
    LET w == [h EXCEPT !.tail = t]
    IN w \in Header /\ w.num = h.num /\ w.id = h.id /\ w.del = h.del /\ w.tail = t
BY DEF Header
LEMMA SetDel ==
  \A h \in Header :
    LET w == [h EXCEPT !.del = TRUE]
    IN w \in Header /\ w.num = h.num /\ w.id = h.id /\ w.tail = h.tail /\ w.del = TRUE
BY DEF Header

LEMMA TailDoes ==
  ASSUME First, NEW p \in Proc, proc[p].at = "half", NEW t \in BOOLEAN,
         jhr' = [jhr EXCEPT ![proc[p].hdr].msgs[Len(Headers(p))].tail = t]
  PROVE  /\ Len(Headers(p)) \in 1..Len(Headers(p))
         /\ \E m \in Seq(Header) : MsgsOnly(proc[p].hdr, m) /\ Retailed(Headers(p), m, t)
<1> DEFINE l == Len(Headers(p))
           e == [Headers(p)[l] EXCEPT !.tail = t]
           m == [Headers(p) EXCEPT ![l] = e]
<1>1. proc[p].at \in WithHeader
  BY DEF WithHeader
<1>2. Headers(p) # <<>>
  BY DEF First, Places, PlaceOf, Headers
<1>3. l \in 1..l
  <2>1. l # 0
    BY <1>1, <1>2, ReadyFile, EmptySeq
  <2> QED BY <1>1, <2>1, ReadyFile
<1>4. Headers(p)[l] \in Header
  BY <1>1, <1>3, ReadyFile
<1>5. e \in Header /\ e.num = Headers(p)[l].num /\ e.id = Headers(p)[l].id /\ e.del = Headers(p)[l].del /\ e.tail = t
  BY <1>4, SetTail
<1> HIDE DEF e
<1>6. m \in Seq(Header) /\ Len(m) = l /\ \A i \in 1..l : m[i] = IF i = l THEN e ELSE Headers(p)[i]
  BY <1>1, <1>3, <1>5, ReadyFile, ExceptSeq
<1>7. jhr' = [jhr EXCEPT ![proc[p].hdr] = [jhr[proc[p].hdr] EXCEPT !.msgs = m]]
  BY DEF Headers, e
<1> HIDE DEF m
<1>8. MsgsOnly(proc[p].hdr, m)
  BY <1>1, <1>6, <1>7, ReadyFile, ChangesMsgs
<1>9. Retailed(Headers(p), m, t)
  BY <1>5, <1>6 DEF Retailed
<1> QED BY <1>3, <1>6, <1>8, <1>9 DEF m

LEMMA DeleteDoes ==
  ASSUME First, NEW p \in Proc, NEW n, JAM_Delete(p, n)
  PROVE  /\ proc[p].at = "locked"
         /\ \E i \in 1..Len(Headers(p)), m \in Seq(Header) :
              /\ MsgsOnly(proc[p].hdr, m) /\ Undone(Headers(p), m, i) /\ ~ Headers(p)[i].del
              /\ deleted' = deleted \union {Headers(p)[i].id}
<1>1. proc[p].at = "locked" /\ proc[p].at \in WithHeader
  BY DEF JAM_Delete, At, WithHeader
<1>2. PICK i \in JAM_ReadHeader(p, n) :
        /\ jhr' = [jhr EXCEPT ![proc[p].hdr].msgs[i].del = TRUE]
        /\ deleted' = deleted \union {Headers(p)[i].id}
  BY DEF JAM_Delete
<1>3. i \in 1..Len(Headers(p)) /\ ~ Headers(p)[i].del
  BY <1>1, ReadIs, ReadyFile
<1> DEFINE e == [Headers(p)[i] EXCEPT !.del = TRUE]
           m == [Headers(p) EXCEPT ![i] = e]
<1>4. e \in Header /\ e.num = Headers(p)[i].num /\ e.id = Headers(p)[i].id /\ e.tail = Headers(p)[i].tail /\ e.del = TRUE
  BY <1>1, <1>3, ReadyFile, SetDel
<1> HIDE DEF e
<1>5. m \in Seq(Header) /\ Len(m) = Len(Headers(p)) /\ \A j \in 1..Len(Headers(p)) : m[j] = IF j = i THEN e ELSE Headers(p)[j]
  BY <1>1, <1>3, <1>4, ReadyFile, ExceptSeq
<1>6. jhr' = [jhr EXCEPT ![proc[p].hdr] = [jhr[proc[p].hdr] EXCEPT !.msgs = m]]
  BY <1>2 DEF Headers, e
<1> HIDE DEF m
<1>7. MsgsOnly(proc[p].hdr, m)
  BY <1>1, <1>5, <1>6, ReadyFile, ChangesMsgs
<1>8. Undone(Headers(p), m, i)
  BY <1>4, <1>5 DEF Undone
<1> QED BY <1>1, <1>2, <1>3, <1>5, <1>7, <1>8

LEMMA CountDoes ==
  ASSUME First, NEW p \in Proc
  PROVE  /\ AddCount(p) => /\ proc[p].at = "full" /\ proc[p].hdr \in File
                           /\ ActiveOnly(proc[p].hdr, (jhr[proc[p].hdr].active + 1) % Wide)
         /\ DeleteCount(p) => /\ proc[p].at = "gone" /\ proc[p].hdr \in File
                              /\ ActiveOnly(proc[p].hdr, (jhr[proc[p].hdr].active + Wide - 1) % Wide)
<1>1. \A a \in Nat : a % Wide \in 0..(Wide - 1)
  BY Bounded
<1>2. ASSUME proc[p].at \in WithHeader
      PROVE  /\ (jhr[proc[p].hdr].active + 1) % Wide \in 0..(Wide - 1)
             /\ (jhr[proc[p].hdr].active + Wide - 1) % Wide \in 0..(Wide - 1)
             /\ proc[p].hdr \in File /\ proc[p].hdr <= files
  <2>1. proc[p].hdr \in File /\ proc[p].hdr <= files
    BY <1>2, ReadyFile
  <2>2. jhr[proc[p].hdr].active \in 0..(Wide - 1)
    BY <2>1, FileIs
  <2>3. jhr[proc[p].hdr].active + 1 \in Nat /\ jhr[proc[p].hdr].active + Wide - 1 \in Nat
    BY <2>2, Bounded
  <2> QED BY <1>1, <2>1, <2>3
<1>3. ASSUME AddCount(p)
      PROVE  proc[p].at = "full" /\ proc[p].hdr \in File /\ ActiveOnly(proc[p].hdr, (jhr[proc[p].hdr].active + 1) % Wide)
  <2>1. proc[p].at = "full" /\ proc[p].at \in WithHeader
    BY <1>3 DEF AddCount, WithHeader
  <2>2. jhr' = [jhr EXCEPT ![proc[p].hdr] = [jhr[proc[p].hdr] EXCEPT !.active = (jhr[proc[p].hdr].active + 1) % Wide]]
    BY <1>3 DEF AddCount
  <2> QED BY <1>2, <2>1, <2>2, ChangesActive
<1>4. ASSUME DeleteCount(p)
      PROVE  proc[p].at = "gone" /\ proc[p].hdr \in File /\ ActiveOnly(proc[p].hdr, (jhr[proc[p].hdr].active + Wide - 1) % Wide)
  <2>1. proc[p].at = "gone" /\ proc[p].at \in WithHeader
    BY <1>4 DEF DeleteCount, WithHeader
  <2>2. jhr' = [jhr EXCEPT ![proc[p].hdr] = [jhr[proc[p].hdr] EXCEPT !.active = (jhr[proc[p].hdr].active + Wide - 1) % Wide]]
    BY <1>4 DEF DeleteCount
  <2> QED BY <1>2, <2>1, <2>2, ChangesActive
<1> QED BY <1>3, <1>4

IdxOnly(k, x) ==
  /\ k \in File /\ k <= files /\ x \in Seq(Nat) /\ rest' \in [File -> RestType]
  /\ rest'[k].idx = x /\ rest'[k].high = rest[k].high
  /\ \A f \in File \ {k} : rest'[f] = rest[f]
HighOnly(k, x) ==
  /\ k \in File /\ k <= files /\ x \in [Proc -> Nat] /\ rest' \in [File -> RestType]
  /\ rest'[k].idx = rest[k].idx /\ rest'[k].high = x
  /\ \A f \in File \ {k} : rest'[f] = rest[f]

LEMMA ReadyRest == ASSUME First, NEW p \in Proc, proc[p].at \in WithRest
  PROVE /\ proc[p].rest \in File /\ proc[p].rest <= files /\ Index(p) = rest[proc[p].rest].idx
        /\ Index(p) \in Seq(Nat) /\ rest[proc[p].rest].high \in [Proc -> Nat] /\ rest[proc[p].rest] \in RestType
BY Finding, FileIs DEF Index

LEMMA BeginIndexes ==
  ASSUME First, NEW p \in Proc, AddIndex(p)
  PROVE  IdxOnly(proc[p].rest, Append(Index(p), Len(Headers(p)) + 1))
<1> DEFINE k == proc[p].rest
           x == Append(Index(p), Len(Headers(p)) + 1)
           w == [rest[k] EXCEPT !.idx = x]
<1>1. proc[p].at \in WithHeader /\ proc[p].at \in WithRest
  BY DEF AddIndex, At, WithHeader, WithRest
<1>2. Len(Headers(p)) + 1 \in Nat
  BY <1>1, ReadyFile
<1>3. x \in Seq(Nat)
  BY <1>1, <1>2, ReadyRest, AppendProperties
<1>4. rest' = [rest EXCEPT ![k] = w]
  BY DEF AddIndex, Index
<1>5. w \in RestType /\ w.idx = x /\ w.high = rest[k].high
  BY <1>1, <1>3, ReadyRest, SetIdx
<1> HIDE DEF w, x
<1>6. rest \in [File -> RestType] /\ k \in File /\ k <= files
  BY <1>1, ReadyRest DEF First, Types
<1> QED BY <1>3, <1>4, <1>5, <1>6 DEF IdxOnly, x

\* The pointer a reader writes: the old one or the number of its message, or the highest
\* number there was.
Pointer(p) == LET old == rest[proc[p].rest].high[p] IN IF old < proc[p].num THEN proc[p].num ELSE old

LEMMA MarkDoes ==
  ASSUME First, NEW p \in Proc, MarkRead(p)
  PROVE  \E h \in Nat :
           /\ HighOnly(proc[p].rest, [rest[proc[p].rest].high EXCEPT ![p] = h])
           /\ h <= Pointer(p) /\ rest[proc[p].rest].high[p] \in Nat /\ Pointer(p) \in Nat
<1> DEFINE k == proc[p].rest
           old == rest[k].high[p]
           high == IF old < proc[p].num THEN proc[p].num ELSE old
<1>1. proc[p].at \in WithRest /\ proc[p] \in ProcType
  BY Finding DEF MarkRead, At, WithHeader, WithRest
<1>2. k \in File /\ k <= files /\ rest[k].high \in [Proc -> Nat] /\ rest[k] \in RestType
  BY <1>1, ReadyRest
<1>3. old \in Nat /\ proc[p].num \in Nat /\ proc[p].top \in Nat
  BY <1>1, <1>2 DEF ProcType
<1>4. high \in Nat /\ high = Pointer(p)
  BY <1>3, SMTT(60) DEF Pointer
<1>5. PICK h \in {IF high > proc[p].top THEN proc[p].top ELSE high} \union (IF old = 0 THEN {high} ELSE {}) :
        rest' = [rest EXCEPT ![k].high[p] = h]
  BY Zenon DEF MarkRead
<1>6. h \in Nat /\ h <= high
  BY <1>3, <1>4, <1>5
<1> DEFINE x == [rest[k].high EXCEPT ![p] = h]
           w == [rest[k] EXCEPT !.high = x]
<1>7. x \in [Proc -> Nat]
  BY <1>2, <1>6
<1>8. rest' = [rest EXCEPT ![k] = w]
  BY <1>5
<1>9. w \in RestType /\ w.idx = rest[k].idx /\ w.high = x
  BY <1>2, <1>7, SetHigh
<1> HIDE DEF w, x, high, old
<1>10. HighOnly(k, x)
  BY <1>2, <1>7, <1>8, <1>9 DEF HighOnly, First, Types
<1>11. h <= Pointer(p) /\ Pointer(p) \in Nat
  BY <1>4, <1>6
<1>12. rest[k].high[p] \in Nat
  BY <1>3 DEF old
<1> QED BY <1>6, <1>10, <1>11, <1>12 DEF x

\* The error a pack finds, as PackCopy has it.
Panic(p, short) ==
  LET len == Len(Headers(p))
  IN Cardinality(Reached(p)) < len \/ (len > 0 /\ Headers(p)[len].tail /\ ~short)

PackFiles(p, short) ==
  /\ files + 1 \in File /\ files' = files + 1
  /\ jhr' \in [File -> FileType]
  /\ jhr'[files + 1].msgs = Packed(p) /\ jhr'[files + 1].active = PackedCount(p, Panic(p, short))
  /\ \A f \in File \ {files + 1} : jhr'[f] = jhr[f]
  /\ rest' \in [File -> RestType]
  /\ rest'[files + 1].idx = [i \in DOMAIN Packed(p) |-> i]
  /\ \A u \in Proc : rest'[files + 1].high[u] =
       LET c == PackedCount(p, Panic(p, short)) IN IF Moved(p)[u] > c THEN c ELSE Moved(p)[u]
  /\ rest'[proc[p].rest].idx = rest[proc[p].rest].idx /\ rest'[proc[p].rest].high = Moved(p)
  /\ \A f \in File \ {files + 1, proc[p].rest} : rest'[f] = rest[f]

LEMMA PackCountIs ==
  ASSUME First, NEW p \in Proc, proc[p].at \in WithHeader, NEW panic \in BOOLEAN
  PROVE  PackedCount(p, panic) \in 0..(Wide - 1)
<1>1. /\ proc[p].hdr \in File /\ Headers(p) \in Seq(Header) /\ Len(Headers(p)) \in Nat
      /\ Headers(p) = jhr[proc[p].hdr].msgs
  BY ReadyFile
<1>2. PICK r \in 0..Len(Headers(p)) : Reached(p) = 1..r
  BY <1>1, ReachedIs
<1>3. Len(Packed(p)) = N(Headers(p), r)
  BY <1>1, <1>2, PackedIs
<1>4. N(Headers(p), r) \in Nat /\ N(Headers(p), r) <= r /\ r <= Len(Headers(p))
  BY <1>1, <1>2, Counts
<1>5. Len(Headers(p)) <= ids /\ ids <= MaxMsgs /\ ids \in Nat
  BY <1>1 DEF First, Ordered, OrderOf, Sizes
<1>6. Len(Packed(p)) \in 0..(Wide - 1)
  BY <1>1, <1>2, <1>3, <1>4, <1>5, Bounded
<1>7. jhr[proc[p].hdr].active \in 0..(Wide - 1)
  BY <1>1, FileIs
<1> QED BY <1>6, <1>7 DEF PackedCount

LEMMA PackDoes ==
  ASSUME First, NEW p \in Proc, NEW short \in BOOLEAN, PackCopy(p, short)
  PROVE  /\ At(p, "locked", "pack") /\ PackFiles(p, short)
         /\ \E r \in 0..Len(Headers(p)) : Reached(p) = 1..r
<1> DEFINE h == proc[p].hdr
           k == proc[p].rest
           new == files + 1
           panic == Panic(p, short)
           count == PackedCount(p, panic)
           a == [active |-> count, msgs |-> Packed(p)]
           b == [idx |-> [i \in DOMAIN Packed(p) |-> i],
                 high |-> [u \in Proc |-> IF Moved(p)[u] > count THEN count ELSE Moved(p)[u]]]
           c == [rest[k] EXCEPT !.high = Moved(p)]
<1>1. At(p, "locked", "pack") /\ files < MaxFiles /\ files' = new
  BY DEF PackCopy
<1>2. /\ jhr' = [jhr EXCEPT ![new] = a]
      /\ rest' = [rest EXCEPT ![k] = c, ![new] = b]
  BY Zenon DEF PackCopy, Panic
<1>3. proc[p].at \in WithHeader /\ proc[p].at \in WithRest
  BY <1>1 DEF At, WithHeader, WithRest
<1>4. k \in File /\ k <= files /\ rest[k] \in RestType /\ rest[k].high \in [Proc -> Nat]
  BY <1>3, ReadyRest
<1>5. Headers(p) \in Seq(Header)
  BY <1>3, ReadyFile
<1>6. new \in File /\ files \in Nat
  BY <1>1, Bounded DEF First, Types, File
<1>7. PICK r \in 0..Len(Headers(p)) : Reached(p) = 1..r
  BY <1>5, ReachedIs
<1>8. Packed(p) \in Seq(Header)
  BY <1>5, <1>7, PackedIs
<1>9. panic \in BOOLEAN
  BY DEF Panic
<1> HIDE DEF panic
<1>10. count \in 0..(Wide - 1) /\ count \in Nat
  BY <1>3, <1>9, PackCountIs, Bounded
<1> HIDE DEF count
<1>11. Moved(p) \in [Proc -> Nat]
  <2>1. r \in Nat
    BY <1>5, <1>7, LenProperties
  <2> QED BY <1>4, <1>7, <2>1, MovedType
<1>12. a \in FileType /\ a.msgs = Packed(p) /\ a.active = count
  BY <1>8, <1>10 DEF FileType
<1>13. DOMAIN Packed(p) = 1..Len(Packed(p)) /\ Len(Packed(p)) \in Nat
  BY <1>8, LenProperties
<1>14. b.idx \in Seq(Nat)
  <2>1. [i \in DOMAIN Packed(p) |-> i] \in [1..Len(Packed(p)) -> Nat]
    BY <1>13
  <2> QED BY <2>1, <1>13, SeqDef
<1>15. b.high \in [Proc -> Nat]
  BY <1>10, <1>11
<1>16. b \in RestType
  BY <1>14, <1>15 DEF RestType
<1>17. c \in RestType /\ c.idx = rest[k].idx /\ c.high = Moved(p)
  BY <1>4, <1>11, SetHigh
<1>18. b.idx = [i \in DOMAIN Packed(p) |-> i]
  OBVIOUS
<1>19. \A u \in Proc : b.high[u] = IF Moved(p)[u] > count THEN count ELSE Moved(p)[u]
  OBVIOUS
<1> HIDE DEF a, b, c
<1>20. /\ jhr' \in [File -> FileType] /\ jhr'[new] = a
       /\ \A f \in File \ {new} : jhr'[f] = jhr[f]
  BY <1>2, <1>6, <1>12 DEF First, Types
<1>21. /\ rest' \in [File -> RestType] /\ rest'[new] = b /\ rest'[k] = c
       /\ \A f \in File \ {new, k} : rest'[f] = rest[f]
  <2>1. rest \in [File -> RestType] /\ k # new
    BY <1>4, <1>6 DEF First, Types, File
  <2> QED BY <2>1, <1>2, <1>4, <1>6, <1>16, <1>17
<1>22. PackFiles(p, short)
  BY <1>1, <1>6, <1>12, <1>17, <1>18, <1>19, <1>20, <1>21 DEF PackFiles, count, panic
<1> QED BY <1>1, <1>7, <1>22

(***************************************************************************)
(* Who changes what.                                                       *)
(***************************************************************************)
Steps(p) ==
  \/ (\E j \in Job : OpenHeader(p, j)) \/ OpenRest(p) \/ SetMsgArea(p) \/ JAM_Lock(p)
  \/ AddIndex(p) \/ AddBegin(p) \/ AddEnd(p) \/ AddCount(p)
  \/ (\E n \in Msg : Show(p, n)) \/ (\E n \in Msg : ShowPhantom(p, n))
  \/ ShowNone(p) \/ LockFails(p) \/ MarkRead(p)
  \/ (\E n \in Msg : JAM_Delete(p, n)) \/ (\E n \in Msg : DeletePhantom(p, n))
  \/ DeleteCount(p) \/ DeleteEnd(p)
  \/ (\E short \in BOOLEAN : PackCopy(p, short)) \/ PackClose(p) \/ PackReplace(p) \/ Kill(p)

LEMMA StepOf == Next => \E p \in Proc : Steps(p)
BY Zenon DEF Next, Steps

\* A header file that is made is one that was blank.
LEMMA OpenKeeps == ASSUME First, NEW p \in Proc, NEW j \in Job, OpenHeader(p, j) PROVE jhr' = jhr
<1>1. CASE jhr' = jhr
  BY <1>1
<1>2. CASE jhr' = [jhr EXCEPT ![files + 1] = Blank] /\ files < MaxFiles
  <2>1. files + 1 \in File /\ files + 1 > files
    BY <1>2, Bounded DEF First, Types, File
  <2>2. jhr[files + 1] = Blank
    BY <2>1 DEF First, Unmade
  <2>3. jhr \in [File -> FileType]
    BY DEF First, Types
  <2> QED BY <1>2, <2>1, <2>2, <2>3
<1> QED BY <1>1, <1>2 DEF OpenHeader

LEMMA JhrMoves ==
  ASSUME First, NEW p \in Proc, Steps(p)
  PROVE  \/ jhr' = jhr
         \/ AddBegin(p) \/ AddEnd(p) \/ AddCount(p) \/ (\E n \in Msg : JAM_Delete(p, n)) \/ DeleteCount(p)
         \/ (\E n \in Msg : DeletePhantom(p, n))
         \/ (\E short \in BOOLEAN : PackCopy(p, short)) \/ (Kill(p) /\ proc[p].at = "half")
<1>1. \A j \in Job : OpenHeader(p, j) => jhr' = jhr
  BY OpenKeeps
<1>2. /\ OpenRest(p) => jhr' = jhr
      /\ SetMsgArea(p) => jhr' = jhr
      /\ JAM_Lock(p) => jhr' = jhr
  BY SMTT(60) DEF OpenRest, SetMsgArea, JAM_Lock, base
<1>3. /\ AddIndex(p) => jhr' = jhr
      /\ \A n \in Msg : Show(p, n) => jhr' = jhr
      /\ \A n \in Msg : ShowPhantom(p, n) => jhr' = jhr
      /\ ShowNone(p) => jhr' = jhr
      /\ LockFails(p) => jhr' = jhr
      /\ MarkRead(p) => jhr' = jhr
  BY Zenon DEF AddIndex, Show, ShowNone, LockFails, MarkRead, base, ShowPhantom
<1>4. /\ DeleteEnd(p) => jhr' = jhr
      /\ PackClose(p) => jhr' = jhr
      /\ PackReplace(p) => jhr' = jhr
  BY DEF DeleteEnd, PackClose, PackReplace, Unlink, Rename
<1>5. Kill(p) => jhr' = jhr \/ proc[p].at = "half"
  BY DEF Kill
<1> QED BY <1>1, <1>2, <1>3, <1>4, <1>5, Zenon DEF Steps

LEMMA RestMoves ==
  ASSUME NEW p \in Proc, Steps(p)
  PROVE  rest' = rest \/ AddIndex(p) \/ MarkRead(p) \/ (\E short \in BOOLEAN : PackCopy(p, short))
<1>1. /\ \A j \in Job : OpenHeader(p, j) => rest' = rest
      /\ OpenRest(p) => rest' = rest
      /\ SetMsgArea(p) => rest' = rest
      /\ JAM_Lock(p) => rest' = rest
  BY Zenon DEF OpenHeader, OpenRest, SetMsgArea, JAM_Lock, base
<1>2. /\ AddBegin(p) => rest' = rest
      /\ AddEnd(p) => rest' = rest
      /\ AddCount(p) => rest' = rest
      /\ \A n \in Msg : JAM_Delete(p, n) => rest' = rest
      /\ \A n \in Msg : DeletePhantom(p, n) => rest' = rest
      /\ DeleteCount(p) => rest' = rest
  BY DEF AddBegin, AddEnd, AddCount, JAM_Delete, DeleteCount, DeletePhantom
<1>3. /\ \A n \in Msg : Show(p, n) => rest' = rest
      /\ \A n \in Msg : ShowPhantom(p, n) => rest' = rest
      /\ ShowNone(p) => rest' = rest
      /\ LockFails(p) => rest' = rest
  BY DEF Show, ShowNone, LockFails, base, ShowPhantom
<1>4. /\ DeleteEnd(p) => rest' = rest
      /\ PackClose(p) => rest' = rest
      /\ PackReplace(p) => rest' = rest
      /\ Kill(p) => rest' = rest
  BY DEF DeleteEnd, PackClose, PackReplace, Unlink, Rename, Kill
<1> QED BY <1>1, <1>2, <1>3, <1>4, ZenonT(60) DEF Steps

MakesHeader(p) ==
  /\ name["hdr"] = 0 /\ name' = [name EXCEPT !["hdr"] = files + 1] /\ files' = files + 1 /\ files < MaxFiles
  /\ \E j \in Job : OpenHeader(p, j)
MakesRest(p) ==
  /\ name["rest"] = 0 /\ name' = [name EXCEPT !["rest"] = files + 1] /\ files' = files + 1 /\ files < MaxFiles
  /\ OpenRest(p)
Renames(p) ==
  \/ proc[p].at = "unlinkhdr" /\ name' = [name EXCEPT !["hdr"] = 0] /\ Go(p, "renamehdr")
  \/ proc[p].at = "renamehdr" /\ name' = [name EXCEPT !["hdr"] = proc[p].new] /\ Go(p, "unlinkrest")
  \/ proc[p].at = "unlinkrest" /\ name' = [name EXCEPT !["rest"] = 0] /\ Go(p, "renamerest")
  \/ proc[p].at = "renamerest" /\ name' = [name EXCEPT !["rest"] = proc[p].new] /\ JAM_Close(p)

LEMMA NameMoves ==
  ASSUME NEW p \in Proc, Steps(p)
  PROVE  \/ name' = name
         \/ MakesHeader(p) \/ MakesRest(p) \/ (PackReplace(p) /\ Renames(p))
<1>1. /\ \A j \in Job : OpenHeader(p, j) => name' = name \/ MakesHeader(p)
      /\ OpenRest(p) => name' = name \/ MakesRest(p)
  BY ZenonT(60) DEF OpenHeader, OpenRest, MakesHeader, MakesRest
<1>2. /\ SetMsgArea(p) => name' = name
      /\ JAM_Lock(p) => name' = name
      /\ AddBegin(p) => name' = name
      /\ AddEnd(p) => name' = name
      /\ AddCount(p) => name' = name
  BY SMTT(60) DEF SetMsgArea, JAM_Lock, base, AddBegin, AddEnd, AddCount
<1>3. /\ AddIndex(p) => name' = name
      /\ \A n \in Msg : Show(p, n) => name' = name
      /\ \A n \in Msg : ShowPhantom(p, n) => name' = name
      /\ ShowNone(p) => name' = name
      /\ LockFails(p) => name' = name
      /\ MarkRead(p) => name' = name
      /\ \A n \in Msg : JAM_Delete(p, n) => name' = name
      /\ \A n \in Msg : DeletePhantom(p, n) => name' = name
      /\ DeleteCount(p) => name' = name
  BY Zenon DEF Show, ShowNone, LockFails, MarkRead, base, JAM_Delete, DeleteCount, DeletePhantom, ShowPhantom, AddIndex
<1>4. /\ DeleteEnd(p) => name' = name
      /\ PackClose(p) => name' = name
      /\ Kill(p) => name' = name
      /\ \A short \in BOOLEAN : PackCopy(p, short) => name' = name
  BY DEF DeleteEnd, PackClose, Kill, PackCopy
<1>5. PackReplace(p) => Renames(p)
  BY DEF PackReplace, Renames, Unlink, Rename
<1> QED BY <1>1, <1>2, <1>3, <1>4, <1>5, ZenonT(60) DEF Steps

LEMMA FilesMove ==
  ASSUME NEW p \in Proc, Steps(p)
  PROVE  files' = files \/ (files' = files + 1 /\ files < MaxFiles)
<1>1. /\ \A j \in Job : OpenHeader(p, j) => files' = files \/ (files' = files + 1 /\ files < MaxFiles)
      /\ OpenRest(p) => files' = files \/ (files' = files + 1 /\ files < MaxFiles)
      /\ \A short \in BOOLEAN : PackCopy(p, short) => files' = files + 1 /\ files < MaxFiles
  BY DEF OpenHeader, OpenRest, PackCopy
<1>2. /\ SetMsgArea(p) => files' = files
      /\ JAM_Lock(p) => files' = files
      /\ AddBegin(p) => files' = files
      /\ AddIndex(p) => files' = files
      /\ AddEnd(p) => files' = files
      /\ AddCount(p) => files' = files
  BY DEF SetMsgArea, JAM_Lock, Bounds, AddBegin, AddEnd, AddCount, AddIndex
<1>3. /\ \A n \in Msg : Show(p, n) => files' = files
      /\ \A n \in Msg : ShowPhantom(p, n) => files' = files
      /\ ShowNone(p) => files' = files
      /\ LockFails(p) => files' = files
      /\ MarkRead(p) => files' = files
      /\ \A n \in Msg : JAM_Delete(p, n) => files' = files
      /\ \A n \in Msg : DeletePhantom(p, n) => files' = files
      /\ DeleteCount(p) => files' = files
  BY Zenon DEF Show, ShowNone, LockFails, MarkRead, Bounds, JAM_Delete, DeleteCount, DeletePhantom, ShowPhantom
<1>4. /\ DeleteEnd(p) => files' = files
      /\ PackClose(p) => files' = files
      /\ Kill(p) => files' = files
      /\ PackReplace(p) => files' = files
  BY DEF DeleteEnd, PackClose, Kill, PackReplace, Unlink, Rename, Bounds
<1> QED BY <1>1, <1>2, <1>3, <1>4, ZenonT(60) DEF Steps

\* Files only come.
LEMMA FilesGrow ==
  ASSUME First, NEW p \in Proc, Steps(p)
  PROVE  files' \in 1..MaxFiles /\ files \in 1..MaxFiles /\ files <= files'
BY FilesMove, Bounded DEF First, Types

LEMMA IdsMove ==
  ASSUME NEW p \in Proc, Steps(p)
  PROVE  /\ ids' = ids \/ (ids' = ids + 1 /\ ids < MaxMsgs)
         /\ jobs' = jobs \/ (jobs' = jobs + 1 /\ jobs < MaxJobs)
         /\ kills' = kills \/ (kills' = kills + 1 /\ kills < MaxKills)
<1> DEFINE G == /\ ids' = ids \/ (ids' = ids + 1 /\ ids < MaxMsgs)
                /\ jobs' = jobs \/ (jobs' = jobs + 1 /\ jobs < MaxJobs)
                /\ kills' = kills \/ (kills' = kills + 1 /\ kills < MaxKills)
<1>1. /\ \A j \in Job : OpenHeader(p, j) => G
      /\ OpenRest(p) => G
      /\ \A short \in BOOLEAN : PackCopy(p, short) => G
  BY ZenonT(60) DEF OpenHeader, OpenRest, PackCopy
<1>2. /\ SetMsgArea(p) => G
      /\ JAM_Lock(p) => G
      /\ AddBegin(p) => G
      /\ AddEnd(p) => G
      /\ AddCount(p) => G
  BY SMTT(60) DEF SetMsgArea, JAM_Lock, Bounds, AddBegin, AddEnd, AddCount
<1>3. /\ AddIndex(p) => G
      /\ \A n \in Msg : Show(p, n) => G
      /\ \A n \in Msg : ShowPhantom(p, n) => G
      /\ ShowNone(p) => G
      /\ LockFails(p) => G
      /\ MarkRead(p) => G
      /\ \A n \in Msg : JAM_Delete(p, n) => G
      /\ \A n \in Msg : DeletePhantom(p, n) => G
      /\ DeleteCount(p) => G
  BY Zenon DEF AddIndex, Show, ShowNone, LockFails, MarkRead, Bounds, JAM_Delete, DeleteCount, DeletePhantom, ShowPhantom
<1>4. /\ DeleteEnd(p) => G
      /\ PackClose(p) => G
      /\ Kill(p) => G
      /\ PackReplace(p) => G
  BY DEF DeleteEnd, PackClose, Kill, PackReplace, Unlink, Rename, Bounds
<1> HIDE DEF G
<1>5. G
  BY <1>1, <1>2, <1>3, <1>4, Zenon DEF Steps
<1> QED BY <1>5, SMTT(60) DEF G

(***************************************************************************)
(* A step changes one process, and where that comes to it has open what it *)
(* needs.                                                                  *)
(***************************************************************************)
Mover(p) == proc' \in [Proc -> ProcType] /\ \A q \in Proc \ {p} : proc'[q] = proc[q]

LEMMA Moved1 ==
  ASSUME First, NEW p \in Proc, NEW r \in ProcType, proc' = [proc EXCEPT ![p] = r]
  PROVE  Mover(p) /\ proc'[p] = r
BY DEF First, Types, Mover

LEMMA GoMoves ==
  ASSUME First, NEW p \in Proc, NEW at \in Place, Go(p, at)
  PROVE  /\ Mover(p) /\ proc'[p] = [proc[p] EXCEPT !.at = at]
         /\ proc'[p].at = at /\ proc'[p].job = proc[p].job /\ proc'[p].hdr = proc[p].hdr /\ proc'[p].rest = proc[p].rest
         /\ proc'[p].num = proc[p].num /\ proc'[p].new = proc[p].new
<1> DEFINE r == [proc[p] EXCEPT !.at = at]
<1>1. proc[p] \in ProcType
  BY Finding
<1>2. r \in ProcType
  BY <1>1, SetAt
<1>3. /\ r.at = at /\ r.job = proc[p].job /\ r.hdr = proc[p].hdr /\ r.rest = proc[p].rest
      /\ r.num = proc[p].num /\ r.new = proc[p].new
  BY <1>1 DEF ProcType
<1>4. proc' = [proc EXCEPT ![p] = r]
  BY DEF Go, First, Types
<1> HIDE DEF r
<1>5. Mover(p) /\ proc'[p] = r
  BY <1>2, <1>4, Moved1
<1> QED BY <1>3, <1>5 DEF r

LEMMA ClosedIs ==
  ASSUME First, NEW p \in Proc
  PROVE  Closed(p) \in ProcType /\ Closed(p).at = "off" /\ Closed(p).hdr = 0
<1>1. proc[p] \in ProcType
  BY Finding
<1>2. 0 \in 0..MaxFiles /\ 0 \in 0..(Wide - 1) /\ "off" \in Place
  BY Bounded DEF Place
<1>3. Closed(p) \in ProcType
  BY <1>1, <1>2 DEF ProcType, Closed
<1>4. Closed(p).at = "off" /\ Closed(p).hdr = 0
  BY <1>1 DEF ProcType, Closed
<1> QED BY <1>3, <1>4

LEMMA CloseMoves ==
  ASSUME First, NEW p \in Proc, JAM_Close(p)
  PROVE  Mover(p) /\ proc'[p].at = "off"
BY ClosedIs, Moved1 DEF JAM_Close

LEMMA PlaceOff ==
  ASSUME NEW p \in Proc, proc'[p].at = "off"
  PROVE  PlaceOf(p)'
BY DEF PlaceOf, WithHeader, WithRest, Packing

LEMMA KillMoves ==
  ASSUME First, NEW p \in Proc, Kill(p)
  PROVE  Mover(p) /\ proc'[p].at = "off"
<1> DEFINE c == Closed(p)
           r == [c EXCEPT !.num = 0, !.id = 0, !.top = 0]
<1>1. c \in ProcType /\ c.at = "off"
  BY ClosedIs
<1>2. proc' = [proc EXCEPT ![p] = r]
  BY DEF Kill
<1> HIDE DEF c
<1>3. 0 \in 0..MaxMsgs
  BY Bounded
<1>4. r \in ProcType
  BY <1>1, <1>3 DEF ProcType
<1>5. r.at = "off"
  BY <1>1 DEF ProcType
<1> HIDE DEF r
<1> QED BY <1>2, <1>4, <1>5, Moved1

LEMMA OpenHeaderMoves ==
  ASSUME First, NEW p \in Proc, NEW j \in Job, OpenHeader(p, j)
  PROVE  /\ Mover(p) /\ PlaceOf(p)'
         /\ proc[p].at = "off" /\ proc'[p].at = "header" /\ proc'[p].hdr = name'["hdr"] /\ proc'[p].job = j
<1>1. /\ proc[p] \in ProcType /\ name["hdr"] \in 0..files /\ files \in 1..MaxFiles /\ name \in [{"hdr", "rest"} -> 0..MaxFiles]
      /\ proc \in [Proc -> ProcType]
  BY Finding DEF First, Types, Names
<1>2. "header" \in Place /\ j \in Jobs[p] /\ proc[p].at = "off"
  BY DEF Place, OpenHeader
<1>3. ASSUME NEW n \in 1..files', n = name'["hdr"], NEW c \in 0..(Wide - 1), NEW r, r = [proc[p] EXCEPT !.at = "header", !.job = j, !.hdr = n, !.cached = c],
             proc' = [proc EXCEPT ![p] = r], n \in 0..MaxFiles
      PROVE  Mover(p) /\ PlaceOf(p)' /\ proc'[p].at = "header" /\ proc'[p].hdr = n /\ proc'[p].job = j
  <2>1. r \in ProcType
    BY <1>1, <1>2, <1>3 DEF ProcType
  <2>2. r.at = "header" /\ r.job = j /\ r.hdr = n
    BY <1>1, <1>3 DEF ProcType
  <2>3. Mover(p) /\ proc'[p] = r
    BY <1>3, <2>1, Moved1
  <2>4. PlaceOf(p)'
    BY <1>2, <1>3, <2>2, <2>3 DEF PlaceOf, WithHeader, WithRest, Packing
  <2> QED BY <2>2, <2>3, <2>4
<1>4. ASSUME name["hdr"] # 0, UNCHANGED <<jhr, name, files>>,
             proc' = [proc EXCEPT ![p] = [@ EXCEPT !.at = "header", !.job = j, !.hdr = name["hdr"],
                                                   !.cached = jhr[name["hdr"]].active]]
      PROVE  Mover(p) /\ PlaceOf(p)' /\ proc'[p].at = "header" /\ proc'[p].hdr = name'["hdr"] /\ proc'[p].job = j
  <2>1. name["hdr"] \in File /\ name["hdr"] \in 1..files'
    BY <1>1, <1>4, Bounded DEF File
  <2>2. jhr[name["hdr"]].active \in 0..(Wide - 1)
    BY <2>1, FileIs
  <2>3. PICK n \in 1..files' : n = name["hdr"] /\ n \in 0..MaxFiles
    BY <2>1, <1>1
  <2>4. PICK c \in 0..(Wide - 1) : c = jhr[name["hdr"]].active
    BY <2>2
  <2>5. PICK r : r = [proc[p] EXCEPT !.at = "header", !.job = j, !.hdr = n, !.cached = c]
    OBVIOUS
  <2>6. proc' = [proc EXCEPT ![p] = r]
    BY <1>1, <1>4, <2>3, <2>4, <2>5
  <2>7. n = name'["hdr"]
    BY <1>4, <2>3
  <2> QED BY <1>3, <2>3, <2>5, <2>6, <2>7
<1>5. ASSUME files < MaxFiles, files' = files + 1, name' = [name EXCEPT !["hdr"] = files + 1],
             proc' = [proc EXCEPT ![p] = [@ EXCEPT !.at = "header", !.job = j, !.hdr = files + 1]]
      PROVE  Mover(p) /\ PlaceOf(p)' /\ proc'[p].at = "header" /\ proc'[p].hdr = name'["hdr"] /\ proc'[p].job = j
  <2>1. PICK n \in 1..files' : n = files + 1 /\ n \in 0..MaxFiles
    BY <1>1, <1>5, Bounded
  <2>2. PICK c \in 0..(Wide - 1) : c = proc[p].cached
    BY <1>1 DEF ProcType
  <2>3. PICK r : r = [proc[p] EXCEPT !.at = "header", !.job = j, !.hdr = n, !.cached = c]
    OBVIOUS
  <2>4. r = [proc[p] EXCEPT !.at = "header", !.job = j, !.hdr = n]
    BY <1>1, <2>2, <2>3 DEF ProcType
  <2>5. proc' = [proc EXCEPT ![p] = r] /\ n = name'["hdr"]
    BY <1>1, <1>5, <2>1, <2>4
  <2> QED BY <1>3, <2>1, <2>3, <2>5
<1> QED BY <1>2, <1>4, <1>5, Zenon DEF OpenHeader

LEMMA OpenRestMoves ==
  ASSUME First, NEW p \in Proc, OpenRest(p)
  PROVE  /\ Mover(p) /\ PlaceOf(p)'
         /\ proc'[p].at = "open" /\ proc'[p].hdr = proc[p].hdr /\ proc'[p].job = proc[p].job
<1>1. /\ proc[p] \in ProcType /\ name["rest"] \in 0..files /\ files \in 1..MaxFiles /\ name \in [{"hdr", "rest"} -> 0..MaxFiles]
      /\ proc \in [Proc -> ProcType] /\ PlaceOf(p)
  BY Finding DEF First, Types, Names, Places
<1>2. "open" \in Place /\ proc[p].at = "header" /\ UNCHANGED jhr
  BY DEF Place, OpenRest
<1>3. PICK n \in 1..files' : /\ n \in 0..MaxFiles /\ files' >= files /\ files' \in Nat /\ name'["hdr"] = name["hdr"]
                             /\ proc' = [proc EXCEPT ![p] = [@ EXCEPT !.at = "open", !.rest = n]]
  <2>1. CASE name["rest"] # 0 /\ UNCHANGED <<name, files>> /\ proc' = [proc EXCEPT ![p] = [@ EXCEPT !.at = "open", !.rest = name["rest"]]]
    <3>1. PICK n : n = name["rest"]
      OBVIOUS
    <3>2. n \in 1..files' /\ n \in 0..MaxFiles /\ files' >= files /\ files' \in Nat /\ name'["hdr"] = name["hdr"]
      BY <1>1, <2>1, <3>1
    <3> QED BY <2>1, <3>1, <3>2
  <2>2. CASE files < MaxFiles /\ files' = files + 1 /\ name' = [name EXCEPT !["rest"] = files + 1]
             /\ proc' = [proc EXCEPT ![p] = [@ EXCEPT !.at = "open", !.rest = files + 1]]
    <3>1. PICK n : n = files + 1
      OBVIOUS
    <3>2. n \in 1..files' /\ n \in 0..MaxFiles /\ files' >= files /\ files' \in Nat /\ name'["hdr"] = name["hdr"]
      BY <1>1, <2>2, <3>1, Bounded
    <3> QED BY <2>2, <3>1, <3>2
  <2> QED BY <2>1, <2>2, Zenon DEF OpenRest
<1> DEFINE r == [proc[p] EXCEPT !.at = "open", !.rest = n]
<1>4. r \in ProcType
  BY <1>1, <1>2, <1>3 DEF ProcType
<1>5. r.at = "open" /\ r.job = proc[p].job /\ r.hdr = proc[p].hdr /\ r.rest = n
  BY <1>1 DEF ProcType
<1>6. proc' = [proc EXCEPT ![p] = r]
  BY <1>3
<1> HIDE DEF r
<1>7. Mover(p) /\ proc'[p] = r
  BY <1>4, <1>6, Moved1
<1>8. PlaceOf(p)'
  BY <1>1, <1>2, <1>3, <1>5, <1>7 DEF PlaceOf, WithHeader, WithRest, Packing
<1> QED BY <1>5, <1>7, <1>8

\* From a place with everything open to another one.
LEMMA GoStays ==
  ASSUME First, NEW p \in Proc, NEW at \in WithRest, at \notin {"packed", "indexed"}, Go(p, at), proc[p].at \in WithRest,
         name' = name, files' = files, at = "half" => jhr'[proc[p].hdr].msgs # <<>>
  PROVE  Mover(p) /\ PlaceOf(p)'
<1>1. at \in Place
  BY DEF Place, WithRest, WithHeader
<1>2. PlaceOf(p) /\ Mover(p)
  BY <1>1, GoMoves DEF First, Places
<1>3. proc'[p].at = at /\ proc'[p].job = proc[p].job /\ proc'[p].hdr = proc[p].hdr /\ proc'[p].rest = proc[p].rest
  BY <1>1, GoMoves
<1>4. PlaceOf(p)'
  BY <1>2, <1>3 DEF PlaceOf, WithHeader, WithRest, Packing
<1> QED BY <1>2, <1>4

LEMMA SelectMoves ==
  ASSUME First, NEW p \in Proc, SetMsgArea(p)
  PROVE  /\ Mover(p) /\ proc'[p].at = "off" /\ proc[p].at = "off"
         /\ \E t \in Nat : proc'[p] = [proc[p] EXCEPT !.top = t]
<1>1. /\ proc[p] \in ProcType /\ name["hdr"] \in 0..files /\ name["rest"] \in 0..files /\ files \in 1..MaxFiles
      /\ proc \in [Proc -> ProcType]
  BY Finding DEF First, Types, Names
<1>2. name["hdr"] # 0 /\ name["rest"] # 0 /\ proc[p].at = "off"
  BY DEF SetMsgArea
<1>3. name["hdr"] \in File /\ name["rest"] \in File
  BY <1>1, <1>2, Bounded DEF File
<1>4. jhr[name["hdr"]].active \in 0..(Wide - 1)
  BY <1>3, FileIs
<1> DEFINE o == [proc[p] EXCEPT !.hdr = name["hdr"], !.rest = name["rest"], !.cached = jhr[name["hdr"]].active]
<1>5. o.hdr = name["hdr"] /\ o.rest = name["rest"] /\ o.cached = jhr[name["hdr"]].active
  BY <1>1 DEF ProcType
<1>6. \E h \in HighestOf(o) : proc' = [proc EXCEPT ![p].top = h]
  BY Zenon DEF SetMsgArea
<1> HIDE DEF o
<1>7. \A h \in HighestOf(o) : h \in Nat
  BY <1>3, <1>4, <1>5, HighestIs, Bounded
<1>8. PICK t \in Nat : proc' = [proc EXCEPT ![p].top = t]
  BY <1>6, <1>7
<1> DEFINE r == [proc[p] EXCEPT !.top = t]
<1>9. r \in ProcType /\ r.at = "off"
  BY <1>1, <1>2 DEF ProcType
<1>10. proc' = [proc EXCEPT ![p] = r]
  BY <1>1, <1>8
<1> HIDE DEF r
<1>11. Mover(p) /\ proc'[p] = r
  BY <1>9, <1>10, Moved1
<1> QED BY <1>2, <1>9, <1>11 DEF r

LEMMA ShowMoves ==
  ASSUME First, NEW p \in Proc, NEW n \in Msg, Show(p, n)
  PROVE  /\ Mover(p) /\ PlaceOf(p)' /\ At(p, "open", "read") /\ proc'[p].at = "found" /\ proc'[p].job = "read"
         /\ proc'[p].hdr = proc[p].hdr /\ proc'[p].rest = proc[p].rest /\ proc'[p].num = n
         /\ \E i \in 1..Len(Headers(p)) :
              /\ Headers(p)[i].num = n
              /\ shown' = [shown EXCEPT ![p] = IF shown[p] < Headers(p)[i].id THEN Headers(p)[i].id ELSE shown[p]]
<1>1. At(p, "open", "read") /\ proc[p].at \in WithHeader /\ proc[p].at \in WithRest
  BY DEF Show, At, WithHeader, WithRest
<1>2. PICK i \in JAM_ReadHeader(p, n) :
        /\ proc' = [proc EXCEPT ![p] = [@ EXCEPT !.at = "found", !.num = n, !.id = Headers(p)[i].id]]
        /\ shown' = [shown EXCEPT ![p] = IF @ < Headers(p)[i].id THEN Headers(p)[i].id ELSE @]
  BY DEF Show
<1>3. i \in 1..Len(Headers(p)) /\ Headers(p)[i].num = n
  BY <1>1, ReadIs, ReadyFile
<1>4. Headers(p)[i].id \in 0..MaxMsgs /\ n \in Nat
  <2>1. Headers(p)[i] \in Header
    BY <1>1, <1>3, ReadyFile
  <2> QED BY <2>1, Bounded DEF Header, Msg
<1>5. PICK d \in 0..MaxMsgs : d = Headers(p)[i].id
  BY <1>4
<1>6. proc[p] \in ProcType /\ proc \in [Proc -> ProcType] /\ PlaceOf(p) /\ shown \in [Proc -> 0..MaxMsgs]
  BY Finding DEF First, Types, Places, Histories
<1> DEFINE r == [proc[p] EXCEPT !.at = "found", !.num = n, !.id = d]
<1>7. r \in ProcType
  BY <1>4, <1>6 DEF ProcType, Place
<1>8. r.at = "found" /\ r.job = proc[p].job /\ r.hdr = proc[p].hdr /\ r.rest = proc[p].rest /\ r.num = n
  BY <1>6 DEF ProcType
<1>9. proc' = [proc EXCEPT ![p] = r]
  BY <1>2, <1>5, <1>6
<1> HIDE DEF r
<1>10. Mover(p) /\ proc'[p] = r
  BY <1>7, <1>9, Moved1
<1>11. name' = name /\ files' = files
  BY DEF Show, Bounds, base
<1>12. PlaceOf(p)'
  BY <1>1, <1>6, <1>8, <1>10, <1>11 DEF PlaceOf, WithHeader, WithRest, Packing
<1>13. shown' = [shown EXCEPT ![p] = IF shown[p] < Headers(p)[i].id THEN Headers(p)[i].id ELSE shown[p]]
  BY <1>2, <1>6
<1> QED BY <1>1, <1>3, <1>8, <1>10, <1>12, <1>13 DEF At

\* One who takes for a message what was read before.
LEMMA ShowPhantomMoves ==
  ASSUME First, NEW p \in Proc, NEW n \in Msg, ShowPhantom(p, n)
  PROVE  /\ Mover(p) /\ PlaceOf(p)' /\ At(p, "open", "read") /\ proc'[p].at = "found" /\ proc'[p].job = "read"
         /\ proc'[p].hdr = proc[p].hdr /\ proc'[p].rest = proc[p].rest
<1>1. At(p, "open", "read") /\ proc[p].at \in WithHeader /\ proc[p].at \in WithRest
  BY DEF ShowPhantom, At, WithHeader, WithRest
<1>2. PICK d \in {0} : proc' = [proc EXCEPT ![p] = [@ EXCEPT !.at = "found", !.num = n, !.id = d]]
  BY DEF ShowPhantom
<1>3. d \in 0..MaxMsgs /\ n \in Nat
  BY Bounded DEF Msg
<1>4. proc[p] \in ProcType /\ proc \in [Proc -> ProcType] /\ PlaceOf(p)
  BY Finding DEF First, Types, Places
<1> DEFINE r == [proc[p] EXCEPT !.at = "found", !.num = n, !.id = d]
<1>5. r \in ProcType
  BY <1>3, <1>4 DEF ProcType, Place
<1>6. r.at = "found" /\ r.job = proc[p].job /\ r.hdr = proc[p].hdr /\ r.rest = proc[p].rest
  BY <1>4 DEF ProcType
<1>7. proc' = [proc EXCEPT ![p] = r]
  BY <1>2, <1>4
<1> HIDE DEF r
<1>8. Mover(p) /\ proc'[p] = r
  BY <1>5, <1>7, Moved1
<1>9. name' = name /\ files' = files
  BY DEF ShowPhantom, Bounds, base
<1>10. PlaceOf(p)'
  BY <1>1, <1>4, <1>6, <1>8, <1>9 DEF PlaceOf, WithHeader, WithRest, Packing
<1> QED BY <1>1, <1>6, <1>8, <1>10 DEF At

\* One who has written the index of a message, and knows the number it will have.
LEMMA IndexMoves ==
  ASSUME First, NEW p \in Proc, AddIndex(p)
  PROVE  /\ Mover(p) /\ PlaceOf(p)' /\ At(p, "locked", "add") /\ proc'[p].at = "indexed"
         /\ proc'[p].job = "add" /\ proc'[p].hdr = proc[p].hdr /\ proc'[p].rest = proc[p].rest
         /\ \E h \in JAM_Highest(p) :
              /\ h \in Nat /\ proc'[p].next = h + 1
              /\ mistaken' = (mistaken \/ {h, Len(Index(p))} # {Len(Headers(p))})
<1>1. At(p, "locked", "add") /\ proc[p].at \in WithHeader /\ proc[p].at \in WithRest
  BY DEF AddIndex, At, WithHeader, WithRest
<1>2. PICK h \in JAM_Highest(p) :
        /\ proc' = [proc EXCEPT ![p] = [@ EXCEPT !.at = "indexed", !.next = h + 1]]
        /\ mistaken' = (mistaken \/ {h, Len(Index(p))} # {Len(Headers(p))})
  BY Zenon DEF AddIndex
<1>3. proc[p] \in ProcType /\ proc \in [Proc -> ProcType] /\ PlaceOf(p)
  BY Finding DEF First, Types, Places
<1>4. proc[p].hdr \in File /\ proc[p].rest \in File /\ proc[p].cached \in Nat
  BY <1>1, <1>3, Finding, Bounded DEF ProcType
<1>5. h \in Nat /\ h + 1 \in Nat
  BY <1>4, HighestIs DEF JAM_Highest
<1> DEFINE r == [proc[p] EXCEPT !.at = "indexed", !.next = h + 1]
<1>6. r \in ProcType
  BY <1>3, <1>5 DEF ProcType, Place
<1>7. r.at = "indexed" /\ r.job = proc[p].job /\ r.hdr = proc[p].hdr /\ r.rest = proc[p].rest /\ r.next = h + 1
  BY <1>3 DEF ProcType
<1>8. proc' = [proc EXCEPT ![p] = r]
  BY <1>2, <1>3
<1> HIDE DEF r
<1>9. Mover(p) /\ proc'[p] = r
  BY <1>6, <1>8, Moved1
<1>10. name' = name /\ files' = files
  BY DEF AddIndex, Bounds
<1>11. PlaceOf(p)'
  BY <1>1, <1>3, <1>7, <1>9, <1>10 DEF PlaceOf, WithHeader, WithRest, Packing, At
<1> QED BY <1>1, <1>2, <1>5, <1>7, <1>9, <1>11 DEF At

LEMMA PackMoves ==
  ASSUME First, NEW p \in Proc, NEW short \in BOOLEAN, PackCopy(p, short)
  PROVE  /\ Mover(p) /\ PlaceOf(p)'
         /\ proc'[p].at = "packed" /\ proc'[p].new = files + 1 /\ proc'[p].hdr = proc[p].hdr /\ proc'[p].rest = proc[p].rest
         /\ proc'[p].job = "pack"
<1>1. At(p, "locked", "pack") /\ files + 1 \in File /\ files' = files + 1
  BY PackDoes DEF PackFiles
<1>2. proc[p] \in ProcType /\ proc \in [Proc -> ProcType] /\ PlaceOf(p) /\ files \in 1..MaxFiles
  BY Finding DEF First, Types, Places
<1>3. PICK n : n = files + 1 /\ n \in 0..MaxFiles /\ n \in 1..files'
  BY <1>1, <1>2, Bounded DEF File
<1> DEFINE r == [proc[p] EXCEPT !.at = "packed", !.new = n]
<1>4. r \in ProcType
  BY <1>2, <1>3 DEF ProcType, Place
<1>5. r.at = "packed" /\ r.job = proc[p].job /\ r.hdr = proc[p].hdr /\ r.rest = proc[p].rest /\ r.new = n
  BY <1>2 DEF ProcType
<1>6. proc' = [proc EXCEPT ![p] = r]
  BY <1>2, <1>3 DEF PackCopy
<1> HIDE DEF r
<1>7. Mover(p) /\ proc'[p] = r
  BY <1>4, <1>6, Moved1
<1>8. name' = name
  BY DEF PackCopy
<1>9. PlaceOf(p)'
  BY <1>1, <1>2, <1>3, <1>5, <1>7, <1>8 DEF PlaceOf, WithHeader, WithRest, Packing, At
<1> QED BY <1>1, <1>3, <1>5, <1>7, <1>9 DEF At

LEMMA PackCloseMoves ==
  ASSUME First, NEW p \in Proc, PackClose(p)
  PROVE  /\ Mover(p) /\ PlaceOf(p)' /\ proc[p].at = "packed"
         /\ proc'[p].at = "unlinkhdr" /\ proc'[p].new = proc[p].new /\ proc'[p].hdr = 0 /\ proc'[p].job = proc[p].job
<1>1. proc[p] \in ProcType /\ proc \in [Proc -> ProcType] /\ PlaceOf(p) /\ proc[p].at = "packed"
  BY Finding DEF First, Types, Places, PackClose
<1> DEFINE r == [proc[p] EXCEPT !.at = "unlinkhdr", !.hdr = 0, !.rest = 0]
<1>2. r \in ProcType
  <2>1. 0 \in 0..MaxFiles /\ "unlinkhdr" \in Place
    BY Bounded DEF Place
  <2> QED BY <1>1, <2>1 DEF ProcType
<1>3. r.at = "unlinkhdr" /\ r.job = proc[p].job /\ r.hdr = 0 /\ r.new = proc[p].new
  BY <1>1 DEF ProcType
<1>4. proc' = [proc EXCEPT ![p] = r]
  BY <1>1 DEF PackClose
<1> HIDE DEF r
<1>5. Mover(p) /\ proc'[p] = r
  BY <1>2, <1>4, Moved1
<1>6. name' = name /\ files' = files
  BY DEF PackClose, Bounds
<1>7. PlaceOf(p)'
  BY <1>1, <1>3, <1>5, <1>6 DEF PlaceOf, WithHeader, WithRest, Packing
<1> QED BY <1>1, <1>3, <1>5, <1>7

LEMMA RenameMoves ==
  ASSUME First, NEW p \in Proc, PackReplace(p)
  PROVE  /\ Mover(p) /\ PlaceOf(p)' /\ files' = files /\ proc[p].at \in Packing
         /\ \/ proc'[p].at = "off"
            \/ /\ proc'[p].at \in {"renamehdr", "unlinkrest", "renamerest"} /\ proc'[p].new = proc[p].new
               /\ proc'[p].hdr = proc[p].hdr
<1>1. files' = files /\ Renames(p)
  BY DEF PackReplace, Renames, Unlink, Rename, Bounds
<1>2. proc[p].at \in Packing /\ PlaceOf(p)
  BY <1>1 DEF Renames, Packing, First, Places
<1>3. ASSUME NEW at \in {"renamehdr", "unlinkrest", "renamerest"}, Go(p, at)
      PROVE  /\ Mover(p) /\ PlaceOf(p)' /\ proc'[p].at = at /\ proc'[p].new = proc[p].new /\ proc'[p].hdr = proc[p].hdr
  <2>1. at \in Place
    BY DEF Place
  <2>2. proc'[p].at = at /\ proc'[p].job = proc[p].job /\ proc'[p].new = proc[p].new /\ proc'[p].hdr = proc[p].hdr /\ Mover(p)
    BY <1>3, <2>1, GoMoves
  <2>3. proc[p].job \in Jobs[p] /\ proc[p].job = "pack" /\ proc[p].new \in 1..files
    BY <1>2 DEF PlaceOf, Packing
  <2>4. PlaceOf(p)'
    BY <1>1, <1>3, <2>2, <2>3 DEF PlaceOf, WithHeader, WithRest, Packing
  <2> QED BY <2>2, <2>4
<1>4. ASSUME JAM_Close(p) PROVE Mover(p) /\ PlaceOf(p)' /\ proc'[p].at = "off"
  BY <1>4, CloseMoves, PlaceOff
<1> QED BY <1>1, <1>2, <1>3, <1>4 DEF Renames

LEMMA ProcMoves ==
  ASSUME First, NEW p \in Proc, Steps(p)
  PROVE  Mover(p) /\ PlaceOf(p)'
<1>1. /\ \A j \in Job : OpenHeader(p, j) => Mover(p) /\ PlaceOf(p)'
      /\ OpenRest(p) => Mover(p) /\ PlaceOf(p)'
      /\ SetMsgArea(p) => Mover(p) /\ PlaceOf(p)'
      /\ \A n \in Msg : Show(p, n) => Mover(p) /\ PlaceOf(p)'
      /\ \A n \in Msg : ShowPhantom(p, n) => Mover(p) /\ PlaceOf(p)'
      /\ AddIndex(p) => Mover(p) /\ PlaceOf(p)'
      /\ \A short \in BOOLEAN : PackCopy(p, short) => Mover(p) /\ PlaceOf(p)'
      /\ PackClose(p) => Mover(p) /\ PlaceOf(p)'
      /\ PackReplace(p) => Mover(p) /\ PlaceOf(p)'
      /\ Kill(p) => Mover(p) /\ PlaceOf(p)'
  BY OpenHeaderMoves, OpenRestMoves, SelectMoves, ShowMoves, ShowPhantomMoves, IndexMoves, PackMoves, PackCloseMoves, RenameMoves, KillMoves, PlaceOff, Zenon
<1>2. ASSUME JAM_Lock(p) PROVE Mover(p) /\ PlaceOf(p)'
  BY <1>2, GoStays DEF JAM_Lock, Bounds, WithRest, WithHeader
<1>3. ASSUME AddBegin(p) PROVE Mover(p) /\ PlaceOf(p)'
  <2>1. jhr'[proc[p].hdr].msgs = Append(Headers(p), Begun(p)) /\ Begun(p) \in Header
    BY <1>3, BeginDoes DEF MsgsOnly
  <2>2. proc[p].at \in WithHeader
    BY <1>3 DEF AddBegin, WithHeader
  <2>3. jhr'[proc[p].hdr].msgs # <<>>
    BY <2>1, <2>2, ReadyFile, AppendProperties
  <2> QED BY <1>3, <2>3, GoStays DEF AddBegin, WithRest, WithHeader
<1>4. ASSUME AddEnd(p) PROVE Mover(p) /\ PlaceOf(p)'
  BY <1>4, GoStays DEF AddEnd, Bounds, WithRest, WithHeader
<1>5. ASSUME NEW n \in Msg, JAM_Delete(p, n) PROVE Mover(p) /\ PlaceOf(p)'
  BY <1>5, GoStays DEF JAM_Delete, At, Bounds, WithRest, WithHeader
<1>8. ASSUME NEW n \in Msg, DeletePhantom(p, n) PROVE Mover(p) /\ PlaceOf(p)'
  BY <1>8, GoStays DEF DeletePhantom, At, WithRest, WithHeader
<1>6. ASSUME DeleteCount(p) PROVE Mover(p) /\ PlaceOf(p)'
  <2>1. CASE proc[p].job = "kill"
    BY <1>6, <2>1, GoStays DEF DeleteCount, Bounds, WithRest, WithHeader
  <2>2. CASE proc[p].job # "kill"
    BY <1>6, <2>2, CloseMoves, PlaceOff DEF DeleteCount
  <2> QED BY <2>1, <2>2
<1>7. ASSUME AddCount(p) \/ ShowNone(p) \/ LockFails(p) \/ MarkRead(p) \/ DeleteEnd(p) PROVE Mover(p) /\ PlaceOf(p)'
  <2>1. JAM_Close(p)
    BY <1>7, Zenon DEF AddCount, ShowNone, LockFails, MarkRead, DeleteEnd
  <2> QED BY <2>1, CloseMoves, PlaceOff, SMTT(60)
<1> QED BY <1>1, <1>2, <1>3, <1>4, <1>5, <1>6, <1>7, <1>8, Zenon DEF Steps

(***************************************************************************)
(* The types are kept.                                                     *)
(***************************************************************************)
IsPhantom(p, e) ==
  /\ proc[p].at = "locked" /\ e.del /\ deleted' = deleted \union {e.id} /\ \E n \in Msg : DeletePhantom(p, n)
Begins(p) == \E e \in Header : Adds1(p, e) /\ ((AddBegin(p) /\ e = Begun(p)) \/ IsPhantom(p, e))
Tails(p) ==
  /\ AddEnd(p) \/ Kill(p)
  /\ proc[p].at = "half" /\ Len(Headers(p)) \in 1..Len(Headers(p))
  /\ \E t \in BOOLEAN, m \in Seq(Header) : MsgsOnly(proc[p].hdr, m) /\ Retailed(Headers(p), m, t) /\ (AddEnd(p) => ~ t)
Recounts(p) ==
  \/ AddCount(p) /\ proc[p].at = "full" /\ ActiveOnly(proc[p].hdr, (jhr[proc[p].hdr].active + 1) % Wide)
  \/ DeleteCount(p) /\ proc[p].at = "gone" /\ ActiveOnly(proc[p].hdr, (jhr[proc[p].hdr].active + Wide - 1) % Wide)
Deletes1(p) ==
  /\ \E n \in Msg : JAM_Delete(p, n)
  /\ proc[p].at = "locked"
  /\ \E i \in 1..Len(Headers(p)), m \in Seq(Header) :
       /\ MsgsOnly(proc[p].hdr, m) /\ Undone(Headers(p), m, i) /\ ~ Headers(p)[i].del
       /\ deleted' = deleted \union {Headers(p)[i].id}
PacksInto(p) ==
  \E short \in BOOLEAN :
    /\ PackCopy(p, short) /\ At(p, "locked", "pack") /\ PackFiles(p, short)
    /\ \E r \in 0..Len(Headers(p)) : Reached(p) = 1..r

LEMMA EndTails == ASSUME First, NEW p \in Proc, AddEnd(p) PROVE Tails(p)
<1>1. proc[p].at = "half" /\ jhr' = [jhr EXCEPT ![proc[p].hdr].msgs[Len(Headers(p))].tail = FALSE]
  BY DEF AddEnd
<1>2. FALSE \in BOOLEAN
  OBVIOUS
<1>3. /\ Len(Headers(p)) \in 1..Len(Headers(p))
      /\ \E m \in Seq(Header) : MsgsOnly(proc[p].hdr, m) /\ Retailed(Headers(p), m, FALSE)
  BY <1>1, <1>2, TailDoes, Zenon
<1> QED BY <1>1, <1>2, <1>3, Zenon DEF Tails

LEMMA BeginsWhen ==
  ASSUME First, NEW p \in Proc, AddBegin(p) \/ \E n \in Msg : DeletePhantom(p, n)
  PROVE  Begins(p)
<1>1. AddBegin(p) => Begins(p)
  BY BeginDoes DEF Begins, Adds1, AddBegin, Begun
<1>2. \A n \in Msg : DeletePhantom(p, n) => Begins(p)
  BY PhantomDoes DEF Begins, Adds1, IsPhantom
<1> QED BY <1>1, <1>2

LEMMA JhrSteps ==
  ASSUME First, NEW p \in Proc, Steps(p)
  PROVE  jhr' = jhr \/ Begins(p) \/ Tails(p) \/ Recounts(p) \/ Deletes1(p) \/ PacksInto(p)
<1>1. AddBegin(p) \/ (\E n \in Msg : DeletePhantom(p, n)) => Begins(p)
  BY BeginsWhen
<1>2. AddEnd(p) => Tails(p)
  BY EndTails
<1>3. ASSUME Kill(p), proc[p].at = "half" PROVE Tails(p)
  <2>1. PICK t \in BOOLEAN : jhr' = [jhr EXCEPT ![proc[p].hdr].msgs[Len(Headers(p))].tail = t]
    BY <1>3 DEF Kill
  <2>2. /\ Len(Headers(p)) \in 1..Len(Headers(p))
        /\ \E m \in Seq(Header) : MsgsOnly(proc[p].hdr, m) /\ Retailed(Headers(p), m, t)
    BY <1>3, <2>1, TailDoes, Zenon
  <2>3. ~ AddEnd(p)
    <3>1. AddEnd(p) => kills' = kills
      BY DEF AddEnd, Bounds
    <3>2. kills' = kills + 1 /\ kills \in Nat
      BY <1>3, Bounded DEF Kill, First, Sizes
    <3> QED BY <3>1, <3>2
  <2> QED BY <1>3, <2>2, <2>3, Zenon DEF Tails
<1>4. AddCount(p) \/ DeleteCount(p) => Recounts(p)
  BY CountDoes DEF Recounts
<1>5. \A n \in Msg : JAM_Delete(p, n) => Deletes1(p)
  BY DeleteDoes, Zenon DEF Deletes1
<1>6. \A short \in BOOLEAN : PackCopy(p, short) => PacksInto(p)
  BY PackDoes, Zenon DEF PacksInto
<1> QED BY JhrMoves, <1>1, <1>2, <1>3, <1>4, <1>5, <1>6, Zenon

RestSteps(p) ==
  \/ rest' = rest
  \/ AddIndex(p) /\ IdxOnly(proc[p].rest, Append(Index(p), Len(Headers(p)) + 1))
  \/ /\ MarkRead(p)
     /\ \E h \in Nat :
          /\ HighOnly(proc[p].rest, [rest[proc[p].rest].high EXCEPT ![p] = h])
          /\ h <= Pointer(p) /\ rest[proc[p].rest].high[p] \in Nat /\ Pointer(p) \in Nat
  \/ PacksInto(p)

LEMMA RestIs == ASSUME First, NEW p \in Proc, Steps(p) PROVE RestSteps(p)
<1>1. AddIndex(p) => IdxOnly(proc[p].rest, Append(Index(p), Len(Headers(p)) + 1))
  BY BeginIndexes
<1>2. MarkRead(p) => \E h \in Nat :
          /\ HighOnly(proc[p].rest, [rest[proc[p].rest].high EXCEPT ![p] = h])
          /\ h <= Pointer(p) /\ rest[proc[p].rest].high[p] \in Nat /\ Pointer(p) \in Nat
  BY MarkDoes, Zenon
<1>3. \A short \in BOOLEAN : PackCopy(p, short) => PacksInto(p)
  BY PackDoes, Zenon DEF PacksInto
<1> QED BY RestMoves, <1>1, <1>2, <1>3, Zenon DEF RestSteps

LEMMA TypesKept == ASSUME First, NEW p \in Proc, Steps(p) PROVE Types' /\ Sizes'
<1>1. jhr' \in [File -> FileType]
  <2>1. jhr \in [File -> FileType]
    BY DEF First, Types
  <2>2. Begins(p) \/ Tails(p) \/ Deletes1(p) => jhr' \in [File -> FileType]
    BY Zenon DEF Begins, Adds1, Tails, Deletes1, MsgsOnly
  <2>3. Recounts(p) => jhr' \in [File -> FileType]
    BY Zenon DEF Recounts, ActiveOnly
  <2>4. PacksInto(p) => jhr' \in [File -> FileType]
    BY Zenon DEF PacksInto, PackFiles
  <2> QED BY JhrSteps, <2>1, <2>2, <2>3, <2>4
<1>2. rest' \in [File -> RestType]
  <2>1. rest \in [File -> RestType]
    BY DEF First, Types
  <2>2. PacksInto(p) => rest' \in [File -> RestType]
    BY Zenon DEF PacksInto, PackFiles
  <2> QED BY RestIs, <2>1, <2>2, Zenon DEF RestSteps, IdxOnly, HighOnly
<1>3. name' \in [{"hdr", "rest"} -> 0..MaxFiles]
  <2>1. name \in [{"hdr", "rest"} -> 0..MaxFiles] /\ 0 \in 0..MaxFiles /\ proc[p].new \in 0..MaxFiles
    BY Finding, Bounded DEF First, Types, ProcType
  <2>2. files < MaxFiles => files + 1 \in 0..MaxFiles
    BY Bounded DEF First, Types
  <2> QED BY <2>1, <2>2, NameMoves DEF MakesHeader, MakesRest, Renames
<1>4. lock' \in [File -> Proc \union {Free}] /\ proc' \in [Proc -> ProcType] /\ files' \in 1..MaxFiles
  <2>1. Next
    BY Zenon DEF Next, Steps
  <2>2. LInv'
    BY <2>1, StepL DEF First
  <2> QED BY <2>2, ProcMoves, FilesGrow DEF LInv, Shape, Mover
<1>5. Sizes'
  BY IdsMove, Bounded DEF First, Sizes
<1> QED BY <1>1, <1>2, <1>3, <1>4, <1>5 DEF Types

LEMMA HistoryMoves ==
  ASSUME NEW p \in Proc, Steps(p)
  PROVE  \/ UNCHANGED history
         \/ AddIndex(p) \/ AddEnd(p) \/ MarkRead(p) \/ Kill(p)
         \/ (\E n \in Msg : Show(p, n) \/ JAM_Delete(p, n) \/ ShowPhantom(p, n) \/ DeletePhantom(p, n))
         \/ (\E short \in BOOLEAN : PackCopy(p, short))
<1>1. /\ \A j \in Job : OpenHeader(p, j) => UNCHANGED history
      /\ OpenRest(p) => UNCHANGED history
      /\ SetMsgArea(p) => UNCHANGED history
      /\ JAM_Lock(p) => UNCHANGED history
      /\ AddBegin(p) => UNCHANGED history
      /\ AddCount(p) => UNCHANGED history
  BY Zenon DEF OpenHeader, OpenRest, SetMsgArea, JAM_Lock, AddBegin, AddCount, NoHistory
<1>2. /\ ShowNone(p) => UNCHANGED history
      /\ LockFails(p) => UNCHANGED history
      /\ DeleteCount(p) => UNCHANGED history
      /\ DeleteEnd(p) => UNCHANGED history
      /\ PackClose(p) => UNCHANGED history
      /\ PackReplace(p) => UNCHANGED history
  BY Zenon DEF ShowNone, LockFails, DeleteCount, DeleteEnd, PackClose, PackReplace, Unlink, Rename, NoHistory
<1> QED BY <1>1, <1>2, Zenon DEF Steps

LEMMA HistoriesKept == ASSUME First, NEW p \in Proc, Steps(p) PROVE Histories'
<1>0. Histories
  BY DEF First
<1>1. CASE UNCHANGED history
  BY <1>0, <1>1 DEF Histories, history
<1>2. CASE AddIndex(p)
  <2>1. proc[p].hdr \in File /\ proc[p].rest \in File
    BY <1>2, Finding DEF AddIndex, At, WithHeader, WithRest
  <2>2. UNCHANGED <<stored, deleted, shown, strayed, cut, torn>> /\ crossed' \subseteq crossed \union {proc[p].hdr, proc[p].rest}
    BY <1>2 DEF AddIndex, Crossing
  <2>3. mistaken' \in BOOLEAN
    BY <1>2 DEF AddIndex
  <2> QED BY <1>0, <2>1, <2>2, <2>3 DEF Histories
<1>3. CASE MarkRead(p)
  <2>1. proc[p].hdr \in File /\ proc[p].rest \in File
    BY <1>3, Finding DEF MarkRead, At, WithHeader, WithRest
  <2>2. UNCHANGED <<stored, deleted, shown, strayed, cut, torn, mistaken>> /\ crossed' \subseteq crossed \union {proc[p].hdr, proc[p].rest}
    BY <1>3 DEF MarkRead, Crossing
  <2> QED BY <1>0, <2>1, <2>2 DEF Histories
<1>4. CASE AddEnd(p)
  <2>1. proc[p].at = "half" /\ proc[p].at \in WithHeader
    BY <1>4 DEF AddEnd, WithHeader
  <2>2. jhr' = [jhr EXCEPT ![proc[p].hdr].msgs[Len(Headers(p))].tail = FALSE]
    BY <1>4 DEF AddEnd
  <2>3. Len(Headers(p)) \in 1..Len(Headers(p))
    BY <2>1, <2>2, TailDoes
  <2>4. Headers(p)[Len(Headers(p))] \in Header
    BY <2>1, <2>3, ReadyFile
  <2>5. Headers(p)[Len(Headers(p))].id \in Msg
    BY <2>4 DEF Header
  <2>6. UNCHANGED <<deleted, shown, cut, crossed, torn, mistaken>> /\ stored' \subseteq stored \union {Headers(p)[Len(Headers(p))].id}
        /\ strayed' \subseteq strayed \union {Headers(p)[Len(Headers(p))].id}
    BY <1>4 DEF AddEnd
  <2> QED BY <1>0, <2>5, <2>6 DEF Histories
<1>5. CASE Kill(p)
  <2>1. proc[p].at \in {"indexed", "half", "full", "gone"} => proc[p].hdr \in File
    BY Finding, SMTT(60) DEF WithHeader
  <2>2. UNCHANGED <<stored, deleted, shown, strayed, crossed, mistaken>> /\ torn' \in BOOLEAN
    BY <1>5, SMTT(60) DEF Kill
  <2>3. cut' = IF proc[p].at \in {"indexed", "half", "full", "gone"} THEN cut \union {proc[p].hdr} ELSE cut
    BY <1>5 DEF Kill
  <2> QED BY <1>0, <2>1, <2>2, <2>3 DEF Histories
<1>6. ASSUME NEW n \in Msg, Show(p, n) PROVE Histories'
  <2>1. PICK i \in 1..Len(Headers(p)) :
          shown' = [shown EXCEPT ![p] = IF shown[p] < Headers(p)[i].id THEN Headers(p)[i].id ELSE shown[p]]
    BY <1>6, ShowMoves
  <2>2. Headers(p)[i] \in Header
    BY <1>6, ShowMoves, ReadyFile DEF At, WithHeader
  <2>3. Headers(p)[i].id \in 0..MaxMsgs
    BY <2>2, Bounded DEF Header, Msg
  <2>4. shown' \in [Proc -> 0..MaxMsgs]
    BY <1>0, <2>1, <2>3 DEF Histories
  <2>5. UNCHANGED <<stored, deleted, strayed, cut, crossed, torn, mistaken>>
    BY <1>6 DEF Show
  <2> QED BY <1>0, <2>4, <2>5 DEF Histories
<1>7. ASSUME NEW n \in Msg, JAM_Delete(p, n) PROVE Histories'
  <2>1. proc[p].at \in WithHeader
    BY <1>7 DEF JAM_Delete, At, WithHeader
  <2>2. PICK i \in 1..Len(Headers(p)) : deleted' = deleted \union {Headers(p)[i].id}
    BY <1>7, DeleteDoes
  <2>3. Headers(p)[i] \in Header
    BY <2>1, ReadyFile
  <2>4. Headers(p)[i].id \in Msg
    BY <2>3 DEF Header
  <2>5. UNCHANGED <<stored, shown, strayed, cut, crossed, torn, mistaken>>
    BY <1>7 DEF JAM_Delete
  <2> QED BY <1>0, <2>2, <2>4, <2>5 DEF Histories
<1>8. ASSUME NEW short \in BOOLEAN, PackCopy(p, short) PROVE Histories'
  <2>1. files + 1 \in File
    BY <1>8, PackDoes DEF PackFiles
  <2>2. proc[p].hdr \in File /\ proc[p].rest \in File
    BY <1>8, Finding DEF PackCopy, At, WithHeader, WithRest
  <2>3. UNCHANGED <<stored, deleted, shown, strayed, torn, mistaken>>
    BY <1>8 DEF PackCopy
  <2>4. cut' \subseteq cut \union {files + 1}
    BY <1>8, Zenon DEF PackCopy
  <2>5. crossed' \subseteq crossed \union {proc[p].hdr, proc[p].rest, files + 1}
    BY <1>8 DEF PackCopy
  <2> QED BY <1>0, <2>1, <2>2, <2>3, <2>4, <2>5 DEF Histories
<1>9. ASSUME NEW n \in Msg, ShowPhantom(p, n) PROVE Histories'
  <2>1. UNCHANGED <<stored, deleted, shown, strayed, cut, crossed, torn>> /\ mistaken' \in BOOLEAN
    BY <1>9 DEF ShowPhantom
  <2> QED BY <1>0, <2>1 DEF Histories
<1>10. ASSUME NEW n \in Msg, DeletePhantom(p, n) PROVE Histories'
  <2>1. proc[p].hdr \in File /\ proc[p].rest \in File
    BY <1>10, Finding DEF DeletePhantom, At, WithHeader, WithRest
  <2>2. ids + 1 \in Msg
    BY <1>10, Bounded DEF DeletePhantom, First, Sizes, Msg
  <2>3. /\ UNCHANGED <<stored, shown, strayed, torn>> /\ mistaken' \in BOOLEAN
        /\ deleted' = deleted \union {ids + 1} /\ cut' = cut \union {proc[p].hdr}
        /\ crossed' \subseteq crossed \union {proc[p].hdr, proc[p].rest}
    BY <1>10 DEF DeletePhantom, Crossing
  <2> QED BY <1>0, <2>1, <2>2, <2>3 DEF Histories
<1> QED BY HistoryMoves, <1>1, <1>2, <1>3, <1>4, <1>5, <1>6, <1>7, <1>8, <1>9, <1>10, Zenon

(***************************************************************************)
(* The places, the names, the files to come and the order of the messages. *)
(***************************************************************************)

\* Only one process packs.
LEMMA OnePacker ==
  ASSUME First, NEW p \in Proc, NEW q \in Proc, proc[p].at # "off", proc[q].at # "off",
         proc[p].job = "pack", proc[q].job = "pack"
  PROVE  p = q
<1>1. "pack" \in Jobs[p] /\ "pack" \in Jobs[q]
  BY DEF First, Places, PlaceOf
<1> QED BY <1>1, JobsKnown

LEMMA PackersAre ==
  ASSUME First, NEW p \in Proc, proc[p].at \in Packing
  PROVE  proc[p].at # "off" /\ proc[p].job = "pack" /\ proc[p].new \in 1..files
BY DEF First, Places, PlaceOf, Packing

\* A file that is there loses no header, and its messages keep their identity.
LEMMA MsgsStay ==
  ASSUME First, NEW p \in Proc, Steps(p), NEW f \in File, f <= files
  PROVE  /\ Len(jhr'[f].msgs) \in Nat /\ Len(jhr[f].msgs) <= Len(jhr'[f].msgs)
         /\ \A i \in 1..Len(jhr[f].msgs) : jhr'[f].msgs[i].id = jhr[f].msgs[i].id /\ jhr'[f].msgs[i].num = jhr[f].msgs[i].num
<1> DEFINE m == jhr[f].msgs
           w == jhr'[f].msgs
           G == /\ Len(w) \in Nat /\ Len(m) <= Len(w)
                /\ \A i \in 1..Len(m) : w[i].id = m[i].id /\ w[i].num = m[i].num
<1>1. m \in Seq(Header) /\ Len(m) \in Nat
  BY FileIs
<1>2. w = m => G
  BY <1>1
<1>3. CASE Begins(p)
  <2>1. CASE f = proc[p].hdr
    <3>1. PICK e \in Header : w = Append(m, e)
      BY <1>3, <2>1 DEF Begins, Adds1, MsgsOnly, Headers
    <3> QED BY <1>1, <3>1, AppendProperties
  <2>2. CASE f # proc[p].hdr
    BY <1>2, <1>3, <2>2 DEF Begins, Adds1, MsgsOnly
  <2> QED BY <2>1, <2>2
<1>4. CASE Tails(p)
  <2>1. CASE f = proc[p].hdr
    <3>1. PICK t \in BOOLEAN, y \in Seq(Header) : MsgsOnly(proc[p].hdr, y) /\ Retailed(Headers(p), y, t)
      BY <1>4 DEF Tails
    <3> QED BY <1>1, <2>1, <3>1 DEF MsgsOnly, Retailed, Headers
  <2>2. CASE f # proc[p].hdr
    BY <1>2, <1>4, <2>2 DEF Tails, MsgsOnly
  <2> QED BY <2>1, <2>2
<1>5. CASE Recounts(p)
  BY <1>2, <1>5 DEF Recounts, ActiveOnly
<1>6. CASE Deletes1(p)
  <2>1. CASE f = proc[p].hdr
    <3>1. PICK i \in 1..Len(Headers(p)), y \in Seq(Header) : MsgsOnly(proc[p].hdr, y) /\ Undone(Headers(p), y, i)
      BY <1>6 DEF Deletes1
    <3>2. w = y /\ Headers(p) = m
      BY <2>1, <3>1 DEF MsgsOnly, Headers
    <3>3. Len(y) = Len(m) /\ \A j \in 1..Len(m) : y[j].id = m[j].id /\ y[j].num = m[j].num
      BY <3>1, <3>2, Zenon DEF Undone
    <3> HIDE DEF m, w
    <3> QED BY <1>1, <3>2, <3>3 DEF m, w
  <2>2. CASE f # proc[p].hdr
    BY <1>2, <1>6, <2>2 DEF Deletes1, MsgsOnly
  <2> QED BY <2>1, <2>2
<1>7. CASE PacksInto(p)
  <2>1. f # files + 1
    BY Bounded DEF First, Types, File
  <2>2. jhr'[f] = jhr[f]
    BY <1>7, <2>1 DEF PacksInto, PackFiles
  <2> QED BY <1>2, <2>2
<1>8. CASE jhr' = jhr
  BY <1>2, <1>8
<1>9. G
  BY JhrSteps, <1>3, <1>4, <1>5, <1>6, <1>7, <1>8
<1> QED BY <1>9

LEMMA NotEmpty ==
  ASSUME NEW m \in Seq(Header)
  PROVE  m # <<>> <=> Len(m) > 0
BY EmptySeq, LenProperties

LEMMA HdrNameStays ==
  ASSUME First, NEW p \in Proc, Steps(p), NEW q \in Proc, q # p,
         proc[q].job = "pack", proc[q].at \in WithHeader
  PROVE  name'["hdr"] = name["hdr"]
<1>1. proc[q].hdr = name["hdr"] /\ proc[q].hdr \in 1..files /\ proc[q].at # "off"
  BY DEF First, Places, PlaceOf, WithHeader
<1>2. name["hdr"] # 0
  BY <1>1, Bounded DEF First, Types
<1>3. proc[p].at \notin Packing
  BY <1>1, PackersAre, OnePacker
<1>4. name \in [{"hdr", "rest"} -> 0..MaxFiles]
  BY DEF First, Types
<1>5. ~ Renames(p)
  BY <1>3 DEF Renames, Packing
<1> QED BY <1>2, <1>4, <1>5, NameMoves DEF MakesHeader, MakesRest

LEMMA PlacesKept == ASSUME First, NEW p \in Proc, Steps(p) PROVE Places'
<1>1. ASSUME NEW q \in Proc, q # p PROVE PlaceOf(q)'
  <2>1. proc'[q] = proc[q] /\ PlaceOf(q)
    BY <1>1, ProcMoves DEF Mover, First, Places
  <2>2. files \in 1..MaxFiles /\ files' \in 1..MaxFiles /\ files <= files'
    BY FilesGrow
  <2>3. proc[q].job = "pack" /\ proc[q].at \in WithHeader => name'["hdr"] = name["hdr"]
    BY <1>1, HdrNameStays
  <2>4. ASSUME proc[q].at = "half" PROVE jhr'[proc[q].hdr].msgs # <<>>
    <3>1. proc[q].hdr \in File /\ proc[q].hdr <= files /\ jhr[proc[q].hdr].msgs # <<>>
      BY <2>1, <2>4, Finding DEF PlaceOf, WithHeader
    <3>2. jhr'[proc[q].hdr].msgs \in Seq(Header)
      BY <3>1, TypesKept DEF Types, FileType
    <3>3. jhr[proc[q].hdr].msgs \in Seq(Header) /\ Len(jhr[proc[q].hdr].msgs) \in Nat
      BY <3>1, FileIs
    <3> QED BY <3>1, <3>2, <3>3, MsgsStay, NotEmpty
  <2>5. \A x \in 1..files : x \in 1..files'
    BY <2>2, Bounded
  <2> HIDE DEF WithHeader, WithRest, Packing
  <2> QED BY <2>1, <2>3, <2>4, <2>5 DEF PlaceOf
<1>2. PlaceOf(p)'
  BY ProcMoves
<1> QED BY <1>1, <1>2 DEF Places

\* Once the pack has closed the old files it renames, or is killed.
LEMMA Replacing ==
  ASSUME NEW p \in Proc, Steps(p), proc[p].at \in {"unlinkhdr", "renamehdr", "unlinkrest", "renamerest"}
  PROVE  PackReplace(p) \/ Kill(p)
<1>1. /\ \A j \in Job : ~ OpenHeader(p, j)
      /\ ~ OpenRest(p)
      /\ ~ SetMsgArea(p)
      /\ ~ JAM_Lock(p)
      /\ ~ AddIndex(p)
      /\ ~ AddBegin(p)
      /\ ~ AddEnd(p)
      /\ ~ AddCount(p)
  BY ZenonT(60) DEF OpenHeader, OpenRest, SetMsgArea, JAM_Lock, AddIndex, AddBegin, At, AddEnd, AddCount
<1>3. \A n \in Msg : ~ ShowPhantom(p, n) /\ ~ DeletePhantom(p, n)
  BY ZenonT(60) DEF ShowPhantom, DeletePhantom, At
<1>2. /\ \A n \in Msg : ~ Show(p, n) /\ ~ JAM_Delete(p, n)
      /\ ~ ShowNone(p)
      /\ ~ LockFails(p)
      /\ ~ MarkRead(p)
      /\ ~ DeleteCount(p)
      /\ ~ DeleteEnd(p)
      /\ ~ PackClose(p)
      /\ \A short \in BOOLEAN : ~ PackCopy(p, short)
  BY ZenonT(60) DEF Show, JAM_Delete, At, ShowNone, LockFails, MarkRead, DeleteCount, DeleteEnd, PackClose, PackCopy
<1> QED BY <1>1, <1>2, <1>3, ZenonT(60) DEF Steps

LEMMA TornStays ==
  ASSUME First, NEW p \in Proc, Steps(p), torn
  PROVE  torn'
<1>1. UNCHANGED history => torn' = torn
  BY DEF history
<1>2. /\ AddIndex(p) => torn' = torn
      /\ AddEnd(p) => torn' = torn
      /\ MarkRead(p) => torn' = torn
      /\ Kill(p) => torn'
      /\ \A n \in Msg : Show(p, n) \/ JAM_Delete(p, n) => torn' = torn
      /\ \A n \in Msg : ShowPhantom(p, n) \/ DeletePhantom(p, n) => torn' = torn
      /\ \A short \in BOOLEAN : PackCopy(p, short) => torn' = torn
  BY Zenon DEF AddEnd, MarkRead, Kill, Show, JAM_Delete, PackCopy, AddIndex, ShowPhantom, DeletePhantom
<1> QED BY HistoryMoves, <1>1, <1>2, Zenon

LEMMA NamesKept == ASSUME First, NEW p \in Proc, Steps(p) PROVE Names'
<1>1. /\ name \in [{"hdr", "rest"} -> 0..MaxFiles] /\ name["hdr"] \in 0..files /\ name["rest"] \in 0..files
      /\ files \in 1..MaxFiles /\ files' \in 1..MaxFiles /\ files <= files'
  BY FilesGrow DEF First, Types, Names
<1>2. name'["hdr"] \in 0..files' /\ name'["rest"] \in 0..files'
  <2>1. Renames(p) => proc[p].at \in Packing
    BY DEF Renames, Packing
  <2>2. Renames(p) => proc[p].new \in 1..files
    BY <2>1, PackersAre
  <2> QED BY <1>1, <2>2, NameMoves, Bounded DEF MakesHeader, MakesRest, Renames
<1>3. ASSUME name'["hdr"] = 0 PROVE torn' \/ \E k \in Proc : proc'[k].at = "renamehdr"
  <2>1. CASE PackReplace(p) /\ Renames(p) /\ proc[p].at = "unlinkhdr"
    <3>1. Go(p, "renamehdr") /\ "renamehdr" \in Place
      BY <2>1 DEF Renames, Place
    <3>2. proc'[p].at = "renamehdr"
      BY <3>1, GoMoves
    <3> QED BY <3>2
  <2>2. CASE PackReplace(p) /\ Renames(p) /\ proc[p].at = "renamehdr"
    <3>1. name'["hdr"] = proc[p].new /\ proc[p].new \in 1..files
      BY <1>1, <2>2, PackersAre DEF Renames, Packing
    <3> QED BY <1>1, <1>3, <3>1
  <2>3. CASE ~ (Renames(p) /\ PackReplace(p) /\ proc[p].at \in {"unlinkhdr", "renamehdr"})
    <3>1. name'["hdr"] = name["hdr"]
      BY <1>1, <1>3, <2>3, NameMoves, Bounded DEF MakesHeader, MakesRest, Renames
    <3>2. torn \/ \E k \in Proc : proc[k].at = "renamehdr"
      BY <1>3, <3>1 DEF First, Names
    <3>3. torn => torn'
      BY TornStays
    <3>4. ASSUME proc[p].at = "renamehdr" PROVE torn'
      <4>1. PackReplace(p) => Renames(p)
        BY DEF PackReplace, Renames, Unlink, Rename
      <4>2. Kill(p)
        BY <2>3, <3>4, <4>1, Replacing
      <4> QED BY <3>4, <4>2 DEF Kill
    <3>5. ASSUME NEW k \in Proc, k # p, proc[k].at = "renamehdr" PROVE proc'[k].at = "renamehdr"
      BY <3>5, ProcMoves DEF Mover
    <3> QED BY <3>2, <3>3, <3>4, <3>5
  <2> QED BY <2>1, <2>2, <2>3
<1> QED BY <1>2, <1>3 DEF Names

LEMMA UnmadeKept == ASSUME First, NEW p \in Proc, Steps(p) PROVE Unmade'
<1> SUFFICES ASSUME NEW f \in File, f > files' PROVE jhr'[f] = Blank /\ rest'[f] = BlankRest
  BY DEF Unmade, Blank, BlankRest
<1>1. files \in Nat /\ files' \in Nat /\ f \in Nat /\ files <= files'
  BY FilesGrow, Bounded DEF File
<1>2. jhr[f] = Blank /\ rest[f] = BlankRest /\ f > files
  BY <1>1 DEF First, Unmade
<1>3. PacksInto(p) => f # files + 1
  BY <1>1 DEF PacksInto, PackFiles
<1>4. \A h \in File : h <= files => f # h
  BY <1>1, <1>2 DEF File
<1>5. jhr'[f] = jhr[f]
  <2>1. Begins(p) \/ Tails(p) \/ Deletes1(p) => jhr'[f] = jhr[f]
    BY <1>4 DEF Begins, Adds1, Tails, Deletes1, MsgsOnly
  <2>2. Recounts(p) => jhr'[f] = jhr[f]
    BY <1>4 DEF Recounts, ActiveOnly
  <2>3. PacksInto(p) => jhr'[f] = jhr[f]
    BY <1>3 DEF PacksInto, PackFiles
  <2> QED BY <2>1, <2>2, <2>3, JhrSteps
<1>6. rest'[f] = rest[f]
  <2>1. PacksInto(p) => proc[p].rest \in File /\ proc[p].rest <= files
    BY Finding DEF PacksInto, At, WithHeader, WithRest
  <2>2. PacksInto(p) => rest'[f] = rest[f]
    BY <1>3, <1>4, <2>1 DEF PacksInto, PackFiles
  <2> QED BY <1>4, <2>2, RestIs DEF RestSteps, IdxOnly, HighOnly
<1> QED BY <1>2, <1>5, <1>6

InOrder(p, r) ==
  /\ Len(Packed(p)) \in Nat /\ Len(Packed(p)) <= Len(Headers(p))
  /\ \A n \in 1..Len(Packed(p)) :
       /\ Packed(p)[n].num = n /\ ~ Packed(p)[n].del /\ ~ Packed(p)[n].tail
       /\ \E i \in 1..r : /\ ~ Headers(p)[i].del /\ N(Headers(p), i) = n
                          /\ Packed(p)[n].id = Headers(p)[i].id
  /\ \A a, b \in 1..Len(Packed(p)) : a < b =>
       \E i, j \in 1..r : i < j /\ Packed(p)[a].id = Headers(p)[i].id /\ Packed(p)[b].id = Headers(p)[j].id

\* The pack keeps the order.
LEMMA PackedOrder ==
  ASSUME NEW p, Headers(p) \in Seq(Header), NEW r \in 0..Len(Headers(p)), Reached(p) = 1..r
  PROVE  InOrder(p, r)
<1>0. /\ Len(Packed(p)) = N(Headers(p), r)
      /\ \A n \in 1..N(Headers(p), r) :
           \E i \in 1..r : /\ ~ Headers(p)[i].del /\ N(Headers(p), i) = n
                           /\ Packed(p)[n] = [Headers(p)[i] EXCEPT !.num = n, !.tail = FALSE]
  BY PackedIs, ZenonT(60)
<1>1. /\ Len(Packed(p)) = N(Headers(p), r) /\ Len(Headers(p)) \in Nat /\ r \in Nat /\ r <= Len(Headers(p))
      /\ Headers(p) \in [1..Len(Headers(p)) -> Header]
  <2>1. Len(Headers(p)) \in Nat /\ Headers(p) \in [1..Len(Headers(p)) -> Header]
    BY LenProperties
  <2>2. r \in Nat /\ r <= Len(Headers(p))
    BY <2>1
  <2> QED BY <2>1, <2>2, <1>0, Zenon
<1>2. Len(Packed(p)) \in Nat /\ Len(Packed(p)) <= r
  BY <1>1, Counts
<1>3. ASSUME NEW n \in 1..Len(Packed(p))
      PROVE  /\ Packed(p)[n].num = n /\ ~ Packed(p)[n].del /\ ~ Packed(p)[n].tail
             /\ \E i \in 1..r : /\ ~ Headers(p)[i].del /\ N(Headers(p), i) = n
                                /\ Packed(p)[n].id = Headers(p)[i].id
  <2>1. PICK i \in 1..r : /\ ~ Headers(p)[i].del /\ N(Headers(p), i) = n
                          /\ Packed(p)[n] = [Headers(p)[i] EXCEPT !.num = n, !.tail = FALSE]
    BY <1>0, Zenon
  <2>2. Headers(p)[i] \in Header
    BY <1>1, <2>1
  <2>3. Packed(p)[n].num = n /\ ~ Packed(p)[n].del /\ ~ Packed(p)[n].tail /\ Packed(p)[n].id = Headers(p)[i].id
    BY <2>1, <2>2 DEF Header
  <2> QED BY <2>1, <2>3
<1>4. ASSUME NEW a \in 1..Len(Packed(p)), NEW b \in 1..Len(Packed(p)), a < b
      PROVE  \E i, j \in 1..r : i < j /\ Packed(p)[a].id = Headers(p)[i].id /\ Packed(p)[b].id = Headers(p)[j].id
  <2>1. PICK i \in 1..r : N(Headers(p), i) = a /\ Packed(p)[a].id = Headers(p)[i].id
    BY <1>3
  <2>2. PICK j \in 1..r : N(Headers(p), j) = b /\ Packed(p)[b].id = Headers(p)[j].id
    BY <1>3
  <2>3. i \in Nat /\ j \in Nat
    OBVIOUS
  <2>4. ~ (j <= i)
    <3>1. j <= i => N(Headers(p), j) <= N(Headers(p), i)
      BY <2>3, CountGrows
    <3> QED BY <3>1, <1>4, <2>1, <2>2
  <2> QED BY <2>1, <2>2, <2>3, <2>4
<1>5. Len(Packed(p)) <= Len(Headers(p))
  BY <1>1, <1>2
<1> QED BY <1>2, <1>3, <1>4, <1>5, Zenon DEF InOrder

LEMMA DeletedStays ==
  ASSUME First, NEW p \in Proc, Steps(p)
  PROVE  deleted \subseteq deleted'
<1>1. UNCHANGED history => deleted' = deleted
  BY DEF history
<1>2. /\ AddIndex(p) => deleted' = deleted
      /\ AddEnd(p) => deleted' = deleted
      /\ MarkRead(p) => deleted' = deleted
      /\ Kill(p) => deleted' = deleted
      /\ \A n \in Msg : Show(p, n) => deleted' = deleted
      /\ \A n \in Msg : ShowPhantom(p, n) => deleted' = deleted
      /\ \A short \in BOOLEAN : PackCopy(p, short) => deleted' = deleted
  BY Zenon DEF AddEnd, MarkRead, Kill, Show, PackCopy, AddIndex, ShowPhantom
<1>3. \A n \in Msg : JAM_Delete(p, n) \/ DeletePhantom(p, n) => deleted \subseteq deleted'
  BY DEF JAM_Delete, DeletePhantom
<1> QED BY HistoryMoves, <1>1, <1>2, <1>3, Zenon

LEMMA OrderedKept == ASSUME First, NEW p \in Proc, Steps(p) PROVE Ordered'
<1> SUFFICES ASSUME NEW f \in File PROVE OrderOf(f)'
  BY DEF Ordered
<1> DEFINE m == jhr[f].msgs
           w == jhr'[f].msgs
<1>1. /\ OrderOf(f) /\ ids \in Nat /\ ids' \in Nat /\ ids <= ids' /\ deleted \subseteq deleted'
      /\ ids' \in 0..MaxMsgs
  BY DeletedStays, TypesKept, IdsMove, Bounded DEF First, Ordered, Sizes
<1>2. m \in Seq(Header) /\ Len(m) \in Nat /\ \A i \in 1..Len(m) : m[i] \in Header /\ m[i].id \in Nat
  <2>1. m \in Seq(Header) /\ Len(m) \in Nat /\ \A i \in 1..Len(m) : m[i] \in Header
    BY FileIs
  <2> QED BY <2>1 DEF Header, Msg
<1>3. ASSUME Len(w) = Len(m), \A i \in 1..Len(m) : w[i].id = m[i].id,
             \A i \in 1..Len(m) : w[i].del => m[i].del \/ m[i].id \in deleted'
      PROVE  OrderOf(f)'
  <2>1. /\ Len(m) <= ids /\ (\A i \in 1..Len(m) : m[i].id <= ids)
        /\ (\A i, j \in 1..Len(m) : i < j => m[i].id < m[j].id)
        /\ \A i \in 1..Len(m) : m[i].del => m[i].id \in deleted
    BY <1>1, Zenon DEF OrderOf
  <2> HIDE DEF m, w
  <2>2. Len(w) <= ids' /\ \A i \in 1..Len(w) : w[i].id <= ids'
    BY <1>1, <1>2, <1>3, <2>1
  <2>3. \A i, j \in 1..Len(w) : i < j => w[i].id < w[j].id
    BY <1>3, <2>1
  <2>4. \A i \in 1..Len(w) : w[i].del => w[i].id \in deleted'
    BY <1>1, <1>3, <2>1
  <2> QED BY <2>2, <2>3, <2>4, Zenon DEF OrderOf, w
<1>4. w = m => OrderOf(f)'
  BY <1>3
<1>5. CASE Begins(p)
  <2>1. CASE f = proc[p].hdr
    <3>1. PICK e \in Header : Adds1(p, e) /\ ((AddBegin(p) /\ e = Begun(p)) \/ IsPhantom(p, e))
      BY <1>5 DEF Begins
    <3>2. w = Append(m, e) /\ e.id = ids + 1 /\ ids' = ids + 1
      BY <2>1, <3>1 DEF Adds1, MsgsOnly, Headers
    <3>10. e.del => e.id \in deleted'
      BY <3>1 DEF Begun, IsPhantom
    <3>3. Len(w) = Len(m) + 1 /\ (\A i \in 1..Len(m) : w[i] = m[i]) /\ w[Len(m) + 1] = e
      BY <1>2, <3>1, <3>2, AppendProperties
    <3>0. /\ Len(m) <= ids /\ (\A i \in 1..Len(m) : m[i].id <= ids)
          /\ (\A i, j \in 1..Len(m) : i < j => m[i].id < m[j].id)
          /\ \A i \in 1..Len(m) : m[i].del => m[i].id \in deleted
      BY <1>1, Zenon DEF OrderOf
    <3> HIDE DEF m, w
    <3>7. \A i \in 1..Len(w) : i \in 1..Len(m) \/ i = Len(m) + 1
      BY <1>2, <3>3
    <3>8. \A i \in 1..Len(m) : w[i].id = m[i].id /\ w[i].del = m[i].del /\ w[i].id \in Nat
      BY <1>2, <3>3
    <3>9. w[Len(m) + 1].id = ids + 1 /\ (w[Len(m) + 1].del => w[Len(m) + 1].id \in deleted')
      BY <3>2, <3>3, <3>10
    <3>4. Len(w) <= ids' /\ \A i \in 1..Len(w) : w[i].id <= ids'
      <4>1. Len(w) <= ids'
        BY <1>1, <1>2, <3>0, <3>2, <3>3
      <4>2. \A i \in 1..Len(m) : w[i].id <= ids'
        BY <1>1, <3>0, <3>8
      <4> QED BY <1>1, <3>2, <3>7, <3>9, <4>1, <4>2
    <3>5. \A i, j \in 1..Len(w) : i < j => w[i].id < w[j].id
      <4> SUFFICES ASSUME NEW i \in 1..Len(w), NEW j \in 1..Len(w), i < j PROVE w[i].id < w[j].id
        OBVIOUS
      <4>1. i \in 1..Len(m)
        BY <1>2, <3>7
      <4>2. CASE j \in 1..Len(m)
        BY <3>0, <3>8, <4>1, <4>2
      <4>3. CASE j = Len(m) + 1
        BY <1>1, <3>0, <3>8, <3>9, <4>1, <4>3
      <4> QED BY <3>7, <4>2, <4>3
    <3>6. \A i \in 1..Len(w) : w[i].del => w[i].id \in deleted'
      BY <1>1, <3>0, <3>7, <3>8, <3>9
    <3> QED BY <3>4, <3>5, <3>6 DEF OrderOf, w
  <2>2. CASE f # proc[p].hdr
    BY <1>4, <1>5, <2>2 DEF Begins, Adds1, MsgsOnly
  <2> QED BY <2>1, <2>2
<1>6. CASE Tails(p)
  <2>1. CASE f = proc[p].hdr
    <3>1. PICK t \in BOOLEAN, y \in Seq(Header) : MsgsOnly(proc[p].hdr, y) /\ Retailed(Headers(p), y, t)
      BY <1>6 DEF Tails
    <3>2. w = y /\ Headers(p) = m
      BY <2>1, <3>1 DEF MsgsOnly, Headers
    <3>3. Len(y) = Len(m) /\ \A j \in 1..Len(m) : y[j].id = m[j].id /\ y[j].del = m[j].del
      BY <3>1, <3>2, Zenon DEF Retailed
    <3> HIDE DEF m, w
    <3> QED BY <1>3, <3>2, <3>3
  <2>2. CASE f # proc[p].hdr
    BY <1>4, <1>6, <2>2 DEF Tails, MsgsOnly
  <2> QED BY <2>1, <2>2
<1>7. CASE Recounts(p)
  BY <1>4, <1>7 DEF Recounts, ActiveOnly
<1>8. CASE Deletes1(p)
  <2>1. PICK i \in 1..Len(Headers(p)), y \in Seq(Header) : /\ MsgsOnly(proc[p].hdr, y) /\ Undone(Headers(p), y, i)
                                           /\ deleted' = deleted \union {Headers(p)[i].id}
    BY <1>8 DEF Deletes1
  <2>2. CASE f = proc[p].hdr
    <3>1. w = y /\ Headers(p) = m
      BY <2>1, <2>2 DEF MsgsOnly, Headers
    <3>2. Len(y) = Len(m) /\ (\A j \in 1..Len(m) : y[j].id = m[j].id) /\ \A j \in 1..Len(m) : j # i => y[j].del = m[j].del
      BY <2>1, <3>1, Zenon DEF Undone
    <3> HIDE DEF m, w
    <3> QED BY <1>3, <2>1, <3>1, <3>2
  <2>3. CASE f # proc[p].hdr
    BY <1>4, <2>1, <2>3 DEF MsgsOnly
  <2> QED BY <2>2, <2>3
<1>9. CASE PacksInto(p)
  <2>1. CASE f = files + 1
    <3>1. w = Packed(p) /\ At(p, "locked", "pack")
      BY <1>9, <2>1 DEF PacksInto, PackFiles
    <3>2. PICK r \in 0..Len(Headers(p)) : Reached(p) = 1..r
      BY <1>9 DEF PacksInto
    <3>3. /\ proc[p].hdr \in File /\ Headers(p) = jhr[proc[p].hdr].msgs /\ Headers(p) \in Seq(Header)
          /\ Len(Headers(p)) \in Nat /\ \A i \in 1..Len(Headers(p)) : Headers(p)[i] \in Header
      BY <3>1, ReadyFile DEF At, WithHeader
    <3>4. \A i \in 1..Len(Headers(p)) : Headers(p)[i].id \in Nat
      <4>1. \A h \in Header : h.id \in Nat
        BY DEF Header, Msg
      <4> QED BY <3>3, <4>1
    <3>5. OrderOf(proc[p].hdr)
      BY <3>3 DEF First, Ordered
    <3>6. /\ Len(Headers(p)) <= ids /\ \A i \in 1..Len(Headers(p)) : Headers(p)[i].id <= ids
          /\ \A i, j \in 1..Len(Headers(p)) : i < j => Headers(p)[i].id < Headers(p)[j].id
      BY <3>3, <3>5, Zenon DEF OrderOf
    <3>7. r \in Nat /\ \A i \in 1..r : i \in 1..Len(Headers(p))
      BY <3>2, <3>3
    <3>0. InOrder(p, r)
      BY <3>2, <3>3, PackedOrder, Zenon
    <3>8. Len(w) \in Nat /\ Len(w) <= Len(Headers(p))
      BY <3>0, <3>1 DEF InOrder
    <3>9. \A n \in 1..Len(w) : ~ w[n].del /\ \E i \in 1..r : w[n].id = Headers(p)[i].id
      <4>1. \A n \in 1..Len(Packed(p)) : ~ Packed(p)[n].del /\ \E i \in 1..r : Packed(p)[n].id = Headers(p)[i].id
        BY <3>0, Zenon DEF InOrder
      <4> QED BY <3>1, <4>1
    <3>10. \A a, b \in 1..Len(w) : a < b => \E i, j \in 1..r : i < j /\ w[a].id = Headers(p)[i].id /\ w[b].id = Headers(p)[j].id
      <4>1. \A a, b \in 1..Len(Packed(p)) : a < b =>
              \E i, j \in 1..r : i < j /\ Packed(p)[a].id = Headers(p)[i].id /\ Packed(p)[b].id = Headers(p)[j].id
        BY <3>0, Zenon DEF InOrder
      <4> QED BY <3>1, <4>1
    <3> HIDE DEF w, m
    <3>11. Len(w) <= ids' /\ \A n \in 1..Len(w) : w[n].id <= ids'
      <4>1. ASSUME NEW n \in 1..Len(w) PROVE w[n].id <= ids'
        <5>1. PICK i \in 1..r : w[n].id = Headers(p)[i].id
          BY <3>9
        <5> QED BY <5>1, <1>1, <3>4, <3>6, <3>7
      <4> QED BY <4>1, <1>1, <3>3, <3>6, <3>8
    <3>12. \A a, b \in 1..Len(w) : a < b => w[a].id < w[b].id
      BY <3>6, <3>7, <3>10, Zenon
    <3> QED BY <3>9, <3>11, <3>12 DEF OrderOf, w
  <2>2. CASE f # files + 1
    BY <1>4, <1>9, <2>2 DEF PacksInto, PackFiles
  <2> QED BY <2>1, <2>2
<1>10. CASE jhr' = jhr
  BY <1>4, <1>10
<1> QED BY JhrSteps, <1>5, <1>6, <1>7, <1>8, <1>9, <1>10

LEMMA InitFirst == Init => First
<1> SUFFICES ASSUME Init PROVE First
  OBVIOUS
<1> DEFINE m == [i \in 1..Already |-> [num |-> i, id |-> i, del |-> FALSE, tail |-> FALSE]]
           x == [i \in 1..Already |-> i]
           b == [p \in Proc |-> 0]
<1>1. m \in [1..Already -> Header] /\ x \in [1..Already -> Nat]
  BY Bounded DEF Header, Msg
<1>2. m \in Seq(Header) /\ x \in Seq(Nat) /\ <<>> \in Seq(Header) /\ <<>> \in Seq(Nat)
  BY <1>1, Bounded, SeqDef, EmptySeq
<1>3. Len(m) = Already /\ DOMAIN m = 1..Already
  BY <1>1, <1>2, Bounded, LenProperties
<1>4. Already \in 0..(Wide - 1) /\ 0 \in 0..(Wide - 1) /\ 0 \in 0..MaxFiles /\ 0 \in 0..MaxMsgs /\ 1 \in File
  BY Bounded DEF File
<1>5. jhr = [f \in File |-> IF f = 1 THEN [active |-> Already, msgs |-> m] ELSE Blank]
  BY DEF Init
<1>6. PICK y \in RestType : y.idx = x /\ y.high = b /\ rest = [f \in File |-> IF f = 1 THEN y ELSE BlankRest]
  <2> DEFINE e == [BlankRest EXCEPT !.idx = x]
  <2>1. BlankRest \in RestType /\ BlankRest.high = b
    BY <1>2 DEF BlankRest, RestType
  <2>2. e \in RestType /\ e.idx = x /\ e.high = b
    BY <1>2, <2>1, SetIdx
  <2>3. rest = [f \in File |-> IF f = 1 THEN e ELSE BlankRest]
    BY DEF Init
  <2> HIDE DEF e
  <2> QED BY <2>2, <2>3
<1>7. \A i \in 1..Already : m[i].id = i /\ m[i].del = FALSE
  OBVIOUS
<1> HIDE DEF m, x
<1>8. jhr \in [File -> FileType]
  BY <1>2, <1>4, <1>5 DEF FileType, Blank
<1>9. rest \in [File -> RestType]
  BY <1>2, <1>6 DEF RestType, BlankRest
<1>10. proc \in [Proc -> ProcType]
  BY <1>4 DEF Init, ProcType, Place
<1>11. Types
  <2>1. name = [k \in {"hdr", "rest"} |-> 1] /\ lock = [f \in File |-> Free] /\ files = 1
    BY DEF Init
  <2>2. 1 \in 1..MaxFiles /\ 1 \in 0..MaxFiles
    BY Bounded
  <2> QED BY <1>8, <1>9, <1>10, <2>1, <2>2 DEF Types
<1>12. Sizes /\ Histories
  <2>1. ids = Already /\ jobs = 0 /\ kills = 0 /\ stored = 1..Already
    BY DEF Init
  <2>2. Sizes
    BY <2>1, Bounded DEF Sizes
  <2>3. stored \subseteq Msg
    BY <2>1, Bounded DEF Msg
  <2>4. /\ deleted = {} /\ shown = [p \in Proc |-> 0] /\ strayed = {}
        /\ cut = {} /\ crossed = {} /\ torn = FALSE /\ mistaken = FALSE
    BY DEF Init
  <2> QED BY <1>4, <2>2, <2>3, <2>4 DEF Histories
<1>13. Places
  BY DEF Init, Places, PlaceOf, WithHeader, WithRest, Packing
<1>14. Names /\ Unmade
  BY <1>5, <1>6, Bounded DEF Init, Names, Unmade, File
<1>15. Ordered
  <2> SUFFICES ASSUME NEW f \in File PROVE OrderOf(f)
    BY DEF Ordered
  <2>1. CASE f = 1
    <3>1. ids = Already
      BY DEF Init
    <3>2. jhr[f].msgs = m
      BY <1>5, <2>1
    <3> QED BY <3>1, <3>2, <1>3, <1>7, Bounded DEF OrderOf
  <2>2. CASE f # 1
    <3>1. jhr[f].msgs = <<>> /\ Len(<<>>) = 0 /\ ids \in Nat
      BY <1>5, <2>2, Bounded DEF Init, Blank
    <3> QED BY <3>1 DEF OrderOf
  <2> QED BY <2>1, <2>2
<1> QED BY <1>11, <1>12, <1>13, <1>14, <1>15, InitL DEF First

LEMMA FirstKept == First /\ [Next]_vars => First'
<1> SUFFICES ASSUME First, [Next]_vars PROVE First'
  OBVIOUS
<1>1. LInv'
  BY StepL DEF First
<1>2. CASE Next
  <2>1. PICK p \in Proc : Steps(p)
    BY <1>2, StepOf
  <2> QED BY <1>1, <2>1, TypesKept, HistoriesKept, PlacesKept, NamesKept, UnmadeKept, OrderedKept, Zenon DEF First
<1>3. CASE UNCHANGED vars
  <2>1. /\ UNCHANGED <<jhr, rest, name, lock>> /\ UNCHANGED <<proc, files, ids, jobs, kills>>
        /\ UNCHANGED <<stored, deleted, shown, strayed, cut, crossed, torn, mistaken>>
    BY <1>3 DEF vars, base, history
  <2>2. Types' /\ Sizes' /\ Histories'
    BY <2>1 DEF First, Types, Sizes, Histories
  <2>3. Places' /\ Names'
    BY <2>1 DEF First, Places, PlaceOf, Names
  <2>4. Unmade' /\ Ordered'
    BY <2>1 DEF First, Unmade, Ordered, OrderOf, Blank, BlankRest
  <2> QED BY <1>1, <2>2, <2>3, <2>4 DEF First
<1> QED BY <1>2, <1>3

\* Every variable keeps its type: the headers and the index of every generation of the files,
\* the counts that wrap in 32 bits, and what each process remembers of them (lib/jammsg.c).
THEOREM TypeCorrect == Spec => []TypeOK
<1>1. First => TypeOK
  BY TypesAre DEF First, LInv
<1> QED BY InitFirst, FirstKept, <1>1, PTL DEF Spec

(***************************************************************************)
(* The counts and the index.                                               *)
(***************************************************************************)
Changing == {"half", "full", "gone"}
Active(f) == Cardinality(Act(jhr[f].msgs))

\* Unless a change was broken off in a header file: its count is right while nobody changes it,
\* one behind while a message is added, one ahead while one is deleted, and what follows a
\* message is uncounted only while that is written.
CountOf(f) ==
  f \notin cut =>
    /\ (\A q \in Proc : proc[q].hdr = f => proc[q].at \notin Changing) => jhr[f].active = Active(f)
    /\ \A q \in Proc : proc[q].hdr = f =>
         /\ proc[q].at \in {"half", "full"} => jhr[f].active + 1 = Active(f)
         /\ proc[q].at = "gone" => jhr[f].active = Active(f) + 1
    /\ \A i \in 1..Len(jhr[f].msgs) : jhr[f].msgs[i].tail =>
         i = Len(jhr[f].msgs) /\ \E q \in Proc : proc[q].hdr = f /\ proc[q].at = "half"
Counted == \A f \in File : CountOf(f)

LEMMA CutGrows == ASSUME First, NEW p \in Proc, Steps(p) PROVE cut \subseteq cut'
<1>1. UNCHANGED history => cut' = cut
  BY SMTT(60) DEF history
<1>2. /\ AddIndex(p) => cut' = cut
      /\ AddEnd(p) => cut' = cut
      /\ MarkRead(p) => cut' = cut
      /\ \A n \in Msg : Show(p, n) \/ JAM_Delete(p, n) => cut' = cut
      /\ Kill(p) => cut \subseteq cut'
      /\ \A n \in Msg : ShowPhantom(p, n) => cut' = cut
      /\ \A n \in Msg : DeletePhantom(p, n) => cut \subseteq cut'
  BY Zenon DEF AddEnd, MarkRead, Show, JAM_Delete, Kill, AddIndex, ShowPhantom, DeletePhantom
<1>3. \A short \in BOOLEAN : PackCopy(p, short) => cut \subseteq cut'
  BY Zenon DEF PackCopy
<1> QED BY HistoryMoves, <1>1, <1>2, <1>3, Zenon

LEMMA Alone ==
  ASSUME First, NEW p \in Proc, NEW q \in Proc, proc[p].hdr \in File, proc[q].hdr = proc[p].hdr,
         proc[p].at \in Holding, proc[q].at \in Holding
  PROVE  p = q
BY DEF First, LInv, LockHeld

\* A step by which nobody begins or ends a change.
LEMMA CalmSteps ==
  ASSUME First, NEW p \in Proc, Steps(p)
  PROVE  \/ AddBegin(p) \/ AddEnd(p) \/ AddCount(p) \/ (\E n \in Msg : JAM_Delete(p, n)) \/ DeleteCount(p) \/ Kill(p)
         \/ (\E n \in Msg : DeletePhantom(p, n))
         \/ proc[p].at \notin Changing /\ proc'[p].at \notin Changing
<1> DEFINE G == proc[p].at \notin Changing /\ proc'[p].at \notin Changing
<1>1. \A j \in Job : OpenHeader(p, j) => G
  BY OpenHeaderMoves, SMTT(60) DEF Changing
<1>2. OpenRest(p) => G
  BY OpenRestMoves, Zenon DEF Changing, OpenRest
<1>3. SetMsgArea(p) => G
  BY SelectMoves DEF Changing
<1>4. ASSUME JAM_Lock(p) PROVE G
  <2>1. "locked" \in Place /\ Go(p, "locked")
    BY <1>4 DEF JAM_Lock, Place
  <2> QED BY <1>4, <2>1, GoMoves DEF JAM_Lock, Changing
<1>5. \A n \in Msg : Show(p, n) => G
  BY ShowMoves DEF Changing, At
<1>6. ASSUME ShowNone(p) \/ LockFails(p) \/ MarkRead(p) \/ DeleteEnd(p) PROVE G
  <2>1. JAM_Close(p) /\ proc[p].at \notin Changing
    BY <1>6, Zenon DEF ShowNone, LockFails, MarkRead, DeleteEnd, At, Changing
  <2> QED BY <2>1, CloseMoves DEF Changing
<1>7. \A short \in BOOLEAN : PackCopy(p, short) => G
  BY PackMoves, PackDoes DEF Changing, At
<1>8. PackClose(p) => G
  BY PackCloseMoves DEF Changing
<1>9. PackReplace(p) => G
  BY RenameMoves DEF Changing, Packing
<1>11. \A n \in Msg : ShowPhantom(p, n) => G
  BY ShowPhantomMoves DEF Changing, At
<1>12. AddIndex(p) => G
  BY IndexMoves DEF Changing, At
<1> HIDE DEF G
<1>10. \/ AddBegin(p) \/ AddEnd(p) \/ AddCount(p) \/ (\E n \in Msg : JAM_Delete(p, n)) \/ DeleteCount(p) \/ Kill(p)
       \/ (\E n \in Msg : DeletePhantom(p, n)) \/ G
  BY <1>1, <1>2, <1>3, <1>4, <1>5, <1>6, <1>7, <1>8, <1>9, <1>11, <1>12, Zenon DEF Steps
<1> QED BY <1>10 DEF G

\* A file in which nothing is changed, and which the process of the step does not change.
LEMMA CountFrame ==
  ASSUME First, NEW p \in Proc, Steps(p), NEW f \in File, f \notin cut', CountOf(f), jhr'[f] = jhr[f],
         proc[p].hdr = f => proc[p].at \notin Changing,
         proc'[p].hdr = f => proc'[p].at \notin Changing
  PROVE  CountOf(f)'
<1>1. f \notin cut
  BY CutGrows
<1>2. \A q \in Proc : q # p => proc'[q] = proc[q]
  BY ProcMoves DEF Mover
<1>3. Active(f)' = Active(f)
  BY DEF Active, Act
<1>4. \A q \in Proc : proc'[q].hdr = f /\ proc'[q].at \in Changing => proc[q].hdr = f /\ proc'[q].at = proc[q].at
  BY <1>2
<1>5. \A q \in Proc : proc[q].hdr = f /\ proc[q].at \in Changing => proc'[q].hdr = f /\ proc'[q].at = proc[q].at
  BY <1>2
<1>6. "half" \in Changing /\ "full" \in Changing /\ "gone" \in Changing
  BY DEF Changing
<1>7. /\ (\A q \in Proc : proc'[q].hdr = f => proc'[q].at \notin Changing) => jhr'[f].active = Active(f)'
      /\ \A q \in Proc : proc'[q].hdr = f =>
         /\ proc'[q].at \in {"half", "full"} => jhr'[f].active + 1 = Active(f)'
         /\ proc'[q].at = "gone" => jhr'[f].active = Active(f)' + 1
  BY <1>1, <1>3, <1>4, <1>5, <1>6 DEF CountOf
<1>8. \A i \in 1..Len(jhr[f].msgs) : jhr[f].msgs[i].tail =>
         i = Len(jhr[f].msgs) /\ \E q \in Proc : proc'[q].hdr = f /\ proc'[q].at = "half"
  BY <1>1, <1>5, <1>6 DEF CountOf
<1> QED BY <1>7, <1>8 DEF CountOf

\* In a file that one process holds and nobody else changes, the counts depend on that one.
LEMMA CountMine ==
  ASSUME First, NEW p \in Proc, Steps(p), NEW f \in File, proc[p].hdr = f, proc[p].at \in Holding,
         \/ proc'[p].hdr = f /\ proc'[p].at = "half" /\ jhr'[f].active + 1 = Active(f)'
         \/ proc'[p].hdr = f /\ proc'[p].at = "full" /\ jhr'[f].active + 1 = Active(f)'
         \/ proc'[p].hdr = f /\ proc'[p].at = "gone" /\ jhr'[f].active = Active(f)' + 1
         \/ proc'[p].at \notin Changing /\ jhr'[f].active = Active(f)',
         \A i \in 1..Len(jhr'[f].msgs) : jhr'[f].msgs[i].tail =>
           i = Len(jhr'[f].msgs) /\ proc'[p].hdr = f /\ proc'[p].at = "half"
  PROVE  CountOf(f)'
<1>1. \A q \in Proc : q # p => proc'[q] = proc[q]
  BY ProcMoves DEF Mover
<1>2. \A q \in Proc : q # p /\ proc[q].hdr = f => proc[q].at \notin Holding
  BY Alone
<1>3. \A q \in Proc : q # p /\ proc'[q].hdr = f => proc'[q].at \notin Changing
  BY <1>1, <1>2 DEF Holding, Changing
<1>4. "half" \in Changing /\ "full" \in Changing /\ "gone" \in Changing
  BY DEF Changing
<1>5. (\A q \in Proc : proc'[q].hdr = f => proc'[q].at \notin Changing) => jhr'[f].active = Active(f)'
  BY <1>4
<1>6. \A q \in Proc : proc'[q].hdr = f =>
         /\ proc'[q].at \in {"half", "full"} => jhr'[f].active + 1 = Active(f)'
         /\ proc'[q].at = "gone" => jhr'[f].active = Active(f)' + 1
  BY <1>3, <1>4
<1> QED BY <1>5, <1>6 DEF CountOf

\* What the count of a file is for the one that holds it.
LEMMA CountHeld ==
  ASSUME First, Counted, NEW p \in Proc, proc[p].hdr \in File, proc[p].hdr \notin cut, proc[p].at \in Holding
  PROVE  LET f == proc[p].hdr
         IN /\ proc[p].at \notin Changing => jhr[f].active = Active(f)
            /\ proc[p].at \in {"half", "full"} => jhr[f].active + 1 = Active(f)
            /\ proc[p].at = "gone" => jhr[f].active = Active(f) + 1
            /\ \A i \in 1..Len(jhr[f].msgs) : jhr[f].msgs[i].tail => i = Len(jhr[f].msgs) /\ proc[p].at = "half"
<1> DEFINE f == proc[p].hdr
<1>1. CountOf(f) /\ f \notin cut
  BY DEF Counted
<1>2. \A q \in Proc : proc[q].hdr = f /\ proc[q].at \in Holding => q = p
  BY Alone
<1>3. {"half", "full", "gone"} = Changing /\ Changing \subseteq Holding
  BY DEF Changing, Holding
<1>4. proc[p].at \notin Changing => jhr[f].active = Active(f)
  BY <1>1, <1>2, <1>3 DEF CountOf
<1>5. /\ proc[p].at \in {"half", "full"} => jhr[f].active + 1 = Active(f)
      /\ proc[p].at = "gone" => jhr[f].active = Active(f) + 1
  BY <1>1 DEF CountOf
<1>6. \A i \in 1..Len(jhr[f].msgs) : jhr[f].msgs[i].tail => i = Len(jhr[f].msgs) /\ proc[p].at = "half"
  BY <1>1, <1>2, <1>3 DEF CountOf
<1> QED BY <1>4, <1>5, <1>6

LEMMA ActiveIs ==
  ASSUME First, NEW f \in File
  PROVE  Active(f) \in Nat /\ Active(f) < Wide /\ Active(f) = N(jhr[f].msgs, Len(jhr[f].msgs))
<1>1. jhr[f].msgs \in Seq(Header) /\ Len(jhr[f].msgs) \in Nat
  BY FileIs
<1>2. Active(f) = N(jhr[f].msgs, Len(jhr[f].msgs))
  BY <1>1, CountAll DEF Active
<1>3. N(jhr[f].msgs, Len(jhr[f].msgs)) \in Nat /\ N(jhr[f].msgs, Len(jhr[f].msgs)) <= Len(jhr[f].msgs)
  BY <1>1, Counts
<1>4. Len(jhr[f].msgs) <= ids /\ ids \in 0..MaxMsgs
  BY DEF First, Ordered, OrderOf, Sizes
<1> QED BY <1>1, <1>2, <1>3, <1>4, Bounded

LEMMA OneMore ==
  ASSUME NEW m \in Seq(Header), NEW e \in Header, ~ e.del
  PROVE  Cardinality(Act(Append(m, e))) = Cardinality(Act(m)) + 1
<1> DEFINE w == Append(m, e)
           l == Len(m)
<1>1. w \in Seq(Header) /\ Len(w) = l + 1 /\ l \in Nat /\ (\A i \in 1..l : w[i] = m[i]) /\ w[l + 1] = e
  BY AppendProperties, LenProperties
<1> HIDE DEF w
<1>2. N(w, l + 1) = N(w, l) + 1
  BY <1>1, CountStep
<1>3. N(w, l) = N(m, l)
  BY <1>1, CountSame
<1>4. Cardinality(Act(w)) = N(w, l + 1) /\ Cardinality(Act(m)) = N(m, l)
  BY <1>1, CountAll
<1> QED BY <1>2, <1>3, <1>4 DEF w

LEMMA AsMany ==
  ASSUME NEW m \in Seq(Header), NEW w \in Seq(Header), NEW t, Retailed(m, w, t)
  PROVE  Cardinality(Act(w)) = Cardinality(Act(m))
<1>1. Len(w) = Len(m) /\ Len(m) \in Nat /\ \A i \in 1..Len(m) : w[i].del = m[i].del
  BY LenProperties DEF Retailed
<1>2. N(w, Len(m)) = N(m, Len(m))
  BY <1>1, CountSame
<1> QED BY <1>1, <1>2, CountAll

LEMMA OneLess ==
  ASSUME NEW m \in Seq(Header), NEW w \in Seq(Header), NEW i \in 1..Len(m), Undone(m, w, i), ~ m[i].del
  PROVE  Cardinality(Act(m)) = Cardinality(Act(w)) + 1
<1>1. DOMAIN m = 1..Len(m) /\ DOMAIN w = 1..Len(w) /\ Len(w) = Len(m)
  BY LenProperties DEF Undone
<1>2. w[i].del /\ \A j \in 1..Len(m) : j # i => w[j].del = m[j].del
  BY DEF Undone
<1>3. Act(m) = Act(w) \cup {i} /\ i \notin Act(w)
  BY <1>1, <1>2 DEF Act
<1>4. IsFiniteSet(Act(w)) /\ Cardinality(Act(w)) \in Nat
  BY CountAll, FS_CardinalityType
<1> QED BY <1>3, <1>4, FS_AddElement

LEMMA Counting ==
  ASSUME NEW a \in Nat, NEW w \in Nat, w > 0
  PROVE  /\ a + 1 < w => (a + 1) % w = a + 1
         /\ a > 0 /\ a <= w => (a + w - 1) % w = a - 1
<1>1. a + 1 < w => (a + 1) % w = a + 1
  OBVIOUS
<1>2. ASSUME a > 0, a <= w PROVE (a + w - 1) % w = a - 1
  BY <1>2
<1> QED BY <1>1, <1>2

\* Where nothing is uncounted the pack reaches every header.
LEMMA AllReached ==
  ASSUME NEW p, Headers(p) \in Seq(Header), \A i \in 1..Len(Headers(p)) : ~ Headers(p)[i].tail
  PROVE  Reached(p) = 1..Len(Headers(p))
<1>1. DOMAIN Headers(p) = 1..Len(Headers(p)) /\ Len(Headers(p)) \in Nat
  BY LenProperties
<1>2. ASSUME NEW i \in 1..Len(Headers(p)), NEW k \in 1..i PROVE Readable(p, k)
  <2>1. k = 1 \/ k - 1 \in 1..Len(Headers(p))
    BY <1>1
  <2> QED BY <2>1 DEF Readable
<1> QED BY <1>1, <1>2 DEF Reached

LEMMA CountedBegins ==
  ASSUME First, Counted, NEW p \in Proc, Steps(p), Begins(p), NEW f \in File, f \notin cut'
  PROVE  CountOf(f)'
<1> DEFINE m == jhr[f].msgs
           w == jhr'[f].msgs
<1>0. PICK e \in Header : Adds1(p, e) /\ ((AddBegin(p) /\ e = Begun(p)) \/ IsPhantom(p, e))
  BY DEF Begins
<1>1. f \notin cut
  BY CutGrows
<1>2. CASE AddBegin(p) /\ e = Begun(p)
  <2>1. Go(p, "half") /\ "half" \in Place /\ proc[p].at = "indexed"
    BY <1>2 DEF AddBegin, Place
  <2>2. proc'[p].hdr = proc[p].hdr /\ proc'[p].at = "half"
    BY <2>1, GoMoves
  <2>3. CASE f = proc[p].hdr
    <3>1. jhr[f].active = Active(f) /\ \A i \in 1..Len(m) : ~ m[i].tail
      BY <1>1, <2>1, <2>3, CountHeld DEF Holding, Changing
    <3>2. w = Append(m, e) /\ jhr'[f].active = jhr[f].active
      BY <1>0, <2>3 DEF Adds1, MsgsOnly, Headers
    <3>3. m \in Seq(Header) /\ Len(m) \in Nat
      BY FileIs
    <3>4. ~ e.del
      BY <1>2 DEF Begun
    <3>5. Active(f)' = Active(f) + 1 /\ Active(f) \in Nat
      BY <3>2, <3>3, <3>4, OneMore, ActiveIs DEF Active
    <3>6. Len(w) = Len(m) + 1 /\ \A i \in 1..Len(m) : w[i] = m[i]
      BY <3>2, <3>3, AppendProperties
    <3>7. \A i \in 1..Len(w) : w[i].tail => i = Len(w)
      <4> HIDE DEF m, w
      <4> QED BY <3>1, <3>3, <3>6
    <3>8. jhr'[f].active + 1 = Active(f)'
      BY <3>1, <3>2, <3>5
    <3> QED BY <2>1, <2>2, <2>3, <3>7, <3>8, CountMine DEF Holding
  <2>4. CASE f # proc[p].hdr
    <3>1. jhr'[f] = jhr[f] /\ CountOf(f)
      BY <1>0, <2>4 DEF Adds1, MsgsOnly, Counted
    <3> QED BY <2>2, <2>4, <3>1, CountFrame
  <2> QED BY <2>3, <2>4
<1>3. CASE IsPhantom(p, e)
  <2>1. PICK n \in Msg : DeletePhantom(p, n)
    BY <1>3 DEF IsPhantom
  <2>2. Go(p, "gone") /\ "gone" \in Place /\ proc[p].hdr \in cut'
    BY <2>1 DEF DeletePhantom, Place
  <2>3. proc'[p].hdr = proc[p].hdr /\ f # proc[p].hdr
    BY <2>2, GoMoves
  <2>4. jhr'[f] = jhr[f] /\ CountOf(f)
    BY <1>0, <2>3 DEF Adds1, MsgsOnly, Counted
  <2> QED BY <2>3, <2>4, CountFrame
<1> QED BY <1>0, <1>2, <1>3

LEMMA CountedTails ==
  ASSUME First, Counted, NEW p \in Proc, Steps(p), Tails(p), NEW f \in File, f \notin cut'
  PROVE  CountOf(f)'
<1> DEFINE m == jhr[f].msgs
           w == jhr'[f].msgs
<1>1. proc[p].at = "half" /\ (AddEnd(p) \/ Kill(p)) /\ f \notin cut /\ CountOf(f)
  BY CutGrows DEF Tails, Counted
<1>2. PICK t \in BOOLEAN, y \in Seq(Header) : MsgsOnly(proc[p].hdr, y) /\ Retailed(Headers(p), y, t) /\ (AddEnd(p) => ~ t)
  BY DEF Tails
<1>3. CASE Kill(p)
  <2>1. cut' = cut \union {proc[p].hdr} /\ proc'[p].at = "off"
    BY <1>1, <1>3, KillMoves, Zenon DEF Kill
  <2>2. f # proc[p].hdr
    BY <2>1
  <2>3. jhr'[f] = jhr[f]
    BY <1>2, <2>2 DEF MsgsOnly
  <2> QED BY <1>1, <2>1, <2>2, <2>3, CountFrame, SMTT(60) DEF Changing
<1>4. CASE AddEnd(p)
  <2>1. Go(p, "full") /\ "full" \in Place
    BY <1>4 DEF AddEnd, Place
  <2>2. proc'[p].hdr = proc[p].hdr /\ proc'[p].at = "full"
    BY <2>1, GoMoves
  <2>3. CASE f = proc[p].hdr
    <3>1. jhr[f].active + 1 = Active(f) /\ \A i \in 1..Len(m) : m[i].tail => i = Len(m)
      BY <1>1, <2>3, CountHeld DEF Holding
    <3>2. w = y /\ Headers(p) = m /\ jhr'[f].active = jhr[f].active /\ y \in Seq(Header) /\ m \in Seq(Header)
      BY <1>2, <2>3, FileIs DEF MsgsOnly, Headers
    <3>3. Active(f)' = Active(f)
      BY <1>2, <3>2, AsMany DEF Active
    <3>4. Len(y) = Len(m) /\ \A i \in 1..Len(m) : y[i].tail = IF i = Len(m) THEN FALSE ELSE m[i].tail
      BY <1>2, <1>4, <3>2, Zenon DEF Retailed
    <3>5. \A i \in 1..Len(w) : ~ w[i].tail
      <4> HIDE DEF m, w
      <4> QED BY <3>1, <3>2, <3>4
    <3> QED BY <1>1, <2>2, <2>3, <3>1, <3>2, <3>3, <3>5, CountMine DEF Holding
  <2>4. CASE f # proc[p].hdr
    <3>1. jhr'[f] = jhr[f]
      BY <1>2, <2>4 DEF MsgsOnly
    <3> QED BY <1>1, <2>2, <2>4, <3>1, CountFrame
  <2> QED BY <2>3, <2>4
<1> QED BY <1>1, <1>3, <1>4

LEMMA CountedRecounts ==
  ASSUME First, Counted, NEW p \in Proc, Steps(p), Recounts(p), NEW f \in File, f \notin cut'
  PROVE  CountOf(f)'
<1> DEFINE a == jhr[f].active
<1>1. f \notin cut /\ CountOf(f) /\ a \in Nat /\ Active(f) \in Nat /\ Active(f) < Wide
  <2>1. a \in 0..(Wide - 1)
    BY FileIs
  <2> QED BY <2>1, CutGrows, ActiveIs, Bounded DEF Counted
<1>2. proc'[p].at \notin Changing /\ proc[p].at \in Holding
  <2>1. AddCount(p) => proc'[p].at = "off"
    BY CloseMoves DEF AddCount
  <2>2. ASSUME DeleteCount(p) PROVE proc'[p].at \in {"off", "locked"}
    <3>1. "locked" \in Place
      BY DEF Place
    <3> QED BY <2>2, <3>1, CloseMoves, GoMoves DEF DeleteCount
  <2> QED BY <2>1, <2>2 DEF Recounts, Changing, Holding
<1>3. CASE f = proc[p].hdr
  <2>1. jhr'[f].msgs = jhr[f].msgs /\ Active(f)' = Active(f)
    BY <1>3 DEF Recounts, ActiveOnly, Active
  <2>2. jhr'[f].active = Active(f)
    <3>1. CASE proc[p].at = "full"
      <4>1. a + 1 = Active(f)
        BY <1>1, <1>3, <3>1, CountHeld DEF Holding
      <4>2. jhr'[f].active = (a + 1) % Wide
        BY <1>3, <3>1 DEF Recounts, ActiveOnly
      <4> QED BY <1>1, <4>1, <4>2, Counting, Bounded
    <3>2. CASE proc[p].at = "gone"
      <4>1. a = Active(f) + 1
        BY <1>1, <1>3, <3>2, CountHeld DEF Holding
      <4>2. jhr'[f].active = (a + Wide - 1) % Wide
        BY <1>3, <3>2 DEF Recounts, ActiveOnly
      <4>3. a > 0 /\ a <= Wide /\ a - 1 = Active(f)
        BY <1>1, <4>1, Bounded
      <4>4. (a + Wide - 1) % Wide = a - 1
        BY <1>1, <4>3, Counting, Bounded
      <4> QED BY <4>2, <4>3, <4>4
    <3> QED BY <3>1, <3>2 DEF Recounts
  <2>3. \A i \in 1..Len(jhr[f].msgs) : ~ jhr[f].msgs[i].tail
    <3>1. proc[p].at # "half"
      BY DEF Recounts
    <3> QED BY <1>1, <1>2, <1>3, <3>1, CountHeld
  <2> QED BY <1>2, <1>3, <2>1, <2>2, <2>3, CountMine
<1>4. CASE f # proc[p].hdr
  <2>1. jhr'[f] = jhr[f]
    BY <1>4 DEF Recounts, ActiveOnly
  <2> QED BY <1>1, <1>2, <1>4, <2>1, CountFrame
<1> QED BY <1>3, <1>4

LEMMA CountedDeletes ==
  ASSUME First, Counted, NEW p \in Proc, Steps(p), Deletes1(p), NEW f \in File, f \notin cut'
  PROVE  CountOf(f)'
<1> DEFINE m == jhr[f].msgs
           w == jhr'[f].msgs
<1>1. proc[p].at = "locked" /\ f \notin cut /\ CountOf(f) /\ Go(p, "gone") /\ "gone" \in Place
  BY CutGrows DEF Deletes1, Counted, JAM_Delete, Place
<1>2. proc'[p].hdr = proc[p].hdr /\ proc'[p].at = "gone"
  BY <1>1, GoMoves
<1>3. PICK i \in 1..Len(Headers(p)), y \in Seq(Header) : MsgsOnly(proc[p].hdr, y) /\ Undone(Headers(p), y, i) /\ ~ Headers(p)[i].del
  BY DEF Deletes1
<1>4. CASE f = proc[p].hdr
  <2>1. jhr[f].active = Active(f) /\ \A k \in 1..Len(m) : ~ m[k].tail
    BY <1>1, <1>4, CountHeld DEF Holding, Changing
  <2>2. w = y /\ Headers(p) = m /\ jhr'[f].active = jhr[f].active /\ y \in Seq(Header) /\ m \in Seq(Header)
    BY <1>3, <1>4, FileIs DEF MsgsOnly, Headers
  <2>3. Active(f) = Active(f)' + 1
    BY <1>3, <2>2, OneLess DEF Active
  <2>4. Len(y) = Len(m) /\ \A k \in 1..Len(m) : y[k].tail = m[k].tail
    BY <1>3, <2>2, Zenon DEF Undone
  <2>5. \A k \in 1..Len(w) : ~ w[k].tail
    <3> HIDE DEF m, w
    <3> QED BY <2>1, <2>2, <2>4
  <2> QED BY <1>1, <1>2, <1>4, <2>1, <2>2, <2>3, <2>5, CountMine DEF Holding
<1>5. CASE f # proc[p].hdr
  <2>1. jhr'[f] = jhr[f]
    BY <1>3, <1>5 DEF MsgsOnly
  <2> QED BY <1>1, <1>2, <1>5, <2>1, CountFrame
<1> QED BY <1>4, <1>5

\* A file that a pack made has its count, or the pack copied one that was broken.
LEMMA CountedPack ==
  ASSUME First, Counted, NEW p \in Proc, NEW short \in BOOLEAN, PackCopy(p, short),
         NEW new, new = files + 1, new \notin cut'
  PROVE  /\ jhr'[new].active = Active(new)'
         /\ \A i \in 1..Len(Packed(p)) : ~ Packed(p)[i].tail
<1> DEFINE panic == Panic(p, short)
           m == Headers(p)
<1>1. At(p, "locked", "pack") /\ PackFiles(p, short)
  BY PackDoes
<1>2. PICK r \in 0..Len(m) : Reached(p) = 1..r
  BY PackDoes
<1>3. /\ proc[p].hdr \in File /\ m \in Seq(Header) /\ Len(m) \in Nat /\ m = jhr[proc[p].hdr].msgs
  BY <1>1, ReadyFile DEF At, WithHeader
<1>4. InOrder(p, r) /\ Packed(p) \in Seq(Header) /\ Len(Packed(p)) = N(m, r)
  BY <1>2, <1>3, PackedOrder, PackedIs
<1>5. \A i \in 1..Len(Packed(p)) : ~ Packed(p)[i].tail /\ ~ Packed(p)[i].del
  BY <1>4, Zenon DEF InOrder
<1>6. Cardinality(Act(Packed(p))) = Len(Packed(p))
  <2>1. DOMAIN Packed(p) = 1..Len(Packed(p)) /\ Len(Packed(p)) \in Nat
    BY <1>4, LenProperties
  <2>2. Act(Packed(p)) = 1..Len(Packed(p))
    BY <1>5, <2>1 DEF Act
  <2>3. \A l \in Nat : Cardinality(1..l) = l
    BY FS_Interval
  <2> QED BY <2>1, <2>2, <2>3
<1>7. Active(new)' = Len(Packed(p)) /\ jhr'[new].active = PackedCount(p, panic)
  BY <1>1, <1>6 DEF Active, PackFiles
<1>8. CASE ~ panic /\ Packed(p) # <<>>
  BY <1>5, <1>7, <1>8 DEF PackedCount
<1>9. CASE panic \/ Packed(p) = <<>>
  <2>1. proc[p].hdr \notin cut
    <3>1. cut' = IF proc[p].hdr \in cut /\ (panic \/ Packed(p) = <<>>) THEN cut \union {new} ELSE cut
      BY Zenon DEF PackCopy, Panic
    <3> QED BY <1>9, <3>1
  <2>2. jhr[proc[p].hdr].active = Active(proc[p].hdr) /\ \A i \in 1..Len(m) : ~ m[i].tail
    BY <1>1, <1>3, <2>1, CountHeld DEF At, Holding, Changing
  <2>3. Reached(p) = 1..Len(m)
    BY <1>3, <2>2, AllReached
  <2>4. r = Len(m)
    BY <1>2, <1>3, <2>3, FS_Interval
  <2>5. ~ panic
    <3>1. Cardinality(Reached(p)) = Len(m)
      BY <1>3, <2>3, ReachedCount
    <3>2. Len(m) > 0 => ~ m[Len(m)].tail
      BY <1>3, <2>2
    <3>3. panic => Cardinality(Reached(p)) < Len(m) \/ (Len(m) > 0 /\ m[Len(m)].tail)
      BY Zenon DEF Panic
    <3> HIDE DEF m, panic
    <3> QED BY <1>3, <3>1, <3>2, <3>3, SMTT(60)
  <2>6. Len(Packed(p)) = 0
    BY <1>9, <2>5, EmptySeq
  <2>7. Active(proc[p].hdr) = 0
    BY <1>3, <1>4, <2>4, <2>6, ActiveIs
  <2>8. PackedCount(p, panic) = 0
    BY <1>9, <2>2, <2>7 DEF PackedCount
  <2> QED BY <1>5, <1>7, <2>6, <2>8
<1> QED BY <1>8, <1>9

LEMMA CountedKept == ASSUME First, Counted, NEW p \in Proc, Steps(p) PROVE Counted'
<1> SUFFICES ASSUME NEW f \in File, f \notin cut' PROVE CountOf(f)'
  BY DEF Counted, CountOf
<1>1. CASE Begins(p)
  BY <1>1, CountedBegins
<1>2. CASE Tails(p)
  BY <1>2, CountedTails
<1>3. CASE Recounts(p)
  BY <1>3, CountedRecounts
<1>4. CASE Deletes1(p)
  BY <1>4, CountedDeletes
<1>5. CASE PacksInto(p)
  <2>1. PICK short \in BOOLEAN : PackCopy(p, short) /\ At(p, "locked", "pack") /\ PackFiles(p, short)
    BY <1>5 DEF PacksInto
  <2>2. CASE f = files + 1
    <3>1. \A q \in Proc : proc'[q].hdr = f => proc'[q].at \notin Changing
      <4> SUFFICES ASSUME NEW q \in Proc, proc'[q].at \in Changing PROVE proc'[q].hdr # f
        OBVIOUS
      <4>1. q # p
        BY <2>1, PackMoves DEF Changing
      <4>2. proc[q] = proc'[q]
        BY <4>1, ProcMoves DEF Mover
      <4>3. proc[q].hdr \in File /\ proc[q].hdr <= files
        BY <4>2, Finding DEF Changing, WithHeader
      <4> QED BY <2>2, <4>2, <4>3, Bounded DEF First, Types, File
    <3>2. jhr'[f].active = Active(f)' /\ \A i \in 1..Len(jhr'[f].msgs) : ~ jhr'[f].msgs[i].tail
      BY <2>1, <2>2, CountedPack DEF PackFiles
    <3>3. "half" \in Changing /\ "full" \in Changing /\ "gone" \in Changing
      BY DEF Changing
    <3> QED BY <3>1, <3>2, <3>3 DEF CountOf
  <2>3. CASE f # files + 1
    <3>1. jhr'[f] = jhr[f] /\ CountOf(f)
      BY <2>1, <2>3 DEF PackFiles, Counted
    <3>2. proc[p].at \notin Changing /\ proc'[p].at \notin Changing
      BY <2>1, PackMoves DEF At, Changing
    <3> QED BY <3>1, <3>2, CountFrame
  <2> QED BY <2>2, <2>3
<1>6. CASE jhr' = jhr /\ ~ Begins(p) /\ ~ Tails(p) /\ ~ Recounts(p) /\ ~ Deletes1(p)
  <2>1. CountOf(f)
    BY DEF Counted
  <2>2. CASE Kill(p)
    <3>1. proc'[p].at = "off" /\ (proc[p].at \in Changing => proc[p].hdr \in cut')
      BY <2>2, KillMoves, Zenon DEF Kill, Changing
    <3> QED BY <1>6, <2>1, <3>1, CountFrame, SMTT(60) DEF Changing
  <2>3. CASE ~ Kill(p)
    <3>1. /\ ~ AddBegin(p) /\ ~ AddEnd(p) /\ ~ AddCount(p) /\ ~ DeleteCount(p)
          /\ \A n \in Msg : ~ JAM_Delete(p, n) /\ ~ DeletePhantom(p, n)
      <4>1. AddBegin(p) \/ (\E n \in Msg : DeletePhantom(p, n)) => Begins(p)
        BY BeginsWhen
      <4>2. \A n \in Msg : JAM_Delete(p, n) => Deletes1(p)
        BY DeleteDoes, Zenon DEF Deletes1
      <4>3. AddCount(p) \/ DeleteCount(p) => Recounts(p)
        BY CountDoes DEF Recounts
      <4>4. AddEnd(p) => Tails(p)
        BY EndTails
      <4> QED BY <1>6, <4>1, <4>2, <4>3, <4>4
    <3>2. proc[p].at \notin Changing /\ proc'[p].at \notin Changing
      BY <2>3, <3>1, CalmSteps
    <3> QED BY <1>6, <2>1, <3>2, CountFrame
  <2> QED BY <2>2, <2>3
<1> QED BY JhrSteps, <1>1, <1>2, <1>3, <1>4, <1>5, <1>6

LEMMA CrossedGrows == ASSUME First, NEW p \in Proc, Steps(p) PROVE crossed \subseteq crossed'
<1>1. UNCHANGED history => crossed' = crossed
  BY SMTT(60) DEF history
<1>2. /\ AddIndex(p) => crossed \subseteq crossed'
      /\ AddEnd(p) => crossed' = crossed
      /\ MarkRead(p) => crossed \subseteq crossed'
      /\ \A n \in Msg : Show(p, n) \/ JAM_Delete(p, n) \/ ShowPhantom(p, n) => crossed' = crossed
      /\ \A n \in Msg : DeletePhantom(p, n) => crossed \subseteq crossed'
      /\ Kill(p) => crossed' = crossed
  BY Zenon DEF AddIndex, AddEnd, MarkRead, Show, JAM_Delete, ShowPhantom, DeletePhantom, Kill, Crossing
<1>3. \A short \in BOOLEAN : PackCopy(p, short) => crossed \subseteq crossed'
  BY DEF PackCopy
<1> QED BY HistoryMoves, <1>1, <1>2, <1>3, Zenon

LEMMA MistakenStays == ASSUME NEW p \in Proc, Steps(p), mistaken PROVE mistaken'
<1>1. UNCHANGED history => mistaken' = mistaken
  BY DEF history
<1>2. /\ AddIndex(p) => mistaken'
      /\ AddEnd(p) => mistaken' = mistaken
      /\ MarkRead(p) => mistaken' = mistaken
      /\ \A n \in Msg : Show(p, n) \/ JAM_Delete(p, n) => mistaken' = mistaken
      /\ \A n \in Msg : ShowPhantom(p, n) \/ DeletePhantom(p, n) => mistaken'
      /\ Kill(p) => mistaken' = mistaken
  BY Zenon DEF AddIndex, AddEnd, MarkRead, Show, JAM_Delete, ShowPhantom, DeletePhantom, Kill
<1>3. \A short \in BOOLEAN : PackCopy(p, short) => mistaken' = mistaken
  BY Zenon DEF PackCopy
<1> QED BY HistoryMoves, <1>1, <1>2, <1>3, Zenon

\* A step by which nobody comes to have written an index, or goes on from there.
LEMMA OpenedSteps ==
  ASSUME First, NEW p \in Proc, Steps(p)
  PROVE  AddIndex(p) \/ AddBegin(p) \/ Kill(p) \/ (proc[p].at # "indexed" /\ proc'[p].at # "indexed")
<1> DEFINE G == proc[p].at # "indexed" /\ proc'[p].at # "indexed"
<1>1. /\ \A j \in Job : OpenHeader(p, j) => G
      /\ SetMsgArea(p) => G
      /\ PackClose(p) => G
  BY OpenHeaderMoves, SelectMoves, PackCloseMoves, SMTT(60)
<1>2. OpenRest(p) => G
  BY OpenRestMoves, Zenon DEF OpenRest
<1>3. \A n \in Msg : Show(p, n) \/ ShowPhantom(p, n) => G
  BY ShowMoves, ShowPhantomMoves DEF At
<1>4. ASSUME ShowNone(p) \/ LockFails(p) \/ MarkRead(p) \/ DeleteEnd(p) \/ AddCount(p) PROVE G
  <2>1. JAM_Close(p) /\ proc[p].at # "indexed"
    BY <1>4, Zenon DEF ShowNone, LockFails, MarkRead, DeleteEnd, AddCount, At
  <2> QED BY <2>1, CloseMoves
<1>5. \A short \in BOOLEAN : PackCopy(p, short) => G
  BY PackMoves, PackDoes DEF At
<1>6. PackReplace(p) => G
  BY RenameMoves DEF Packing
<1>7. ASSUME NEW at \in {"locked", "full", "gone"}, Go(p, at), proc[p].at # "indexed" PROVE G
  BY <1>7, GoMoves DEF Place
<1>8. ASSUME JAM_Lock(p) \/ AddEnd(p) \/ (\E n \in Msg : JAM_Delete(p, n) \/ DeletePhantom(p, n)) PROVE G
  <2>1. proc[p].at # "indexed" /\ \E at \in {"locked", "full", "gone"} : Go(p, at)
    BY <1>8, Zenon DEF JAM_Lock, AddEnd, JAM_Delete, DeletePhantom, At
  <2> QED BY <2>1, <1>7
<1>9. ASSUME DeleteCount(p) PROVE G
  <2>1. proc[p].at # "indexed" /\ (Go(p, "locked") \/ JAM_Close(p))
    BY <1>9 DEF DeleteCount
  <2> QED BY <2>1, <1>7, CloseMoves
<1> HIDE DEF G
<1>10. AddIndex(p) \/ AddBegin(p) \/ Kill(p) \/ G
  BY <1>1, <1>2, <1>3, <1>4, <1>5, <1>6, <1>8, <1>9, Zenon DEF Steps
<1> QED BY <1>10 DEF G

\* Where files of one generation were used together: the index leads to every header, also to
\* the one that is being written, and one behind the last at most; and it names the headers in
\* their order where no change was broken off, or no message got a place that is not its own.
Opened(f) == \E q \in Proc : proc[q].hdr = f /\ proc[q].at = "indexed"
Leads(x, n) ==
  /\ \A k \in 1..Len(x) : x[k] \in 1..(n + 1)
  /\ \A i \in 1..n : \E k \in 1..Len(x) : x[k] = i
Straight(x) == \A k \in 1..Len(x) : x[k] = k
IndexOf(f) ==
  f \notin crossed =>
    /\ Leads(rest[f].idx, Len(jhr[f].msgs))
    /\ Opened(f) => \E k \in 1..Len(rest[f].idx) : rest[f].idx[k] = Len(jhr[f].msgs) + 1
    /\ (f \notin cut => Straight(rest[f].idx) /\ Len(rest[f].idx) = Len(jhr[f].msgs) + (IF Opened(f) THEN 1 ELSE 0))
    /\ ~ mistaken => Straight(rest[f].idx)
IndexFits == \A f \in File : IndexOf(f)

LEMMA LeadsOn ==
  ASSUME NEW x, NEW n \in Nat, Leads(x, n), NEW k \in 1..Len(x), x[k] = n + 1
  PROVE  Leads(x, n + 1)
<1>1. \A i \in 1..Len(x) : x[i] \in 1..((n + 1) + 1)
  <2> SUFFICES ASSUME NEW i \in 1..Len(x) PROVE x[i] \in 1..((n + 1) + 1)
    OBVIOUS
  <2>1. x[i] \in 1..(n + 1)
    BY DEF Leads
  <2> QED BY <2>1
<1>2. ASSUME NEW i \in 1..(n + 1) PROVE \E j \in 1..Len(x) : x[j] = i
  <2>1. CASE i = n + 1
    BY <2>1
  <2>2. CASE i # n + 1
    <3>1. i \in 1..n
      BY <2>2
    <3> QED BY <3>1 DEF Leads
  <2> QED BY <2>1, <2>2
<1> QED BY <1>1, <1>2 DEF Leads

\* The header file of one that is at work with it has no other that has written an index.
LEMMA OpenedAlone ==
  ASSUME First, NEW p \in Proc, Steps(p), NEW f \in File, proc[p].hdr = f, proc[p].at \in Holding, proc'[p].at # "indexed"
  PROVE  ~ Opened(f)' /\ (proc[p].at # "indexed" => ~ Opened(f))
<1>1. \A q \in Proc : q # p /\ proc[q].hdr = f => proc[q].at # "indexed"
  BY Alone DEF Holding
<1>2. \A q \in Proc : q # p => proc'[q] = proc[q]
  BY ProcMoves DEF Mover
<1> QED BY <1>1, <1>2 DEF Opened

\* The index grows before the header does.
LEMMA IndexGrows ==
  ASSUME First, IndexFits, NEW p \in Proc, Steps(p), AddIndex(p), NEW f \in File, f \notin crossed', f = proc[p].hdr
  PROVE  IndexOf(f)'
<1> DEFINE m == jhr[f].msgs
           x == rest[f].idx
           y == rest'[f].idx
<1>1. f \notin crossed /\ IndexOf(f) /\ x \in Seq(Nat) /\ Len(x) \in Nat /\ Len(m) \in Nat
  BY CrossedGrows, FileIs DEF IndexFits
<1>2. proc[p].rest = f
  BY <1>1 DEF AddIndex, Crossing
<1>3. IdxOnly(f, Append(x, Len(m) + 1)) /\ jhr' = jhr /\ cut' = cut /\ proc[p].at = "locked"
  BY <1>2, BeginIndexes DEF AddIndex, At, Headers, Index
<1>4. PICK h \in JAM_Highest(p) : mistaken' = (mistaken \/ {h, Len(Index(p))} # {Len(Headers(p))})
  BY IndexMoves
<1>5. proc'[p].hdr = f /\ proc'[p].at = "indexed"
  BY IndexMoves
<1>6. Opened(f)' /\ ~ Opened(f)
  <2>1. \A q \in Proc : q # p /\ proc[q].hdr = proc[p].hdr => proc[q].at # "indexed"
    BY <1>3, Alone DEF Holding
  <2> QED BY <1>3, <1>5, <2>1 DEF Opened
<1>7. PICK e \in Nat : e = Len(m) + 1
  BY <1>1
<1>8. y = Append(x, e)
  BY <1>3, <1>7 DEF IdxOnly
<1>9. Len(y) = Len(x) + 1 /\ (\A i \in 1..Len(x) : y[i] = x[i]) /\ y[Len(x) + 1] = e
  BY <1>1, <1>8, AppendProperties, SMTT(60)
<1>10. Leads(x, Len(m)) /\ (f \notin cut => Straight(x) /\ Len(x) = Len(m)) /\ (~ mistaken => Straight(x))
  BY <1>1, <1>6 DEF IndexOf
<1>11. ~ mistaken' => ~ mistaken /\ Len(x) = Len(m)
  BY <1>2, <1>4 DEF Headers, Index
<1> HIDE DEF m, x, y
<1>12. Leads(y, Len(m)) /\ \E k \in 1..Len(y) : y[k] = Len(m) + 1
  <2>1. Len(x) \in Nat /\ Len(m) \in Nat /\ Len(x) + 1 \in 1..Len(y) /\ y[Len(x) + 1] = Len(m) + 1
    BY <1>1, <1>7, <1>9
  <2>2. ASSUME NEW k \in 1..Len(y) PROVE y[k] \in 1..(Len(m) + 1)
    <3>1. CASE k \in 1..Len(x)
      <4>1. x[k] \in 1..(Len(m) + 1)
        BY <1>10, <3>1 DEF Leads
      <4> QED BY <1>9, <3>1, <4>1
    <3>2. CASE k \notin 1..Len(x)
      <4>1. k = Len(x) + 1
        BY <1>1, <1>9, <3>2
      <4> QED BY <2>1, <4>1
    <3> QED BY <3>1, <3>2
  <2>3. ASSUME NEW i \in 1..Len(m) PROVE \E k \in 1..Len(y) : y[k] = i
    <3>1. PICK k \in 1..Len(x) : x[k] = i
      BY <1>10 DEF Leads
    <3>2. k \in 1..Len(y) /\ y[k] = i
      BY <1>9, <2>1, <3>1
    <3> QED BY <3>2
  <2> QED BY <2>1, <2>2, <2>3 DEF Leads
<1>13. ASSUME Straight(x), Len(x) = Len(m) PROVE Straight(y) /\ Len(y) = Len(m) + 1
  BY <1>1, <1>7, <1>9, <1>13 DEF Straight
<1>14. f \notin cut' => Straight(y) /\ Len(y) = Len(m) + 1
  BY <1>3, <1>10, <1>13
<1>15. ~ mistaken' => Straight(y)
  BY <1>10, <1>11, <1>13
<1> QED BY <1>3, <1>6, <1>12, <1>14, <1>15 DEF IndexOf, m, y

\* A header that is written where none was is the one an index leads to already.
LEMMA HeaderGrows ==
  ASSUME First, IndexFits, NEW p \in Proc, Steps(p), Begins(p), NEW f \in File, f \notin crossed', f = proc[p].hdr
  PROVE  IndexOf(f)'
<1> DEFINE m == jhr[f].msgs
           w == jhr'[f].msgs
           x == rest[f].idx
<1>1. f \notin crossed /\ IndexOf(f) /\ x \in Seq(Nat) /\ Len(x) \in Nat /\ m \in Seq(Header) /\ Len(m) \in Nat
  BY CrossedGrows, FileIs DEF IndexFits
<1>2. PICK e \in Header : Adds1(p, e) /\ ((AddBegin(p) /\ e = Begun(p)) \/ IsPhantom(p, e))
  BY DEF Begins
<1>3. w = Append(m, e)
  BY <1>2 DEF Adds1, MsgsOnly, Headers
<1>4. Len(w) = Len(m) + 1
  BY <1>1, <1>3, AppendProperties
<1>5. Leads(x, Len(m)) /\ f \notin crossed
  BY <1>1 DEF IndexOf
<1>6. CASE AddBegin(p)
  <2>1. proc[p].at = "indexed" /\ proc[p].at \in Holding /\ Go(p, "half") /\ "half" \in Place
        /\ rest' = rest /\ cut' = cut /\ mistaken' = mistaken
    BY <1>6 DEF AddBegin, Holding, Place, NoHistory, history
  <2>2. proc'[p].at = "half"
    BY <2>1, GoMoves
  <2>3. ~ Opened(f)' /\ Opened(f)
    <3>1. proc[p].hdr = f /\ proc'[p].at # "indexed"
      BY <2>2
    <3>2. Opened(f)
      BY <2>1, <3>1 DEF Opened
    <3> QED BY <2>1, <3>1, <3>2, OpenedAlone
  <2>4. /\ \E k \in 1..Len(x) : x[k] = Len(m) + 1
        /\ f \notin cut => Straight(x) /\ Len(x) = Len(m) + 1
        /\ ~ mistaken => Straight(x)
    BY <1>1, <1>5, <2>3 DEF IndexOf
  <2> HIDE DEF m, w, x
  <2>5. Leads(x, Len(w))
    <3>1. PICK k \in 1..Len(x) : x[k] = Len(m) + 1
      BY <2>4
    <3>2. Leads(x, Len(m) + 1)
      BY <1>1, <1>5, <3>1, LeadsOn
    <3> QED BY <1>4, <3>2
  <2> QED BY <1>4, <2>1, <2>3, <2>4, <2>5 DEF IndexOf, m, w, x
<1>7. CASE IsPhantom(p, e)
  <2>1. PICK n \in Msg : DeletePhantom(p, n)
    BY <1>7 DEF IsPhantom
  <2>2. /\ Go(p, "gone") /\ "gone" \in Place /\ proc[p].at = "locked" /\ proc[p].at \in Holding /\ rest' = rest
        /\ f \in cut' /\ mistaken' /\ Phantom(p)
    BY <1>7, <2>1 DEF DeletePhantom, IsPhantom, Holding, Place
  <2>3. proc[p].rest = f
    BY <2>1 DEF DeletePhantom, Crossing
  <2>4. proc'[p].at = "gone"
    BY <2>2, GoMoves
  <2>5. ~ Opened(f)'
    <3>1. proc[p].hdr = f /\ proc'[p].at # "indexed"
      BY <2>4
    <3> QED BY <2>2, <3>1, OpenedAlone
  <2>6. x # <<>> /\ x[1] \notin DOMAIN m /\ DOMAIN m = 1..Len(m)
    BY <1>1, <2>2, <2>3, FileIs DEF Phantom, Headers, Index
  <2>7. Len(x) > 0
    BY <1>1, <2>6, EmptySeq
  <2> HIDE DEF m, w, x
  <2>8. 1 \in 1..Len(x) /\ x[1] = Len(m) + 1
    BY <1>1, <1>5, <2>6, <2>7 DEF Leads
  <2>9. Leads(x, Len(w))
    <3>1. Leads(x, Len(m) + 1)
      BY <1>1, <1>5, <2>8, LeadsOn
    <3> QED BY <1>4, <3>1
  <2> QED BY <2>2, <2>5, <2>9 DEF IndexOf, w, x
<1> QED BY <1>2, <1>6, <1>7

LEMMA IndexKept == ASSUME First, IndexFits, NEW p \in Proc, Steps(p) PROVE IndexFits'
<1> SUFFICES ASSUME NEW f \in File, f \notin crossed' PROVE IndexOf(f)'
  BY DEF IndexFits, IndexOf
<1> DEFINE m == jhr[f].msgs
           w == jhr'[f].msgs
           x == rest[f].idx
           y == rest'[f].idx
<1>1. f \notin crossed /\ IndexOf(f) /\ cut \subseteq cut' /\ (mistaken => mistaken')
  BY CrossedGrows, CutGrows, MistakenStays DEF IndexFits
<1>2. ASSUME Len(w) = Len(m), y = x, Opened(f)' => Opened(f), f \notin cut' => (Opened(f) => Opened(f)')
      PROVE  IndexOf(f)'
  BY <1>1, <1>2, Zenon DEF IndexOf
<1>3. \A q \in Proc : q # p => proc'[q] = proc[q]
  BY ProcMoves DEF Mover
<1>4. CASE PacksInto(p)
  <2>1. PICK short \in BOOLEAN : PackCopy(p, short) /\ At(p, "locked", "pack") /\ PackFiles(p, short)
    BY <1>4 DEF PacksInto
  <2>4. proc[p].at # "indexed" /\ proc'[p].at # "indexed"
    BY <2>1, PackMoves DEF At
  <2>2. CASE f = files + 1
    <3>1. Headers(p) \in Seq(Header)
      BY <2>1, ReadyFile DEF At, WithHeader
    <3>2. PICK r \in 0..Len(Headers(p)) : Reached(p) = 1..r
      BY <1>4 DEF PacksInto
    <3>3. Packed(p) \in Seq(Header)
      BY <3>1, <3>2, PackedIs
    <3>4. DOMAIN Packed(p) = 1..Len(Packed(p)) /\ Len(Packed(p)) \in Nat
      BY <3>3, LenProperties
    <3>5. w = Packed(p) /\ y = [i \in 1..Len(Packed(p)) |-> i]
      BY <2>1, <2>2, <3>4 DEF PackFiles
    <3>6. rest' \in [File -> RestType]
      BY <2>1 DEF PackFiles
    <3>7. Len(y) \in Nat /\ DOMAIN y = 1..Len(y)
      <4>1. y \in Seq(Nat)
        BY <3>6 DEF RestType
      <4> QED BY <4>1, LenProperties
    <3>8. DOMAIN y = 1..Len(Packed(p)) /\ \A i \in 1..Len(Packed(p)) : y[i] = i
      BY <3>5, SMTT(60)
    <3>9. Len(y) = Len(Packed(p))
      <4> HIDE DEF y
      <4>1. \A a, b \in Nat : 1..a = 1..b => a = b
        <5> SUFFICES ASSUME NEW a \in Nat, NEW b \in Nat, 1..a = 1..b PROVE a = b
          OBVIOUS
        <5>1. Cardinality(1..a) = a /\ Cardinality(1..b) = b
          BY FS_Interval
        <5> QED BY <5>1
      <4> QED BY <4>1, <3>4, <3>7, <3>8, Zenon
    <3>10. ~ Opened(f)'
      <4> SUFFICES ASSUME NEW q \in Proc, proc'[q].at = "indexed" PROVE proc'[q].hdr # f
        BY DEF Opened
      <4>1. proc'[q] = proc[q]
        BY <1>3, <2>4
      <4>2. proc[q].hdr \in File /\ proc[q].hdr <= files
        BY <4>1, Finding DEF WithHeader
      <4> QED BY <2>2, <4>1, <4>2, Bounded DEF First, Types, File
    <3> HIDE DEF w, y
    <3>11. Len(w) = Len(y) /\ Len(y) \in Nat /\ Straight(y)
      BY <3>4, <3>5, <3>8, <3>9 DEF Straight
    <3>12. Leads(y, Len(w))
      BY <3>11 DEF Leads, Straight
    <3> QED BY <3>10, <3>11, <3>12 DEF IndexOf, w, y
  <2>3. CASE f # files + 1
    <3>1. w = m /\ y = x
      BY <2>1, <2>3 DEF PackFiles
    <3>2. Opened(f)' <=> Opened(f)
      BY <1>3, <2>4 DEF Opened
    <3> QED BY <1>2, <3>1, <3>2
  <2> QED BY <2>2, <2>3
<1>5. ASSUME ~ Begins(p), ~ PacksInto(p) PROVE Len(w) = Len(m)
  <2>1. Tails(p) => Len(w) = Len(m)
    <3> SUFFICES ASSUME Tails(p) PROVE Len(w) = Len(m)
      OBVIOUS
    <3>1. PICK t \in BOOLEAN, z \in Seq(Header) : MsgsOnly(proc[p].hdr, z) /\ Retailed(Headers(p), z, t)
      BY DEF Tails
    <3> QED BY <3>1 DEF MsgsOnly, Retailed, Headers
  <2>2. Recounts(p) => Len(w) = Len(m)
    BY DEF Recounts, ActiveOnly
  <2>3. Deletes1(p) => Len(w) = Len(m)
    <3> SUFFICES ASSUME Deletes1(p) PROVE Len(w) = Len(m)
      OBVIOUS
    <3>1. PICK i \in 1..Len(Headers(p)), z \in Seq(Header) : MsgsOnly(proc[p].hdr, z) /\ Undone(Headers(p), z, i)
      BY DEF Deletes1
    <3>2. Len(z) = Len(Headers(p))
      BY <3>1 DEF Undone
    <3> QED BY <3>1, <3>2 DEF MsgsOnly, Headers
  <2> QED BY <1>5, <2>1, <2>2, <2>3, JhrSteps
<1>6. ~ AddIndex(p) /\ ~ PacksInto(p) => y = x
  BY RestIs DEF RestSteps, HighOnly
<1>7. CASE AddIndex(p)
  <2>1. CASE f = proc[p].hdr
    BY <1>7, <2>1, IndexGrows
  <2>2. CASE f # proc[p].hdr
    <3>1. f # proc[p].rest /\ jhr' = jhr
      BY <1>7, <2>2 DEF AddIndex, Crossing
    <3>2. y = x
      BY <1>7, <3>1, BeginIndexes DEF IdxOnly
    <3>3. proc'[p].hdr = proc[p].hdr
      BY <1>7, IndexMoves
    <3>4. Opened(f)' <=> Opened(f)
      BY <1>3, <2>2, <3>3 DEF Opened
    <3> QED BY <1>2, <3>1, <3>2, <3>4
  <2> QED BY <2>1, <2>2
<1>8. CASE Begins(p)
  <2>1. CASE f = proc[p].hdr
    BY <1>8, <2>1, HeaderGrows
  <2>2. CASE f # proc[p].hdr
    <3>1. w = m
      BY <1>8, <2>2 DEF Begins, Adds1, MsgsOnly
    <3>2. rest' = rest /\ \E at \in Place : Go(p, at)
      BY <1>8 DEF Begins, IsPhantom, AddBegin, DeletePhantom, Place
    <3>3. proc'[p].hdr = proc[p].hdr
      BY <3>2, GoMoves
    <3>4. Opened(f)' <=> Opened(f)
      BY <1>3, <2>2, <3>3 DEF Opened
    <3> QED BY <1>2, <3>1, <3>2, <3>4
  <2> QED BY <2>1, <2>2
<1>9. CASE Kill(p) /\ ~ Begins(p) /\ ~ PacksInto(p) /\ ~ AddIndex(p)
  <2>1. proc'[p].at = "off" /\ (proc[p].at = "indexed" => proc[p].hdr \in cut')
    BY <1>9, KillMoves, Zenon DEF Kill
  <2>2. (Opened(f)' => Opened(f)) /\ (f \notin cut' => (Opened(f) => Opened(f)'))
    BY <1>3, <2>1 DEF Opened
  <2> QED BY <1>2, <1>5, <1>6, <1>9, <2>2
<1>10. CASE ~ Kill(p) /\ ~ Begins(p) /\ ~ PacksInto(p) /\ ~ AddIndex(p)
  <2>1. proc[p].at # "indexed" /\ proc'[p].at # "indexed"
    BY <1>10, BeginsWhen, OpenedSteps
  <2>2. Opened(f)' <=> Opened(f)
    BY <1>3, <2>1 DEF Opened
  <2> QED BY <1>2, <1>5, <1>6, <1>10, <2>2
<1> QED BY <1>4, <1>7, <1>8, <1>9, <1>10

(***************************************************************************)
(* No message is lost.                                                     *)
(***************************************************************************)
Wanted == stored \ (deleted \union strayed)
IdsOf(f) == {jhr[f].msgs[i].id : i \in 1..Len(jhr[f].msgs)}

\* What is wanted is in the files that have the name, and in those a pack has made for it.
Kept ==
  torn \/ cut # {} \/
    /\ \A k \in Proc : proc[k].at \in {"packed", "unlinkhdr", "renamehdr"} => Wanted \subseteq IdsOf(proc[k].new)
    /\ (\A k \in Proc : proc[k].at # "renamehdr") => Wanted \subseteq IdsOf(name["hdr"])

LEMMA IdsStay ==
  ASSUME First, NEW p \in Proc, Steps(p), NEW f \in File, f <= files
  PROVE  IdsOf(f) \subseteq IdsOf(f)'
<1>1. /\ Len(jhr'[f].msgs) \in Nat /\ Len(jhr[f].msgs) <= Len(jhr'[f].msgs) /\ Len(jhr[f].msgs) \in Nat
      /\ \A i \in 1..Len(jhr[f].msgs) : jhr'[f].msgs[i].id = jhr[f].msgs[i].id
  BY MsgsStay, FileIs
<1>2. \A i \in 1..Len(jhr[f].msgs) : i \in 1..Len(jhr'[f].msgs)
  BY <1>1
<1> QED BY <1>1, <1>2, Zenon DEF IdsOf

Ended(p) == Headers(p)[Len(Headers(p))].id

\* Only the end of a message makes another one wanted.
LEMMA WantedMoves ==
  ASSUME First, NEW p \in Proc, Steps(p)
  PROVE  \/ Wanted' \subseteq Wanted
         \/ AddEnd(p) /\ ~ Passed(p) /\ Wanted' \subseteq Wanted \union {Ended(p)}
<1>1. UNCHANGED history => Wanted' = Wanted
  BY SMTT(60) DEF history, Wanted
<1>2. /\ AddIndex(p) => Wanted' = Wanted
      /\ MarkRead(p) => Wanted' = Wanted
      /\ \A n \in Msg : Show(p, n) => Wanted' = Wanted
      /\ \A n \in Msg : ShowPhantom(p, n) => Wanted' = Wanted
      /\ Kill(p) => Wanted' = Wanted
      /\ \A short \in BOOLEAN : PackCopy(p, short) => Wanted' = Wanted
  BY Zenon DEF MarkRead, Show, Kill, PackCopy, Wanted, AddIndex, ShowPhantom
<1>3. \A n \in Msg : JAM_Delete(p, n) \/ DeletePhantom(p, n) => Wanted' \subseteq Wanted
  BY DEF JAM_Delete, DeletePhantom, Wanted
<1>4. ASSUME AddEnd(p) PROVE Wanted' \subseteq Wanted \/ (~ Passed(p) /\ Wanted' \subseteq Wanted \union {Ended(p)})
  <2>1. /\ stored' = stored \union {Ended(p)} /\ deleted' = deleted
        /\ strayed' = IF Passed(p) THEN strayed \union {Ended(p)} ELSE strayed
    BY <1>4 DEF AddEnd, Ended
  <2> QED BY <2>1 DEF Wanted
<1> QED BY HistoryMoves, <1>1, <1>2, <1>3, <1>4, Zenon

\* A process that comes to a place where it has new files came there with them, or made them.
LEMMA NewMoves ==
  ASSUME First, NEW p \in Proc, Steps(p), proc'[p].at \in {"packed", "unlinkhdr", "renamehdr"}
  PROVE  \/ \E short \in BOOLEAN : PackCopy(p, short)
         \/ proc[p].at \in {"packed", "unlinkhdr", "renamehdr"} /\ proc'[p].new = proc[p].new
<1> DEFINE G == \/ \E short \in BOOLEAN : PackCopy(p, short)
                \/ proc[p].at \in {"packed", "unlinkhdr", "renamehdr"} /\ proc'[p].new = proc[p].new
<1>1. \A j \in Job : OpenHeader(p, j) => G
  BY OpenHeaderMoves
<1>2. OpenRest(p) => G
  BY OpenRestMoves
<1>3. SetMsgArea(p) => G
  BY SelectMoves
<1>4. \A n \in Msg : Show(p, n) \/ ShowPhantom(p, n) => G
  BY ShowMoves, ShowPhantomMoves
<1>15. AddIndex(p) => G
  BY IndexMoves
<1>5. \A short \in BOOLEAN : PackCopy(p, short) => G
  OBVIOUS
<1>6. PackClose(p) => G
  BY PackCloseMoves
<1>7. ASSUME PackReplace(p) PROVE G
  <2>1. Renames(p)
    BY <1>7 DEF PackReplace, Renames, Unlink, Rename
  <2>2. \A at \in {"renamehdr", "unlinkrest", "renamerest"} : Go(p, at) => proc'[p].at = at /\ proc'[p].new = proc[p].new
    BY GoMoves DEF Place
  <2>3. JAM_Close(p) => proc'[p].at = "off"
    BY CloseMoves
  <2> QED BY <2>1, <2>2, <2>3 DEF Renames
<1>8. Kill(p) => G
  BY KillMoves
<1>9. ASSUME NEW at \in {"locked", "half", "full", "gone"}, Go(p, at) PROVE G
  BY <1>9, GoMoves DEF Place
<1>10. JAM_Close(p) => G
  BY CloseMoves, SMTT(60)
<1>11. /\ JAM_Lock(p) => Go(p, "locked")
       /\ AddBegin(p) => Go(p, "half")
       /\ AddEnd(p) => Go(p, "full")
       /\ \A n \in Msg : JAM_Delete(p, n) \/ DeletePhantom(p, n) => Go(p, "gone")
       /\ DeleteCount(p) => Go(p, "locked") \/ JAM_Close(p)
  BY SMTT(60) DEF JAM_Lock, AddBegin, AddEnd, JAM_Delete, DeletePhantom, DeleteCount
<1>12. ShowNone(p) \/ LockFails(p) \/ MarkRead(p) \/ DeleteEnd(p) \/ AddCount(p) => JAM_Close(p)
  BY Zenon DEF ShowNone, LockFails, MarkRead, DeleteEnd, AddCount
<1>13. Go(p, "locked") \/ Go(p, "half") \/ Go(p, "full") \/ Go(p, "gone") => G
  BY <1>9
<1> HIDE DEF G
<1>14. G
  BY <1>1, <1>2, <1>3, <1>4, <1>5, <1>6, <1>7, <1>8, <1>10, <1>11, <1>12, <1>13, <1>15, Zenon DEF Steps
<1> QED BY <1>14 DEF G

Fresh == {"packed", "unlinkhdr", "renamehdr"}

\* The pack finds what is wanted in the old files, and copies it.
LEMMA PackKeeps ==
  ASSUME First, Counted, NEW p \in Proc, Steps(p), NEW short \in BOOLEAN, PackCopy(p, short),
         cut = {}, Wanted \subseteq IdsOf(name["hdr"]), NEW new, new = files + 1
  PROVE  Wanted \subseteq IdsOf(new)'
<1> DEFINE m == Headers(p)
<1>1. At(p, "locked", "pack") /\ PackFiles(p, short)
  BY PackDoes
<1>2. /\ proc[p].hdr \in File /\ m \in Seq(Header) /\ Len(m) \in Nat /\ m = jhr[proc[p].hdr].msgs
      /\ proc[p].hdr = name["hdr"]
  BY <1>1, ReadyFile DEF At, WithHeader, First, Places, PlaceOf
<1>3. \A i \in 1..Len(m) : ~ m[i].tail
  BY <1>1, <1>2, CountHeld DEF At, Holding
<1>4. Reached(p) = 1..Len(m) /\ Len(m) \in 0..Len(m)
  BY <1>2, <1>3, AllReached
<1>5. InOrder(p, Len(m)) /\ Len(Packed(p)) = N(m, Len(m))
  BY <1>2, <1>4, PackedOrder, PackedIs
<1>6. jhr'[new].msgs = Packed(p)
  BY <1>1 DEF PackFiles
<1>7. ASSUME NEW x \in Wanted PROVE x \in IdsOf(new)'
  <2>1. PICK i \in 1..Len(m) : m[i].id = x
    BY <1>2 DEF IdsOf
  <2>2. ~ m[i].del
    <3>1. OrderOf(proc[p].hdr)
      BY <1>2 DEF First, Ordered
    <3>2. m[i].del => x \in deleted
      BY <1>2, <2>1, <3>1 DEF OrderOf
    <3> QED BY <3>2 DEF Wanted
  <2>3. N(m, i) \in 1..Len(Packed(p))
    <3>1. i \in Nat /\ i > 0 /\ i - 1 \in Nat
      OBVIOUS
    <3>2. N(m, i) = N(m, i - 1) + 1
      BY <2>2, <3>1, CountStep
    <3>3. N(m, i - 1) \in Nat /\ N(m, i) \in Nat
      BY <3>1, Counts
    <3>4. N(m, i) <= N(m, Len(m))
      BY <1>2, <3>1, CountGrows
    <3>5. N(m, Len(m)) \in Nat
      BY <1>2, Counts
    <3> HIDE DEF m
    <3> QED BY <1>5, <3>2, <3>3, <3>4, <3>5
  <2>4. PICK k \in 1..Len(m) : /\ ~ m[k].del /\ N(m, k) = N(m, i) /\ Packed(p)[N(m, i)].id = m[k].id
    BY <1>5, <2>3, Zenon DEF InOrder
  <2>5. k = i
    <3>1. i \in Nat /\ k \in Nat
      OBVIOUS
    <3>2. i < k => N(m, i) < N(m, k)
      BY <2>4, <3>1, CountGrows
    <3>3. k < i => N(m, k) < N(m, i)
      BY <2>2, <3>1, CountGrows
    <3>4. N(m, i) \in Nat /\ N(m, k) \in Nat
      BY <3>1, Counts
    <3> HIDE DEF m
    <3> QED BY <2>4, <3>1, <3>2, <3>3, <3>4
  <2>6. Packed(p)[N(m, i)].id = x
    BY <2>1, <2>4, <2>5
  <2> QED BY <1>6, <2>3, <2>6 DEF IdsOf
<1> QED BY <1>7

LEMMA KeptKept == ASSUME First, Counted, Kept, NEW p \in Proc, Steps(p) PROVE Kept'
<1> SUFFICES ASSUME ~ torn', cut' = {}
             PROVE  /\ \A k \in Proc : proc'[k].at \in Fresh => Wanted' \subseteq IdsOf(proc[k].new)'
                    /\ (\A k \in Proc : proc'[k].at # "renamehdr") => Wanted' \subseteq IdsOf(name["hdr"])'
  BY DEF Kept, Fresh
<1>1. ~ torn /\ cut = {}
  BY TornStays, CutGrows
<1>2. /\ \A k \in Proc : proc[k].at \in Fresh => Wanted \subseteq IdsOf(proc[k].new)
      /\ (\A k \in Proc : proc[k].at # "renamehdr") => Wanted \subseteq IdsOf(name["hdr"])
  BY <1>1 DEF Kept, Fresh
<1>3. \A k \in Proc : k # p => proc'[k] = proc[k]
  BY ProcMoves DEF Mover
<1>4. \A k \in Proc : proc[k].at \in Fresh => proc[k].new \in 1..files /\ proc[k].at # "off" /\ proc[k].job = "pack"
  BY PackersAre DEF Fresh, Packing
<1>5. \A f \in 1..files : f \in File /\ f <= files
  BY Bounded DEF First, Types, File
<1>6. \A f \in 1..files : \A g : g = f => IdsOf(f) \subseteq IdsOf(g)'
  BY <1>5, IdsStay, ZenonT(60) DEF IdsOf
<1>7. name["hdr"] = 0 => \E k \in Proc : proc[k].at = "renamehdr"
  BY <1>1 DEF First, Names
<1>8. name["hdr"] # 0 => name["hdr"] \in 1..files
  BY Bounded DEF First, Names, Types
<1>9. ASSUME NEW k \in Proc, proc[k].at = "renamehdr", \A q \in Proc : proc'[q].at # "renamehdr"
      PROVE  k = p /\ name'["hdr"] = proc[k].new
  <2>1. k = p
    BY <1>3, <1>9
  <2>2. ~ Kill(p)
    BY <1>9, <2>1 DEF Kill
  <2>3. PackReplace(p)
    BY <1>9, <2>1, <2>2, Replacing
  <2>4. Renames(p)
    BY <2>3 DEF PackReplace, Renames, Unlink, Rename
  <2>5. name' = [name EXCEPT !["hdr"] = proc[p].new]
    BY <1>9, <2>1, <2>4 DEF Renames
  <2> QED BY <2>1, <2>5 DEF First, Types
<1>10. CASE Wanted' \subseteq Wanted
  <2>1. ASSUME NEW k \in Proc, proc'[k].at \in Fresh PROVE Wanted' \subseteq IdsOf(proc[k].new)'
    <3>1. CASE proc[k].at \in Fresh /\ proc'[k].new = proc[k].new
      BY <1>2, <1>4, <1>6, <1>10, <3>1
    <3>2. CASE k = p /\ \E short \in BOOLEAN : PackCopy(p, short)
      <4>1. PICK short \in BOOLEAN : PackCopy(p, short)
        BY <3>2
      <4>2. proc'[p].new = files + 1 /\ proc[p].at = "locked" /\ proc[p].job = "pack"
        BY <4>1, PackMoves DEF PackCopy, At
      <4>3. \A q \in Proc : proc[q].at # "renamehdr"
        BY <1>4, <4>2, OnePacker DEF Fresh
      <4>4. Wanted \subseteq IdsOf(name["hdr"])
        BY <1>2, <4>3
      <4>5. \A new : new = files + 1 => Wanted \subseteq IdsOf(new)'
        BY <1>1, <4>1, <4>4, PackKeeps
      <4> QED BY <1>10, <3>2, <4>2, <4>5 DEF IdsOf
    <3> QED BY <1>3, <2>1, <3>1, <3>2, NewMoves DEF Fresh
  <2>2. ASSUME \A k \in Proc : proc'[k].at # "renamehdr" PROVE Wanted' \subseteq IdsOf(name["hdr"])'
    <3>1. CASE \E k \in Proc : proc[k].at = "renamehdr"
      <4>1. PICK k \in Proc : proc[k].at = "renamehdr"
        BY <3>1
      <4>2. name'["hdr"] = proc[k].new /\ Wanted \subseteq IdsOf(proc[k].new) /\ proc[k].new \in 1..files
        BY <1>2, <1>4, <1>9, <2>2, <4>1 DEF Fresh
      <4> QED BY <1>6, <1>10, <4>2 DEF IdsOf
    <3>2. CASE \A k \in Proc : proc[k].at # "renamehdr"
      <4>1. name["hdr"] \in 1..files /\ Wanted \subseteq IdsOf(name["hdr"])
        BY <1>2, <1>7, <1>8, <3>2
      <4>2. name'["hdr"] = name["hdr"]
        <5>1. Renames(p) => proc[p].at # "unlinkhdr"
          <6>1. Go(p, "renamehdr") => proc'[p].at = "renamehdr"
            BY GoMoves DEF Place
          <6> QED BY <2>2, <6>1 DEF Renames
        <5>2. name \in [{"hdr", "rest"} -> 0..MaxFiles] /\ name["hdr"] # 0
          BY <4>1, Bounded DEF First, Types
        <5> QED BY <3>2, <5>1, <5>2, NameMoves DEF MakesHeader, MakesRest, Renames
      <4> QED BY <1>6, <1>10, <4>1, <4>2 DEF IdsOf
    <3> QED BY <3>1, <3>2
  <2> QED BY <2>1, <2>2
<1>11. CASE AddEnd(p) /\ ~ Passed(p) /\ Wanted' \subseteq Wanted \union {Ended(p)}
  <2>1. /\ proc[p].at = "half" /\ proc[p].hdr = name["hdr"]
        /\ \A k \in Proc : proc[k].at \notin {"unlinkhdr", "renamehdr"}
    BY <1>11 DEF AddEnd, Passed
  <2>2. proc[p].hdr \in File /\ proc[p].hdr \in 1..files
    BY <2>1, Finding DEF WithHeader, First, Places, PlaceOf
  <2>3. \A k \in Proc : proc[k].at \notin Fresh
    <3> SUFFICES ASSUME NEW k \in Proc, proc[k].at = "packed" PROVE FALSE
      BY <2>1 DEF Fresh
    <3>1. proc[k].job = "pack" /\ proc[k].hdr = name["hdr"]
      BY PackersAre DEF Packing, WithHeader, First, Places, PlaceOf
    <3>2. k = p
      BY <2>1, <2>2, <3>1, Alone DEF Holding
    <3> QED BY <2>1, <3>2
  <2>4. proc'[p].at = "full"
    BY <1>11, GoMoves DEF AddEnd, Place
  <2>5. \A k \in Proc : proc'[k].at \notin Fresh
    BY <1>3, <2>3, <2>4 DEF Fresh
  <2>6. Wanted \subseteq IdsOf(name["hdr"])
    BY <1>2, <2>3 DEF Fresh
  <2>7. Ended(p) \in IdsOf(name["hdr"])
    <3>1. Len(Headers(p)) \in 1..Len(Headers(p))
      BY <1>11, EndTails DEF Tails
    <3> QED BY <2>1, <3>1 DEF Ended, Headers, IdsOf
  <2>8. name' = name
    BY <1>11 DEF AddEnd
  <2>9. Wanted' \subseteq IdsOf(name["hdr"])'
    <3>1. PICK g \in 1..files : g = name["hdr"]
      BY <2>1, <2>2
    <3>2. IdsOf(g) \subseteq IdsOf(g)'
      BY <1>6
    <3>3. Wanted' \subseteq IdsOf(g)
      BY <1>11, <2>6, <2>7, <3>1
    <3>4. IdsOf(name["hdr"])' = IdsOf(g)'
      BY <2>8, <3>1 DEF IdsOf
    <3> QED BY <3>2, <3>3, <3>4
  <2> QED BY <2>5, <2>9
<1> QED BY <1>10, <1>11, WantedMoves

(***************************************************************************)
(* The base stays whole.                                                   *)
(***************************************************************************)
Second == First /\ Counted /\ IndexFits /\ Kept

LEMMA InitSecond == Init => Second
<1> SUFFICES ASSUME Init PROVE Second
  OBVIOUS
<1>1. First
  BY InitFirst
<1> DEFINE m == [i \in 1..Already |-> [num |-> i, id |-> i, del |-> FALSE, tail |-> FALSE]]
<1>2. \A f \in File : f # 1 => jhr[f] = Blank /\ rest[f] = BlankRest
  BY DEF Init
<1>3. 1 \in File
  BY Bounded DEF File
<1>4. jhr[1].active = Already /\ jhr[1].msgs = m
  BY <1>3 DEF Init
<1>5. rest[1].idx = [i \in 1..Already |-> i]
  <2> DEFINE e == [BlankRest EXCEPT !.idx = [i \in 1..Already |-> i]]
  <2>1. e.idx = [i \in 1..Already |-> i]
    BY DEF BlankRest
  <2>2. rest[1] = e
    BY <1>3 DEF Init
  <2> QED BY <2>1, <2>2
<1>6. DOMAIN m = 1..Already /\ \A i \in 1..Already : m[i].del = FALSE /\ m[i].tail = FALSE /\ m[i].id = i
  OBVIOUS
<1>7. m \in Seq(Header) /\ Len(m) = Already
  <2>1. jhr[1].msgs \in Seq(Header)
    BY <1>1, <1>3, FileIs
  <2> QED BY <1>4, <1>6, <2>1, LenProperties, Bounded
<1> HIDE DEF m
<1>8. Act(m) = 1..Already
  BY <1>6 DEF Act
<1>9. Act(<<>>) = {}
  BY DEF Act
<1>10. Counted
  <2> SUFFICES ASSUME NEW f \in File PROVE CountOf(f)
    BY DEF Counted
  <2>1. \A q \in Proc : proc[q].at = "off"
    BY DEF Init
  <2>2. CASE f = 1
    <3>1. Active(f) = Already
      <4>1. \A l \in Nat : Cardinality(1..l) = l
        BY FS_Interval
      <4>2. Active(f) = Cardinality(1..Already)
        BY <1>4, <1>8, <2>2 DEF Active
      <4> QED BY <4>1, <4>2, Bounded
    <3> QED BY <1>4, <1>6, <1>7, <2>1, <2>2, <3>1 DEF CountOf
  <2>3. CASE f # 1
    <3>1. jhr[f].active = 0 /\ jhr[f].msgs = <<>> /\ Len(<<>>) = 0
      BY <1>2, <2>3 DEF Blank
    <3>2. Active(f) = 0
      BY <1>9, <3>1, FS_EmptySet DEF Active
    <3> QED BY <2>1, <3>1, <3>2 DEF CountOf
  <2> QED BY <2>2, <2>3
<1>11. IndexFits
  <2> SUFFICES ASSUME NEW f \in File PROVE IndexOf(f)
    BY DEF IndexFits
  <2>1. ~ Opened(f)
    BY DEF Init, Opened
  <2>2. Len(rest[f].idx) = Len(jhr[f].msgs) /\ Len(rest[f].idx) \in Nat /\ Straight(rest[f].idx)
    <3>1. CASE f = 1
      <4>1. rest[1].idx \in Seq(Nat) /\ DOMAIN rest[1].idx = 1..Already
        BY <1>1, <1>3, <1>5, FileIs
      <4>2. Len(rest[1].idx) = Already
        BY <4>1, LenProperties, Bounded
      <4> QED BY <1>4, <1>5, <1>7, <3>1, <4>2, Bounded DEF Straight
    <3>2. CASE f # 1
      <4>1. rest[f].idx = <<>> /\ jhr[f].msgs = <<>>
        BY <1>2, <3>2 DEF Blank, BlankRest
      <4> QED BY <4>1 DEF Straight
    <3> QED BY <3>1, <3>2
  <2>3. Leads(rest[f].idx, Len(jhr[f].msgs))
    BY <2>2 DEF Leads, Straight
  <2> QED BY <2>1, <2>2, <2>3 DEF IndexOf
<1>12. Kept
  <2>1. /\ \A k \in Proc : proc[k].at = "off"
        /\ name["hdr"] = 1 /\ stored = 1..Already
    BY DEF Init
  <2>2. IdsOf(1) = 1..Already
    BY <1>4, <1>6, <1>7 DEF IdsOf
  <2> QED BY <2>1, <2>2 DEF Kept, Wanted
<1> QED BY <1>1, <1>10, <1>11, <1>12 DEF Second

LEMMA SecondKept == Second /\ [Next]_vars => Second'
<1> SUFFICES ASSUME Second, [Next]_vars PROVE Second'
  OBVIOUS
<1>1. First'
  BY FirstKept DEF Second
<1>2. CASE Next
  <2>1. PICK p \in Proc : Steps(p)
    BY <1>2, StepOf
  <2> QED BY <1>1, <2>1, CountedKept, IndexKept, KeptKept, Zenon DEF Second
<1>3. CASE UNCHANGED vars
  <2>1. UNCHANGED <<jhr, rest, name, proc, stored, deleted, strayed, cut, crossed, torn>>
    BY <1>3 DEF vars, base, history
  <2>2. Counted'
    <3> SUFFICES ASSUME NEW f \in File PROVE CountOf(f)'
      BY DEF Counted
    <3>1. CountOf(f) /\ Active(f)' = Active(f)
      BY <2>1 DEF Second, Counted, Active, Act
    <3> QED BY <2>1, <3>1 DEF CountOf
  <2>3. IndexFits'
    <3> SUFFICES ASSUME NEW f \in File PROVE IndexOf(f)'
      BY DEF IndexFits
    <3>1. IndexOf(f) /\ (Opened(f)' <=> Opened(f)) /\ mistaken' = mistaken
      BY <1>3, <2>1 DEF Second, IndexFits, Opened, vars, history
    <3> QED BY <2>1, <3>1, Zenon DEF IndexOf
  <2>4. Kept'
    BY <2>1 DEF Second, Kept, Wanted, IdsOf
  <2> QED BY <1>1, <2>2, <2>3, <2>4 DEF Second
<1> QED BY <1>2, <1>3

LEMMA SoundIs == Second => BaseSound
<1> SUFFICES ASSUME Second PROVE BaseSound
  OBVIOUS
<1>1. First
  BY DEF Second
<1>2. files \in 1..MaxFiles /\ \A f \in 1..files : f \in File
  BY <1>1, Bounded DEF First, Types, File
<1>3. \A f \in File : IdsOf(f) = Ids(f)
  BY <1>1, FileIs DEF IdsOf, Ids
<1>4. MessagesKept
  <2> SUFFICES ASSUME ~ torn, cut = {} PROVE Wanted \subseteq Ids(Current)
    BY DEF MessagesKept, Wanted
  <2>1. CASE \E k \in Proc : proc[k].at = "renamehdr"
    <3>1. PICK k \in Proc : k = CHOOSE q \in Proc : proc[q].at = "renamehdr"
      BY <2>1
    <3>2. proc[k].at = "renamehdr" /\ Current = proc[k].new
      BY <2>1, <3>1 DEF Current
    <3>3. Wanted \subseteq IdsOf(proc[k].new) /\ proc[k].new \in File
      BY <1>1, <1>2, <3>2, PackersAre DEF Second, Kept, Packing
    <3> QED BY <1>3, <3>2, <3>3
  <2>2. CASE \A k \in Proc : proc[k].at # "renamehdr"
    <3>1. Current = name["hdr"]
      BY <2>2, Zenon DEF Current
    <3>2. Wanted \subseteq IdsOf(name["hdr"])
      BY <2>2 DEF Second, Kept
    <3>3. name["hdr"] \in 1..files
      BY <1>1, <1>2, <2>2, Bounded DEF First, Names
    <3> QED BY <1>2, <1>3, <3>1, <3>2, <3>3
  <2> QED BY <2>1, <2>2
<1>5. CountTrue
  <2> SUFFICES ASSUME NEW f \in 1..files, lock[f] = Free, f \notin cut
               PROVE  jhr[f].active = Cardinality({i \in DOMAIN jhr[f].msgs : ~ jhr[f].msgs[i].del})
    BY DEF CountTrue
  <2>1. f \in File /\ CountOf(f)
    BY <1>2 DEF Second, Counted
  <2>2. \A q \in Proc : proc[q].hdr = f => proc[q].at \notin Changing
    BY <1>1, <2>1, FreeKnown DEF First, LInv, LockHeld, Holding, Changing
  <2>3. jhr[f].active = Active(f)
    BY <2>1, <2>2, Zenon DEF CountOf
  <2> QED BY <2>3 DEF Active, Act
<1>6. IndexTrue
  <2> SUFFICES ASSUME NEW f \in (1..files) \ crossed
               PROVE  /\ \A i \in DOMAIN jhr[f].msgs : \E k \in DOMAIN rest[f].idx : rest[f].idx[k] = i
                      /\ lock[f] = Free /\ f \notin cut => rest[f].idx = [i \in DOMAIN jhr[f].msgs |-> i]
    BY DEF IndexTrue
  <2>1. /\ f \in File /\ IndexOf(f)
        /\ rest[f].idx \in Seq(Nat) /\ DOMAIN rest[f].idx = 1..Len(rest[f].idx)
        /\ DOMAIN jhr[f].msgs = 1..Len(jhr[f].msgs) /\ Len(jhr[f].msgs) \in Nat
    BY <1>1, <1>2, FileIs DEF Second, IndexFits
  <2>2. Leads(rest[f].idx, Len(jhr[f].msgs))
    BY <2>1 DEF IndexOf
  <2>3. ASSUME lock[f] = Free, f \notin cut PROVE rest[f].idx = [i \in DOMAIN jhr[f].msgs |-> i]
    <3>1. ~ Opened(f)
      BY <1>1, <2>1, <2>3, FreeKnown DEF Opened, First, LInv, LockHeld, Holding
    <3>2. Straight(rest[f].idx) /\ Len(rest[f].idx) = Len(jhr[f].msgs)
      BY <2>1, <2>3, <3>1 DEF IndexOf
    <3> DEFINE x == rest[f].idx
    <3>3. x = [i \in DOMAIN x |-> x[i]] /\ DOMAIN x = DOMAIN jhr[f].msgs /\ \A i \in DOMAIN x : x[i] = i
      <4>1. x \in [1..Len(x) -> Nat]
        BY <2>1, LenProperties
      <4>2. DOMAIN x = DOMAIN jhr[f].msgs /\ \A i \in DOMAIN x : x[i] = i
        BY <2>1, <3>2 DEF Straight
      <4> HIDE DEF x
      <4> QED BY <4>1, <4>2
    <3> HIDE DEF x
    <3>4. x = [i \in DOMAIN jhr[f].msgs |-> i]
      BY <3>3
    <3> QED BY <3>4 DEF x
  <2> QED BY <2>1, <2>2, <2>3 DEF Leads
<1> QED BY <1>4, <1>5, <1>6 DEF BaseSound

\* Whatever the programs do with a base: what was stored and not deleted is in the files
\* that have its name, or are getting it; the count in each file that nobody changes is
\* right; and the index leads to every header, also where an addition was broken off between
\* the index and the header, and names the headers in their order where none was (JAM_AddMsg,
\* JAM_Delete and JAM_Pack of lib/jammsg.c).
THEOREM BaseStaysWhole == Spec => []BaseSound
BY InitSecond, SecondKept, SoundIs, PTL DEF Spec

(***************************************************************************)
(* No message is taken for read that was not shown.                        *)
(***************************************************************************)
NumOf(f) == \A i \in 1..Len(jhr[f].msgs) : jhr[f].msgs[i].num = i

\* Every message has the number of its place, and what a pointer has passed was shown.
ReadOf(f) ==
  /\ NumOf(f)
  /\ \A u \in Proc :
       /\ rest[f].high[u] <= Len(jhr[f].msgs)
       /\ \A i \in 1..Len(jhr[f].msgs) :
            i <= rest[f].high[u] /\ ~ jhr[f].msgs[i].del => jhr[f].msgs[i].id <= shown[u]

\* The message on the screen is there, and was shown.
OnScreen(p) == proc[p].job = "read" /\ proc[p].at \in {"found", "locked"}
ScreenOf(p) ==
  OnScreen(p) => proc[p].num \in 1..Len(Headers(p)) /\ Headers(p)[proc[p].num].id <= shown[p]

\* A message to come has the number of its place.
NextOf(p) == proc[p].at = "indexed" => proc[p].next = Len(Headers(p)) + 1

Seen ==
  crossed = {} /\ ~ mistaken =>
    (\A f \in File : ReadOf(f)) /\ (\A p \in Proc : ScreenOf(p)) /\ (\A p \in Proc : NextOf(p))

LEMMA ShownGrows ==
  ASSUME First, NEW p \in Proc, Steps(p)
  PROVE  \A u \in Proc : shown[u] \in Nat /\ shown'[u] \in Nat /\ shown[u] <= shown'[u]
<1>1. shown \in [Proc -> 0..MaxMsgs] /\ shown' \in [Proc -> 0..MaxMsgs]
  BY HistoriesKept DEF First, Histories
<1>2. CASE shown' = shown
  BY <1>1, <1>2, Bounded
<1>3. CASE \E n \in Msg : Show(p, n)
  <2>1. PICK n \in Msg : Show(p, n)
    BY <1>3
  <2>2. PICK i \in 1..Len(Headers(p)) :
          shown' = [shown EXCEPT ![p] = IF shown[p] < Headers(p)[i].id THEN Headers(p)[i].id ELSE shown[p]]
    BY <2>1, ShowMoves
  <2>3. Headers(p)[i] \in Header
    BY <2>1, <2>2, ShowMoves, ReadyFile DEF At, WithHeader
  <2>4. Headers(p)[i].id \in Nat
    BY <2>3, Bounded DEF Header, Msg
  <2> QED BY <1>1, <2>2, <2>4, Bounded
<1>4. UNCHANGED history => shown' = shown
  BY SMTT(60) DEF history
<1>5. /\ AddIndex(p) => shown' = shown
      /\ AddEnd(p) => shown' = shown
      /\ MarkRead(p) => shown' = shown
      /\ \A n \in Msg : JAM_Delete(p, n) => shown' = shown
      /\ \A n \in Msg : DeletePhantom(p, n) \/ ShowPhantom(p, n) => shown' = shown
      /\ Kill(p) => shown' = shown
  BY Zenon DEF AddEnd, MarkRead, JAM_Delete, Kill, AddIndex, DeletePhantom, ShowPhantom
<1>6. \A short \in BOOLEAN : PackCopy(p, short) => shown' = shown
  BY DEF PackCopy
<1> HIDE DEF Msg
<1>7. shown' = shown \/ \E n \in Msg : Show(p, n)
  BY HistoryMoves, <1>4, <1>5, <1>6, Zenon
<1> QED BY <1>2, <1>3, <1>7

\* Where messages are not renumbered and pointers stay, what was shown was shown.
LEMMA ReadFrame ==
  ASSUME First, NEW p \in Proc, Steps(p), NEW f \in File, ReadOf(f), NumOf(f)',
         Len(jhr[f].msgs) <= Len(jhr'[f].msgs), Len(jhr'[f].msgs) \in Nat,
         \A i \in 1..Len(jhr[f].msgs) : /\ jhr'[f].msgs[i].id = jhr[f].msgs[i].id
                                        /\ jhr[f].msgs[i].del => jhr'[f].msgs[i].del,
         rest'[f].high = rest[f].high
  PROVE  ReadOf(f)'
<1> DEFINE m == jhr[f].msgs
           w == jhr'[f].msgs
<1>1. Len(m) \in Nat /\ \A i \in 1..Len(m) : m[i] \in Header
  BY FileIs
<1> SUFFICES ASSUME NEW u \in Proc
             PROVE  /\ rest'[f].high[u] <= Len(w)
                    /\ \A i \in 1..Len(w) : i <= rest'[f].high[u] /\ ~ w[i].del => w[i].id <= shown'[u]
  BY DEF ReadOf
<1>2. rest[f].high[u] \in Nat /\ rest'[f].high[u] = rest[f].high[u]
  BY FileIs
<1>3. rest[f].high[u] <= Len(m) /\ \A i \in 1..Len(m) : i <= rest[f].high[u] /\ ~ m[i].del => m[i].id <= shown[u]
  BY DEF ReadOf
<1>4. ASSUME NEW i \in 1..Len(w), i <= rest'[f].high[u], ~ w[i].del PROVE w[i].id <= shown'[u]
  <2>1. i \in 1..Len(m)
    BY <1>1, <1>2, <1>3, <1>4
  <2>2. m[i].id <= shown[u] /\ w[i].id = m[i].id
    BY <1>2, <1>3, <1>4, <2>1
  <2>3. m[i].id \in Nat
    BY <1>1, <2>1, Bounded DEF Header, Msg
  <2>4. shown[u] \in Nat /\ shown'[u] \in Nat /\ shown[u] <= shown'[u]
    BY ShownGrows
  <2> HIDE DEF m, w
  <2> QED BY <2>2, <2>3, <2>4
<1>5. rest'[f].high[u] <= Len(w)
  BY <1>1, <1>2, <1>3
<1> QED BY <1>4, <1>5

LEMMA Unmarked ==
  ASSUME First, NEW p \in Proc, Steps(p), NEW f \in File, ~ MarkRead(p), ~ PacksInto(p)
  PROVE  rest'[f].high = rest[f].high
<1>1. CASE IdxOnly(proc[p].rest, Append(Index(p), Len(Headers(p)) + 1))
  BY <1>1 DEF IdxOnly
<1> QED BY <1>1, RestIs DEF RestSteps

\* A header stays deleted.
LEMMA DelStays ==
  ASSUME First, NEW p \in Proc, Steps(p), NEW f \in File, ~ PacksInto(p), NEW i \in 1..Len(jhr[f].msgs), jhr[f].msgs[i].del
  PROVE  jhr'[f].msgs[i].del
<1> DEFINE m == jhr[f].msgs
           w == jhr'[f].msgs
<1>1. m \in Seq(Header) /\ Len(m) \in Nat
  BY FileIs
<1>2. CASE Begins(p)
  <2>1. CASE f = proc[p].hdr
    <3>1. PICK e \in Header : w = Append(m, e)
      BY <1>2, <2>1 DEF Begins, Adds1, MsgsOnly, Headers
    <3> QED BY <1>1, <3>1, AppendProperties, SMTT(60)
  <2>2. CASE f # proc[p].hdr
    BY <1>2, <2>2 DEF Begins, Adds1, MsgsOnly
  <2> QED BY <2>1, <2>2
<1>3. CASE Tails(p)
  <2>1. PICK t \in BOOLEAN, y \in Seq(Header) : MsgsOnly(proc[p].hdr, y) /\ Retailed(Headers(p), y, t)
    BY <1>3 DEF Tails
  <2> QED BY <2>1 DEF MsgsOnly, Retailed, Headers
<1>4. CASE Recounts(p)
  BY <1>4 DEF Recounts, ActiveOnly
<1>5. CASE Deletes1(p)
  <2>1. PICK k \in 1..Len(Headers(p)), y \in Seq(Header) : MsgsOnly(proc[p].hdr, y) /\ Undone(Headers(p), y, k)
    BY <1>5 DEF Deletes1
  <2> QED BY <2>1 DEF MsgsOnly, Undone, Headers
<1>6. CASE jhr' = jhr
  BY <1>6
<1> QED BY JhrSteps, <1>2, <1>3, <1>4, <1>5, <1>6

\* Where neither a message is begun nor a pack copies, no message gets another number.
LEMMA LenStays ==
  ASSUME First, NEW p \in Proc, Steps(p), NEW f \in File, ~ Begins(p), ~ PacksInto(p)
  PROVE  Len(jhr'[f].msgs) = Len(jhr[f].msgs)
         /\ \A i \in 1..Len(jhr[f].msgs) : /\ jhr'[f].msgs[i].id = jhr[f].msgs[i].id
                                           /\ jhr'[f].msgs[i].num = jhr[f].msgs[i].num
<1> DEFINE m == jhr[f].msgs
           w == jhr'[f].msgs
<1>1. CASE Tails(p)
  <2>1. PICK t \in BOOLEAN, y \in Seq(Header) : MsgsOnly(proc[p].hdr, y) /\ Retailed(Headers(p), y, t)
    BY <1>1 DEF Tails
  <2> QED BY <2>1 DEF MsgsOnly, Retailed, Headers
<1>2. CASE Recounts(p)
  BY <1>2 DEF Recounts, ActiveOnly
<1>3. CASE Deletes1(p)
  <2>1. PICK k \in 1..Len(Headers(p)), y \in Seq(Header) : MsgsOnly(proc[p].hdr, y) /\ Undone(Headers(p), y, k)
    BY <1>3 DEF Deletes1
  <2> QED BY <2>1, ZenonT(60) DEF MsgsOnly, Undone, Headers
<1>4. CASE jhr' = jhr
  BY <1>4
<1> QED BY JhrSteps, <1>1, <1>2, <1>3, <1>4

LEMMA ReadBegins ==
  ASSUME First, NEW p \in Proc, Steps(p), AddBegin(p), NextOf(p), \A f \in File : ReadOf(f), NEW f \in File
  PROVE  ReadOf(f)'
<1> DEFINE m == jhr[f].msgs
           w == jhr'[f].msgs
<1>2. proc[p].next = Len(Headers(p)) + 1
  BY DEF NextOf, AddBegin
<1>3. Begun(p) \in Header /\ MsgsOnly(proc[p].hdr, Append(Headers(p), Begun(p)))
  BY BeginDoes
<1>4. m \in Seq(Header) /\ Len(m) \in Nat
  BY FileIs
<1>5. ~ MarkRead(p) /\ ~ PacksInto(p)
  BY DEF MarkRead, AddBegin, At, PacksInto
<1>6. rest'[f].high = rest[f].high
  BY <1>5, Unmarked
<1>7. ReadOf(f) /\ NumOf(f)
  BY DEF ReadOf
<1>8. CASE f = proc[p].hdr
  <2>1. w = Append(m, Begun(p)) /\ Begun(p).num = Len(m) + 1
    BY <1>2, <1>3, <1>8, Zenon DEF MsgsOnly, Headers, Begun
  <2>2. /\ Len(w) = Len(m) + 1 /\ w[Len(m) + 1] = Begun(p)
        /\ \A i \in 1..Len(m) : w[i] = m[i]
    BY <1>3, <1>4, <2>1, AppendProperties
  <2>3. NumOf(f)'
    <3>1. ASSUME NEW i \in 1..Len(w) PROVE w[i].num = i
      <4>1. i \in 1..Len(m) \/ i = Len(m) + 1
        BY <1>4, <2>2
      <4> QED BY <1>7, <2>1, <2>2, <4>1 DEF NumOf
    <3> QED BY <3>1 DEF NumOf
  <2>4. Len(m) <= Len(w) /\ Len(w) \in Nat
    BY <1>4, <2>2
  <2> QED BY <1>6, <1>7, <2>2, <2>3, <2>4, ReadFrame, SMTT(60)
<1>9. CASE f # proc[p].hdr
  <2>1. w = m
    BY <1>3, <1>9 DEF MsgsOnly
  <2>2. NumOf(f)'
    BY <1>7, <2>1 DEF NumOf
  <2> QED BY <1>4, <1>6, <1>7, <2>1, <2>2, ReadFrame
<1> QED BY <1>8, <1>9

LEMMA ReadMarks ==
  ASSUME First, NEW p \in Proc, Steps(p), MarkRead(p), crossed' = {},
         \A f \in File : ReadOf(f), ScreenOf(p), NEW f \in File
  PROVE  ReadOf(f)'
<1> DEFINE m == jhr[f].msgs
           old == rest[f].high[p]
<1>1. /\ At(p, "locked", "read") /\ proc[p].at \in WithHeader /\ proc[p].at \in WithRest
      /\ proc[p].hdr = proc[p].rest /\ jhr' = jhr /\ shown' = shown
  BY DEF MarkRead, Crossing, At, WithHeader, WithRest
<1>2. PICK h \in Nat :
        /\ HighOnly(proc[p].rest, [rest[proc[p].rest].high EXCEPT ![p] = h])
        /\ h <= Pointer(p) /\ rest[proc[p].rest].high[p] \in Nat /\ Pointer(p) \in Nat
  BY MarkDoes
<1>3. ReadOf(f) /\ NumOf(f)
  BY DEF ReadOf
<1>4. NumOf(f)' /\ Len(m) \in Nat /\ jhr'[f].msgs = m /\ \A i \in 1..Len(m) : m[i] \in Header
  BY <1>1, <1>3, FileIs DEF NumOf
<1>5. CASE f # proc[p].rest
  <2>1. rest'[f] = rest[f]
    BY <1>2, <1>5 DEF HighOnly
  <2> QED BY <1>3, <1>4, <2>1, ReadFrame
<1>6. CASE f = proc[p].rest
  <2>1. rest[f].high \in [Proc -> Nat] /\ rest'[f].high = [rest[f].high EXCEPT ![p] = h]
    BY <1>2, <1>6, FileIs DEF HighOnly
  <2>2. proc[p].num \in 1..Len(m) /\ m[proc[p].num].id <= shown[p]
    BY <1>1, <1>6 DEF ScreenOf, OnScreen, At, Headers
  <2>3. h <= IF old < proc[p].num THEN proc[p].num ELSE old
    BY <1>2, <1>6 DEF Pointer
  <2>4. ASSUME NEW u \in Proc
        PROVE  /\ rest'[f].high[u] <= Len(m)
               /\ \A i \in 1..Len(m) : i <= rest'[f].high[u] /\ ~ m[i].del => m[i].id <= shown[u]
    <3>1. rest[f].high[u] <= Len(m) /\ \A i \in 1..Len(m) : i <= rest[f].high[u] /\ ~ m[i].del => m[i].id <= shown[u]
      BY <1>3 DEF ReadOf
    <3>2. CASE u # p
      BY <2>1, <3>1, <3>2
    <3>3. CASE u = p
      <4>1. rest'[f].high[u] = h /\ old \in Nat /\ old <= Len(m)
        BY <2>1, <3>1, <3>3
      <4>2. ASSUME NEW i \in 1..Len(m), i <= h, ~ m[i].del PROVE m[i].id <= shown[u]
        <5>1. CASE i <= old
          BY <3>1, <3>3, <4>2, <5>1
        <5>2. CASE ~ (i <= old)
          <6>1. i <= proc[p].num
            BY <1>4, <2>2, <2>3, <4>1, <4>2, <5>2
          <6>2. i = proc[p].num \/ m[i].id < m[proc[p].num].id
            BY <2>2, <6>1 DEF First, Ordered, OrderOf
          <6>3. m[i].id \in Nat /\ m[proc[p].num].id \in Nat /\ shown[p] \in Nat
            BY <1>4, <2>2, ShownGrows, Bounded, SMTT(60) DEF Header, Msg
          <6> HIDE DEF m
          <6> QED BY <2>2, <3>3, <6>2, <6>3
        <5> QED BY <5>1, <5>2
      <4>3. h <= Len(m)
        BY <1>4, <2>2, <2>3, <4>1
      <4> QED BY <4>1, <4>2, <4>3
    <3> QED BY <3>2, <3>3
  <2> HIDE DEF m
  <2> QED BY <1>1, <1>4, <2>4 DEF ReadOf, m
<1> QED BY <1>5, <1>6

\* A pack finds every message, moves the pointers to the new numbers of what they passed, and
\* copies them.
LEMMA ReadPacks ==
  ASSUME First, IndexFits, NEW p \in Proc, Steps(p), PacksInto(p), crossed' = {}, ~ mistaken',
         \A f \in File : ReadOf(f), NEW f \in File
  PROVE  ReadOf(f)'
<1>1. PICK short \in BOOLEAN : PackCopy(p, short) /\ At(p, "locked", "pack") /\ PackFiles(p, short)
  BY DEF PacksInto
<1> DEFINE h == proc[p].hdr
           m == Headers(p)
           high == rest[h].high
<1>2. proc[p].at \in WithHeader /\ h \in File /\ h <= files /\ m = jhr[h].msgs /\ m \in Seq(Header) /\ Len(m) \in Nat
  BY <1>1, ReadyFile, SMTT(60) DEF At, WithHeader
<1>3. proc[p].rest = h /\ crossed = {}
  BY <1>1, <1>2, CrossedGrows, Zenon DEF PackCopy
<1>4. ReadOf(h) /\ NumOf(h) /\ \A i \in 1..Len(m) : m[i].num = i
  BY <1>2 DEF ReadOf, NumOf
<1>5. high \in [Proc -> Nat]
  BY <1>2, FileIs
<1>6. Reached(p) = 1..Len(m)
  <2>1. DOMAIN m = 1..Len(m) /\ \A i \in 1..Len(m) : i \in DOMAIN Index(p) /\ Index(p)[i] = i
    <3> DEFINE x == rest[h].idx
    <3>1. IndexOf(h) /\ ~ mistaken /\ Index(p) = x
      BY <1>2, <1>3, MistakenStays DEF IndexFits, Index
    <3>2. Straight(x) /\ Leads(x, Len(m)) /\ DOMAIN x = 1..Len(x)
      BY <1>2, <1>3, <3>1, FileIs DEF IndexOf
    <3> HIDE DEF x
    <3>3. \A i \in 1..Len(m) : i \in DOMAIN x /\ x[i] = i
      BY <3>2 DEF Straight, Leads
    <3> QED BY <1>2, <3>1, <3>3
  <2>2. \A i \in 1..Len(m) : Readable(p, i)
    BY <1>4, <2>1 DEF Readable
  <2>3. \A i \in 1..Len(m) : \A k \in 1..i : k \in 1..Len(m)
    BY <1>2
  <2> QED BY <2>1, <2>2, <2>3 DEF Reached
<1>7. ASSUME NEW u \in Proc PROVE Moved(p)[u] = N(m, high[u]) /\ high[u] \in 0..Len(m)
  <2>1. high[u] \in Nat /\ high[u] <= Len(m)
    BY <1>2, <1>4, <1>5 DEF ReadOf
  <2>2. Moved(p)[u] = IF high[u] \in 1..Len(m) THEN N(m, high[u]) ELSE high[u]
    <3>1. rest[proc[p].rest].high \in [Proc -> Nat] /\ rest[proc[p].rest].high = high
      BY <1>3, <1>5
    <3>2. PICK r \in Nat : r = Len(m)
      BY <1>2
    <3>3. Reached(p) = 1..r /\ \A i \in 1..r : Headers(p)[i].num = i
      BY <1>4, <1>6, <3>2
    <3>4. Moved(p)[u] = LET x == rest[proc[p].rest].high[u] IN IF x \in 1..r THEN N(Headers(p), x) ELSE x
      BY <3>1, <3>3, MovedIs
    <3> QED BY <3>1, <3>2, <3>4
  <2>3. CASE high[u] = 0
    BY <2>1, <2>2, <2>3, <1>2, CountZero
  <2>4. CASE high[u] # 0
    BY <2>1, <2>2, <2>4, <1>2
  <2> QED BY <2>3, <2>4
<1>8. shown' = shown
  BY <1>1 DEF PackCopy
<1>9. files + 1 \in File /\ h # files + 1
  BY <1>1, <1>2, Bounded DEF PackFiles, First, Types
<1>10. CASE f = h
  <2>1. jhr'[f] = jhr[f] /\ rest'[f].high = Moved(p)
    BY <1>1, <1>3, <1>9, <1>10 DEF PackFiles
  <2>2. ASSUME NEW u \in Proc
        PROVE  /\ rest'[f].high[u] <= Len(m)
               /\ \A i \in 1..Len(m) : i <= rest'[f].high[u] /\ ~ m[i].del => m[i].id <= shown[u]
    <3>1. Moved(p)[u] = N(m, high[u]) /\ high[u] \in 0..Len(m) /\ high[u] \in Nat
      BY <1>2, <1>7
    <3>2. N(m, high[u]) \in Nat /\ N(m, high[u]) <= high[u]
      BY <3>1, Counts
    <3>3. \A i \in 1..Len(m) : i <= high[u] /\ ~ m[i].del => m[i].id <= shown[u]
      BY <1>2, <1>4 DEF ReadOf
    <3> HIDE DEF m, high
    <3> QED BY <1>2, <2>1, <3>1, <3>2, <3>3
  <2>3. NumOf(f)'
    BY <1>4, <1>10, <2>1 DEF NumOf
  <2> QED BY <1>2, <1>8, <1>10, <2>1, <2>2, <2>3 DEF ReadOf
<1>11. CASE f = files + 1
  <2> DEFINE w == Packed(p)
  <2>1. w \in Seq(Header) /\ Len(w) = N(m, Len(m)) /\ InOrder(p, Len(m)) /\ Len(w) \in Nat
    <3>1. Len(m) \in 0..Len(m)
      BY <1>2
    <3>2. \A r \in Nat : N(m, r) \in Nat
      BY Counts
    <3>3. InOrder(p, Len(m))
      BY <1>2, <1>6, <3>1, PackedOrder
    <3>4. w \in Seq(Header) /\ Len(w) = N(m, Len(m))
      BY <1>2, <1>6, <3>1, PackedIs
    <3> QED BY <1>2, <3>2, <3>3, <3>4
  <2>2. jhr'[f].msgs = w
    BY <1>1, <1>11 DEF PackFiles
  <2>3. \A n \in 1..Len(w) :
          /\ w[n].num = n
          /\ \E i \in 1..Len(m) : ~ m[i].del /\ N(m, i) = n /\ w[n].id = m[i].id
    BY <2>1, Zenon DEF InOrder
  <2>4. NumOf(f)'
    BY <2>2, <2>3 DEF NumOf
  <2>5. ASSUME NEW u \in Proc
        PROVE  /\ rest'[f].high[u] <= Len(w)
               /\ \A n \in 1..Len(w) : n <= rest'[f].high[u] /\ ~ w[n].del => w[n].id <= shown[u]
    <3>1. Moved(p)[u] = N(m, high[u]) /\ high[u] \in 0..Len(m) /\ high[u] \in Nat
      BY <1>2, <1>7
    <3>2. PICK c \in Nat : rest'[f].high[u] = IF Moved(p)[u] > c THEN c ELSE Moved(p)[u]
      <4>1. PackedCount(p, Panic(p, short)) \in 0..(Wide - 1)
        <5>1. Panic(p, short) \in BOOLEAN
          BY DEF Panic
        <5> QED BY <1>2, <5>1, PackCountIs
      <4>2. PackedCount(p, Panic(p, short)) \in Nat
        BY <4>1, Bounded
      <4> QED BY <1>1, <1>11, <4>2 DEF PackFiles
    <3>3. N(m, high[u]) \in Nat /\ N(m, high[u]) <= N(m, Len(m)) /\ N(m, Len(m)) \in Nat
      BY <1>2, <3>1, Counts, CountGrows
    <3>4. rest'[f].high[u] \in Nat /\ rest'[f].high[u] <= N(m, high[u])
      BY <3>1, <3>2, <3>3
    <3>5. ASSUME NEW n \in 1..Len(w), n <= rest'[f].high[u] PROVE w[n].id <= shown[u]
      <4>1. PICK i \in 1..Len(m) : ~ m[i].del /\ N(m, i) = n /\ w[n].id = m[i].id
        BY <2>3
      <4>2. i \in Nat /\ n \in Nat /\ n <= N(m, high[u])
        BY <2>1, <3>3, <3>4, <3>5, <4>1
      <4>3. i <= high[u]
        <5>1. ASSUME ~ (i <= high[u]) PROVE FALSE
          <6>1. N(m, high[u]) < N(m, i)
            BY <3>1, <4>1, <4>2, <5>1, CountGrows
          <6> HIDE DEF m, high
          <6> QED BY <3>3, <4>1, <4>2, <6>1
        <5> QED BY <5>1
      <4>4. m[i].id <= shown[u]
        BY <1>2, <1>4, <4>1, <4>3 DEF ReadOf
      <4> QED BY <4>1, <4>4
    <3>6. rest'[f].high[u] <= Len(w)
      <4> HIDE DEF m, high, w
      <4> QED BY <2>1, <3>3, <3>4
    <3> QED BY <3>5, <3>6
  <2> HIDE DEF w
  <2> QED BY <1>8, <2>2, <2>4, <2>5 DEF ReadOf
<1>12. CASE f # h /\ f # files + 1
  <2>1. jhr'[f] = jhr[f] /\ rest'[f] = rest[f]
    BY <1>1, <1>3, <1>12 DEF PackFiles
  <2>2. ReadOf(f)
    OBVIOUS
  <2> QED BY <1>8, <2>1, <2>2 DEF ReadOf, NumOf
<1> QED BY <1>10, <1>11, <1>12

LEMMA NextKept ==
  ASSUME First, NEW p \in Proc, Steps(p), ~ mistaken', NEW q \in Proc, NextOf(q)
  PROVE  NextOf(q)'
<1> SUFFICES ASSUME proc'[q].at = "indexed" PROVE proc'[q].next = Len(Headers(q)') + 1
  BY DEF NextOf
<1>1. CASE q # p
  <2>1. proc'[q] = proc[q] /\ proc[q].at = "indexed" /\ proc[q].at \in Holding
    BY <1>1, ProcMoves DEF Mover, Holding
  <2>2. proc[q].hdr \in File /\ proc[q].hdr <= files
    BY <2>1, Finding DEF WithHeader
  <2>3. Len(jhr'[proc[q].hdr].msgs) = Len(jhr[proc[q].hdr].msgs)
    <3>1. ASSUME Begins(p) PROVE jhr'[proc[q].hdr].msgs = jhr[proc[q].hdr].msgs
      <4>1. proc[p].at \in Holding
        BY <3>1 DEF Begins, AddBegin, IsPhantom, Holding
      <4>2. proc[p].hdr # proc[q].hdr
        BY <1>1, <2>1, <2>2, <4>1, Alone
      <4> QED BY <2>2, <3>1, <4>2 DEF Begins, Adds1, MsgsOnly
    <3>2. ASSUME PacksInto(p) PROVE jhr'[proc[q].hdr] = jhr[proc[q].hdr]
      <4>1. proc[q].hdr # files + 1
        BY <2>2, Bounded DEF First, Types, File
      <4> QED BY <2>2, <3>2, <4>1 DEF PacksInto, PackFiles
    <3> QED BY <2>2, <3>1, <3>2, LenStays
  <2> QED BY <2>1, <2>3 DEF NextOf, Headers
<1>2. CASE q = p
  <2>1. AddIndex(p)
    <3>1. AddBegin(p) => proc'[p].at = "half"
      BY GoMoves DEF AddBegin, Place
    <3>2. Kill(p) => proc'[p].at = "off"
      BY KillMoves
    <3> QED BY <1>2, <3>1, <3>2, OpenedSteps
  <2>2. PICK h \in JAM_Highest(p) :
          /\ h \in Nat /\ proc'[p].next = h + 1
          /\ mistaken' = (mistaken \/ {h, Len(Index(p))} # {Len(Headers(p))})
    BY <2>1, IndexMoves
  <2>3. h = Len(Headers(p))
    BY <2>2
  <2>4. jhr' = jhr /\ proc'[p].hdr = proc[p].hdr
    BY <2>1, IndexMoves, Zenon DEF AddIndex
  <2> QED BY <1>2, <2>2, <2>3, <2>4 DEF Headers
<1> QED BY <1>1, <1>2

\* A message comes to the screen of a reader by Show, and stays there while the lock is awaited.
LEMMA ScreenMoves ==
  ASSUME First, NEW p \in Proc, Steps(p), OnScreen(p)', ~ mistaken'
  PROVE  \/ \E n \in Msg : Show(p, n)
         \/ OnScreen(p) /\ proc'[p].hdr = proc[p].hdr /\ proc'[p].num = proc[p].num
<1>1. ~ Kill(p) /\ ~ ShowNone(p) /\ ~ LockFails(p) /\ ~ MarkRead(p) /\ ~ DeleteEnd(p) /\ ~ AddCount(p) /\ ~ SetMsgArea(p)
  <2>1. JAM_Close(p) => ~ OnScreen(p)'
    BY CloseMoves DEF OnScreen
  <2>2. Kill(p) => ~ OnScreen(p)'
    BY KillMoves DEF OnScreen
  <2>3. SetMsgArea(p) => ~ OnScreen(p)'
    BY SelectMoves, SMTT(60) DEF OnScreen
  <2> QED BY <2>1, <2>2, <2>3 DEF ShowNone, LockFails, MarkRead, DeleteEnd, AddCount
<1>2. ~ AddIndex(p) /\ ~ AddBegin(p) /\ ~ AddEnd(p)
  BY IndexMoves, GoMoves DEF AddBegin, AddEnd, OnScreen, Place
<1>3. \A j \in Job : ~ OpenHeader(p, j)
  BY OpenHeaderMoves DEF OnScreen
<1>4. ~ OpenRest(p) /\ ~ PackClose(p) /\ ~ PackReplace(p) /\ \A short \in BOOLEAN : ~ PackCopy(p, short)
  BY OpenRestMoves, PackCloseMoves, RenameMoves, PackMoves DEF OnScreen
<1>5. \A n \in Msg : ~ JAM_Delete(p, n) /\ ~ DeletePhantom(p, n) /\ ~ ShowPhantom(p, n)
  BY GoMoves DEF JAM_Delete, DeletePhantom, ShowPhantom, OnScreen, Place
<1>6. ~ DeleteCount(p)
  <2>1. proc[p].job = "kill" /\ Go(p, "locked") => ~ OnScreen(p)'
    BY GoMoves DEF OnScreen, Place
  <2>2. JAM_Close(p) => ~ OnScreen(p)'
    BY CloseMoves DEF OnScreen
  <2> QED BY <2>1, <2>2 DEF DeleteCount
<1>7. JAM_Lock(p) => OnScreen(p) /\ proc'[p].hdr = proc[p].hdr /\ proc'[p].num = proc[p].num
  <2> SUFFICES ASSUME JAM_Lock(p) PROVE OnScreen(p) /\ proc'[p].hdr = proc[p].hdr /\ proc'[p].num = proc[p].num
    OBVIOUS
  <2>1. Go(p, "locked") /\ (proc[p].job = "read" => proc[p].at = "found")
    BY DEF JAM_Lock
  <2>2. proc'[p].job = proc[p].job /\ proc'[p].hdr = proc[p].hdr /\ proc'[p].num = proc[p].num
    BY <2>1, GoMoves DEF Place
  <2> QED BY <2>1, <2>2 DEF OnScreen
<1> QED BY <1>1, <1>2, <1>3, <1>4, <1>5, <1>6, <1>7, Zenon DEF Steps

LEMMA ScreenKept ==
  ASSUME First, NEW p \in Proc, Steps(p), ~ mistaken', \A f \in File : ReadOf(f), NEW q \in Proc, ScreenOf(q)
  PROVE  ScreenOf(q)'
<1> SUFFICES ASSUME OnScreen(q)' PROVE ScreenOf(q)'
  BY DEF ScreenOf
<1>1. CASE OnScreen(q) /\ proc'[q].hdr = proc[q].hdr /\ proc'[q].num = proc[q].num
  <2>1. proc[q].at \in WithHeader
    BY <1>1 DEF OnScreen, WithHeader
  <2>2. PICK g \in File : g = proc[q].hdr /\ g <= files
    BY <2>1, ReadyFile
  <2>3. PICK n \in 1..Len(jhr[g].msgs) : n = proc[q].num /\ jhr[g].msgs[n].id <= shown[q]
    BY <1>1, <2>2 DEF ScreenOf, Headers
  <2>4. /\ Len(jhr[g].msgs) \in Nat /\ Len(jhr'[g].msgs) \in Nat /\ Len(jhr[g].msgs) <= Len(jhr'[g].msgs)
        /\ jhr'[g].msgs[n].id = jhr[g].msgs[n].id /\ jhr[g].msgs[n] \in Header
    BY <2>2, MsgsStay, FileIs
  <2>5. shown[q] \in Nat /\ shown'[q] \in Nat /\ shown[q] <= shown'[q]
    BY ShownGrows
  <2>6. n \in 1..Len(jhr'[g].msgs) /\ jhr'[g].msgs[n].id <= shown'[q]
    <3>1. jhr[g].msgs[n].id \in Nat
      BY <2>4, Bounded DEF Header, Msg
    <3>2. n \in 1..Len(jhr'[g].msgs)
      BY <2>4
    <3> QED BY <2>3, <2>4, <2>5, <3>1, <3>2, SMTT(60)
  <2> QED BY <1>1, <2>2, <2>3, <2>6 DEF ScreenOf, Headers
<1>2. CASE q = p /\ \E n \in Msg : Show(p, n)
  <2>1. PICK n \in Msg : Show(p, n)
    BY <1>2
  <2>2. /\ proc'[p].hdr = proc[p].hdr /\ proc'[p].num = n /\ proc[p].at \in WithHeader
    BY <2>1, ShowMoves DEF At, WithHeader
  <2>3. PICK i \in 1..Len(Headers(p)) :
          /\ Headers(p)[i].num = n
          /\ shown' = [shown EXCEPT ![p] = IF shown[p] < Headers(p)[i].id THEN Headers(p)[i].id ELSE shown[p]]
    BY <2>1, ShowMoves
  <2>4. proc[p].hdr \in File /\ Headers(p) = jhr[proc[p].hdr].msgs /\ Headers(p)[i] \in Header
    BY <2>2, <2>3, ReadyFile
  <2>5. i = n
    BY <2>3, <2>4 DEF ReadOf, NumOf
  <2>6. jhr' = jhr
    BY <2>1 DEF Show, base
  <2>7. Headers(p)[i].id \in Nat /\ shown \in [Proc -> 0..MaxMsgs]
    BY <2>4, Bounded DEF Header, Msg, First, Histories
  <2>8. Headers(p)[i].id <= shown'[p]
    BY <2>3, <2>7, Bounded
  <2> QED BY <1>2, <2>2, <2>3, <2>4, <2>5, <2>6, <2>8 DEF ScreenOf, Headers
<1>3. CASE q # p
  <2>1. proc'[q] = proc[q]
    BY <1>3, ProcMoves DEF Mover
  <2> QED BY <1>1, <2>1 DEF OnScreen
<1> QED BY <1>1, <1>2, <1>3, ScreenMoves

LEMMA SeenKept == ASSUME First, IndexFits, Seen, NEW p \in Proc, Steps(p) PROVE Seen'
<1> SUFFICES ASSUME crossed' = {}, ~ mistaken'
             PROVE  (\A f \in File : ReadOf(f)') /\ (\A q \in Proc : ScreenOf(q)') /\ (\A q \in Proc : NextOf(q)')
  BY DEF Seen
<1>1. (\A f \in File : ReadOf(f)) /\ (\A q \in Proc : ScreenOf(q)) /\ (\A q \in Proc : NextOf(q))
  BY CrossedGrows, MistakenStays DEF Seen
<1>2. ASSUME NEW f \in File PROVE ReadOf(f)'
  <2>1. CASE ~ AddBegin(p) /\ ~ MarkRead(p) /\ ~ PacksInto(p)
    <3>0. ~ Begins(p)
      BY <2>1 DEF Begins, IsPhantom, DeletePhantom
    <3>1. /\ Len(jhr'[f].msgs) = Len(jhr[f].msgs) /\ Len(jhr[f].msgs) \in Nat
          /\ \A i \in 1..Len(jhr[f].msgs) : /\ jhr'[f].msgs[i].id = jhr[f].msgs[i].id
                                            /\ jhr'[f].msgs[i].num = jhr[f].msgs[i].num
                                            /\ jhr[f].msgs[i].del => jhr'[f].msgs[i].del
      BY <2>1, <3>0, LenStays, DelStays, FileIs
    <3>2. rest'[f].high = rest[f].high
      BY <2>1, Unmarked
    <3>3. ReadOf(f) /\ NumOf(f)'
      BY <1>1, <3>1 DEF ReadOf, NumOf
    <3> QED BY <3>1, <3>2, <3>3, ReadFrame
  <2> QED BY <1>1, <2>1, ReadBegins, ReadMarks, ReadPacks
<1>3. ASSUME NEW q \in Proc PROVE ScreenOf(q)'
  BY <1>1, ScreenKept
<1>4. ASSUME NEW q \in Proc PROVE NextOf(q)'
  BY <1>1, NextKept
<1> QED BY <1>2, <1>3, <1>4

Third == Second /\ Seen

LEMMA InitThird == Init => Third
<1> SUFFICES ASSUME Init PROVE Third
  OBVIOUS
<1>1. Second
  BY InitSecond
<1>2. ASSUME NEW p \in Proc PROVE ScreenOf(p) /\ NextOf(p)
  BY DEF Init, ScreenOf, OnScreen, NextOf
<1>3. ASSUME NEW f \in File PROVE ReadOf(f)
  <2>1. Len(jhr[f].msgs) \in Nat /\ \A u \in Proc : rest[f].high[u] = 0
    BY <1>1, FileIs DEF Second, Init, BlankRest
  <2>2. NumOf(f)
    <3>1. CASE f = 1
      <4> DEFINE m == [i \in 1..Already |-> [num |-> i, id |-> i, del |-> FALSE, tail |-> FALSE]]
      <4>1. jhr[1].msgs = m
        BY <3>1 DEF Init
      <4>2. DOMAIN jhr[f].msgs = 1..Len(jhr[f].msgs)
        BY <1>1, FileIs DEF Second
      <4>3. \A i \in DOMAIN m : m[i].num = i
        OBVIOUS
      <4> QED BY <3>1, <4>1, <4>2, <4>3 DEF NumOf
    <3>2. CASE f # 1
      <4>1. jhr[f].msgs = <<>> /\ Len(<<>>) = 0
        BY <3>2 DEF Init, Blank
      <4> QED BY <4>1 DEF NumOf
    <3> QED BY <3>1, <3>2
  <2> QED BY <2>1, <2>2 DEF ReadOf
<1> QED BY <1>1, <1>2, <1>3 DEF Third, Seen

LEMMA ThirdKept == Third /\ [Next]_vars => Third'
<1> SUFFICES ASSUME Third, [Next]_vars PROVE Third'
  OBVIOUS
<1>1. Second'
  BY SecondKept DEF Third
<1>2. CASE Next
  <2>1. PICK p \in Proc : Steps(p)
    BY <1>2, StepOf
  <2> QED BY <1>1, <2>1, SeenKept, Zenon DEF Third, Second
<1>3. CASE UNCHANGED vars
  <2>1. UNCHANGED <<jhr, rest, proc, shown, crossed, mistaken>>
    BY <1>3 DEF vars, base, history
  <2>2. \A f \in File : ReadOf(f) => ReadOf(f)'
    BY <2>1 DEF ReadOf, NumOf
  <2>3. \A p \in Proc : (ScreenOf(p) => ScreenOf(p)') /\ (NextOf(p) => NextOf(p)')
    BY <2>1 DEF ScreenOf, OnScreen, Headers, NextOf
  <2> QED BY <1>1, <2>1, <2>2, <2>3 DEF Third, Seen
<1> QED BY <1>2, <1>3

LEMMA UnreadIs == Third => UnreadKept
<1> SUFFICES ASSUME Third, name["hdr"] = name["rest"], name["hdr"] # 0, crossed = {}, ~ mistaken,
                    NEW u \in Proc, NEW i \in DOMAIN jhr[name["hdr"]].msgs,
                    ~ jhr[name["hdr"]].msgs[i].del,
                    jhr[name["hdr"]].msgs[i].num <= rest[name["hdr"]].high[u]
             PROVE  jhr[name["hdr"]].msgs[i].id <= shown[u]
  BY DEF UnreadKept
<1>1. PICK f \in File : f = name["hdr"]
  BY Bounded DEF Third, Second, First, Types, File
<1>2. DOMAIN jhr[f].msgs = 1..Len(jhr[f].msgs)
  BY FileIs DEF Third, Second
<1>3. ReadOf(f)
  BY DEF Third, Seen
<1> QED BY <1>1, <1>2, <1>3 DEF ReadOf, NumOf

\* Whatever is added, deleted, read and packed: what the pointer of a user has passed was not later
\* than what the user was shown, as long as every number and every index was the place of its message,
\* none was found that is not there, and nobody had files of two generations open (Read_a_Msg of
\* ftnbbs/mail.c, JAM_Pack of lib/jammsg.c).
THEOREM UnreadStays == Spec => []UnreadKept
BY InitThird, ThirdKept, UnreadIs, PTL DEF Spec

=============================================================================
