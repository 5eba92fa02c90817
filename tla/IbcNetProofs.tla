---------------------------- MODULE IbcNetProofs ----------------------------
(***************************************************************************)
(* IbcNet for any servers, users and channels.  In a network without loops *)
(* nobody is left on a list behind a link that is cut; in one that is a    *)
(* tree, all servers know all servers once the network is at rest.         *)
(*   When the link of two neighbours is cut the other servers fall on two  *)
(* sides.  Everything a neighbour says is about its side (Later), and the  *)
(* router of a server on a list is the neighbour whose side it is on       *)
(* (Routes); the two ends of a link disagree only as long as an answer is  *)
(* on its way (PairOk).                                                    *)
(***************************************************************************)
EXTENDS IbcNet, FiniteSetTheorems, WellFoundedInduction, TLAPS

Pick(T) == CHOOSE x \in T : TRUE

FoldsOver(h, S, base, F) ==
  /\ h[{}] = base
  /\ \A T \in SUBSET S : T # {} => h[T] = F[<<Pick(T), h[T \ {Pick(T)}]>>]

\* Every set of subsets of a finite set has a member with no proper subset in it.
LEMMA Smallest ==
  ASSUME NEW S, IsFiniteSet(S), NEW B, B \subseteq SUBSET S, B # {}
  PROVE  \E T \in B : \A U \in B : ~(U \subseteq T /\ U # T)
<1> DEFINE R == StrictSubsetOrdering(S)
<1>1. IsWellFoundedOn(R, FiniteSubsetsOf(S))
  BY FS_StrictSubsetOrderingWellFounded
<1>2. B \subseteq FiniteSubsetsOf(S)
  BY FS_Subset DEF FiniteSubsetsOf
<1> HIDE DEF R
<1>3. \E T \in B : \A U \in B : ~(<<U, T>> \in R)
  BY <1>1, <1>2, WFMin
<1> QED
  BY <1>3, <1>2 DEF R, StrictSubsetOrdering

LEMMA FoldsAgree ==
  ASSUME NEW S, IsFiniteSet(S), NEW base, NEW F
  PROVE  \A S1, S2 \in SUBSET S : \A h1, h2 :
           FoldsOver(h1, S1, base, F) /\ FoldsOver(h2, S2, base, F)
             => \A T \in SUBSET (S1 \intersect S2) : h1[T] = h2[T]
<1> SUFFICES ASSUME NEW S1 \in SUBSET S, NEW S2 \in SUBSET S, NEW h1, NEW h2,
                    FoldsOver(h1, S1, base, F), FoldsOver(h2, S2, base, F)
             PROVE  \A T \in SUBSET (S1 \intersect S2) : h1[T] = h2[T]
  OBVIOUS
<1> DEFINE B == {T \in SUBSET (S1 \intersect S2) : h1[T] # h2[T]}
<1>1. SUFFICES ASSUME B # {} PROVE FALSE
  OBVIOUS
<1>2. PICK T \in B : \A U \in B : ~(U \subseteq T /\ U # T)
  <2>1. B \subseteq SUBSET S
    OBVIOUS
  <2> HIDE DEF B
  <2> QED
    BY <1>1, <2>1, Smallest
<1>3. T # {}
  BY DEF FoldsOver
<1>4. Pick(T) \in T
  BY <1>3 DEF Pick
<1>5. T \ {Pick(T)} \notin B
  BY <1>2, <1>4
<1>6. h1[T \ {Pick(T)}] = h2[T \ {Pick(T)}]
  BY <1>5
<1>7. h1[T] = h2[T]
  BY <1>3, <1>6 DEF FoldsOver
<1> QED
  BY <1>7

LEMMA FoldExists ==
  ASSUME NEW S, IsFiniteSet(S), NEW V, NEW base \in V, NEW F \in [S \X V -> V]
  PROVE  \E g \in [SUBSET S -> V] : FoldsOver(g, S, base, F)
<1> DEFINE Good(T, h) == h \in [SUBSET T -> V] /\ FoldsOver(h, T, base, F)
           B == {T \in SUBSET S : ~\E h : Good(T, h)}
<1>1. SUFFICES ASSUME B # {} PROVE FALSE
  OBVIOUS
<1>2. PICK T \in B : \A U \in B : ~(U \subseteq T /\ U # T)
  <2>1. B \subseteq SUBSET S
    OBVIOUS
  <2> HIDE DEF B
  <2> QED
    BY <1>1, <2>1, Smallest
<1> DEFINE of(U) == CHOOSE h : Good(U, h)
<1>3. \A U \in SUBSET T : U # T => Good(U, of(U))
  <2> TAKE U \in SUBSET T
  <2> HAVE U # T
  <2>1. \E h : Good(U, h)
    BY <1>2
  <2> HIDE DEF Good
  <2> QED
    BY <2>1
<1>4. \A U \in SUBSET T : U # T => of(U) \in [SUBSET U -> V] /\ FoldsOver(of(U), U, base, F)
  BY <1>3
<1> HIDE DEF of
<1> DEFINE At(U) == IF U = {} THEN base ELSE F[<<Pick(U), of(U \ {Pick(U)})[U \ {Pick(U)}]>>]
           g == [U \in SUBSET T |-> At(U)]
<1>5. \A U \in SUBSET T : U # {} => Pick(U) \in U
  BY DEF Pick
<1>6. \A U \in SUBSET T : At(U) \in V
  <2> TAKE U \in SUBSET T
  <2>1. CASE U = {}
    BY <2>1
  <2>2. CASE U # {}
    <3>1. Pick(U) \in S /\ U \ {Pick(U)} \in SUBSET T /\ U \ {Pick(U)} # T
      BY <2>2, <1>5
    <3> DEFINE W == U \ {Pick(U)}
    <3>2. of(W) \in [SUBSET W -> V]
      BY <3>1, <1>4
    <3>3. of(W)[W] \in V
      <4> HIDE DEF W
      <4> QED
        BY <3>2
    <3>4. At(U) = F[<<Pick(U), of(W)[W]>>]
      BY <2>2
    <3> HIDE DEF At, W
    <3> QED
      BY <3>1, <3>3, <3>4
  <2> QED
    BY <2>1, <2>2
<1>7. \A U \in SUBSET T : U # T => At(U) = of(U)[U]
  <2> TAKE U \in SUBSET T
  <2> HAVE U # T
  <2>1. FoldsOver(of(U), U, base, F)
    BY <1>4
  <2>2. CASE U = {}
    BY <2>1, <2>2 DEF FoldsOver
  <2>3. CASE U # {}
    <3> DEFINE W == U \ {Pick(U)}
    <3>1. W \in SUBSET T /\ W # T /\ W \subseteq U
      BY <1>5, <2>3
    <3>2. FoldsOver(of(W), W, base, F)
      BY <3>1, <1>4
    <3>3. U \in SUBSET S /\ W \in SUBSET S /\ W \in SUBSET (U \intersect W)
      BY <3>1
    <3> HIDE DEF W
    <3>4. \A X \in SUBSET (U \intersect W) : of(U)[X] = of(W)[X]
      <4>1. \A S1, S2 \in SUBSET S : \A h1, h2 :
              FoldsOver(h1, S1, base, F) /\ FoldsOver(h2, S2, base, F)
                => \A X \in SUBSET (S1 \intersect S2) : h1[X] = h2[X]
        BY FoldsAgree
      <4> QED
        BY <2>1, <3>2, <3>3, <4>1
    <3>5. of(U)[W] = of(W)[W]
      BY <3>4, <3>3
    <3>6. of(U)[U] = F[<<Pick(U), of(U)[W]>>]
      BY <2>1, <2>3 DEF FoldsOver, W
    <3> QED
      BY <2>3, <3>5, <3>6 DEF W
  <2> QED
    BY <2>2, <2>3
<1>8. FoldsOver(g, T, base, F)
  <2>1. g[{}] = base
    OBVIOUS
  <2>2. ASSUME NEW U \in SUBSET T, U # {}
        PROVE  g[U] = F[<<Pick(U), g[U \ {Pick(U)}]>>]
    <3> DEFINE W == U \ {Pick(U)}
    <3>1. W \in SUBSET T /\ W # T
      BY <1>5, <2>2
    <3>2. g[W] = At(W) /\ g[U] = At(U)
      BY <3>1
    <3>3. g[W] = of(W)[W]
      BY <3>1, <3>2, <1>7
    <3>4. At(U) = F[<<Pick(U), of(W)[W]>>]
      BY <2>2
    <3> HIDE DEF g, At, W
    <3>5. g[U] = F[<<Pick(U), g[W]>>]
      BY <3>2, <3>3, <3>4
    <3> QED
      BY <3>5 DEF W
  <2> HIDE DEF g
  <2> QED
    BY <2>1, <2>2 DEF FoldsOver
<1>9. g \in [SUBSET T -> V]
  <2> HIDE DEF At
  <2> QED
    BY <1>6
<1>10. Good(T, g)
  <2> HIDE DEF g
  <2> QED
    BY <1>8, <1>9
<1> QED
  <2> HIDE DEF Good, g
  <2> QED
    BY <1>10, <1>2

\* The same, as far as the results are in V; and a relation of sets to results that
\* every step of a fold keeps.
FoldsIn(h, S, V, base, F) ==
  /\ h[{}] = base
  /\ \A T \in SUBSET S :
       T # {} /\ h[T \ {Pick(T)}] \in V => h[T] = F[<<Pick(T), h[T \ {Pick(T)}]>>]

Keeps(S, F, R) ==
  \A T \in SUBSET S : \A x \in T : \A v \in R[T \ {x}] : F[<<x, v>>] \in R[T]

\* What a fold over a finite set leads to, from what each of its steps keeps.
LEMMA FoldLeads ==
  ASSUME NEW S, IsFiniteSet(S), NEW V, NEW base \in V, NEW F \in [S \X V -> V],
         NEW R \in [SUBSET S -> SUBSET V], base \in R[{}], Keeps(S, F, R),
         NEW h, FoldsIn(h, S, V, base, F)
  PROVE  h[S] \in R[S]
<1> DEFINE B == {T \in SUBSET S : h[T] \notin R[T]}
<1>1. SUFFICES ASSUME B # {} PROVE FALSE
  OBVIOUS
<1>2. PICK T \in B : \A U \in B : ~(U \subseteq T /\ U # T)
  <2>1. B \subseteq SUBSET S
    OBVIOUS
  <2> HIDE DEF B
  <2> QED
    BY <1>1, <2>1, Smallest
<1>3. T # {}
  BY DEF FoldsIn
<1>4. Pick(T) \in T
  BY <1>3 DEF Pick
<1>5. T \ {Pick(T)} \notin B
  BY <1>2, <1>4
<1>6. h[T \ {Pick(T)}] \in R[T \ {Pick(T)}] /\ h[T \ {Pick(T)}] \in V
  BY <1>5
<1>7. h[T] = F[<<Pick(T), h[T \ {Pick(T)}]>>]
  BY <1>3, <1>6 DEF FoldsIn
<1> QED
  BY <1>4, <1>6, <1>7 DEF Keeps

\* One sequence after the other, in the order the elements are picked.
Joined(g, S, f) ==
  [T \in SUBSET S |-> IF T = {} THEN <<>> ELSE g[T \ {Pick(T)}] \o f[Pick(T)]]

HasAll(q, p) == \A i \in DOMAIN p : \E j \in DOMAIN q : q[j] = p[i]

LEMMA HasAllLeft ==
  ASSUME NEW M, NEW p \in Seq(M), NEW q \in Seq(M), NEW r, HasAll(p, r)
  PROVE  HasAll(p \o q, r)
<1>1. \A j \in DOMAIN p : j \in DOMAIN (p \o q) /\ (p \o q)[j] = p[j]
  OBVIOUS
<1> QED
  BY <1>1 DEF HasAll

LEMMA HasAllRight ==
  ASSUME NEW M, NEW p \in Seq(M), NEW q \in Seq(M)
  PROVE  HasAll(p \o q, q)
<1>1. \A j \in DOMAIN q : Len(p) + j \in DOMAIN (p \o q) /\ (p \o q)[Len(p) + j] = q[j]
  OBVIOUS
<1> QED
  BY <1>1 DEF HasAll

LEMMA JoinedIs ==
  ASSUME NEW S, IsFiniteSet(S), NEW M, NEW f \in [S -> Seq(M)]
  PROVE  /\ \E g : g = Joined(g, S, f)
         /\ \A h : h = Joined(h, S, f) => /\ h[S] \in Seq(M)
                                          /\ \A x \in S : HasAll(h[S], f[x])
<1> DEFINE V == Seq(M)
           F == [p \in S \X V |-> p[2] \o f[p[1]]]
           Tells(T, v) == \A x \in T : HasAll(v, f[x])
           R == [T \in SUBSET S |-> {v \in V : Tells(T, v)}]
<1>1. \A x \in S, v \in V : v \o f[x] \in V
  OBVIOUS
<1>2. F \in [S \X V -> V]
  BY <1>1
<1>3. \A x \in S, v \in V : F[<<x, v>>] = v \o f[x]
  OBVIOUS
<1>4. <<>> \in V
  OBVIOUS
<1>5. \A T \in SUBSET S : T # {} => Pick(T) \in T
  BY DEF Pick
<1>6. \E g : g = Joined(g, S, f)
  <2>1. PICK g \in [SUBSET S -> V] : FoldsOver(g, S, <<>>, F)
    <3> HIDE DEF F, V
    <3> QED
      BY <1>2, <1>4, FoldExists
  <2>2. ASSUME NEW T \in SUBSET S, T # {}
        PROVE  g[T] = g[T \ {Pick(T)}] \o f[Pick(T)]
    <3>1. g[T] = F[<<Pick(T), g[T \ {Pick(T)}]>>]
      BY <2>1, <2>2 DEF FoldsOver
    <3>2. Pick(T) \in S /\ T \ {Pick(T)} \in SUBSET S
      BY <1>5, <2>2
    <3>3. g[T \ {Pick(T)}] \in V
      BY <2>1, <3>2
    <3> HIDE DEF F, V
    <3> QED
      BY <3>1, <3>2, <3>3, <1>3
  <2>3. g[{}] = <<>>
    BY <2>1 DEF FoldsOver
  <2>4. g = Joined(g, S, f)
    <3> HIDE DEF F, V
    <3> QED
      BY <2>1, <2>2, <2>3 DEF Joined
  <2> QED
    BY <2>4
<1>7. ASSUME NEW h, h = Joined(h, S, f)
      PROVE  h[S] \in V /\ \A x \in S : HasAll(h[S], f[x])
  <2>1. h[{}] = <<>> /\ \A T \in SUBSET S : T # {} => h[T] = h[T \ {Pick(T)}] \o f[Pick(T)]
    BY <1>7 DEF Joined
  <2>2. \A T \in SUBSET S : T # {} /\ h[T \ {Pick(T)}] \in V
                             => h[T] = F[<<Pick(T), h[T \ {Pick(T)}]>>]
    <3> HIDE DEF F, V
    <3> QED
      BY <2>1, <1>3, <1>5
  <2>3. /\ R \in [SUBSET S -> SUBSET V]
        /\ \A T \in SUBSET S : \A v : v \in R[T] <=> v \in V /\ Tells(T, v)
    <3> HIDE DEF Tells, V
    <3> QED
      OBVIOUS
  <2>4. <<>> \in R[{}]
    <3>1. Tells({}, <<>>)
      OBVIOUS
    <3> HIDE DEF Tells, V, R
    <3> QED
      BY <3>1, <1>4, <2>3
  <2>5. ASSUME NEW T \in SUBSET S, NEW x \in T, NEW v \in R[T \ {x}]
        PROVE  F[<<x, v>>] \in R[T]
    <3>1. v \in V /\ Tells(T \ {x}, v)
      <4>1. T \ {x} \in SUBSET S
        OBVIOUS
      <4> HIDE DEF Tells, V, R
      <4> QED
        BY <2>3, <4>1
    <3>2. ASSUME NEW y \in T PROVE HasAll(v \o f[x], f[y])
      <4>1. CASE y = x
        BY <3>1, <4>1, HasAllRight
      <4>2. CASE y # x
        <5>1. HasAll(v, f[y])
          BY <4>2, <3>1
        <5> QED
          BY <5>1, <3>1, HasAllLeft
      <4> QED
        BY <4>1, <4>2
    <3>3. F[<<x, v>>] = v \o f[x] /\ v \o f[x] \in V
      BY <1>1, <1>3, <3>1
    <3>4. Tells(T, v \o f[x])
      BY <3>2
    <3> HIDE DEF F, V, Tells, R
    <3> QED
      BY <3>3, <3>4, <2>3
  <2>6. h[S] \in R[S]
    <3>1. Keeps(S, F, R)
      <4> HIDE DEF F, V, R
      <4> QED
        BY <2>5 DEF Keeps
    <3>2. FoldsIn(h, S, V, <<>>, F)
      <4> HIDE DEF F, V, R
      <4> QED
        BY <2>1, <2>2 DEF FoldsIn
    <3> HIDE DEF F, V, R
    <3> QED
      BY <1>2, <1>4, <2>3, <2>4, <3>1, <3>2, FoldLeads
  <2>7. h[S] \in V /\ Tells(S, h[S])
    <3> HIDE DEF F, V, Tells, R
    <3> QED
      BY <2>6, <2>3
  <2> QED
    BY <2>7
<1> QED
  BY <1>6, <1>7

LEMMA AboutServersIs ==
  ASSUME NEW S, IsFiniteSet(S)
  PROVE  /\ AboutServers(S) \in Seq([cmd : {"SERVER"}, name : S])
         /\ \A x \in S : \E i \in DOMAIN AboutServers(S) :
               AboutServers(S)[i] = [cmd |-> "SERVER", name |-> x]
<1> DEFINE M == [cmd : {"SERVER"}, name : S]
           f == [x \in S |-> <<[cmd |-> "SERVER", name |-> x]>>]
           body(g) == [T \in SUBSET S |->
                         IF T = {} THEN <<>>
                         ELSE g[T \ {Pick(T)}] \o <<[cmd |-> "SERVER", name |-> Pick(T)]>>]
           h == CHOOSE g : g = body(g)
<1>1. AboutServers(S) = h[S]
  BY DEF AboutServers, FoldSet, MapThenFoldSet, Pick
<1>2. f \in [S -> Seq(M)]
  OBVIOUS
<1>3. \A T \in SUBSET S : T # {} => Pick(T) \in S
  BY DEF Pick
<1>4. \A g : body(g) = Joined(g, S, f)
  BY <1>3 DEF Joined
<1>5. \E g : g = body(g)
  <2> HIDE DEF body, f, M
  <2> QED
    BY <1>2, <1>4, JoinedIs
<1>6. h = body(h)
  <2> HIDE DEF body
  <2> QED
    BY <1>5
<1>7. h[S] \in Seq(M) /\ \A x \in S : HasAll(h[S], f[x])
  <2> HIDE DEF body, f, M, h
  <2> QED
    BY <1>2, <1>4, <1>6, JoinedIs
<1>8. \A x \in S : f[x] = <<[cmd |-> "SERVER", name |-> x]>>
  OBVIOUS
<1> HIDE DEF h, f
<1> QED
  BY <1>1, <1>7, <1>8 DEF HasAll

(***************************************************************************)
(* Types.  What the operators on the lists do to the lists.                *)
(***************************************************************************)
LEMMA UsersFinite ==
  ASSUME NEW S \in SUBSET User
  PROVE  IsFiniteSet(S) /\ Cardinality(S) \in Nat
BY FinitelyMany, FS_Subset, FS_CardinalityType

LEMMA DelUsers ==
  ASSUME NEW s \in Server, NEW d, ListsOK(s, d), NEW U
  PROVE  /\ ListsOK(s, del_users(d, U))
         /\ del_users(d, U).srv = d.srv
         /\ DOMAIN del_users(d, U).usr = DOMAIN d.usr \ U
<1> DEFINE chn == [c \in Channel |->
                     IF d.chn[c] > Gone(d, U, c) THEN d.chn[c] - Gone(d, U, c) ELSE 0]
<1>1. \A c \in Channel : Gone(d, U, c) \in Nat
  <2> TAKE c \in Channel
  <2>1. U \intersect InChannel(d, c) \in SUBSET User
    BY DEF ListsOK, InChannel
  <2> QED
    BY <2>1, UsersFinite DEF Gone
<1>2. chn \in [Channel -> Nat]
  BY <1>1 DEF ListsOK
<1>3. del_users(d, U) = [srv |-> d.srv, usr |-> Without(d.usr, U), chn |-> chn]
  BY DEF del_users, ListsOK
<1>4. /\ DOMAIN Without(d.usr, U) = DOMAIN d.usr \ U
      /\ \A u \in DOMAIN d.usr \ U : Without(d.usr, U)[u] = d.usr[u]
      /\ Without(d.usr, U) \in [DOMAIN d.usr \ U -> [nick : Nick, channel : Channel \union {None}]]
  BY DEF ListsOK, Without
<1> HIDE DEF chn
<1> QED
  BY <1>2, <1>3, <1>4 DEF ListsOK

LEMMA LeaveIs ==
  ASSUME NEW s \in Server, NEW d, ListsOK(s, d), NEW c \in Channel \union {None}
  PROVE  /\ ListsOK(s, Leave(d, c))
         /\ Leave(d, c).srv = d.srv /\ Leave(d, c).usr = d.usr
<1>1. CASE c # None /\ d.chn[c] > 0
  <2>1. Leave(d, c) = [srv |-> d.srv, usr |-> d.usr, chn |-> [d.chn EXCEPT ![c] = @ - 1]]
    BY <1>1 DEF Leave, ListsOK
  <2>2. [d.chn EXCEPT ![c] = @ - 1] \in [Channel -> Nat]
    BY <1>1 DEF ListsOK
  <2> QED
    BY <2>1, <2>2 DEF ListsOK
<1>2. CASE ~(c # None /\ d.chn[c] > 0)
  BY <1>2 DEF Leave
<1> QED
  BY <1>1, <1>2

LEMMA AddServer ==
  ASSUME NEW s \in Server, NEW d, ListsOK(s, d), NEW n \in Server,
         NEW router \in Neighbours(s), n \notin DOMAIN d.srv
  PROVE  /\ ListsOK(s, add_server(d, n, router))
         /\ add_server(d, n, router).usr = d.usr
         /\ DOMAIN add_server(d, n, router).srv = DOMAIN d.srv \union {n}
         /\ add_server(d, n, router).srv[n] = router
         /\ \A x \in DOMAIN d.srv : add_server(d, n, router).srv[x] = d.srv[x]
<1> DEFINE srv == With(d.srv, n, router)
<1>1. /\ DOMAIN srv = DOMAIN d.srv \union {n}
      /\ srv[n] = router
      /\ \A x \in DOMAIN d.srv : srv[x] = d.srv[x]
      /\ srv \in [DOMAIN srv -> Neighbours(s) \union {s}]
  BY DEF ListsOK, With
<1>2. add_server(d, n, router) = [srv |-> srv, usr |-> d.usr, chn |-> d.chn]
  BY DEF add_server, ListsOK
<1> HIDE DEF srv
<1> QED
  BY <1>1, <1>2 DEF ListsOK

LEMMA AddUser ==
  ASSUME NEW s \in Server, NEW d, ListsOK(s, d), NEW u \in User, u \notin DOMAIN d.usr
  PROVE  /\ ListsOK(s, add_user(d, u))
         /\ add_user(d, u).srv = d.srv
         /\ DOMAIN add_user(d, u).usr = DOMAIN d.usr \union {u}
<1> DEFINE usr == With(d.usr, u, [nick |-> u, channel |-> None])
<1>1. u \in Nick
  BY DEF Nick
<1>2. /\ DOMAIN usr = DOMAIN d.usr \union {u}
      /\ usr[u] = [nick |-> u, channel |-> None]
      /\ \A x \in DOMAIN d.usr : usr[x] = d.usr[x]
      /\ usr = [x \in DOMAIN usr |-> usr[x]]
  BY DEF With
<1>3. usr \in [DOMAIN usr -> [nick : Nick, channel : Channel \union {None}]]
  <2> HIDE DEF usr
  <2> QED
    BY <1>1, <1>2 DEF ListsOK
<1>4. add_user(d, u) = [srv |-> d.srv, usr |-> usr, chn |-> d.chn]
  BY DEF add_user, ListsOK
<1>5. \A x \in DOMAIN usr : usr[x].nick \in Nicks[x] \union {x}
  <2> HIDE DEF usr
  <2> QED
    BY <1>2 DEF ListsOK
<1> HIDE DEF usr
<1> QED
  BY <1>2, <1>3, <1>4, <1>5 DEF ListsOK

LEMMA SetChannelIs ==
  ASSUME NEW s \in Server, NEW d, ListsOK(s, d), NEW U, NEW c \in Channel \union {None}
  PROVE  /\ ListsOK(s, SetChannel(d, U, c))
         /\ SetChannel(d, U, c).srv = d.srv
         /\ DOMAIN SetChannel(d, U, c).usr = DOMAIN d.usr
<1> DEFINE usr == [u \in DOMAIN d.usr |->
                     IF u \in U THEN [d.usr[u] EXCEPT !.channel = c] ELSE d.usr[u]]
<1>1. \A u \in DOMAIN d.usr : d.usr[u] \in [nick : Nick, channel : Channel \union {None}]
  BY DEF ListsOK
<1>2. \A u \in DOMAIN d.usr : /\ usr[u] \in [nick : Nick, channel : Channel \union {None}]
                              /\ usr[u].nick = d.usr[u].nick
  BY <1>1
<1>3. SetChannel(d, U, c) = [srv |-> d.srv, usr |-> usr, chn |-> d.chn]
  BY DEF SetChannel, ListsOK
<1>4. DOMAIN usr = DOMAIN d.usr /\ usr = [u \in DOMAIN d.usr |-> usr[u]]
  OBVIOUS
<1>5. usr \in [DOMAIN d.usr -> [nick : Nick, channel : Channel \union {None}]]
  <2> HIDE DEF usr
  <2> QED
    BY <1>2, <1>4
<1> HIDE DEF usr
<1> QED
  BY <1>2, <1>3, <1>4, <1>5 DEF ListsOK

LEMMA EnterIs ==
  ASSUME NEW s \in Server, NEW d, ListsOK(s, d), NEW c \in Channel
  PROVE  ListsOK(s, Enter(d, c)) /\ Enter(d, c).srv = d.srv /\ Enter(d, c).usr = d.usr
<1>1. Enter(d, c) = [srv |-> d.srv, usr |-> d.usr, chn |-> [d.chn EXCEPT ![c] = @ + 1]]
  BY DEF ListsOK, Enter
<1>2. [d.chn EXCEPT ![c] = @ + 1] \in [Channel -> Nat]
  BY DEF ListsOK
<1> QED
  BY <1>1, <1>2 DEF ListsOK

LEMMA Renamed ==
  ASSUME NEW s \in Server, NEW d, ListsOK(s, d), NEW u \in DOMAIN d.usr, NEW k \in Nicks[u]
  PROVE  LET d2 == [d EXCEPT !.usr[u].nick = k]
         IN  ListsOK(s, d2) /\ d2.srv = d.srv /\ DOMAIN d2.usr = DOMAIN d.usr
<1> DEFINE usr == [d.usr EXCEPT ![u] = [@ EXCEPT !.nick = k]]
<1>1. \A x \in DOMAIN d.usr : d.usr[x] \in [nick : Nick, channel : Channel \union {None}]
  BY DEF ListsOK
<1>2. u \in User /\ k \in Nick
  BY DEF ListsOK, Nick
<1>3. [d.usr[u] EXCEPT !.nick = k] = [nick |-> k, channel |-> d.usr[u].channel]
  BY <1>1
<1>4. /\ DOMAIN usr = DOMAIN d.usr /\ usr = [x \in DOMAIN d.usr |-> usr[x]]
      /\ usr[u] = [nick |-> k, channel |-> d.usr[u].channel]
      /\ \A x \in DOMAIN d.usr \ {u} : usr[x] = d.usr[x]
  BY <1>3
<1>5. [d EXCEPT !.usr[u].nick = k] = [srv |-> d.srv, usr |-> usr, chn |-> d.chn]
  BY DEF ListsOK
<1> HIDE DEF usr
<1>6. usr \in [DOMAIN d.usr -> [nick : Nick, channel : Channel \union {None}]]
  BY <1>1, <1>2, <1>4
<1>7. \A x \in DOMAIN usr : usr[x].nick \in Nicks[x] \union {x}
  BY <1>4 DEF ListsOK
<1> QED
  BY <1>4, <1>5, <1>6, <1>7 DEF ListsOK

LEMMA DelServer ==
  ASSUME NEW s \in Server, NEW d, ListsOK(s, d), NEW n
  PROVE  /\ ListsOK(s, del_server(d, n))
         /\ DOMAIN del_server(d, n).srv = DOMAIN d.srv \ {n}
         /\ \A x \in DOMAIN d.srv \ {n} : del_server(d, n).srv[x] = d.srv[x]
         /\ DOMAIN del_server(d, n).usr \subseteq DOMAIN d.usr
         /\ n \in DOMAIN d.srv => \A u \in DOMAIN del_server(d, n).usr : Home[u] # n
<1>1. CASE n \in DOMAIN d.srv
  <2> DEFINE U == UsersOf(d, {n})
             left == del_users(d, U)
  <2>1. ListsOK(s, left) /\ left.srv = d.srv /\ DOMAIN left.usr = DOMAIN d.usr \ U
    BY DelUsers
  <2>2. del_server(d, n) = [left EXCEPT !.srv = Without(@, {n})]
    BY <1>1 DEF del_server
  <2> HIDE DEF left
  <2>3. del_server(d, n) = [srv |-> Without(left.srv, {n}), usr |-> left.usr, chn |-> left.chn]
    BY <2>1, <2>2 DEF ListsOK
  <2>4. /\ DOMAIN Without(left.srv, {n}) = DOMAIN d.srv \ {n}
        /\ \A x \in DOMAIN d.srv \ {n} : Without(left.srv, {n})[x] = d.srv[x]
        /\ Without(left.srv, {n}) \in [DOMAIN Without(left.srv, {n}) -> Neighbours(s) \union {s}]
    BY <2>1 DEF Without, ListsOK
  <2>5. \A u \in DOMAIN left.usr : Home[u] # n
    BY <2>1 DEF UsersOf
  <2>6. /\ del_server(d, n).srv = Without(left.srv, {n})
        /\ del_server(d, n).usr = left.usr /\ del_server(d, n).chn = left.chn
        /\ del_server(d, n) = [srv |-> del_server(d, n).srv, usr |-> del_server(d, n).usr,
                               chn |-> del_server(d, n).chn]
    BY <2>3
  <2>7. ListsOK(s, del_server(d, n))
    BY <2>1, <2>4, <2>6 DEF ListsOK
  <2> QED
    BY <2>1, <2>4, <2>5, <2>6, <2>7
<1>2. CASE n \notin DOMAIN d.srv
  BY <1>2 DEF del_server
<1> QED
  BY <1>1, <1>2

LEMMA DelRouter ==
  ASSUME NEW s \in Server, NEW d, ListsOK(s, d), NEW n
  PROVE  /\ ListsOK(s, del_router(d, n))
         /\ DOMAIN del_router(d, n).srv = {x \in DOMAIN d.srv : d.srv[x] # n}
         /\ \A x \in DOMAIN del_router(d, n).srv : del_router(d, n).srv[x] = d.srv[x]
         /\ DOMAIN del_router(d, n).usr \subseteq DOMAIN d.usr
         /\ \A u \in DOMAIN del_router(d, n).usr :
               Home[u] \in DOMAIN d.srv => Home[u] \in DOMAIN del_router(d, n).srv
<1> DEFINE lost == {x \in DOMAIN d.srv : d.srv[x] = n}
           U == UsersOf(d, lost)
           left == del_users(d, U)
<1>1. ListsOK(s, left) /\ left.srv = d.srv /\ DOMAIN left.usr = DOMAIN d.usr \ U
  BY DelUsers
<1>2. del_router(d, n) = [left EXCEPT !.srv = Without(@, lost)]
  BY DEF del_router
<1> HIDE DEF left
<1>3. del_router(d, n) = [srv |-> Without(left.srv, lost), usr |-> left.usr, chn |-> left.chn]
  BY <1>1, <1>2 DEF ListsOK
<1>4. /\ DOMAIN Without(left.srv, lost) = {x \in DOMAIN d.srv : d.srv[x] # n}
      /\ \A x \in DOMAIN Without(left.srv, lost) : Without(left.srv, lost)[x] = d.srv[x]
      /\ Without(left.srv, lost) \in [DOMAIN Without(left.srv, lost) -> Neighbours(s) \union {s}]
  BY <1>1 DEF Without, ListsOK
<1>5. \A u \in DOMAIN left.usr : Home[u] \notin lost
  BY <1>1 DEF UsersOf
<1>6. /\ del_router(d, n).srv = Without(left.srv, lost)
      /\ del_router(d, n).usr = left.usr /\ del_router(d, n).chn = left.chn
      /\ del_router(d, n) = [srv |-> del_router(d, n).srv, usr |-> del_router(d, n).usr,
                             chn |-> del_router(d, n).chn]
  BY <1>3
<1>7. ListsOK(s, del_router(d, n))
  BY <1>1, <1>4, <1>6 DEF ListsOK
<1> QED
  BY <1>1, <1>4, <1>5, <1>6, <1>7

LEMMA Empty ==
  ASSUME NEW s \in Server
  PROVE  ListsOK(s, EmptyDb(s))
<1>1. <<>> \in [{} -> [nick : Nick, channel : Channel \union {None}]] /\ DOMAIN <<>> = {}
  OBVIOUS
<1>2. \A c \in Channel : EmptyDb(s).chn[c] = 0
  BY DEF EmptyDb
<1> QED
  BY <1>1, <1>2 DEF EmptyDb, ListsOK

(***************************************************************************)
(* The messages.                                                           *)
(***************************************************************************)
LEMMA UserMessages ==
  /\ \A u \in User : [cmd |-> "USER", user |-> u] \in UserMessage
  /\ \A k \in Nick, s \in Server : [cmd |-> "QUIT", nick |-> k, server |-> s] \in UserMessage
  /\ \A u \in User : \A k : k \in Nicks[u] => [cmd |-> "NICK", user |-> u, nick |-> k] \in UserMessage
  /\ \A k \in Nick, s \in Server, c \in Channel :
        [cmd |-> "JOIN", nick |-> k, server |-> s, channel |-> c] \in UserMessage
  /\ \A k \in Nick, s \in Server, c \in Channel :
        [cmd |-> "PART", nick |-> k, server |-> s, channel |-> c] \in UserMessage
<1> DEFINE A == [cmd : {"USER"}, user : User]
           Q == [cmd : {"QUIT"}, nick : Nick, server : Server]
           C == [cmd : {"JOIN", "PART"}, nick : Nick, server : Server, channel : Channel]
<1>1. UserMessage = A \union Q \union NickMessage \union C
  BY DEF UserMessage
<1>2. /\ \A u \in User : [cmd |-> "USER", user |-> u] \in A
      /\ \A k \in Nick, s \in Server : [cmd |-> "QUIT", nick |-> k, server |-> s] \in Q
  OBVIOUS
<1>3. \A u \in User : \A k : k \in Nicks[u] => [cmd |-> "NICK", user |-> u, nick |-> k] \in NickOf(u)
  BY DEF NickOf
<1>4. \A k \in Nick, s \in Server, c \in Channel :
        /\ [cmd |-> "JOIN", nick |-> k, server |-> s, channel |-> c] \in C
        /\ [cmd |-> "PART", nick |-> k, server |-> s, channel |-> c] \in C
  OBVIOUS
<1> HIDE DEF A, Q, C
<1>5. /\ A \subseteq UserMessage /\ Q \subseteq UserMessage
      /\ C \subseteq UserMessage /\ NickMessage \subseteq UserMessage
  BY <1>1
<1>6. \A u \in User : NickOf(u) \subseteq UserMessage
  <2> TAKE u \in User
  <2>1. NickOf(u) \subseteq NickMessage
    BY DEF NickMessage
  <2> QED
    BY <1>5, <2>1
<1>7. /\ \A u \in User : [cmd |-> "USER", user |-> u] \in UserMessage
      /\ \A k \in Nick, s \in Server : [cmd |-> "QUIT", nick |-> k, server |-> s] \in UserMessage
  BY <1>2, <1>5
<1>8. \A u \in User : \A k : k \in Nicks[u] => [cmd |-> "NICK", user |-> u, nick |-> k] \in UserMessage
  BY <1>3, <1>6
<1>9. \A k \in Nick, s \in Server, c \in Channel :
        /\ [cmd |-> "JOIN", nick |-> k, server |-> s, channel |-> c] \in UserMessage
        /\ [cmd |-> "PART", nick |-> k, server |-> s, channel |-> c] \in UserMessage
  BY <1>4, <1>5
<1> QED
  BY <1>7, <1>8, <1>9

LEMMA UserMessageFields ==
  ASSUME NEW m \in UserMessage
  PROVE  /\ m.cmd \in {"USER", "QUIT", "NICK", "JOIN", "PART"}
         /\ m.cmd = "USER" => m.user \in User
         /\ m.cmd = "NICK" => m.user \in User /\ m.nick \in Nicks[m.user]
         /\ m.cmd \in {"JOIN", "PART"} => m.channel \in Channel
<1> DEFINE A == [cmd : {"USER"}, user : User]
           Q == [cmd : {"QUIT"}, nick : Nick, server : Server]
           C == [cmd : {"JOIN", "PART"}, nick : Nick, server : Server, channel : Channel]
<1>1. m \in A \union Q \union NickMessage \union C
  BY DEF UserMessage
<1>2. CASE m \in A
  BY <1>2
<1>3. CASE m \in C
  BY <1>3
<1>4. CASE m \in NickMessage
  <2>1. PICK u \in User : m \in NickOf(u)
    BY <1>4 DEF NickMessage
  <2> QED
    BY <2>1 DEF NickOf
<1>5. m \in A \/ m \in Q \/ m \in C \/ m \in NickMessage
  <2> HIDE DEF A, Q, C
  <2> QED
    BY <1>1
<1>6. CASE m \in Q
  BY <1>6
<1> QED
  <2> HIDE DEF A, Q, C
  <2> QED
    BY <1>2, <1>3, <1>4, <1>5, <1>6

LEMMA AboutUserIs ==
  ASSUME NEW s \in Server, NEW d, ListsOK(s, d), NEW u \in DOMAIN d.usr
  PROVE  AboutUser(d, u) \in Seq(UserMessage)
<1>1. u \in User /\ u \in Nick /\ Home[u] \in Server
  BY UsersKnown DEF ListsOK, Nick
<1>2. [cmd |-> "USER", user |-> u] \in UserMessage
  BY <1>1, UserMessages
<1>3. d.usr[u].nick # u => [cmd |-> "NICK", user |-> u, nick |-> d.usr[u].nick] \in UserMessage
  BY <1>1, UserMessages DEF ListsOK
<1>4. d.usr[u].channel # None =>
        [cmd |-> "JOIN", nick |-> u, server |-> Home[u], channel |-> d.usr[u].channel]
          \in UserMessage
  <2>1. d.usr[u].channel # None => d.usr[u].channel \in Channel
    BY DEF ListsOK
  <2> QED
    BY <1>1, <2>1, UserMessages
<1> QED
  BY <1>2, <1>3, <1>4 DEF AboutUser

LEMMA ByeOfIs ==
  ASSUME NEW s \in Server, NEW d, ListsOK(s, d), NEW u \in DOMAIN d.usr
  PROVE  ByeOf(d, s, u) \in Seq(UserMessage)
<1>1. u \in User /\ d.usr[u].nick \in Nick
  BY DEF ListsOK
<1>2. [cmd |-> "QUIT", nick |-> d.usr[u].nick, server |-> s] \in UserMessage
  BY <1>1, UserMessages
<1>3. Public(d.usr[u].channel) =>
        [cmd |-> "PART", nick |-> d.usr[u].nick, server |-> s, channel |-> d.usr[u].channel]
          \in UserMessage
  BY <1>1, UserMessages DEF Public
<1> QED
  BY <1>2, <1>3 DEF ByeOf

LEMMA AboutUsersIs ==
  ASSUME NEW s \in Server, NEW d, ListsOK(s, d)
  PROVE  AboutUsers(d) \in Seq(UserMessage)
<1> DEFINE S == DOMAIN d.usr
           f == [x \in S |-> AboutUser(d, x)]
           body(g) == [T \in SUBSET S |->
                         IF T = {} THEN <<>> ELSE g[T \ {Pick(T)}] \o AboutUser(d, Pick(T))]
           h == CHOOSE g : g = body(g)
<1>1. AboutUsers(d) = h[S]
  BY DEF AboutUsers, FoldSet, MapThenFoldSet, Pick
<1>2. IsFiniteSet(S) /\ f \in [S -> Seq(UserMessage)]
  BY AboutUserIs, UsersFinite DEF ListsOK
<1>3. \A T \in SUBSET S : T # {} => Pick(T) \in S
  BY DEF Pick
<1>4. \A g : body(g) = Joined(g, S, f)
  <2> HIDE DEF S
  <2> QED
    BY <1>3 DEF Joined
<1>5. \E g : g = body(g)
  <2> HIDE DEF body, f, S
  <2> QED
    BY <1>2, <1>4, JoinedIs
<1>6. h = body(h)
  <2> HIDE DEF body
  <2> QED
    BY <1>5
<1>7. h[S] \in Seq(UserMessage)
  <2> HIDE DEF body, f, h, S
  <2> QED
    BY <1>2, <1>4, <1>6, JoinedIs
<1> HIDE DEF h, f, S
<1> QED
  BY <1>1, <1>7

LEMMA FarewellIs ==
  ASSUME NEW s \in Server, NEW d, ListsOK(s, d)
  PROVE  Farewell(d, s) \in Seq(UserMessage)
<1> DEFINE S == UsersOf(d, {s})
           f == [x \in S |-> ByeOf(d, s, x)]
           body(g) == [T \in SUBSET S |->
                         IF T = {} THEN <<>> ELSE g[T \ {Pick(T)}] \o ByeOf(d, s, Pick(T))]
           h == CHOOSE g : g = body(g)
<1>1. Farewell(d, s) = h[S]
  BY DEF Farewell, FoldSet, MapThenFoldSet, Pick
<1>2. IsFiniteSet(S) /\ f \in [S -> Seq(UserMessage)]
  BY ByeOfIs, UsersFinite DEF ListsOK, UsersOf
<1>3. \A T \in SUBSET S : T # {} => Pick(T) \in S
  BY DEF Pick
<1>4. \A g : body(g) = Joined(g, S, f)
  <2> HIDE DEF S
  <2> QED
    BY <1>3 DEF Joined
<1>5. \E g : g = body(g)
  <2> HIDE DEF body, f, S
  <2> QED
    BY <1>2, <1>4, JoinedIs
<1>6. h = body(h)
  <2> HIDE DEF body
  <2> QED
    BY <1>5
<1>7. h[S] \in Seq(UserMessage)
  <2> HIDE DEF body, f, h, S
  <2> QED
    BY <1>2, <1>4, <1>6, JoinedIs
<1> HIDE DEF h, f, S
<1> QED
  BY <1>1, <1>7

\* What s sends: to those it believes up.
SentBy(s, out, M) ==
  /\ out \in [Edge -> Seq(M)]
  /\ \A e \in Edge : out[e] # <<>> => e[1] = s /\ IsUp(s, e[2])

LEMMA NothingSent ==
  ASSUME NEW s, NEW M
  PROVE  SentBy(s, Nothing, M)
BY DEF SentBy, Nothing

LEMMA BroadcastSent ==
  ASSUME NEW s, NEW origin, NEW M, NEW msgs \in Seq(M)
  PROVE  SentBy(s, broadcast(s, origin, msgs), M)
BY DEF SentBy, broadcast

\* A step of s about users: its servers stay, and new users belong to known servers.
Talks(s, d, out) ==
  /\ ListsOK(s, d) /\ d.srv = db[s].srv
  /\ \A u \in DOMAIN d.usr : u \in DOMAIN db[s].usr \/ Home[u] \in DOMAIN d.srv
  /\ SentBy(s, out, UserMessage)

LEMMA IgnoredTalks ==
  ASSUME NEW s \in Server, ListsOK(s, db[s])
  PROVE  Talks(s, db[s], Nothing)
BY NothingSent DEF Talks

LEMMA UserTalks ==
  ASSUME TypeOK, NEW s \in Server, NEW n \in Server, NEW m \in UserMessage
  PROVE  LET r == do_command(s, n, m)
         IN  Talks(s, r.db, r.out) /\ r.link = link[<<s, n>>]
<1> DEFINE bc == broadcast(s, n, <<m>>)
<1>0. ListsOK(s, db[s])
  BY DEF TypeOK
<1>1. SentBy(s, bc, UserMessage)
  <2>1. <<m>> \in Seq(UserMessage)
    OBVIOUS
  <2> QED
    BY <2>1, BroadcastSent
<1>2. Talks(s, db[s], Nothing)
  BY <1>0, IgnoredTalks
<1>3. CASE m.cmd = "USER"
  <2>0. do_command(s, n, m) = command_user(s, n, m)
    BY <1>3 DEF do_command
  <2>1. m.user \in User
    BY <1>3, UserMessageFields
  <2>2. CASE MayAddUser(db[s], m.user)
    <3> DEFINE d == add_user(db[s], m.user)
    <3>1. command_user(s, n, m) = [db |-> d, link |-> link[<<s, n>>], out |-> bc]
      BY <2>2 DEF command_user, Passed
    <3>2. /\ ListsOK(s, d) /\ d.srv = db[s].srv
          /\ DOMAIN d.usr = DOMAIN db[s].usr \union {m.user}
      BY <1>0, <2>1, <2>2, AddUser DEF MayAddUser
    <3>3. Talks(s, d, bc)
      BY <1>1, <2>2, <3>2 DEF Talks, MayAddUser
    <3> HIDE DEF d, bc
    <3> QED
      BY <2>0, <3>1, <3>3
  <2>3. CASE ~MayAddUser(db[s], m.user)
    BY <1>2, <2>0, <2>3 DEF command_user, Ignored
  <2> QED
    BY <2>2, <2>3
<1>4. CASE m.cmd = "QUIT"
  <2>0. do_command(s, n, m) = command_quit(s, n, m)
    BY <1>4 DEF do_command
  <2> DEFINE d == del_users(db[s], UsersOf(db[s], {m.server}) \intersect {m.nick})
  <2>1. command_quit(s, n, m) = [db |-> d, link |-> link[<<s, n>>], out |-> bc]
    BY DEF command_quit, Passed
  <2>2. ListsOK(s, d) /\ d.srv = db[s].srv /\ DOMAIN d.usr \subseteq DOMAIN db[s].usr
    BY <1>0, DelUsers
  <2>3. Talks(s, d, bc)
    BY <1>1, <2>2 DEF Talks
  <2> HIDE DEF d, bc
  <2> QED
    BY <2>0, <2>1, <2>3
<1>5. CASE m.cmd = "NICK"
  <2>0. do_command(s, n, m) = command_nick(s, n, m)
    BY <1>5 DEF do_command
  <2>1. m.user \in User /\ m.nick \in Nicks[m.user]
    BY <1>5, UserMessageFields
  <2>2. CASE NickTaken(db[s], m.nick) \/ m.user \notin DOMAIN db[s].usr
    BY <1>2, <2>0, <2>2 DEF command_nick, Ignored
  <2>3. CASE ~(NickTaken(db[s], m.nick) \/ m.user \notin DOMAIN db[s].usr)
    <3> DEFINE d == [db[s] EXCEPT !.usr[m.user].nick = m.nick]
    <3>1. command_nick(s, n, m) = [db |-> d, link |-> link[<<s, n>>], out |-> bc]
      BY <2>3 DEF command_nick, Passed
    <3>2. ListsOK(s, d) /\ d.srv = db[s].srv /\ DOMAIN d.usr = DOMAIN db[s].usr
      BY <1>0, <2>1, <2>3, Renamed
    <3>3. Talks(s, d, bc)
      BY <1>1, <3>2 DEF Talks
    <3> HIDE DEF d, bc
    <3> QED
      BY <2>0, <3>1, <3>3
  <2> QED
    BY <2>2, <2>3
<1>6. CASE m.cmd = "JOIN"
  <2>0. do_command(s, n, m) = command_join(s, n, m)
    BY <1>6 DEF do_command
  <2>1. m.channel \in Channel
    BY <1>6, UserMessageFields
  <2>2. CASE m.channel \in Private
    BY <1>2, <2>0, <2>2 DEF command_join, Ignored
  <2>3. CASE m.channel \notin Private
    <3> DEFINE d1 == Enter(db[s], m.channel)
               d == SetChannel(d1, Named(db[s], m.server, m.nick), m.channel)
    <3>1. command_join(s, n, m) = [db |-> d, link |-> link[<<s, n>>], out |-> bc]
      BY <2>3 DEF command_join, Passed
    <3>2. ListsOK(s, d1) /\ d1.srv = db[s].srv /\ d1.usr = db[s].usr
      BY <1>0, <2>1, EnterIs
    <3>3. ListsOK(s, d) /\ d.srv = db[s].srv /\ DOMAIN d.usr = DOMAIN db[s].usr
      <4> HIDE DEF d1
      <4> QED
        BY <2>1, <3>2, SetChannelIs
    <3>4. Talks(s, d, bc)
      BY <1>1, <3>3 DEF Talks
    <3> HIDE DEF d, bc
    <3> QED
      BY <2>0, <3>1, <3>4
  <2> QED
    BY <2>2, <2>3
<1>7. CASE m.cmd = "PART"
  <2>0. do_command(s, n, m) = command_part(s, n, m)
    BY <1>7 DEF do_command
  <2>1. m.channel \in Channel
    BY <1>7, UserMessageFields
  <2>2. CASE m.channel \in Private
    BY <1>2, <2>0, <2>2 DEF command_part, Ignored
  <2>3. CASE m.channel \notin Private
    <3> DEFINE d1 == Leave(db[s], m.channel)
               d == SetChannel(d1, Named(db[s], m.server, m.nick), None)
    <3>1. command_part(s, n, m) = [db |-> d, link |-> link[<<s, n>>], out |-> bc]
      BY <2>3 DEF command_part, Passed
    <3>2. ListsOK(s, d1) /\ d1.srv = db[s].srv /\ d1.usr = db[s].usr
      BY <1>0, <2>1, LeaveIs
    <3>3. ListsOK(s, d) /\ d.srv = db[s].srv /\ DOMAIN d.usr = DOMAIN db[s].usr
      <4> HIDE DEF d1
      <4> QED
        BY <3>2, SetChannelIs
    <3>4. Talks(s, d, bc)
      BY <1>1, <3>3 DEF Talks
    <3> HIDE DEF d, bc
    <3> QED
      BY <2>0, <3>1, <3>4
  <2> QED
    BY <2>2, <2>3
<1> QED
  BY <1>3, <1>4, <1>5, <1>6, <1>7, UserMessageFields

\* A step of s about users, for which it takes a message from each queue in taken.
TalkStep(s, taken) ==
  /\ \E d, out : Talks(s, d, out) /\ db' = [db EXCEPT ![s] = d] /\ Deliver(taken, out)
  /\ UNCHANGED <<running, link, stops>>
  /\ client' \in [User -> {"no", "chat", "killed"}] /\ ops' \in 0..MaxOps

LEMMA Sent ==
  ASSUME TypeOK, NEW u \in User, NEW msgs \in Seq(UserMessage), SendAll(Home[u], msgs)
  PROVE  \E out : SentBy(Home[u], out, UserMessage) /\ Deliver({}, out)
BY BroadcastSent DEF SendAll

LEMMA SendNothing ==
  ASSUME TypeOK, UNCHANGED net
  PROVE  Deliver({}, Nothing)
<1>1. \A e \in Edge : net[e] \o <<>> = net[e]
  BY DEF TypeOK
<1>2. net = [e \in Edge |-> net[e]]
  BY DEF TypeOK
<1> QED
  BY <1>1, <1>2 DEF Deliver, Nothing

LEMMA PartedTalks ==
  ASSUME TypeOK, NEW u \in User, Parted(u)
  PROVE  \E d, out : /\ Talks(Home[u], d, out)
                     /\ db' = [db EXCEPT ![Home[u]] = d] /\ Deliver({}, out)
<1> DEFINE s == Home[u]
           c == db[s].usr[u].channel
<1>0. s \in Server /\ ListsOK(s, db[s])
  BY UsersKnown DEF TypeOK
<1>1. CASE Listed(u) /\ c # None /\ db[s].chn[c] > 0
  <2> DEFINE d1 == Leave(db[s], c)
             d == SetChannel(d1, {u}, None)
             msgs == IF Public(c) THEN <<[cmd |-> "PART", nick |-> db[s].usr[u].nick,
                                          server |-> s, channel |-> c]>> ELSE <<>>
  <2>1. db' = [db EXCEPT ![s] = d] /\ SendAll(s, msgs)
    BY <1>1 DEF Parted
  <2>2. c \in Channel \union {None} /\ db[s].usr[u].nick \in Nick
    BY <1>0, <1>1 DEF ListsOK, Listed
  <2>3. msgs \in Seq(UserMessage)
    BY <1>0, <2>2, UserMessages DEF Public
  <2> HIDE DEF msgs
  <2>4. PICK out : SentBy(s, out, UserMessage) /\ Deliver({}, out)
    BY <2>1, <2>3, Sent
  <2>5. ListsOK(s, d1) /\ d1.srv = db[s].srv /\ d1.usr = db[s].usr
    BY <1>0, <2>2, LeaveIs
  <2> HIDE DEF d1
  <2>6. ListsOK(s, d) /\ d.srv = db[s].srv /\ DOMAIN d.usr = DOMAIN db[s].usr
    BY <1>0, <2>5, SetChannelIs
  <2> HIDE DEF d
  <2>7. Talks(s, d, out)
    BY <2>4, <2>6 DEF Talks
  <2> QED
    BY <2>1, <2>4, <2>7
<1>2. CASE ~(Listed(u) /\ c # None /\ db[s].chn[c] > 0)
  <2>1. UNCHANGED <<db, net>>
    BY <1>2 DEF Parted
  <2>2. db' = [db EXCEPT ![s] = db[s]]
    BY <1>0, <2>1 DEF TypeOK
  <2> QED
    BY <1>0, <2>1, <2>2, IgnoredTalks, SendNothing
<1> QED
  BY <1>1, <1>2

LEMMA UserActTalks ==
  ASSUME TypeOK, NEW u \in User, UserAct(u)
  PROVE  Home[u] \in running /\ TalkStep(Home[u], {})
<1> DEFINE s == Home[u]
<1>0. s \in Server /\ ListsOK(s, db[s]) /\ db \in [Server -> {db[x] : x \in Server}]
  BY UsersKnown DEF TypeOK
<1>1. Act(u) => s \in running /\ ops' \in 0..MaxOps
  BY BoundsKnown DEF Act, TypeOK
<1>2. \A v \in {"no", "chat", "killed"} : [client EXCEPT ![u] = v] \in [User -> {"no", "chat", "killed"}]
  BY DEF TypeOK
<1>3. CASE chat_connect_r(u)
  <2> DEFINE d == add_user(db[s], u)
             msgs == <<[cmd |-> "USER", user |-> u]>>
  <2>1. /\ MayAddUser(db[s], u) /\ Act(u)
        /\ db' = [db EXCEPT ![s] = d] /\ client' = [client EXCEPT ![u] = "chat"]
        /\ SendAll(s, msgs) /\ UNCHANGED <<running, link, stops>>
    BY <1>3 DEF chat_connect_r
  <2>2. msgs \in Seq(UserMessage)
    BY UserMessages
  <2> HIDE DEF msgs
  <2>3. PICK out : SentBy(s, out, UserMessage) /\ Deliver({}, out)
    BY <2>1, <2>2, Sent
  <2>4. ListsOK(s, d) /\ d.srv = db[s].srv /\ DOMAIN d.usr = DOMAIN db[s].usr \union {u}
    BY <1>0, <2>1, AddUser DEF MayAddUser
  <2> HIDE DEF d
  <2>5. Talks(s, d, out)
    BY <2>1, <2>3, <2>4 DEF Talks, MayAddUser
  <2> QED
    BY <1>1, <1>2, <2>1, <2>3, <2>5 DEF TalkStep
<1>4. CASE chat_close_r(u)
  <2> DEFINE d == del_users(db[s], {u})
             msgs == IF Listed(u) THEN <<[cmd |-> "QUIT", nick |-> u, server |-> s]>> ELSE <<>>
  <2>1. /\ Act(u)
        /\ db' = [db EXCEPT ![s] = d] /\ client' = [client EXCEPT ![u] = "no"]
        /\ SendAll(s, msgs) /\ UNCHANGED <<running, link, stops>>
    BY <1>4 DEF chat_close_r
  <2>2. msgs \in Seq(UserMessage)
    <3>1. u \in Nick /\ s \in Server
      BY UsersKnown DEF Nick
    <3> QED
      BY <3>1, UserMessages
  <2> HIDE DEF msgs
  <2>3. PICK out : SentBy(s, out, UserMessage) /\ Deliver({}, out)
    BY <2>1, <2>2, Sent
  <2>4. ListsOK(s, d) /\ d.srv = db[s].srv /\ DOMAIN d.usr = DOMAIN db[s].usr \ {u}
    BY <1>0, DelUsers
  <2> HIDE DEF d
  <2>5. Talks(s, d, out)
    BY <2>3, <2>4 DEF Talks
  <2> QED
    BY <1>1, <1>2, <2>1, <2>3, <2>5 DEF TalkStep
<1>5. ASSUME NEW c \in Channel, join(u, c) PROVE s \in running /\ TalkStep(s, {})
  <2> DEFINE d1 == Enter(db[s], c)
             d == SetChannel(d1, {u}, c)
             msgs == IF Public(c) THEN <<[cmd |-> "JOIN", nick |-> db[s].usr[u].nick,
                                          server |-> s, channel |-> c]>> ELSE <<>>
  <2>1. /\ Listed(u) /\ Act(u)
        /\ db' = [db EXCEPT ![s] = d]
        /\ SendAll(s, msgs) /\ UNCHANGED <<running, link, client, stops>>
    BY <1>5 DEF join
  <2>2. db[s].usr[u].nick \in Nick
    BY <1>0, <2>1 DEF ListsOK, Listed
  <2>3. msgs \in Seq(UserMessage)
    BY <1>0, <2>2, UserMessages
  <2> HIDE DEF msgs
  <2>4. PICK out : SentBy(s, out, UserMessage) /\ Deliver({}, out)
    BY <2>1, <2>3, Sent
  <2>5. ListsOK(s, d1) /\ d1.srv = db[s].srv /\ d1.usr = db[s].usr
    BY <1>0, EnterIs
  <2> HIDE DEF d1
  <2>6. ListsOK(s, d) /\ d.srv = db[s].srv /\ DOMAIN d.usr = DOMAIN db[s].usr
    BY <1>0, <2>5, SetChannelIs
  <2> HIDE DEF d
  <2>7. Talks(s, d, out)
    BY <2>4, <2>6 DEF Talks
  <2>8. client' \in [User -> {"no", "chat", "killed"}]
    BY <2>1 DEF TypeOK
  <2> QED
    BY <1>1, <2>1, <2>4, <2>7, <2>8 DEF TalkStep
<1>6. CASE part(u) \/ chat_cleanuser(u)
  <2>1. Act(u) /\ Parted(u) /\ UNCHANGED <<running, link, stops>>
    BY <1>6 DEF part, chat_cleanuser
  <2>2. client' = client \/ client' = [client EXCEPT ![u] = "killed"]
    BY <1>6 DEF part, chat_cleanuser
  <2>3. client' \in [User -> {"no", "chat", "killed"}]
    BY <1>2, <2>2 DEF TypeOK
  <2>4. PICK d, out : /\ Talks(s, d, out)
                      /\ db' = [db EXCEPT ![s] = d] /\ Deliver({}, out)
    BY <2>1, PartedTalks
  <2> QED
    BY <1>1, <2>1, <2>3, <2>4 DEF TalkStep
<1>7. ASSUME NEW k \in Nicks[u], SetNick(u, k) PROVE s \in running /\ TalkStep(s, {})
  <2> DEFINE d == [db[s] EXCEPT !.usr[u].nick = k]
             msgs == <<[cmd |-> "NICK", user |-> u, nick |-> k]>>
  <2>1. /\ Listed(u) /\ Act(u)
        /\ db' = [db EXCEPT ![s] = d]
        /\ SendAll(s, msgs) /\ UNCHANGED <<running, link, client, stops>>
    BY <1>7 DEF SetNick
  <2>2. msgs \in Seq(UserMessage)
    BY UserMessages
  <2> HIDE DEF msgs
  <2>3. PICK out : SentBy(s, out, UserMessage) /\ Deliver({}, out)
    BY <2>1, <2>2, Sent
  <2>4. ListsOK(s, d) /\ d.srv = db[s].srv /\ DOMAIN d.usr = DOMAIN db[s].usr
    BY <1>0, <2>1, Renamed DEF Listed
  <2> HIDE DEF d
  <2>5. Talks(s, d, out)
    BY <2>3, <2>4 DEF Talks
  <2>6. client' \in [User -> {"no", "chat", "killed"}]
    BY <2>1 DEF TypeOK
  <2> QED
    BY <1>1, <2>1, <2>3, <2>5, <2>6 DEF TalkStep
<1> QED
  BY <1>3, <1>4, <1>5, <1>6, <1>7 DEF UserAct

LEMMA Wider ==
  ASSUME NEW M, NEW N, M \subseteq N, NEW q \in Seq(M)
  PROVE  q \in Seq(N)
OBVIOUS

ServerMessage(S) == [cmd : {"SERVER"}, name : S]

LEMMA BurstIs ==
  ASSUME TypeOK, NEW s \in Server
  PROVE  LET S == DOMAIN db[s].srv \ {s}
         IN  /\ Burst(s) \in Seq(ServerMessage(S) \union UserMessage)
             /\ \A x \in S : \E i \in DOMAIN Burst(s) : Burst(s)[i] = [cmd |-> "SERVER", name |-> x]
<1> DEFINE S == DOMAIN db[s].srv \ {s}
           p == AboutServers(S)
           q == AboutUsers(db[s])
           M == ServerMessage(S) \union UserMessage
<1>1. ListsOK(s, db[s]) /\ IsFiniteSet(S)
  BY FinitelyMany, FS_Subset DEF TypeOK, ListsOK
<1>2. /\ p \in Seq(ServerMessage(S))
      /\ \A x \in S : \E i \in DOMAIN p : p[i] = [cmd |-> "SERVER", name |-> x]
  BY <1>1, AboutServersIs DEF ServerMessage
<1>3. q \in Seq(UserMessage)
  BY <1>1, AboutUsersIs
<1>4. p \in Seq(M) /\ q \in Seq(M)
  <2> HIDE DEF p, q
  <2> QED
    BY <1>2, <1>3, Wider
<1>5. Burst(s) = p \o q
  BY DEF Burst
<1> HIDE DEF p, q, M
<1>6. \A i \in DOMAIN p : i \in DOMAIN (p \o q) /\ (p \o q)[i] = p[i]
  BY <1>4
<1>7. p \o q \in Seq(M)
  BY <1>4
<1> QED
  BY <1>2, <1>5, <1>6, <1>7 DEF M

LEMMA Appended ==
  ASSUME NEW M, NEW p \in Seq(M), NEW q \in Seq(M)
  PROVE  /\ p \o q \in Seq(M) /\ p \o <<>> = p /\ <<>> \o p = p
OBVIOUS

Told(n) == <<[cmd |-> "SERVER", name |-> n]>>

Introduced(s, n, how, greeting, r) ==
  /\ ListsOK(s, r.db) /\ r.link = how /\ r.out \in [Edge -> Seq(Message)]
  /\ r.db.usr = db[s].usr
  /\ DOMAIN r.db.srv = DOMAIN db[s].srv \union {n}
  /\ n \notin DOMAIN db[s].srv => r.db.srv[n] = n
  /\ \A x \in DOMAIN db[s].srv : r.db.srv[x] = db[s].srv[x]
  /\ r.out[<<s, n>>] = greeting \o Burst(s)
  /\ \A e \in Edge \ {<<s, n>>} :
        r.out[e] = IF e[1] = s /\ e[2] # n /\ IsUp(s, e[2]) THEN Told(n) ELSE <<>>

\* A link that comes up: the neighbour is in the lists, it hears everything that s knows,
\* and the others that are up hear of the neighbour.
LEMMA IntroduceIs ==
  ASSUME TypeOK, NEW s \in Server, NEW n \in Server, <<s, n>> \in Edge,
         NEW how \in LinkState, NEW greeting \in Seq(Message),
         NEW r, r = Introduce(s, n, how, greeting)
  PROVE  Introduced(s, n, how, greeting, r)
<1> DEFINE d == IF MayAddServer(db[s], n, n) THEN add_server(db[s], n, n) ELSE db[s]
           b == broadcast(s, n, <<[cmd |-> "SERVER", name |-> n]>>)
           t == To(s, n, greeting \o Burst(s))
           out == Merge(t, b)
<1>1. r = [db |-> d, link |-> how, out |-> out]
  BY DEF Introduce
<1>2. ListsOK(s, db[s]) /\ n \in Neighbours(s)
  BY DEF TypeOK, Neighbours
<1>3. /\ ListsOK(s, d) /\ d.usr = db[s].usr
      /\ DOMAIN d.srv = DOMAIN db[s].srv \union {n}
      /\ n \notin DOMAIN db[s].srv => d.srv[n] = n
      /\ \A x \in DOMAIN db[s].srv : d.srv[x] = db[s].srv[x]
  <2>1. CASE n \in DOMAIN db[s].srv
    BY <1>2, <2>1 DEF MayAddServer
  <2>2. CASE n \notin DOMAIN db[s].srv
    <3>1. d = add_server(db[s], n, n)
      BY <2>2 DEF MayAddServer
    <3> HIDE DEF d
    <3> QED
      BY <1>2, <2>2, <3>1, AddServer
  <2> QED
    BY <2>1, <2>2
<1>4. Burst(s) \in Seq(Message)
  <2> DEFINE M == ServerMessage(DOMAIN db[s].srv \ {s}) \union UserMessage
  <2>1. M \subseteq Message
    BY <1>2 DEF ServerMessage, Message, ListsOK
  <2>2. Burst(s) \in Seq(M)
    BY BurstIs
  <2> HIDE DEF M
  <2> QED
    BY <2>1, <2>2, Wider
<1>5. PICK g \in Seq(Message) : g = greeting \o Burst(s)
  BY <1>4, Appended
<1>6. Told(n) \in Seq(Message)
  <2>1. [cmd |-> "SERVER", name |-> n] \in Message
    BY DEF Message
  <2> QED
    BY <2>1 DEF Told
<1>7. /\ DOMAIN t = Edge /\ DOMAIN b = Edge
      /\ t[<<s, n>>] = g
      /\ \A e \in Edge \ {<<s, n>>} : t[e] = <<>>
      /\ \A e \in Edge : b[e] = IF e[1] = s /\ e[2] # n /\ IsUp(s, e[2]) THEN Told(n) ELSE <<>>
  BY <1>5 DEF To, Nothing, broadcast, Told
<1>8. b[<<s, n>>] = <<>>
  BY <1>7
<1>9. out = [e \in Edge |-> t[e] \o b[e]]
  BY DEF Merge
<1> HIDE DEF d, b, t, out
<1>10. out[<<s, n>>] = g
  BY <1>5, <1>7, <1>8, <1>9, Appended
<1>11. \A e \in Edge : b[e] \in Seq(Message)
  <2>1. <<>> \in Seq(Message)
    OBVIOUS
  <2> QED
    BY <1>6, <1>7, <2>1
<1>12. ASSUME NEW e \in Edge \ {<<s, n>>}
       PROVE  out[e] = b[e]
  <2>1. out[e] = <<>> \o b[e]
    BY <1>7, <1>9
  <2> QED
    BY <1>11, <2>1, Appended
<1>13. out \in [Edge -> Seq(Message)]
  <2>1. \A e \in Edge : out[e] \in Seq(Message)
    BY <1>5, <1>10, <1>11, <1>12
  <2> QED
    BY <1>9, <2>1
<1>14. r.db = d /\ r.link = how /\ r.out = out
  BY <1>1
<1>15. \A e \in Edge \ {<<s, n>>} :
         r.out[e] = IF e[1] = s /\ e[2] # n /\ IsUp(s, e[2]) THEN Told(n) ELSE <<>>
  BY <1>7, <1>12, <1>14
<1> QED
  BY <1>3, <1>5, <1>10, <1>13, <1>14, <1>15 DEF Introduced

LEMMA IntroduceTyped ==
  ASSUME TypeOK, NEW s \in Server, NEW n \in Server, <<s, n>> \in Edge,
         NEW how \in LinkState, NEW greeting \in Seq(Message),
         NEW r, r = Introduce(s, n, how, greeting)
  PROVE  ListsOK(s, r.db) /\ r.link \in LinkState /\ r.out \in [Edge -> Seq(Message)]
<1>1. Introduced(s, n, how, greeting, r)
  BY IntroduceIs
<1> QED
  BY <1>1 DEF Introduced

LEMMA MessageFields ==
  ASSUME NEW m \in Message
  PROVE  /\ m.cmd \in {"CALL", "ANSWER", "SERVER", "SQUIT"} \/ m \in UserMessage
         /\ m.cmd \in {"SERVER", "SQUIT"} => m.name \in Server
         /\ m \in UserMessage => m.cmd \notin {"CALL", "ANSWER", "SERVER", "SQUIT"}
<1>1. m \in UserMessage => m.cmd \in {"USER", "QUIT", "NICK", "JOIN", "PART"}
  BY UserMessageFields
<1>2. CASE m \in [cmd : {"CALL", "ANSWER"}]
  BY <1>1, <1>2
<1>3. CASE m \in [cmd : {"SERVER", "SQUIT"}, name : Server]
  BY <1>1, <1>3
<1>4. CASE m \in UserMessage
  BY <1>1, <1>4
<1> QED
  BY <1>2, <1>3, <1>4 DEF Message

LEMMA UserMessageIn == UserMessage \subseteq Message
BY DEF Message

LEMMA SentTyped ==
  ASSUME NEW s, NEW out, SentBy(s, out, UserMessage)
  PROVE  out \in [Edge -> Seq(Message)]
<1>1. \A e \in Edge : out[e] \in Seq(Message)
  <2> TAKE e \in Edge
  <2>1. out[e] \in Seq(UserMessage)
    BY DEF SentBy
  <2> QED
    BY <2>1, UserMessageIn, Wider
<1> QED
  BY <1>1 DEF SentBy

LEMMA CallIs ==
  ASSUME TypeOK, NEW s \in Server, NEW n \in Server, <<s, n>> \in Edge,
         NEW m \in Message, m.cmd = "CALL", NEW r, r = do_command(s, n, m)
  PROVE  /\ link[<<s, n>>] = "down" => r = Introduce(s, n, "answered", <<Answer>>)
         /\ link[<<s, n>>] \in {"calling", "called"} =>
               r.db = db[s] /\ r.link = "down" /\ r.out = Nothing
         /\ link[<<s, n>>] = "answered" =>
               r.db = db[s] /\ r.link = "answered" /\ r.out = Nothing
<1>1. r = command_call(s, n)
  BY DEF do_command
<1>2. link[<<s, n>>] = "down" => r = Introduce(s, n, "answered", <<Answer>>)
  BY <1>1 DEF command_call
<1>3. link[<<s, n>>] \in {"calling", "called"} => r = [Ignored(s, n) EXCEPT !.link = "down"]
  BY <1>1 DEF command_call
<1>4. link[<<s, n>>] = "answered" => r = Ignored(s, n)
  BY <1>1 DEF command_call
<1> QED
  BY <1>2, <1>3, <1>4 DEF Ignored

LEMMA AnswerIs ==
  ASSUME TypeOK, NEW s \in Server, NEW n \in Server, <<s, n>> \in Edge,
         NEW m \in Message, m.cmd = "ANSWER", NEW r, r = do_command(s, n, m)
  PROVE  /\ link[<<s, n>>] = "calling" => r = Introduce(s, n, "called", <<>>)
         /\ link[<<s, n>>] # "calling" =>
               r.db = db[s] /\ r.link = link[<<s, n>>] /\ r.out = Nothing
BY DEF do_command, command_answer, Ignored

LEMMA ServerIs ==
  ASSUME TypeOK, NEW s \in Server, NEW n \in Server, <<s, n>> \in Edge,
         NEW m \in Message, m.cmd = "SERVER", NEW r, r = do_command(s, n, m)
  PROVE  /\ ListsOK(s, r.db) /\ r.link = link[<<s, n>>] /\ r.db.usr = db[s].usr
         /\ MayAddServer(db[s], m.name, n) =>
              /\ r.out = broadcast(s, n, <<m>>)
              /\ DOMAIN r.db.srv = DOMAIN db[s].srv \union {m.name} /\ r.db.srv[m.name] = n
              /\ \A x \in DOMAIN db[s].srv : r.db.srv[x] = db[s].srv[x]
         /\ ~MayAddServer(db[s], m.name, n) => r.out = Nothing /\ r.db.srv = db[s].srv
<1>1. r = command_server(s, n, m)
  BY DEF do_command
<1>2. ListsOK(s, db[s]) /\ n \in Neighbours(s) /\ m.name \in Server
  BY MessageFields DEF TypeOK, Neighbours
<1>3. CASE MayAddServer(db[s], m.name, n)
  <2> DEFINE d == add_server(db[s], m.name, n)
  <2>1. r = [db |-> d, link |-> link[<<s, n>>], out |-> broadcast(s, n, <<m>>)]
    BY <1>1, <1>3 DEF command_server, Passed
  <2>2. /\ ListsOK(s, d) /\ d.usr = db[s].usr
        /\ DOMAIN d.srv = DOMAIN db[s].srv \union {m.name} /\ d.srv[m.name] = n
        /\ \A x \in DOMAIN db[s].srv : d.srv[x] = db[s].srv[x]
    BY <1>2, <1>3, AddServer DEF MayAddServer
  <2> HIDE DEF d
  <2>3. r.db = d /\ r.link = link[<<s, n>>] /\ r.out = broadcast(s, n, <<m>>)
    BY <2>1
  <2> QED
    BY <1>3, <2>2, <2>3
<1>4. CASE ~MayAddServer(db[s], m.name, n)
  BY <1>1, <1>2, <1>4 DEF command_server, Ignored
<1> QED
  BY <1>3, <1>4

LEMMA SquitIs ==
  ASSUME TypeOK, NEW s \in Server, NEW n \in Server, <<s, n>> \in Edge,
         NEW m \in Message, m.cmd = "SQUIT", NEW r, r = do_command(s, n, m)
  PROVE  /\ ListsOK(s, r.db) /\ r.out = broadcast(s, n, <<m>>)
         /\ m.name = n => r.db = del_router(db[s], n) /\ r.link = "down"
         /\ m.name # n => r.db = del_server(db[s], m.name) /\ r.link = link[<<s, n>>]
<1>1. r = command_squit(s, n, m)
  BY DEF do_command
<1>2. ListsOK(s, db[s])
  BY DEF TypeOK
<1>3. ListsOK(s, del_router(db[s], n)) /\ ListsOK(s, del_server(db[s], m.name))
  BY <1>2, DelRouter, DelServer
<1>4. r.out = broadcast(s, n, <<m>>)
  BY <1>1 DEF command_squit
<1>5. m.name = n => r.db = del_router(db[s], n) /\ r.link = "down"
  BY <1>1 DEF command_squit
<1>6. m.name # n => r.db = del_server(db[s], m.name) /\ r.link = link[<<s, n>>]
  BY <1>1 DEF command_squit
<1> QED
  BY <1>3, <1>4, <1>5, <1>6

LEMMA CommandTyped ==
  ASSUME TypeOK, NEW s \in Server, NEW n \in Server, <<s, n>> \in Edge,
         NEW m \in Message, NEW r, r = do_command(s, n, m)
  PROVE  ListsOK(s, r.db) /\ r.link \in LinkState /\ r.out \in [Edge -> Seq(Message)]
<1>1. ListsOK(s, db[s]) /\ link[<<s, n>>] \in LinkState
  BY DEF TypeOK
<1>2. Nothing \in [Edge -> Seq(Message)]
  BY DEF Nothing
<1>3. \A origin : broadcast(s, origin, <<m>>) \in [Edge -> Seq(Message)]
  <2>1. <<m>> \in Seq(Message)
    OBVIOUS
  <2> QED
    BY <2>1, BroadcastSent DEF SentBy
<1>4. CASE m.cmd = "CALL"
  <2>1. <<Answer>> \in Seq(Message)
    BY DEF Answer, Message
  <2>2. CASE link[<<s, n>>] = "down"
    <3>1. r = Introduce(s, n, "answered", <<Answer>>) /\ "answered" \in LinkState
      BY <1>4, <2>2, CallIs DEF LinkState
    <3>2. \A how \in LinkState, greeting \in Seq(Message) :
            r = Introduce(s, n, how, greeting)
              => ListsOK(s, r.db) /\ r.link \in LinkState /\ r.out \in [Edge -> Seq(Message)]
      BY IntroduceTyped
    <3> QED
      BY <2>1, <3>1, <3>2
  <2>3. CASE link[<<s, n>>] # "down"
    BY <1>1, <1>2, <1>4, <2>3, CallIs DEF LinkState
  <2> QED
    BY <2>2, <2>3
<1>5. CASE m.cmd = "ANSWER"
  <2>1. <<>> \in Seq(Message)
    OBVIOUS
  <2>2. CASE link[<<s, n>>] = "calling"
    <3>1. r = Introduce(s, n, "called", <<>>) /\ "called" \in LinkState
      BY <1>5, <2>2, AnswerIs DEF LinkState
    <3>2. \A how \in LinkState, greeting \in Seq(Message) :
            r = Introduce(s, n, how, greeting)
              => ListsOK(s, r.db) /\ r.link \in LinkState /\ r.out \in [Edge -> Seq(Message)]
      BY IntroduceTyped
    <3> QED
      BY <2>1, <3>1, <3>2
  <2>3. CASE link[<<s, n>>] # "calling"
    BY <1>1, <1>2, <1>5, <2>3, AnswerIs
  <2> QED
    BY <2>2, <2>3
<1>6. CASE m.cmd = "SERVER"
  BY <1>1, <1>2, <1>3, <1>6, ServerIs
<1>7. CASE m.cmd = "SQUIT"
  <2>1. "down" \in LinkState
    BY DEF LinkState
  <2> QED
    BY <1>1, <1>3, <1>7, <2>1, SquitIs
<1>8. CASE m \in UserMessage
  <2>1. Talks(s, r.db, r.out) /\ r.link = link[<<s, n>>]
    BY <1>8, UserTalks
  <2> QED
    BY <1>1, <2>1, SentTyped DEF Talks
<1> QED
  BY <1>4, <1>5, <1>6, <1>7, <1>8, MessageFields

Arrives(taken, out) ==
  \A e \in Edge : /\ e \notin taken /\ e[2] \in running => net'[e] = net[e] \o out[e]
                  /\ e \in taken /\ e[2] \in running => net'[e] = Tail(net[e]) \o out[e]
                  /\ e \notin taken /\ e[2] \notin running => net'[e] = net[e]
                  /\ e \notin taken /\ out[e] = <<>> => net'[e] = net[e]
                  /\ e \in taken /\ out[e] = <<>> => net'[e] = Tail(net[e])

LEMMA Delivered ==
  ASSUME TypeOK, NEW taken, NEW out \in [Edge -> Seq(Message)], Deliver(taken, out),
         \A e \in taken : net[e] # <<>>
  PROVE  net' \in [Edge -> Seq(Message)] /\ Arrives(taken, out)
<1>1. net' = [e \in Edge |-> (IF e \in taken THEN Tail(net[e]) ELSE net[e]) \o
                             (IF e[2] \in running THEN out[e] ELSE <<>>)]
  BY DEF Deliver
<1>2. ASSUME NEW e \in Edge
      PROVE  /\ net'[e] \in Seq(Message)
             /\ e \notin taken /\ e[2] \in running => net'[e] = net[e] \o out[e]
             /\ e \in taken /\ e[2] \in running => net'[e] = Tail(net[e]) \o out[e]
             /\ e \notin taken /\ e[2] \notin running => net'[e] = net[e]
             /\ e \notin taken /\ out[e] = <<>> => net'[e] = net[e]
             /\ e \in taken /\ out[e] = <<>> => net'[e] = Tail(net[e])
  <2>1. net[e] \in Seq(Message) /\ out[e] \in Seq(Message)
    BY DEF TypeOK
  <2>2. e \in taken => Tail(net[e]) \in Seq(Message)
    BY <2>1
  <2>3. net'[e] = (IF e \in taken THEN Tail(net[e]) ELSE net[e]) \o
                  (IF e[2] \in running THEN out[e] ELSE <<>>)
    BY <1>1
  <2> QED
    BY <2>1, <2>2, <2>3, Appended
<1> QED
  BY <1>1, <1>2 DEF Arrives

\* The lists of s change, and the others stay as they are.
LEMMA ListsMove ==
  ASSUME TypeOK, NEW s \in Server, NEW d, ListsOK(s, d), db' = [db EXCEPT ![s] = d]
  PROVE  /\ db' = [x \in Server |-> db'[x]] /\ \A x \in Server : ListsOK(x, db'[x])
         /\ db'[s] = d /\ \A x \in Server \ {s} : db'[x] = db[x]
<1>1. db = [x \in Server |-> db[x]] /\ \A x \in Server : ListsOK(x, db[x])
  BY DEF TypeOK
<1>2. db' = [x \in Server |-> IF x = s THEN d ELSE db[x]]
  BY <1>1
<1>3. db'[s] = d /\ \A x \in Server \ {s} : db'[x] = db[x]
  BY <1>2
<1>4. \A x \in Server : ListsOK(x, db'[x])
  BY <1>1, <1>3
<1> QED
  BY <1>2, <1>3, <1>4

\* A step of s: it may take the first message of some queues, change its lists and its
\* link to n, and send.
Moves(s, n, d, how, taken, out) ==
  /\ UNCHANGED running
  /\ ListsOK(s, d) /\ db' = [db EXCEPT ![s] = d]
  /\ how \in LinkState /\ link' = [link EXCEPT ![<<s, n>>] = how]
  /\ out \in [Edge -> Seq(Message)] /\ Deliver(taken, out)
  /\ \A e \in taken : net[e] # <<>>

LEMMA MovesTyped ==
  ASSUME TypeOK, NEW s \in Server, NEW n \in Server, NEW d, NEW how, NEW taken, NEW out,
         Moves(s, n, d, how, taken, out), UNCHANGED <<client, ops, stops>>
  PROVE  TypeOK'
<1>1. running' \subseteq Server /\ link' \in [Edge -> LinkState]
  BY DEF TypeOK, Moves
<1>2. db' = [x \in Server |-> db'[x]] /\ \A x \in Server : ListsOK(x, db'[x])
  BY ListsMove DEF Moves
<1>3. net' \in [Edge -> Seq(Message)]
  BY Delivered DEF Moves
<1>4. client' \in [User -> {"no", "chat", "killed"}] /\ ops' \in 0..MaxOps /\ stops' \in 0..MaxStops
  BY DEF TypeOK
<1> QED
  BY <1>1, <1>2, <1>3, <1>4 DEF TypeOK

LEMMA ReceiveMoves ==
  ASSUME TypeOK, NEW s \in Server, NEW n \in Server, <<s, n>> \in Edge, Receive(s, n)
  PROVE  \E m \in Message : \E r :
           /\ net[<<n, s>>] # <<>> /\ m = Head(net[<<n, s>>]) /\ r = do_command(s, n, m)
           /\ Moves(s, n, r.db, r.link, {<<n, s>>}, r.out)
<1> DEFINE m == Head(net[<<n, s>>])
           r == do_command(s, n, m)
<1>1. <<n, s>> \in Edge
  BY EdgesKnown
<1>2. net[<<n, s>>] \in Seq(Message) /\ net[<<n, s>>] # <<>>
  BY <1>1 DEF TypeOK, Receive
<1>3. m \in Message
  BY <1>2
<1>4. /\ db' = [db EXCEPT ![s] = r.db] /\ link' = [link EXCEPT ![<<s, n>>] = r.link]
      /\ Deliver({<<n, s>>}, r.out) /\ UNCHANGED running
  BY DEF Receive
<1> HIDE DEF m
<1>5. ListsOK(s, r.db) /\ r.link \in LinkState /\ r.out \in [Edge -> Seq(Message)]
  BY <1>3, CommandTyped
<1> HIDE DEF r
<1>6. Moves(s, n, r.db, r.link, {<<n, s>>}, r.out)
  BY <1>2, <1>4, <1>5 DEF Moves
<1> QED
  BY <1>2, <1>3, <1>6 DEF m, r

LEMMA CallMoves ==
  ASSUME TypeOK, NEW s \in Server, NEW n \in Server, <<s, n>> \in Edge, Call(s, n)
  PROVE  Moves(s, n, db[s], "calling", {}, To(s, n, <<[cmd |-> "CALL"]>>))
<1>1. <<[cmd |-> "CALL"]>> \in Seq(Message)
  BY DEF Message
<1>2. To(s, n, <<[cmd |-> "CALL"]>>) \in [Edge -> Seq(Message)]
  <2>1. Nothing \in [Edge -> Seq(Message)]
    BY DEF Nothing
  <2> QED
    BY <1>1, <2>1 DEF To
<1>3. db' = [db EXCEPT ![s] = db[s]] /\ ListsOK(s, db[s])
  BY DEF TypeOK, Call
<1> QED
  BY <1>2, <1>3 DEF Call, Moves, LinkState

LEMMA TimeoutMoves ==
  ASSUME TypeOK, NEW s \in Server, NEW n \in Server, <<s, n>> \in Edge, CallTimeout(s, n)
  PROVE  Moves(s, n, db[s], "down", {}, Nothing)
<1>1. Nothing \in [Edge -> Seq(Message)]
  BY DEF Nothing
<1>2. db' = [db EXCEPT ![s] = db[s]] /\ ListsOK(s, db[s])
  BY DEF TypeOK, CallTimeout
<1>3. Deliver({}, Nothing)
  BY SendNothing DEF CallTimeout
<1> QED
  BY <1>1, <1>2, <1>3 DEF CallTimeout, Moves, LinkState

LEMMA GiveUpMoves ==
  ASSUME TypeOK, NEW s \in Server, NEW n \in Server, <<s, n>> \in Edge, GiveUp(s, n)
  PROVE  Moves(s, n, del_router(db[s], n), "down", {}, broadcast(s, n, <<Squit(n)>>))
<1>1. <<Squit(n)>> \in Seq(Message)
  BY DEF Message, Squit
<1>2. broadcast(s, n, <<Squit(n)>>) \in [Edge -> Seq(Message)]
  BY <1>1, BroadcastSent DEF SentBy
<1>3. ListsOK(s, del_router(db[s], n))
  BY DelRouter DEF TypeOK
<1> QED
  BY <1>2, <1>3 DEF GiveUp, Moves, LinkState

LEMMA WorkTyped ==
  ASSUME TypeOK, NEW s \in Server, NEW n \in Server, <<s, n>> \in Edge, Work(s, n)
  PROVE  TypeOK'
<1>1. UNCHANGED <<client, ops, stops>>
  BY DEF Work, Receive, Call, CallTimeout, GiveUp
<1>2. CASE Receive(s, n)
  <2>1. PICK m \in Message : \E r : Moves(s, n, r.db, r.link, {<<n, s>>}, r.out)
    BY <1>2, ReceiveMoves
  <2>2. PICK r : Moves(s, n, r.db, r.link, {<<n, s>>}, r.out)
    BY <2>1
  <2> QED
    BY <1>1, <2>2, MovesTyped
<1>3. CASE Call(s, n)
  BY <1>1, <1>3, CallMoves, MovesTyped
<1>4. CASE CallTimeout(s, n)
  BY <1>1, <1>4, TimeoutMoves, MovesTyped
<1>5. CASE GiveUp(s, n)
  BY <1>1, <1>5, GiveUpMoves, MovesTyped
<1> QED
  BY <1>2, <1>3, <1>4, <1>5 DEF Work

LEMMA TalkMoves ==
  ASSUME TypeOK, NEW s \in Server, TalkStep(s, {})
  PROVE  \E d, out : Talks(s, d, out) /\ UNCHANGED <<running, link, stops>>
                     /\ db' = [db EXCEPT ![s] = d] /\ Deliver({}, out)
                     /\ out \in [Edge -> Seq(Message)]
BY SentTyped DEF TalkStep, Talks

LEMMA TalkTyped ==
  ASSUME TypeOK, NEW s \in Server, TalkStep(s, {})
  PROVE  TypeOK'
<1>1. PICK d, out : Talks(s, d, out) /\ UNCHANGED <<running, link, stops>>
                     /\ db' = [db EXCEPT ![s] = d] /\ Deliver({}, out)
                     /\ out \in [Edge -> Seq(Message)]
  BY TalkMoves
<1>2. db' = [x \in Server |-> db'[x]] /\ \A x \in Server : ListsOK(x, db'[x])
  BY <1>1, ListsMove DEF Talks
<1>3. net' \in [Edge -> Seq(Message)]
  <2>1. \A e \in {} : net[e] # <<>>
    OBVIOUS
  <2> QED
    BY <1>1, <2>1, Delivered
<1> QED
  BY <1>1, <1>2, <1>3 DEF TypeOK, TalkStep

\* What a server that stops sends.
LEMMA FarewellSent ==
  ASSUME TypeOK, NEW s \in Server
  PROVE  Farewell(db[s], s) \o <<Squit(s)>> \in Seq(UserMessage \union {Squit(s)})
<1>1. Farewell(db[s], s) \in Seq(UserMessage)
  BY FarewellIs DEF TypeOK
<1>2. Farewell(db[s], s) \in Seq(UserMessage \union {Squit(s)})
  BY <1>1, Wider
<1>3. <<Squit(s)>> \in Seq(UserMessage \union {Squit(s)})
  OBVIOUS
<1> QED
  BY <1>2, <1>3, Appended

LEMMA HaltSent ==
  ASSUME TypeOK, NEW s \in Server, Shutdown(s) \/ Crash(s)
  PROVE  Stopped(s) /\ \E out : SentBy(s, out, UserMessage \union {Squit(s)}) /\ Lost(s, out)
<1>1. CASE Shutdown(s)
  BY <1>1, FarewellSent, BroadcastSent DEF Shutdown
<1>2. CASE Crash(s)
  BY <1>2, NothingSent DEF Crash
<1> QED
  BY <1>1, <1>2

Leaves(s, out) ==
  \A e \in Edge : /\ out[e] \in Seq(UserMessage \union {Squit(s)})
                  /\ e[2] = s => net'[e] = <<>>
                  /\ e[2] # s /\ e[2] \in running => net'[e] = net[e] \o out[e]
                  /\ e[2] # s /\ e[2] \notin running => net'[e] = net[e]
                  /\ e[2] # s /\ out[e] = <<>> => net'[e] = net[e]

LEMMA LostTyped ==
  ASSUME TypeOK, NEW s \in Server, NEW out, SentBy(s, out, UserMessage \union {Squit(s)}),
         Lost(s, out)
  PROVE  net' \in [Edge -> Seq(Message)] /\ Leaves(s, out)
<1>1. net' = [e \in Edge |-> IF e[2] = s THEN <<>>
                         ELSE net[e] \o (IF e[2] \in running THEN out[e] ELSE <<>>)]
  BY DEF Lost
<1>2. UserMessage \union {Squit(s)} \subseteq Message
  BY UserMessageIn DEF Message, Squit
<1>3. ASSUME NEW e \in Edge
      PROVE  /\ out[e] \in Seq(UserMessage \union {Squit(s)})
             /\ net'[e] \in Seq(Message)
             /\ e[2] = s => net'[e] = <<>>
             /\ e[2] # s /\ e[2] \in running => net'[e] = net[e] \o out[e]
             /\ e[2] # s /\ e[2] \notin running => net'[e] = net[e]
             /\ e[2] # s /\ out[e] = <<>> => net'[e] = net[e]
  <2>1. out[e] \in Seq(UserMessage \union {Squit(s)})
    BY DEF SentBy
  <2>2. net[e] \in Seq(Message) /\ out[e] \in Seq(Message)
    BY <1>2, <2>1, Wider DEF TypeOK
  <2>3. net'[e] = IF e[2] = s THEN <<>>
                  ELSE net[e] \o (IF e[2] \in running THEN out[e] ELSE <<>>)
    BY <1>1
  <2>4. net[e] \o out[e] \in Seq(Message) /\ net[e] \o <<>> = net[e] /\ <<>> \in Seq(Message)
    BY <2>2
  <2>5. CASE e[2] = s
    BY <2>1, <2>3, <2>4, <2>5
  <2>6. CASE e[2] # s /\ e[2] \in running
    BY <2>1, <2>3, <2>4, <2>6
  <2>7. CASE e[2] # s /\ e[2] \notin running
    BY <2>1, <2>2, <2>3, <2>4, <2>7
  <2> QED
    BY <2>5, <2>6, <2>7
<1> QED
  BY <1>1, <1>3 DEF Leaves

LEMMA StoppedTyped ==
  ASSUME TypeOK, NEW s \in Server, Shutdown(s) \/ Crash(s)
  PROVE  TypeOK'
<1>1. PICK out : SentBy(s, out, UserMessage \union {Squit(s)}) /\ Lost(s, out)
  BY HaltSent
<1>2. Stopped(s)
  BY HaltSent
<1>3. net' \in [Edge -> Seq(Message)]
  BY <1>1, LostTyped
<1>4. db' = [x \in Server |-> db'[x]] /\ \A x \in Server : ListsOK(x, db'[x])
  BY <1>2, Empty, ListsMove DEF Stopped
<1>5. running' \subseteq Server /\ link' \in [Edge -> LinkState]
  BY <1>2 DEF Stopped, TypeOK, LinkState
<1>6. client' \in [User -> {"no", "chat", "killed"}]
  BY <1>2 DEF Stopped, TypeOK
<1>7. ops' \in 0..MaxOps /\ stops' \in 0..MaxStops
  BY <1>2, BoundsKnown DEF Stopped, TypeOK
<1> QED
  BY <1>3, <1>4, <1>5, <1>6, <1>7 DEF TypeOK

LEMMA InitTyped == Init => TypeOK
<1> SUFFICES ASSUME Init PROVE TypeOK
  OBVIOUS
<1>1. db = [s \in Server |-> db[s]] /\ \A s \in Server : ListsOK(s, db[s])
  BY Empty DEF Init
<1>2. net \in [Edge -> Seq(Message)] /\ link \in [Edge -> LinkState]
  BY DEF Init, LinkState
<1> QED
  BY <1>1, <1>2, BoundsKnown DEF Init, TypeOK

LEMMA NextTyped ==
  ASSUME TypeOK, [Next]_vars
  PROVE  TypeOK'
<1>1. ASSUME NEW e \in Edge, Work(e[1], e[2]) PROVE TypeOK'
  <2>1. e[1] \in Server /\ e[2] \in Server /\ <<e[1], e[2]>> \in Edge
    BY EdgesKnown
  <2> QED
    BY <1>1, <2>1, WorkTyped
<1>2. ASSUME NEW s \in Server, Shutdown(s) \/ Crash(s) \/ Start(s) PROVE TypeOK'
  <2>1. CASE Start(s)
    BY <2>1 DEF Start, TypeOK
  <2> QED
    BY <1>2, <2>1, StoppedTyped
<1>3. ASSUME NEW u \in User, UserAct(u) PROVE TypeOK'
  <2>1. Home[u] \in Server
    BY UsersKnown
  <2> QED
    BY <1>3, <2>1, UserActTalks, TalkTyped
<1>4. CASE UNCHANGED vars
  BY <1>4 DEF vars, TypeOK
<1> QED
  BY <1>1, <1>2, <1>3, <1>4 DEF Next

\* Every list, link and queue of every network keeps its type: the lists name servers,
\* routers that are neighbours, and users with nicknames of their own.
THEOREM TypeCorrect == Spec => []TypeOK
<1>1. Init => TypeOK
  BY InitTyped
<1>2. TypeOK /\ [Next]_vars => TypeOK'
  BY NextTyped
<1> QED
  BY <1>1, <1>2, PTL DEF Spec

(***************************************************************************)
(* No ghosts.  The argument is about a network without loops whose servers *)
(* come back only when their neighbours have noticed that they were gone:  *)
(* side is as in NoLoops.                                                  *)
(***************************************************************************)
SquitMessage(S) == [cmd : {"SQUIT"}, name : S]

\* What a may send b when their link is up: news of servers on its own side of it, and
\* that it leaves itself only when it does.
Later(side, a, b, alive) ==
  UserMessage \union ServerMessage(side[<<a, b>>] \ {a})
    \union SquitMessage(side[<<a, b>>] \ ({a} \intersect alive))

\* A call or an answer comes first or not at all.
MailOk(side, a, b) ==
  net[<<a, b>>] # <<>> =>
    /\ Head(net[<<a, b>>]) \in Later(side, a, b, running) \union {[cmd |-> "CALL"], Answer}
    /\ Tail(net[<<a, b>>]) \in Seq(Later(side, a, b, running))

First(a, b, cmd) == net[<<a, b>>] # <<>> /\ Head(net[<<a, b>>]).cmd = cmd

CallOk(a, b) ==
  First(a, b, "CALL") =>
    /\ Tail(net[<<a, b>>]) = <<>> /\ net[<<b, a>>] = <<>> /\ link[<<b, a>>] = "down"
    /\ a \in running => link[<<a, b>>] = "calling"

AnswerOk(a, b) ==
  First(a, b, "ANSWER") =>
    /\ net[<<b, a>>] = <<>> /\ link[<<b, a>>] = "calling"
    /\ a \in running => link[<<a, b>>] = "answered"

\* One side called and the other answered, or the answer is on its way.
PairOk(a, b) ==
  /\ link[<<a, b>>] = "called" /\ b \in running => link[<<b, a>>] = "answered"
  /\ link[<<b, a>>] = "answered" /\ a \in running =>
       link[<<a, b>>] = "called" \/ (link[<<a, b>>] = "calling" /\ First(b, a, "ANSWER"))

LinkOk(a, b) == CallOk(a, b) /\ AnswerOk(a, b) /\ PairOk(a, b)

DeadOk(a) ==
  a \notin running => \A b \in Neighbours(a) : net[<<b, a>>] = <<>> /\ link[<<a, b>>] = "down"

\* The lists d of s, when the links to up are: every server is reached through the
\* neighbour it is behind, that neighbour is up and known, and so are the servers of the
\* users.
Routes(side, s, d, up) ==
  /\ s \in DOMAIN d.srv /\ d.srv[s] = s
  /\ \A x \in DOMAIN d.srv \ {s} : d.srv[x] \in up /\ x \in side[<<d.srv[x], s>>]
  /\ up \subseteq DOMAIN d.srv
  /\ \A u \in DOMAIN d.usr : Home[u] \in DOMAIN d.srv

UpOf(s) == {k \in Neighbours(s) : IsUp(s, k)}

RoutedAt(side, s) == Routes(side, s, db[s], UpOf(s))

Inv(side) ==
  /\ TypeOK
  /\ \A a, b \in Server : <<a, b>> \in Edge => MailOk(side, a, b) /\ LinkOk(a, b)
  /\ \A s \in Server : DeadOk(s) /\ RoutedAt(side, s)

\* Two neighbours of s are on different sides of it.
LEMMA SidesOf ==
  ASSUME NEW side, Splits(side), NEW s \in Server, NEW n \in Server, <<s, n>> \in Edge
  PROVE  /\ s # n /\ n \in side[<<n, s>>] /\ s \in side[<<s, n>>]
         /\ s \notin side[<<n, s>>] /\ n \notin side[<<s, n>>]
         /\ \A x \in side[<<n, s>>] : x \notin side[<<s, n>>]
<1>1. <<n, s>> \in Edge
  BY EdgesKnown
<1>2. s \in side[<<s, n>>] /\ side[<<s, n>>] \intersect side[<<n, s>>] = {}
  BY DEF Splits
<1>3. n \in side[<<n, s>>]
  BY <1>1 DEF Splits
<1> QED
  BY <1>2, <1>3

LEMMA SidesApart ==
  ASSUME NEW side, Splits(side), NEW s \in Server, NEW n \in Server, NEW k \in Server,
         <<s, n>> \in Edge, <<s, k>> \in Edge, k # n
  PROVE  /\ side[<<k, s>>] \subseteq side[<<s, n>>]
         /\ \A x \in side[<<k, s>>] : x \notin side[<<n, s>>]
<1>1. k \in Neighbours(s) \ {n}
  BY DEF Neighbours
<1>2. side[<<k, s>>] \subseteq side[<<s, n>>]
  BY <1>1 DEF Splits
<1>3. side[<<s, n>>] \intersect side[<<n, s>>] = {}
  BY DEF Splits
<1> QED
  BY <1>2, <1>3

\* What happens to the routes of s: a talk, a link that comes up, a server behind a
\* neighbour that comes or goes, a link that is lost.
LEMMA RoutesTalk ==
  ASSUME NEW side, NEW s, NEW d, NEW up, Routes(side, s, d, up),
         NEW d2, d2.srv = d.srv,
         \A u \in DOMAIN d2.usr : u \in DOMAIN d.usr \/ Home[u] \in DOMAIN d2.srv
  PROVE  Routes(side, s, d2, up)
BY DEF Routes

LEMMA RoutesCome ==
  ASSUME NEW side, Splits(side), NEW s \in Server, NEW n \in Server, <<s, n>> \in Edge,
         NEW d, NEW up, up \subseteq Neighbours(s), n \notin up, Routes(side, s, d, up),
         NEW d2, d2.usr = d.usr, DOMAIN d2.srv = DOMAIN d.srv \union {n},
         n \notin DOMAIN d.srv => d2.srv[n] = n,
         \A x \in DOMAIN d.srv : d2.srv[x] = d.srv[x]
  PROVE  Routes(side, s, d2, up \union {n}) /\ n \notin DOMAIN d.srv
<1>1. s # n /\ n \in side[<<n, s>>]
  BY SidesOf
<1>2. n \notin DOMAIN d.srv
  <2> SUFFICES ASSUME n \in DOMAIN d.srv PROVE FALSE
    OBVIOUS
  <2>1. PICK k : k = d.srv[n]
    OBVIOUS
  <2>2. k \in up /\ n \in side[<<k, s>>]
    BY <1>1, <2>1 DEF Routes
  <2>3. k \in Server /\ <<s, k>> \in Edge /\ k # n
    BY <2>2 DEF Neighbours
  <2> QED
    BY <1>1, <2>2, <2>3, SidesApart
<1>3. \A x \in DOMAIN d.srv : x # n /\ d2.srv[x] = d.srv[x]
  BY <1>2
<1> QED
  BY <1>1, <1>2, <1>3 DEF Routes

LEMMA RoutedThrough ==
  ASSUME NEW side, Splits(side), NEW s \in Server, NEW n \in Server, <<s, n>> \in Edge,
         NEW d, NEW up, up \subseteq Neighbours(s), Routes(side, s, d, up),
         NEW x \in DOMAIN d.srv, x \in side[<<n, s>>]
  PROVE  d.srv[x] = n /\ n \in up
<1>1. x # s
  BY SidesOf
<1>2. PICK k : k = d.srv[x]
  OBVIOUS
<1>3. k \in up /\ x \in side[<<k, s>>]
  BY <1>1, <1>2 DEF Routes
<1>4. k \in Server /\ <<s, k>> \in Edge
  BY <1>3 DEF Neighbours
<1>5. k = n
  BY <1>3, <1>4, SidesApart
<1> QED
  BY <1>2, <1>3, <1>5

LEMMA RoutesServer ==
  ASSUME NEW side, Splits(side), NEW s \in Server, NEW n \in Server, <<s, n>> \in Edge,
         NEW d, NEW up, up \subseteq Neighbours(s), Routes(side, s, d, up),
         NEW x \in side[<<n, s>>], x \notin DOMAIN d.srv, n \in DOMAIN d.srv,
         NEW d2, d2.usr = d.usr, DOMAIN d2.srv = DOMAIN d.srv \union {x}, d2.srv[x] = n,
         \A y \in DOMAIN d.srv : d2.srv[y] = d.srv[y]
  PROVE  Routes(side, s, d2, up)
<1>1. n \in side[<<n, s>>]
  BY SidesOf
<1>2. n \in up
  BY <1>1, RoutedThrough
<1>3. \A y \in DOMAIN d.srv : y # x /\ d2.srv[y] = d.srv[y]
  OBVIOUS
<1> QED
  BY <1>2, <1>3 DEF Routes

LEMMA RoutesSquit ==
  ASSUME NEW side, Splits(side), NEW s \in Server, NEW n \in Server, <<s, n>> \in Edge,
         NEW d, ListsOK(s, d), NEW up, up \subseteq Neighbours(s), Routes(side, s, d, up),
         NEW x \in side[<<n, s>>], x # n
  PROVE  Routes(side, s, del_server(d, x), up)
<1>1. x # s
  BY SidesOf
<1>2. x \notin up
  <2> SUFFICES ASSUME x \in up PROVE FALSE
    OBVIOUS
  <2>1. x \in Server /\ <<s, x>> \in Edge
    BY DEF Neighbours
  <2> QED
    BY <2>1, SidesApart, SidesOf
<1>3. PICK d2 : d2 = del_server(d, x)
  OBVIOUS
<1>4. /\ DOMAIN d2.srv = DOMAIN d.srv \ {x}
      /\ \A y \in DOMAIN d.srv \ {x} : d2.srv[y] = d.srv[y]
      /\ DOMAIN d2.usr \subseteq DOMAIN d.usr
      /\ x \in DOMAIN d.srv => \A u \in DOMAIN d2.usr : Home[u] # x
  BY <1>3, DelServer
<1>5. Routes(side, s, d2, up)
  BY <1>1, <1>2, <1>4 DEF Routes
<1> QED
  BY <1>3, <1>5

LEMMA RoutesLost ==
  ASSUME NEW side, Splits(side), NEW s \in Server, NEW n \in Server, <<s, n>> \in Edge,
         NEW d, ListsOK(s, d), NEW up, up \subseteq Neighbours(s), Routes(side, s, d, up)
  PROVE  Routes(side, s, del_router(d, n), up \ {n})
<1>1. s # n
  BY SidesOf
<1>2. \A k \in up \ {n} : d.srv[k] # n
  <2> TAKE k \in up \ {n}
  <2> SUFFICES ASSUME d.srv[k] = n PROVE FALSE
    OBVIOUS
  <2>1. k \in Server /\ <<s, k>> \in Edge
    BY DEF Neighbours
  <2>2. k # s /\ k \in side[<<k, s>>]
    BY <2>1, SidesOf
  <2>3. k \in side[<<n, s>>]
    BY <2>2 DEF Routes
  <2> QED
    BY <2>1, <2>2, <2>3, SidesApart
<1>3. PICK d2 : d2 = del_router(d, n)
  OBVIOUS
<1>4. /\ DOMAIN d2.srv = {x \in DOMAIN d.srv : d.srv[x] # n}
      /\ \A x \in DOMAIN d2.srv : d2.srv[x] = d.srv[x]
      /\ DOMAIN d2.usr \subseteq DOMAIN d.usr
      /\ \A u \in DOMAIN d2.usr : Home[u] \in DOMAIN d.srv => Home[u] \in DOMAIN d2.srv
  BY <1>3, DelRouter
<1>5. s \in DOMAIN d2.srv /\ d2.srv[s] = s
  BY <1>1, <1>4 DEF Routes
<1>6. \A x \in DOMAIN d2.srv \ {s} : d2.srv[x] \in up \ {n} /\ x \in side[<<d2.srv[x], s>>]
  BY <1>4 DEF Routes
<1>7. up \ {n} \subseteq DOMAIN d2.srv
  BY <1>2, <1>4 DEF Routes
<1>8. \A u \in DOMAIN d2.usr : Home[u] \in DOMAIN d2.srv
  BY <1>4 DEF Routes
<1> QED
  BY <1>3, <1>5, <1>6, <1>7, <1>8 DEF Routes

LEMMA RoutesEmpty ==
  ASSUME NEW side, NEW s
  PROVE  Routes(side, s, EmptyDb(s), {})
<1>1. DOMAIN EmptyDb(s).srv = {s} /\ EmptyDb(s).srv[s] = s /\ EmptyDb(s).usr = <<>>
  BY DEF EmptyDb
<1> QED
  BY <1>1 DEF Routes

\* What Later lets through.
LEMMA LaterIs ==
  ASSUME NEW side \in Sides, NEW a \in Server, NEW b \in Server, <<a, b>> \in Edge, NEW alive,
         NEW m \in Later(side, a, b, alive)
  PROVE  /\ m \in Message /\ m.cmd \notin {"CALL", "ANSWER"}
         /\ m.cmd = "SERVER" => m.name \in side[<<a, b>>] \ {a}
         /\ m.cmd = "SQUIT" => m.name \in side[<<a, b>>] \ ({a} \intersect alive)
<1>1. side[<<a, b>>] \subseteq Server
  BY DEF Sides
<1>2. CASE m \in UserMessage
  BY <1>2, UserMessageIn, UserMessageFields
<1>3. CASE m \in ServerMessage(side[<<a, b>>] \ {a})
  BY <1>1, <1>3 DEF ServerMessage, Message
<1>4. CASE m \in SquitMessage(side[<<a, b>>] \ ({a} \intersect alive))
  BY <1>1, <1>4 DEF SquitMessage, Message
<1> QED
  BY <1>2, <1>3, <1>4 DEF Later

LEMMA LaterGrows ==
  ASSUME NEW side, NEW a, NEW b, NEW alive, NEW alive2, a \in alive2 => a \in alive
  PROVE  Later(side, a, b, alive) \subseteq Later(side, a, b, alive2)
BY DEF Later, SquitMessage

LEMMA MayTell ==
  ASSUME NEW side, NEW a, NEW b, NEW alive, NEW x \in side[<<a, b>>], x # a
  PROVE  /\ <<[cmd |-> "SERVER", name |-> x]>> \in Seq(Later(side, a, b, alive))
         /\ <<Squit(x)>> \in Seq(Later(side, a, b, alive))
<1>1. [cmd |-> "SERVER", name |-> x] \in Later(side, a, b, alive)
  BY DEF Later, ServerMessage
<1>2. Squit(x) \in Later(side, a, b, alive)
  BY DEF Later, SquitMessage, Squit
<1> QED
  BY <1>1, <1>2

\* What is on its way from a to b grows by news, and only when a believes b up.
Grows(side, a, b, alive) ==
  \E p \in Seq(Later(side, a, b, alive)) :
    net'[<<a, b>>] = net[<<a, b>>] \o p /\ (p # <<>> => a \in running /\ IsUp(a, b))

LEMMA TailJoined ==
  ASSUME NEW M, NEW q \in Seq(M), NEW p \in Seq(M), q # <<>>
  PROVE  Tail(q \o p) = Tail(q) \o p
<1>1. q \o p \in Seq(M) /\ Len(q \o p) = Len(q) + Len(p) /\ Len(q) > 0
  OBVIOUS
<1>2. Tail(q) \in Seq(M) /\ Len(Tail(q)) = Len(q) - 1
  BY <1>1
<1>3. Tail(q \o p) \in Seq(M) /\ Len(Tail(q \o p)) = Len(q) + Len(p) - 1
  BY <1>1
<1>4. Tail(q) \o p \in Seq(M) /\ Len(Tail(q) \o p) = Len(q) + Len(p) - 1
  BY <1>1, <1>2
<1>5. ASSUME NEW i \in 1..(Len(q) + Len(p) - 1)
      PROVE  Tail(q \o p)[i] = (Tail(q) \o p)[i]
  <2>1. Tail(q \o p)[i] = (q \o p)[i + 1]
    BY <1>1
  <2>2. CASE i <= Len(q) - 1
    <3>1. (q \o p)[i + 1] = q[i + 1]
      BY <1>1, <2>2
    <3>2. (Tail(q) \o p)[i] = Tail(q)[i]
      BY <1>2, <2>2
    <3>3. Tail(q)[i] = q[i + 1]
      BY <1>2, <2>2
    <3> QED
      BY <2>1, <3>1, <3>2, <3>3
  <2>3. CASE i > Len(q) - 1
    <3>1. (q \o p)[i + 1] = p[i + 1 - Len(q)]
      BY <1>1, <2>3
    <3>2. (Tail(q) \o p)[i] = p[i - (Len(q) - 1)]
      BY <1>2, <2>3
    <3>3. i + 1 - Len(q) = i - (Len(q) - 1)
      BY <1>1
    <3> QED
      BY <2>1, <3>1, <3>2, <3>3
  <2> QED
    BY <1>1, <2>2, <2>3
<1> QED
  BY <1>3, <1>4, <1>5

LEMMA GrownMail ==
  ASSUME TypeOK, NEW side \in Sides, NEW a \in Server, NEW b \in Server, <<a, b>> \in Edge,
         NEW alive, a \in alive => a \in running, MailOk(side, a, b), Grows(side, a, b, alive)
  PROVE  /\ net'[<<a, b>>] # <<>> =>
              /\ Head(net'[<<a, b>>])
                   \in Later(side, a, b, alive) \union {[cmd |-> "CALL"], Answer}
              /\ Tail(net'[<<a, b>>]) \in Seq(Later(side, a, b, alive))
         /\ \A cmd \in {"CALL", "ANSWER"} :
              (net'[<<a, b>>] # <<>> /\ Head(net'[<<a, b>>]).cmd = cmd) <=> First(a, b, cmd)
         /\ ~(a \in running /\ IsUp(a, b)) => net'[<<a, b>>] = net[<<a, b>>]
<1> DEFINE M == Later(side, a, b, alive)
           q == net[<<a, b>>]
           q2 == net'[<<a, b>>]
           Openings == {[cmd |-> "CALL"], Answer}
<1>1. PICK p \in Seq(M) : q2 = q \o p /\ (p # <<>> => a \in running /\ IsUp(a, b))
  BY DEF Grows
<1>2. M \subseteq Message /\ \A m \in M : m.cmd \notin {"CALL", "ANSWER"}
  BY LaterIs
<1>3. q \in Seq(Message) /\ p \in Seq(Message)
  BY <1>1, <1>2, Wider DEF TypeOK
<1>4. q # <<>> => Head(q) \in M \union Openings /\ Tail(q) \in Seq(M)
  <2> DEFINE M1 == Later(side, a, b, running)
  <2>1. M1 \subseteq M
    BY LaterGrows
  <2>2. q # <<>> => Head(q) \in M1 \union Openings /\ Tail(q) \in Seq(M1)
    BY DEF MailOk
  <2> HIDE DEF M, M1, q
  <2> QED
    BY <2>1, <2>2, Wider
<1>5. \A cmd \in {"CALL", "ANSWER"} : First(a, b, cmd) <=> q # <<>> /\ Head(q).cmd = cmd
  BY DEF First
<1>6. p = <<>> => q2 = q
  BY <1>1, <1>3
<1>7. CASE q = <<>>
  <2>1. q2 = p
    BY <1>1, <1>3, <1>7
  <2>2. p # <<>> => Head(p) \in M /\ Tail(p) \in Seq(M)
    BY <1>1
  <2> HIDE DEF M, q, q2, Openings
  <2> QED
    BY <1>1, <1>2, <1>5, <1>6, <1>7, <2>1, <2>2 DEF M, q, q2, Openings
<1>8. CASE q # <<>>
  <2>1. q2 # <<>> /\ Head(q2) = Head(q)
    BY <1>1, <1>3, <1>8
  <2>2. Tail(q2) = Tail(q) \o p
    BY <1>1, <1>3, <1>8, TailJoined
  <2>3. Tail(q2) \in Seq(M)
    BY <1>1, <1>4, <1>8, <2>2, Appended
  <2> QED
    BY <1>1, <1>4, <1>5, <1>6, <1>8, <2>1, <2>3
<1> QED
  BY <1>7, <1>8

\* A step to which a and b, and the link between them, are nothing.
Aside(side, a, b) ==
  /\ Grows(side, a, b, running) /\ Grows(side, b, a, running)
  /\ link'[<<a, b>>] = link[<<a, b>>] /\ link'[<<b, a>>] = link[<<b, a>>]
  /\ a \in running' <=> a \in running
  /\ b \in running' <=> b \in running

LEMMA AsideOk ==
  ASSUME TypeOK, NEW side \in Sides, NEW a \in Server, NEW b \in Server, <<a, b>> \in Edge,
         MailOk(side, a, b), MailOk(side, b, a), LinkOk(a, b), Aside(side, a, b)
  PROVE  MailOk(side, a, b)' /\ LinkOk(a, b)'
<1>0. <<b, a>> \in Edge
  BY EdgesKnown
<1>1. Grows(side, a, b, running) /\ Grows(side, b, a, running)
  BY DEF Aside
<1>2. /\ link'[<<a, b>>] = link[<<a, b>>] /\ link'[<<b, a>>] = link[<<b, a>>]
      /\ a \in running' <=> a \in running
      /\ b \in running' <=> b \in running
  BY DEF Aside
<1>3. Later(side, a, b, running) \subseteq Later(side, a, b, running')
  BY <1>2, LaterGrows
<1>4. /\ net'[<<a, b>>] # <<>> =>
              /\ Head(net'[<<a, b>>])
                   \in Later(side, a, b, running) \union {[cmd |-> "CALL"], Answer}
              /\ Tail(net'[<<a, b>>]) \in Seq(Later(side, a, b, running))
      /\ \A cmd \in {"CALL", "ANSWER"} :
              (net'[<<a, b>>] # <<>> /\ Head(net'[<<a, b>>]).cmd = cmd) <=> First(a, b, cmd)
      /\ ~(a \in running /\ IsUp(a, b)) => net'[<<a, b>>] = net[<<a, b>>]
  BY <1>1, GrownMail
<1>5. /\ \A cmd \in {"CALL", "ANSWER"} :
              (net'[<<b, a>>] # <<>> /\ Head(net'[<<b, a>>]).cmd = cmd) <=> First(b, a, cmd)
      /\ ~(b \in running /\ IsUp(b, a)) => net'[<<b, a>>] = net[<<b, a>>]
  BY <1>0, <1>1, GrownMail
<1>6. MailOk(side, a, b)'
  BY <1>3, <1>4, Wider DEF MailOk
<1>7. /\ First(a, b, "CALL")' <=> First(a, b, "CALL")
      /\ First(a, b, "ANSWER")' <=> First(a, b, "ANSWER")
      /\ First(b, a, "ANSWER")' <=> First(b, a, "ANSWER")
  BY <1>4, <1>5 DEF First
<1>8. CallOk(a, b)'
  <2> SUFFICES ASSUME First(a, b, "CALL")'
               PROVE  /\ Tail(net'[<<a, b>>]) = <<>> /\ net'[<<b, a>>] = <<>>
                      /\ link'[<<b, a>>] = "down"
                      /\ a \in running' => link'[<<a, b>>] = "calling"
    BY DEF CallOk
  <2>1. /\ Tail(net[<<a, b>>]) = <<>> /\ net[<<b, a>>] = <<>> /\ link[<<b, a>>] = "down"
        /\ a \in running => link[<<a, b>>] = "calling"
    BY <1>7 DEF LinkOk, CallOk
  <2>2. ~(a \in running /\ IsUp(a, b)) /\ ~IsUp(b, a)
    BY <2>1 DEF IsUp
  <2> QED
    BY <1>2, <1>4, <1>5, <2>1, <2>2
<1>9. AnswerOk(a, b)'
  <2> SUFFICES ASSUME First(a, b, "ANSWER")'
               PROVE  /\ net'[<<b, a>>] = <<>> /\ link'[<<b, a>>] = "calling"
                      /\ a \in running' => link'[<<a, b>>] = "answered"
    BY DEF AnswerOk
  <2>1. /\ net[<<b, a>>] = <<>> /\ link[<<b, a>>] = "calling"
        /\ a \in running => link[<<a, b>>] = "answered"
    BY <1>7 DEF LinkOk, AnswerOk
  <2>2. ~IsUp(b, a)
    BY <2>1 DEF IsUp
  <2> QED
    BY <1>2, <1>5, <2>1, <2>2
<1>10. PairOk(a, b)'
  BY <1>2, <1>7 DEF LinkOk, PairOk
<1> QED
  BY <1>6, <1>8, <1>9, <1>10 DEF LinkOk

\* What s sends when it tells its neighbours, but for n, something.
Speaks(side, s, n, out) ==
  \A k \in Server : <<s, k>> \in Edge /\ k # n /\ out[<<s, k>>] # <<>> =>
    IsUp(s, k) /\ out[<<s, k>>] \in Seq(Later(side, s, k, running))

OnlyFrom(s, out) == \A e \in Edge : out[e] # <<>> => e[1] = s

\* A step of s that changes its lists, and its link to n or nothing, and sends news.
Turns(side, s, n, d, taken, out) ==
  /\ s \in running /\ UNCHANGED running
  /\ ListsOK(s, d) /\ db' = [db EXCEPT ![s] = d]
  /\ \A e \in Edge \ {<<s, n>>} : link'[e] = link[e]
  /\ out \in [Edge -> Seq(Message)] /\ taken \subseteq {<<n, s>>} /\ Arrives(taken, out)
  /\ Speaks(side, s, n, out) /\ OnlyFrom(s, out)

LEMMA SentGrows ==
  ASSUME TypeOK, NEW side, NEW taken, NEW out, Arrives(taken, out),
         NEW a \in Server, NEW b \in Server, <<a, b>> \in Edge, <<a, b>> \notin taken,
         out[<<a, b>>] # <<>> => /\ out[<<a, b>>] \in Seq(Later(side, a, b, running))
                                 /\ a \in running /\ IsUp(a, b)
  PROVE  Grows(side, a, b, running)
<1> DEFINE M == Later(side, a, b, running)
<1>1. /\ b \in running => net'[<<a, b>>] = net[<<a, b>>] \o out[<<a, b>>]
      /\ b \notin running => net'[<<a, b>>] = net[<<a, b>>]
      /\ out[<<a, b>>] = <<>> => net'[<<a, b>>] = net[<<a, b>>]
  BY DEF Arrives
<1>2. net[<<a, b>>] \o <<>> = net[<<a, b>>] /\ <<>> \in Seq(M)
  BY DEF TypeOK
<1> HIDE DEF M
<1>3. CASE b \in running /\ out[<<a, b>>] # <<>>
  BY <1>1, <1>3 DEF Grows, M
<1>4. CASE ~(b \in running /\ out[<<a, b>>] # <<>>)
  BY <1>1, <1>2, <1>4 DEF Grows, M
<1> QED
  BY <1>3, <1>4

LEMMA TurnsAside ==
  ASSUME NEW side \in Sides, Inv(side), NEW s \in Server, NEW n \in Server, NEW d,
         NEW taken, NEW out, Turns(side, s, n, d, taken, out),
         NEW a \in Server, NEW b \in Server, <<a, b>> \in Edge, <<a, b>> \notin taken,
         <<a, b>> # <<s, n>>
  PROVE  Grows(side, a, b, running)
<1>1. TypeOK /\ Arrives(taken, out)
  BY DEF Inv, Turns
<1>2. out[<<a, b>>] # <<>> => /\ out[<<a, b>>] \in Seq(Later(side, a, b, running))
                              /\ a \in running /\ IsUp(a, b)
  BY DEF Turns, Speaks, OnlyFrom
<1> QED
  BY <1>1, <1>2, SentGrows

\* Then it remains to look at the link of s and n and at the routes of s.
LEMMA TurnsOk ==
  ASSUME NEW side \in Sides, Splits(side), Inv(side), TypeOK',
         NEW s \in Server, NEW n \in Server, NEW d,
         NEW taken, NEW out, Turns(side, s, n, d, taken, out),
         <<s, n>> \in Edge => /\ MailOk(side, s, n)' /\ LinkOk(s, n)'
                              /\ MailOk(side, n, s)' /\ LinkOk(n, s)',
         RoutedAt(side, s)'
  PROVE  Inv(side)'
<1>1. ASSUME NEW a \in Server, NEW b \in Server, <<a, b>> \in Edge
      PROVE  MailOk(side, a, b)' /\ LinkOk(a, b)'
  <2>0. <<b, a>> \in Edge
    BY <1>1, EdgesKnown
  <2>1. CASE <<a, b>> = <<s, n>> \/ <<a, b>> = <<n, s>>
    BY <1>1, <2>0, <2>1
  <2>2. CASE ~(<<a, b>> = <<s, n>> \/ <<a, b>> = <<n, s>>)
    <3>1. taken \subseteq {<<n, s>>}
      BY DEF Turns
    <3>2. Grows(side, a, b, running) /\ Grows(side, b, a, running)
      BY <1>1, <2>0, <2>2, <3>1, TurnsAside
    <3>3. link'[<<a, b>>] = link[<<a, b>>] /\ link'[<<b, a>>] = link[<<b, a>>]
      BY <1>1, <2>0, <2>2 DEF Turns
    <3>4. Aside(side, a, b)
      BY <3>2, <3>3 DEF Aside, Turns
    <3> QED
      BY <1>1, <2>0, <3>4, AsideOk DEF Inv
  <2> QED
    BY <2>1, <2>2
<1>2. ASSUME NEW a \in Server PROVE DeadOk(a)'
  <2> SUFFICES ASSUME a \notin running, NEW b \in Neighbours(a)
               PROVE  net'[<<b, a>>] = <<>> /\ link'[<<a, b>>] = "down"
    BY DEF DeadOk, Turns
  <2>1. b \in Server /\ <<a, b>> \in Edge /\ <<b, a>> \in Edge
    BY EdgesKnown DEF Neighbours
  <2>2. net[<<b, a>>] = <<>> /\ link[<<a, b>>] = "down"
    BY DEF Inv, DeadOk
  <2>3. a # s /\ taken \subseteq {<<n, s>>}
    BY DEF Turns
  <2>4. <<a, b>> # <<s, n>> /\ <<b, a>> \notin taken
    BY <2>3
  <2> QED
    BY <2>1, <2>2, <2>4 DEF Turns, Arrives
<1>3. ASSUME NEW a \in Server, a # s PROVE RoutedAt(side, a)'
  <2>1. db'[a] = db[a]
    BY <1>3, ListsMove DEF Inv, Turns
  <2>2. UpOf(a)' = UpOf(a)
    <3>1. \A k \in Neighbours(a) : link'[<<a, k>>] = link[<<a, k>>]
      BY <1>3 DEF Turns, Neighbours
    <3> QED
      BY <3>1 DEF UpOf, IsUp
  <2>3. RoutedAt(side, a)
    BY DEF Inv
  <2> QED
    BY <2>1, <2>2, <2>3 DEF RoutedAt
<1> QED
  BY <1>1, <1>2, <1>3 DEF Inv

LEMMA PlainMail ==
  ASSUME NEW side \in Sides, NEW a \in Server, NEW b \in Server, <<a, b>> \in Edge,
         net'[<<a, b>>] \in Seq(Later(side, a, b, running'))
  PROVE  MailOk(side, a, b)' /\ ~First(a, b, "CALL")' /\ ~First(a, b, "ANSWER")'
<1> DEFINE M == Later(side, a, b, running')
           q2 == net'[<<a, b>>]
<1>1. \A m \in M : m.cmd \notin {"CALL", "ANSWER"}
  BY LaterIs
<1>2. q2 \in Seq(M)
  OBVIOUS
<1>3. MailOk(side, a, b)' = (q2 # <<>> => /\ Head(q2) \in M \union {[cmd |-> "CALL"], Answer}
                                          /\ Tail(q2) \in Seq(M))
  BY DEF MailOk
<1>4. /\ First(a, b, "CALL")' = (q2 # <<>> /\ Head(q2).cmd = "CALL")
      /\ First(a, b, "ANSWER")' = (q2 # <<>> /\ Head(q2).cmd = "ANSWER")
  BY DEF First
<1> HIDE DEF M, q2
<1>5. q2 # <<>> => Head(q2) \in M /\ Tail(q2) \in Seq(M)
  BY <1>2
<1> QED
  BY <1>1, <1>3, <1>4, <1>5

LEMMA UpMoves ==
  ASSUME NEW s \in Server, NEW n \in Server, <<s, n>> \in Edge,
         \A e \in Edge \ {<<s, n>>} : link'[e] = link[e]
  PROVE  /\ IsUp(s, n)' => UpOf(s)' = UpOf(s) \union {n}
         /\ ~IsUp(s, n)' => UpOf(s)' = UpOf(s) \ {n}
         /\ link'[<<s, n>>] = link[<<s, n>>] => UpOf(s)' = UpOf(s)
<1>1. \A k \in Neighbours(s) \ {n} : IsUp(s, k)' <=> IsUp(s, k)
  BY DEF IsUp, Neighbours
<1>2. link'[<<s, n>>] = link[<<s, n>>] => (IsUp(s, n)' <=> IsUp(s, n))
  BY DEF IsUp
<1> QED
  BY <1>1, <1>2 DEF UpOf, Neighbours

BothOk(side, s, n) ==
  MailOk(side, s, n) /\ LinkOk(s, n) /\ MailOk(side, n, s) /\ LinkOk(n, s)

\* The queue from n to s after its first message is taken.
LEMMA ReadIs ==
  ASSUME NEW side \in Sides, Splits(side), Inv(side), NEW s \in Server, NEW n \in Server,
         <<s, n>> \in Edge, NEW d, NEW out, Turns(side, s, n, d, {<<n, s>>}, out),
         net[<<n, s>>] # <<>>
  PROVE  /\ MailOk(side, n, s)' /\ ~First(n, s, "CALL")' /\ ~First(n, s, "ANSWER")'
         /\ net'[<<n, s>>] = Tail(net[<<n, s>>]) /\ link'[<<n, s>>] = link[<<n, s>>]
<1>1. <<n, s>> \in Edge /\ s # n
  BY EdgesKnown, SidesOf
<1>2. out[<<n, s>>] = <<>> /\ Arrives({<<n, s>>}, out) /\ link'[<<n, s>>] = link[<<n, s>>]
  BY <1>1 DEF Turns, OnlyFrom
<1>3. net'[<<n, s>>] = Tail(net[<<n, s>>])
  BY <1>1, <1>2 DEF Arrives
<1>4. Tail(net[<<n, s>>]) \in Seq(Later(side, n, s, running))
  BY <1>1 DEF Inv, MailOk
<1>5. running' = running
  BY DEF Turns
<1> QED
  BY <1>1, <1>2, <1>3, <1>4, <1>5, PlainMail

LEMMA ReadPlain ==
  ASSUME NEW side \in Sides, Splits(side), Inv(side), NEW s \in Server, NEW n \in Server,
         <<s, n>> \in Edge, NEW d, NEW out, Turns(side, s, n, d, {<<n, s>>}, out),
         net[<<n, s>>] # <<>>, Head(net[<<n, s>>]).cmd \notin {"CALL", "ANSWER"},
         Grows(side, s, n, running),
         link'[<<s, n>>] = link[<<s, n>>] \/ (link'[<<s, n>>] = "down" /\ n \notin running)
  PROVE  BothOk(side, s, n)'
<1>1. <<n, s>> \in Edge /\ s # n /\ s \in running
  BY EdgesKnown, SidesOf DEF Turns
<1>2. TypeOK /\ MailOk(side, s, n) /\ LinkOk(s, n) /\ LinkOk(n, s) /\ DeadOk(n)
  BY <1>1 DEF Inv
<1>3. ~First(s, n, "CALL") /\ ~First(s, n, "ANSWER") /\ ~First(n, s, "ANSWER")
  BY <1>2 DEF LinkOk, CallOk, AnswerOk, First
<1>4. running' = running
  BY DEF Turns
<1>5. /\ net'[<<s, n>>] # <<>> =>
              /\ Head(net'[<<s, n>>])
                   \in Later(side, s, n, running) \union {[cmd |-> "CALL"], Answer}
              /\ Tail(net'[<<s, n>>]) \in Seq(Later(side, s, n, running))
      /\ \A cmd \in {"CALL", "ANSWER"} :
              (net'[<<s, n>>] # <<>> /\ Head(net'[<<s, n>>]).cmd = cmd) <=> First(s, n, cmd)
  BY <1>2, GrownMail
<1>6. MailOk(side, s, n)' /\ ~First(s, n, "CALL")' /\ ~First(s, n, "ANSWER")'
  BY <1>3, <1>4, <1>5 DEF MailOk, First
<1>7. /\ MailOk(side, n, s)' /\ ~First(n, s, "CALL")' /\ ~First(n, s, "ANSWER")'
      /\ link'[<<n, s>>] = link[<<n, s>>]
  BY ReadIs
<1>8. n \notin running => link[<<n, s>>] = "down"
  BY <1>1, <1>2 DEF DeadOk, Neighbours
<1>9. PairOk(s, n)' /\ PairOk(n, s)'
  BY <1>1, <1>2, <1>3, <1>4, <1>7, <1>8 DEF PairOk, LinkOk
<1> QED
  BY <1>6, <1>7, <1>9 DEF BothOk, LinkOk, CallOk, AnswerOk

\* The neighbours of s, but for n, may be told p.
MayHear(side, s, n, p) ==
  \A k \in Server : <<s, k>> \in Edge /\ k # n => p \in Seq(Later(side, s, k, running))

LEMMA BroadcastSpeaks ==
  ASSUME NEW side, NEW s \in Server, NEW n, NEW p, MayHear(side, s, n, p)
  PROVE  /\ Speaks(side, s, n, broadcast(s, n, p)) /\ OnlyFrom(s, broadcast(s, n, p))
         /\ <<s, n>> \in Edge => broadcast(s, n, p)[<<s, n>>] = <<>>
BY DEF Speaks, OnlyFrom, broadcast, MayHear

LEMMA NothingSpeaks ==
  ASSUME NEW side, NEW s \in Server, NEW n
  PROVE  /\ Speaks(side, s, n, Nothing) /\ OnlyFrom(s, Nothing)
         /\ <<s, n>> \in Edge => Nothing[<<s, n>>] = <<>>
BY DEF Speaks, OnlyFrom, Nothing

\* News of what is behind n may be told to every other neighbour.
LEMMA NewsSpeaks ==
  ASSUME NEW side, Splits(side), NEW s \in Server, NEW n \in Server, <<s, n>> \in Edge,
         NEW x \in side[<<n, s>>],
         NEW k \in Server, <<s, k>> \in Edge, k # n
  PROVE  /\ <<[cmd |-> "SERVER", name |-> x]>> \in Seq(Later(side, s, k, running))
         /\ <<Squit(x)>> \in Seq(Later(side, s, k, running))
<1>1. x # s
  BY SidesOf
<1>2. x \in side[<<s, k>>]
  BY SidesApart
<1> QED
  BY <1>1, <1>2, MayTell

LEMMA RoutedNow ==
  ASSUME TypeOK, NEW side, NEW s \in Server, NEW d, ListsOK(s, d), db' = [db EXCEPT ![s] = d],
         NEW up, UpOf(s)' = up, Routes(side, s, d, up)
  PROVE  RoutedAt(side, s)'
<1>1. db'[s] = d
  BY ListsMove
<1> QED
  BY <1>1 DEF RoutedAt

LEMMA BurstLater ==
  ASSUME NEW side, Splits(side), Inv(side), NEW s \in Server, NEW n \in Server,
         <<s, n>> \in Edge, n \notin UpOf(s)
  PROVE  Burst(s) \in Seq(Later(side, s, n, running))
<1> DEFINE S == DOMAIN db[s].srv \ {s}
<1>1. Burst(s) \in Seq(ServerMessage(S) \union UserMessage)
  BY BurstIs DEF Inv
<1>2. S \subseteq side[<<s, n>>] \ {s}
  <2> SUFFICES ASSUME NEW x \in S PROVE x \in side[<<s, n>>]
    OBVIOUS
  <2>1. PICK k : k = db[s].srv[x]
    OBVIOUS
  <2>2. k \in UpOf(s) /\ x \in side[<<k, s>>]
    BY <2>1 DEF Inv, RoutedAt, Routes
  <2>3. k \in Server /\ <<s, k>> \in Edge /\ k # n
    BY <2>2 DEF UpOf, Neighbours
  <2> QED
    BY <2>2, <2>3, SidesApart
<1> HIDE DEF S
<1>3. ServerMessage(S) \union UserMessage \subseteq Later(side, s, n, running)
  BY <1>2 DEF ServerMessage, Later
<1> QED
  BY <1>1, <1>3, Wider

LEMMA MovesTurns ==
  ASSUME TypeOK, NEW side, NEW s \in running, NEW n \in Server, <<s, n>> \in Edge,
         NEW d, NEW how, NEW taken, NEW out, Moves(s, n, d, how, taken, out),
         taken \subseteq {<<n, s>>}, Speaks(side, s, n, out), OnlyFrom(s, out)
  PROVE  Turns(side, s, n, d, taken, out) /\ link'[<<s, n>>] = how
<1>1. Arrives(taken, out)
  BY Delivered DEF Moves
<1>2. link'[<<s, n>>] = how /\ \A e \in Edge \ {<<s, n>>} : link'[e] = link[e]
  BY DEF Moves, TypeOK
<1> QED
  BY <1>1, <1>2 DEF Moves, Turns

\* A message that is no call and no answer, and does not change the link.
LEMMA ReceivePlain ==
  ASSUME NEW side \in Sides, Splits(side), Inv(side), TypeOK',
         NEW s \in running, NEW n \in Server, <<s, n>> \in Edge,
         net[<<n, s>>] # <<>>, Head(net[<<n, s>>]).cmd \notin {"CALL", "ANSWER"},
         NEW d, NEW out, Moves(s, n, d, link[<<s, n>>], {<<n, s>>}, out),
         Speaks(side, s, n, out), OnlyFrom(s, out),
         out[<<s, n>>] # <<>> => out[<<s, n>>] \in Seq(Later(side, s, n, running)) /\ IsUp(s, n),
         Routes(side, s, d, UpOf(s))
  PROVE  Inv(side)'
<1>1. TypeOK /\ s \in Server
  BY DEF Inv, TypeOK
<1>2. Turns(side, s, n, d, {<<n, s>>}, out) /\ link'[<<s, n>>] = link[<<s, n>>]
  BY <1>1, MovesTurns
<1>3. s # n
  BY <1>1, SidesOf
<1>4. Arrives({<<n, s>>}, out) /\ <<s, n>> \notin {<<n, s>>}
  BY <1>2, <1>3 DEF Turns
<1>5. Grows(side, s, n, running)
  BY <1>1, <1>4, SentGrows
<1>6. BothOk(side, s, n)'
  BY <1>1, <1>2, <1>5, ReadPlain
<1>7. UpOf(s)' = UpOf(s)
  BY <1>1, <1>2, UpMoves DEF Turns
<1>8. RoutedAt(side, s)'
  BY <1>1, <1>7, RoutedNow DEF Moves
<1>9. /\ MailOk(side, s, n)' /\ LinkOk(s, n)'
      /\ MailOk(side, n, s)' /\ LinkOk(n, s)'
  BY <1>6 DEF BothOk
<1> QED
  BY <1>1, <1>2, <1>8, <1>9, TurnsOk

LEMMA TalkSpeaks ==
  ASSUME TypeOK, NEW side, NEW s \in Server, NEW d, NEW out, Talks(s, d, out)
  PROVE  /\ OnlyFrom(s, out)
         /\ \A k \in Server : <<s, k>> \in Edge /\ out[<<s, k>>] # <<>> =>
              IsUp(s, k) /\ out[<<s, k>>] \in Seq(Later(side, s, k, running))
<1>1. UserMessage \subseteq Later(side, s, s, running)
  BY DEF Later
<1>2. ASSUME NEW k \in Server, <<s, k>> \in Edge, out[<<s, k>>] # <<>>
      PROVE  IsUp(s, k) /\ out[<<s, k>>] \in Seq(Later(side, s, k, running))
  <2>1. UserMessage \subseteq Later(side, s, k, running)
    BY DEF Later
  <2>2. out[<<s, k>>] \in Seq(UserMessage) /\ IsUp(s, k)
    BY <1>2 DEF Talks, SentBy
  <2> QED
    BY <2>1, <2>2, Wider
<1> QED
  BY <1>2 DEF OnlyFrom, Talks, SentBy

LEMMA ReceiveTalk ==
  ASSUME NEW side \in Sides, Splits(side), Inv(side), TypeOK',
         NEW s \in running, NEW n \in Server, <<s, n>> \in Edge,
         NEW m, m \in UserMessage, net[<<n, s>>] # <<>>, m = Head(net[<<n, s>>]),
         NEW r, r = do_command(s, n, m),
         Moves(s, n, r.db, r.link, {<<n, s>>}, r.out)
  PROVE  Inv(side)'
<1>1. TypeOK /\ s \in Server /\ RoutedAt(side, s)
  BY DEF Inv, TypeOK
<1>2. Talks(s, r.db, r.out) /\ r.link = link[<<s, n>>]
  BY <1>1, UserTalks
<1>3. /\ OnlyFrom(s, r.out)
      /\ \A k \in Server : <<s, k>> \in Edge /\ r.out[<<s, k>>] # <<>> =>
              IsUp(s, k) /\ r.out[<<s, k>>] \in Seq(Later(side, s, k, running))
  BY <1>1, <1>2, TalkSpeaks
<1>4. Routes(side, s, r.db, UpOf(s))
  BY <1>1, <1>2, RoutesTalk DEF RoutedAt, Talks
<1>5. m.cmd \notin {"CALL", "ANSWER"}
  BY UserMessageFields
<1>6. PICK d, out : d = r.db /\ out = r.out
  OBVIOUS
<1>7. Speaks(side, s, n, out)
  BY <1>3, <1>6 DEF Speaks
<1> QED
  BY <1>2, <1>3, <1>4, <1>5, <1>6, <1>7, ReceivePlain

LEMMA ReceiveServer ==
  ASSUME NEW side \in Sides, Splits(side), Inv(side), TypeOK',
         NEW s \in running, NEW n \in Server, <<s, n>> \in Edge,
         NEW m \in Later(side, n, s, running), m.cmd = "SERVER",
         net[<<n, s>>] # <<>>, m = Head(net[<<n, s>>]),
         NEW r, r = do_command(s, n, m),
         Moves(s, n, r.db, r.link, {<<n, s>>}, r.out)
  PROVE  Inv(side)'
<1>1. TypeOK /\ s \in Server /\ RoutedAt(side, s) /\ <<n, s>> \in Edge
  BY EdgesKnown DEF Inv, TypeOK
<1>2. m \in Message /\ m.name \in side[<<n, s>>] /\ m.name # n
  BY <1>1, LaterIs
<1>3. m = [cmd |-> "SERVER", name |-> m.name]
  BY DEF Later, ServerMessage, SquitMessage, UserMessage, NickMessage, NickOf
<1>4. /\ ListsOK(s, r.db) /\ r.link = link[<<s, n>>] /\ r.db.usr = db[s].usr
      /\ MayAddServer(db[s], m.name, n) =>
              /\ r.out = broadcast(s, n, <<m>>)
              /\ DOMAIN r.db.srv = DOMAIN db[s].srv \union {m.name} /\ r.db.srv[m.name] = n
              /\ \A x \in DOMAIN db[s].srv : r.db.srv[x] = db[s].srv[x]
      /\ ~MayAddServer(db[s], m.name, n) => r.out = Nothing /\ r.db.srv = db[s].srv
  BY <1>1, <1>2, ServerIs
<1>5. PICK d, out : d = r.db /\ out = r.out
  OBVIOUS
<1>6. MayHear(side, s, n, <<m>>)
  BY <1>1, <1>2, <1>3, NewsSpeaks DEF MayHear
<1>7. Speaks(side, s, n, out) /\ OnlyFrom(s, out) /\ out[<<s, n>>] = <<>>
  <2>1. CASE MayAddServer(db[s], m.name, n)
    BY <1>1, <1>4, <1>5, <1>6, <2>1, BroadcastSpeaks
  <2>2. CASE ~MayAddServer(db[s], m.name, n)
    BY <1>1, <1>4, <1>5, <2>2, NothingSpeaks
  <2> QED
    BY <2>1, <2>2
<1>8. Routes(side, s, d, UpOf(s))
  <2>0. Routes(side, s, db[s], UpOf(s)) /\ UpOf(s) \subseteq Neighbours(s)
    BY <1>1 DEF RoutedAt, UpOf
  <2>1. CASE MayAddServer(db[s], m.name, n)
    <3>1. /\ m.name \notin DOMAIN db[s].srv /\ n \in DOMAIN db[s].srv
          /\ DOMAIN d.srv = DOMAIN db[s].srv \union {m.name} /\ d.srv[m.name] = n
          /\ \A x \in DOMAIN db[s].srv : d.srv[x] = db[s].srv[x]
          /\ d.usr = db[s].usr
      BY <1>2, <1>4, <1>5, <2>1 DEF MayAddServer
    <3> QED
      BY <1>1, <1>2, <2>0, <3>1, RoutesServer
  <2>2. CASE ~MayAddServer(db[s], m.name, n)
    <3>1. d.srv = db[s].srv /\ d.usr = db[s].usr
      BY <1>4, <1>5, <2>2
    <3> QED
      BY <2>0, <3>1, RoutesTalk
  <2> QED
    BY <2>1, <2>2
<1> QED
  BY <1>4, <1>5, <1>7, <1>8, ReceivePlain

LEMMA ReceiveSquit ==
  ASSUME NEW side \in Sides, Splits(side), Inv(side), TypeOK',
         NEW s \in running, NEW n \in Server, <<s, n>> \in Edge,
         NEW m \in Later(side, n, s, running), m.cmd = "SQUIT",
         net[<<n, s>>] # <<>>, m = Head(net[<<n, s>>]),
         NEW r, r = do_command(s, n, m),
         Moves(s, n, r.db, r.link, {<<n, s>>}, r.out)
  PROVE  Inv(side)'
<1>1. TypeOK /\ s \in Server /\ RoutedAt(side, s) /\ <<n, s>> \in Edge /\ ListsOK(s, db[s])
  BY EdgesKnown DEF Inv, TypeOK
<1>2. m \in Message /\ m.name \in side[<<n, s>>] /\ (m.name = n => n \notin running)
  BY <1>1, LaterIs
<1>3. m = Squit(m.name)
  BY DEF Later, ServerMessage, SquitMessage, UserMessage, NickMessage, NickOf, Squit
<1>4. /\ ListsOK(s, r.db) /\ r.out = broadcast(s, n, <<m>>)
      /\ m.name = n => r.db = del_router(db[s], n) /\ r.link = "down"
      /\ m.name # n => r.db = del_server(db[s], m.name) /\ r.link = link[<<s, n>>]
  BY <1>1, <1>2, SquitIs
<1>5. PICK d, out : d = r.db /\ out = r.out
  OBVIOUS
<1>6. MayHear(side, s, n, <<m>>)
  BY <1>1, <1>2, <1>3, NewsSpeaks DEF MayHear
<1>7. Speaks(side, s, n, out) /\ OnlyFrom(s, out) /\ out[<<s, n>>] = <<>>
  BY <1>1, <1>4, <1>5, <1>6, BroadcastSpeaks
<1>8. Routes(side, s, db[s], UpOf(s)) /\ UpOf(s) \subseteq Neighbours(s)
  BY <1>1 DEF RoutedAt, UpOf
<1>9. CASE m.name # n
  <2>1. Routes(side, s, del_server(db[s], m.name), UpOf(s))
    BY <1>1, <1>2, <1>8, <1>9, RoutesSquit
  <2> QED
    BY <1>4, <1>5, <1>7, <1>9, <2>1, ReceivePlain
<1>10. CASE m.name = n
  <2>1. d = del_router(db[s], n) /\ Moves(s, n, d, "down", {<<n, s>>}, out)
    BY <1>4, <1>5, <1>10
  <2>2. Turns(side, s, n, d, {<<n, s>>}, out) /\ link'[<<s, n>>] = "down"
    BY <1>1, <1>7, <2>1, MovesTurns
  <2>3. Routes(side, s, d, UpOf(s) \ {n})
    BY <1>1, <1>8, <2>1, RoutesLost
  <2>4. UpOf(s)' = UpOf(s) \ {n}
    BY <1>1, <2>2, UpMoves DEF Turns, IsUp
  <2>5. RoutedAt(side, s)'
    BY <1>1, <2>1, <2>3, <2>4, RoutedNow DEF Moves
  <2>6. Arrives({<<n, s>>}, out) /\ <<s, n>> \notin {<<n, s>>}
    BY <1>1, <2>2, SidesOf DEF Turns
  <2>7. Grows(side, s, n, running)
    BY <1>1, <1>7, <2>6, SentGrows
  <2>8. BothOk(side, s, n)'
    BY <1>1, <1>2, <1>10, <2>2, <2>7, ReadPlain
  <2>9. /\ MailOk(side, s, n)' /\ LinkOk(s, n)'
        /\ MailOk(side, n, s)' /\ LinkOk(n, s)'
    BY <2>8 DEF BothOk
  <2> QED
    BY <1>1, <2>2, <2>5, <2>9, TurnsOk
<1> QED
  BY <1>9, <1>10

Turned(side, s, n, how, greeting, r) ==
  /\ Turns(side, s, n, r.db, {<<n, s>>}, r.out) /\ link'[<<s, n>>] = how
  /\ RoutedAt(side, s)'
  /\ r.out[<<s, n>>] = greeting \o Burst(s)

\* A call or an answer that is taken up.
LEMMA IntroduceTurns ==
  ASSUME NEW side \in Sides, Splits(side), Inv(side),
         NEW s \in running, NEW n \in Server, <<s, n>> \in Edge, n \notin UpOf(s),
         net[<<n, s>>] # <<>>, NEW how \in {"called", "answered"}, NEW greeting,
         NEW r, Introduced(s, n, how, greeting, r),
         Moves(s, n, r.db, r.link, {<<n, s>>}, r.out)
  PROVE  Turned(side, s, n, how, greeting, r)
<1>1. TypeOK /\ s \in Server /\ RoutedAt(side, s) /\ ListsOK(s, db[s])
  BY DEF Inv, TypeOK
<1>2. PICK d, out : d = r.db /\ out = r.out
  OBVIOUS
<1>3. /\ r.link = how /\ d.usr = db[s].usr
      /\ DOMAIN d.srv = DOMAIN db[s].srv \union {n}
      /\ n \notin DOMAIN db[s].srv => d.srv[n] = n
      /\ \A x \in DOMAIN db[s].srv : d.srv[x] = db[s].srv[x]
      /\ out[<<s, n>>] = greeting \o Burst(s)
      /\ \A e \in Edge \ {<<s, n>>} :
           out[e] = IF e[1] = s /\ e[2] # n /\ IsUp(s, e[2]) THEN Told(n) ELSE <<>>
  BY <1>2 DEF Introduced
<1>4. OnlyFrom(s, out)
  BY <1>3 DEF OnlyFrom
<1>5. ASSUME NEW k \in Server, <<s, k>> \in Edge, k # n, out[<<s, k>>] # <<>>
      PROVE  IsUp(s, k) /\ out[<<s, k>>] \in Seq(Later(side, s, k, running))
  <2>1. IsUp(s, k) /\ out[<<s, k>>] = Told(n)
    BY <1>3, <1>5
  <2>2. n \in side[<<n, s>>]
    BY <1>1, SidesOf
  <2> QED
    BY <1>1, <1>5, <2>1, <2>2, NewsSpeaks DEF Told
<1>6. Speaks(side, s, n, out)
  BY <1>5 DEF Speaks
<1>7. Turns(side, s, n, d, {<<n, s>>}, out) /\ link'[<<s, n>>] = how
  <2>1. Moves(s, n, d, how, {<<n, s>>}, out)
    BY <1>2, <1>3
  <2> QED
    BY <1>1, <1>4, <1>6, <2>1, MovesTurns
<1>8. UpOf(s)' = UpOf(s) \union {n}
  BY <1>1, <1>7, UpMoves DEF Turns, IsUp
<1>9. Routes(side, s, db[s], UpOf(s)) /\ UpOf(s) \subseteq Neighbours(s)
  BY <1>1 DEF RoutedAt, UpOf
<1>10. Routes(side, s, d, UpOf(s) \union {n})
  BY <1>1, <1>3, <1>9, RoutesCome
<1>11. RoutedAt(side, s)'
  BY <1>1, <1>2, <1>8, <1>10, RoutedNow DEF Moves
<1> QED
  BY <1>2, <1>3, <1>7, <1>11 DEF Turned

LEMMA ReceiveCall ==
  ASSUME NEW side \in Sides, Splits(side), Inv(side), TypeOK',
         NEW s \in running, NEW n \in Server, <<s, n>> \in Edge,
         NEW m \in Message, m.cmd = "CALL", net[<<n, s>>] # <<>>, m = Head(net[<<n, s>>]),
         NEW r, r = do_command(s, n, m),
         Moves(s, n, r.db, r.link, {<<n, s>>}, r.out)
  PROVE  Inv(side)'
<1>1. TypeOK /\ s \in Server /\ <<n, s>> \in Edge /\ s # n
  <2>1. TypeOK /\ s \in Server /\ <<n, s>> \in Edge
    BY EdgesKnown DEF Inv, TypeOK
  <2> QED
    BY <2>1, SidesOf
<1>2. LinkOk(n, s) /\ DeadOk(n)
  BY <1>1 DEF Inv
<1>3. First(n, s, "CALL")
  BY DEF First
<1>4. /\ Tail(net[<<n, s>>]) = <<>> /\ net[<<s, n>>] = <<>> /\ link[<<s, n>>] = "down"
      /\ n \in running => link[<<n, s>>] = "calling"
  BY <1>2, <1>3 DEF LinkOk, CallOk
<1>5. n \notin running => link[<<n, s>>] = "down"
  BY <1>1, <1>2 DEF DeadOk, Neighbours
<1>6. r = Introduce(s, n, "answered", <<Answer>>)
  BY <1>1, <1>4, CallIs
<1>7. Introduced(s, n, "answered", <<Answer>>, r)
  <2>1. <<Answer>> \in Seq(Message) /\ "answered" \in LinkState
    BY DEF Answer, Message, LinkState
  <2>2. PICK greeting \in Seq(Message), how \in LinkState : greeting = <<Answer>> /\ how = "answered"
    BY <2>1
  <2>3. Introduced(s, n, how, greeting, r)
    BY <1>1, <1>6, <2>2, IntroduceIs
  <2> QED
    BY <2>2, <2>3
<1>8. n \notin UpOf(s)
  BY <1>4 DEF UpOf, IsUp
<1>9. /\ Turns(side, s, n, r.db, {<<n, s>>}, r.out) /\ link'[<<s, n>>] = "answered"
      /\ RoutedAt(side, s)' /\ r.out[<<s, n>>] = <<Answer>> \o Burst(s)
  <2>1. PICK how \in {"called", "answered"} : how = "answered"
    OBVIOUS
  <2>2. PICK greeting : greeting = <<Answer>>
    OBVIOUS
  <2>3. Introduced(s, n, how, greeting, r)
    BY <1>7, <2>1, <2>2
  <2>4. Turned(side, s, n, how, greeting, r)
    BY <1>8, <2>3, IntroduceTurns
  <2> QED
    BY <2>1, <2>2, <2>4 DEF Turned
<1>10. /\ MailOk(side, n, s)' /\ ~First(n, s, "CALL")' /\ ~First(n, s, "ANSWER")'
       /\ net'[<<n, s>>] = Tail(net[<<n, s>>]) /\ link'[<<n, s>>] = link[<<n, s>>]
  BY <1>1, <1>9, ReadIs
<1>11. running' = running /\ Arrives({<<n, s>>}, r.out)
  BY <1>9 DEF Turns
<1>12. Burst(s) \in Seq(Later(side, s, n, running))
  BY <1>1, <1>8, BurstLater
<1>13. CASE n \in running
  <2>1. net'[<<s, n>>] = <<>> \o (<<Answer>> \o Burst(s))
    BY <1>1, <1>4, <1>9, <1>11, <1>13 DEF Arrives
  <2> DEFINE M == Later(side, s, n, running)
             b == Burst(s)
  <2>2. b \in Seq(M)
    BY <1>12
  <2> HIDE DEF M, b
  <2>3. <<>> \o (<<Answer>> \o b) # <<>>
    BY <2>2
  <2>4. Head(<<>> \o (<<Answer>> \o b)) = Answer
    BY <2>2
  <2>5. Tail(<<>> \o (<<Answer>> \o b)) \in Seq(M)
    <3> DEFINE N == M \union {Answer}
    <3>1. b \in Seq(N) /\ <<Answer>> \in Seq(N) /\ <<>> \in Seq(N)
      BY <2>2, Wider
    <3> HIDE DEF N
    <3>2. <<>> \o (<<Answer>> \o b) = <<Answer>> \o b
      BY <3>1
    <3>3. Tail(<<Answer>> \o b) = Tail(<<Answer>>) \o b
      BY <3>1, TailJoined
    <3>4. Tail(<<Answer>>) = <<>> /\ <<>> \o b = b
      BY <3>1
    <3> QED
      BY <2>2, <3>2, <3>3, <3>4
  <2>6. net'[<<s, n>>] # <<>> /\ Head(net'[<<s, n>>]) = Answer /\ Tail(net'[<<s, n>>]) \in Seq(M)
    BY <2>1, <2>3, <2>4, <2>5 DEF b
  <2>7. MailOk(side, s, n)' /\ ~First(s, n, "CALL")' /\ First(s, n, "ANSWER")'
    BY <1>11, <2>6 DEF MailOk, First, Answer, M
  <2> QED
    BY <1>1, <1>4, <1>9, <1>10, <1>11, <1>13, <2>7, TurnsOk
       DEF LinkOk, CallOk, AnswerOk, PairOk
<1>14. CASE n \notin running
  <2>1. net'[<<s, n>>] = <<>>
    BY <1>1, <1>4, <1>11, <1>14 DEF Arrives
  <2>2. MailOk(side, s, n)' /\ ~First(s, n, "CALL")' /\ ~First(s, n, "ANSWER")'
    BY <2>1 DEF MailOk, First
  <2>3. LinkOk(s, n)' /\ LinkOk(n, s)'
    BY <1>5, <1>9, <1>10, <1>11, <1>14, <2>2 DEF LinkOk, CallOk, AnswerOk, PairOk
  <2> QED
    BY <1>1, <1>9, <1>10, <2>2, <2>3, TurnsOk
<1> QED
  BY <1>13, <1>14

LEMMA ReceiveAnswer ==
  ASSUME NEW side \in Sides, Splits(side), Inv(side), TypeOK',
         NEW s \in running, NEW n \in Server, <<s, n>> \in Edge,
         NEW m \in Message, m.cmd = "ANSWER", net[<<n, s>>] # <<>>, m = Head(net[<<n, s>>]),
         NEW r, r = do_command(s, n, m),
         Moves(s, n, r.db, r.link, {<<n, s>>}, r.out)
  PROVE  Inv(side)'
<1>1. TypeOK /\ s \in Server /\ <<n, s>> \in Edge /\ s # n
  <2>1. TypeOK /\ s \in Server /\ <<n, s>> \in Edge
    BY EdgesKnown DEF Inv, TypeOK
  <2> QED
    BY <2>1, SidesOf
<1>2. LinkOk(n, s) /\ DeadOk(n)
  BY <1>1 DEF Inv
<1>3. First(n, s, "ANSWER")
  BY DEF First
<1>4. /\ net[<<s, n>>] = <<>> /\ link[<<s, n>>] = "calling"
      /\ n \in running => link[<<n, s>>] = "answered"
  BY <1>2, <1>3 DEF LinkOk, AnswerOk
<1>5. n \notin running => link[<<n, s>>] = "down"
  BY <1>1, <1>2 DEF DeadOk, Neighbours
<1>6. r = Introduce(s, n, "called", <<>>)
  BY <1>1, <1>4, AnswerIs
<1>7. Introduced(s, n, "called", <<>>, r)
  <2>1. <<>> \in Seq(Message) /\ "called" \in LinkState
    BY DEF LinkState
  <2>2. PICK greeting \in Seq(Message), how \in LinkState : greeting = <<>> /\ how = "called"
    BY <2>1
  <2>3. Introduced(s, n, how, greeting, r)
    BY <1>1, <1>6, <2>2, IntroduceIs
  <2> QED
    BY <2>2, <2>3
<1>8. n \notin UpOf(s)
  BY <1>4 DEF UpOf, IsUp
<1>9. /\ Turns(side, s, n, r.db, {<<n, s>>}, r.out) /\ link'[<<s, n>>] = "called"
      /\ RoutedAt(side, s)' /\ r.out[<<s, n>>] = <<>> \o Burst(s)
  <2>1. PICK how \in {"called", "answered"} : how = "called"
    OBVIOUS
  <2>2. PICK greeting : greeting = <<>>
    OBVIOUS
  <2>3. Introduced(s, n, how, greeting, r)
    BY <1>7, <2>1, <2>2
  <2>4. Turned(side, s, n, how, greeting, r)
    BY <1>8, <2>3, IntroduceTurns
  <2> QED
    BY <2>1, <2>2, <2>4 DEF Turned
<1>10. /\ MailOk(side, n, s)' /\ ~First(n, s, "CALL")' /\ ~First(n, s, "ANSWER")'
       /\ link'[<<n, s>>] = link[<<n, s>>]
  BY <1>1, <1>9, ReadIs
<1>11. running' = running /\ Arrives({<<n, s>>}, r.out)
  BY <1>9 DEF Turns
<1>12. Burst(s) \in Seq(Later(side, s, n, running))
  BY <1>1, <1>8, BurstLater
<1>13. net'[<<s, n>>] \in Seq(Later(side, s, n, running))
  <2> DEFINE M == Later(side, s, n, running)
             b == Burst(s)
  <2>1. b \in Seq(M)
    BY <1>12
  <2>2. net'[<<s, n>>] = IF n \in running THEN <<>> \o (<<>> \o b) ELSE <<>>
    BY <1>1, <1>4, <1>9, <1>11 DEF Arrives
  <2> HIDE DEF M, b
  <2>3. <<>> \o (<<>> \o b) = b /\ <<>> \in Seq(M)
    BY <2>1
  <2> QED
    BY <2>1, <2>2, <2>3 DEF M
<1>14. MailOk(side, s, n)' /\ ~First(s, n, "CALL")' /\ ~First(s, n, "ANSWER")'
  BY <1>1, <1>11, <1>13, PlainMail
<1>15. LinkOk(s, n)' /\ LinkOk(n, s)'
  BY <1>4, <1>5, <1>9, <1>10, <1>11, <1>14 DEF LinkOk, CallOk, AnswerOk, PairOk
<1> QED
  BY <1>1, <1>9, <1>10, <1>14, <1>15, TurnsOk

LEMMA ReceiveOk ==
  ASSUME NEW side \in Sides, Splits(side), Inv(side), TypeOK',
         NEW s \in Server, NEW n \in Server, <<s, n>> \in Edge, Receive(s, n)
  PROVE  Inv(side)'
<1>1. TypeOK /\ s \in running /\ <<n, s>> \in Edge
  BY EdgesKnown DEF Inv, Receive
<1>2. PICK m \in Message : \E r :
           /\ net[<<n, s>>] # <<>> /\ m = Head(net[<<n, s>>]) /\ r = do_command(s, n, m)
           /\ Moves(s, n, r.db, r.link, {<<n, s>>}, r.out)
  BY <1>1, ReceiveMoves
<1>3. PICK r : /\ net[<<n, s>>] # <<>> /\ m = Head(net[<<n, s>>]) /\ r = do_command(s, n, m)
               /\ Moves(s, n, r.db, r.link, {<<n, s>>}, r.out)
  BY <1>2
<1>4. m \in Later(side, n, s, running) \union {[cmd |-> "CALL"], Answer}
  BY <1>1, <1>3 DEF Inv, MailOk
<1>5. CASE m.cmd = "CALL"
  BY <1>1, <1>3, <1>5, ReceiveCall
<1>6. CASE m.cmd = "ANSWER"
  BY <1>1, <1>3, <1>6, ReceiveAnswer
<1>7. CASE m.cmd \notin {"CALL", "ANSWER"}
  <2>1. m \in Later(side, n, s, running)
    BY <1>4, <1>7 DEF Answer
  <2>2. CASE m \in UserMessage
    BY <1>1, <1>3, <2>2, ReceiveTalk
  <2>3. CASE m.cmd = "SERVER"
    BY <1>1, <1>3, <2>1, <2>3, ReceiveServer
  <2>4. CASE m.cmd = "SQUIT"
    BY <1>1, <1>3, <2>1, <2>4, ReceiveSquit
  <2> QED
    BY <1>7, <2>2, <2>3, <2>4, MessageFields
<1> QED
  BY <1>5, <1>6, <1>7

\* Steps that change the link to n and not the queue from n.
LEMMA CallOkNext ==
  ASSUME NEW side \in Sides, Splits(side), Inv(side), TypeOK',
         NEW s \in Server, NEW n \in Server, <<s, n>> \in Edge, Call(s, n)
  PROVE  Inv(side)'
<1> DEFINE msg == [cmd |-> "CALL"]
           out == To(s, n, <<msg>>)
<1>1. TypeOK /\ <<n, s>> \in Edge /\ s # n /\ s \in running /\ n \in running
  <2>1. TypeOK /\ <<n, s>> \in Edge /\ s \in running /\ n \in running
    BY EdgesKnown DEF Inv, Call
  <2> QED
    BY <2>1, SidesOf
<1>2. /\ net[<<s, n>>] = <<>> /\ net[<<n, s>>] = <<>>
      /\ link[<<s, n>>] = "down" /\ link[<<n, s>>] # "calling"
  BY DEF Call, Idle
<1>3. LinkOk(s, n) /\ LinkOk(n, s) /\ MailOk(side, n, s) /\ RoutedAt(side, s)
  BY <1>1 DEF Inv
<1>4. link[<<n, s>>] = "down"
  <2>1. link[<<n, s>>] \in LinkState
    BY <1>1 DEF TypeOK
  <2> QED
    BY <1>1, <1>2, <1>3, <2>1 DEF LinkOk, PairOk, LinkState
<1>5. Moves(s, n, db[s], "calling", {}, out)
  BY <1>1, CallMoves
<1>6. out[<<s, n>>] = <<msg>> /\ \A e \in Edge \ {<<s, n>>} : out[e] = <<>>
  BY DEF To, Nothing
<1> HIDE DEF out
<1>7. Speaks(side, s, n, out) /\ OnlyFrom(s, out)
  BY <1>6 DEF Speaks, OnlyFrom
<1>8. Turns(side, s, n, db[s], {}, out) /\ link'[<<s, n>>] = "calling"
  BY <1>1, <1>5, <1>7, MovesTurns
<1>9. running' = running /\ Arrives({}, out) /\ link'[<<n, s>>] = link[<<n, s>>]
  BY <1>1, <1>8 DEF Turns
<1>10. net'[<<n, s>>] = <<>>
  BY <1>1, <1>2, <1>6, <1>9 DEF Arrives
<1>11. net'[<<s, n>>] = <<msg>>
  <2>1. net'[<<s, n>>] = <<>> \o <<msg>>
    BY <1>1, <1>2, <1>6, <1>9 DEF Arrives
  <2>2. <<>> \o <<msg>> = <<msg>>
    OBVIOUS
  <2> QED
    BY <2>1, <2>2
<1>12. MailOk(side, s, n)' /\ First(s, n, "CALL")' /\ ~First(s, n, "ANSWER")'
  BY <1>11 DEF MailOk, First
<1>13. MailOk(side, n, s)' /\ ~First(n, s, "CALL")' /\ ~First(n, s, "ANSWER")'
  BY <1>10 DEF MailOk, First
<1>14. LinkOk(s, n)' /\ LinkOk(n, s)'
  BY <1>1, <1>4, <1>8, <1>9, <1>10, <1>11, <1>12, <1>13 DEF LinkOk, CallOk, AnswerOk, PairOk
<1>15. UpOf(s)' = UpOf(s)
  <2>1. UpOf(s)' = UpOf(s) \ {n} /\ n \notin UpOf(s)
    BY <1>2, <1>8, UpMoves DEF Turns, IsUp, UpOf
  <2> QED
    BY <2>1
<1>16. RoutedAt(side, s)'
  BY <1>1, <1>3, <1>5, <1>15, RoutedNow DEF Moves, RoutedAt
<1> QED
  BY <1>1, <1>8, <1>12, <1>13, <1>14, <1>16, TurnsOk

\* A link that is given up, when nothing is on its way and the other side is not up
\* because of it.
LEMMA DropsOk ==
  ASSUME NEW side \in Sides, Splits(side), Inv(side), TypeOK',
         NEW s \in running, NEW n \in Server, <<s, n>> \in Edge, Idle(s, n),
         link[<<n, s>>] \notin {"called", "answered"},
         NEW d, NEW out, Moves(s, n, d, "down", {}, out), Speaks(side, s, n, out),
         OnlyFrom(s, out), out[<<s, n>>] = <<>>, Routes(side, s, d, UpOf(s) \ {n})
  PROVE  Inv(side)'
<1>1. TypeOK /\ s \in Server /\ <<n, s>> \in Edge /\ s # n
  <2>1. TypeOK /\ s \in Server /\ <<n, s>> \in Edge
    BY EdgesKnown DEF Inv, TypeOK
  <2> QED
    BY <2>1, SidesOf
<1>2. Turns(side, s, n, d, {}, out) /\ link'[<<s, n>>] = "down"
  BY <1>1, MovesTurns
<1>3. running' = running /\ Arrives({}, out) /\ link'[<<n, s>>] = link[<<n, s>>]
  BY <1>1, <1>2 DEF Turns
<1>4. net'[<<s, n>>] = <<>>
  BY <1>1, <1>3 DEF Arrives, Idle
<1>5. net'[<<n, s>>] = <<>>
  BY <1>1, <1>2, <1>3 DEF Arrives, Idle, Turns, OnlyFrom
<1>6. /\ MailOk(side, s, n)' /\ ~First(s, n, "CALL")' /\ ~First(s, n, "ANSWER")'
      /\ MailOk(side, n, s)' /\ ~First(n, s, "CALL")' /\ ~First(n, s, "ANSWER")'
  BY <1>4, <1>5 DEF MailOk, First
<1>7. LinkOk(s, n)' /\ LinkOk(n, s)'
  BY <1>2, <1>3, <1>6 DEF LinkOk, CallOk, AnswerOk, PairOk
<1>8. UpOf(s)' = UpOf(s) \ {n}
  BY <1>1, <1>2, UpMoves DEF Turns, IsUp
<1>9. RoutedAt(side, s)'
  BY <1>1, <1>8, RoutedNow DEF Moves
<1> QED
  BY <1>1, <1>2, <1>6, <1>7, <1>9, TurnsOk

LEMMA TimeoutOk ==
  ASSUME NEW side \in Sides, Splits(side), Inv(side), TypeOK',
         NEW s \in Server, NEW n \in Server, <<s, n>> \in Edge, CallTimeout(s, n)
  PROVE  Inv(side)'
<1>1. TypeOK /\ <<n, s>> \in Edge /\ link[<<s, n>>] = "calling" /\ Idle(s, n)
  BY EdgesKnown DEF Inv, CallTimeout
<1>2. LinkOk(s, n) /\ LinkOk(n, s) /\ DeadOk(s) /\ RoutedAt(side, s)
  BY <1>1 DEF Inv
<1>3. s \in running
  BY <1>1, <1>2 DEF DeadOk, Neighbours
<1>4. link[<<n, s>>] \notin {"called", "answered"}
  BY <1>1, <1>2, <1>3 DEF LinkOk, PairOk, First, Idle
<1>5. Moves(s, n, db[s], "down", {}, Nothing)
  BY <1>1, TimeoutMoves
<1>6. Speaks(side, s, n, Nothing) /\ OnlyFrom(s, Nothing) /\ Nothing[<<s, n>>] = <<>>
  BY NothingSpeaks
<1>7. UpOf(s) \ {n} = UpOf(s)
  BY <1>1 DEF UpOf, IsUp
<1>8. Routes(side, s, db[s], UpOf(s) \ {n})
  BY <1>2, <1>7 DEF RoutedAt
<1> QED
  BY <1>1, <1>3, <1>4, <1>5, <1>6, <1>8, DropsOk

LEMMA GiveUpOk ==
  ASSUME NEW side \in Sides, Splits(side), Inv(side), TypeOK',
         NEW s \in Server, NEW n \in Server, <<s, n>> \in Edge, GiveUp(s, n)
  PROVE  Inv(side)'
<1>1. /\ TypeOK /\ <<n, s>> \in Edge /\ Idle(s, n) /\ s \in running
      /\ n \notin running \/ (link[<<s, n>>] = "answered" /\ ~IsUp(n, s))
      /\ ListsOK(s, db[s])
  BY EdgesKnown DEF Inv, GiveUp, TypeOK
<1>2. DeadOk(n) /\ RoutedAt(side, s)
  BY <1>1 DEF Inv
<1>3. link[<<n, s>>] \notin {"called", "answered"}
  BY <1>1, <1>2 DEF DeadOk, Neighbours, IsUp
<1>4. PICK out : out = broadcast(s, n, <<Squit(n)>>)
  OBVIOUS
<1>5. Moves(s, n, del_router(db[s], n), "down", {}, out)
  BY <1>1, <1>4, GiveUpMoves
<1>6. MayHear(side, s, n, <<Squit(n)>>)
  <2>1. n \in side[<<n, s>>]
    BY SidesOf
  <2> QED
    BY <2>1, NewsSpeaks DEF MayHear
<1>7. Speaks(side, s, n, out) /\ OnlyFrom(s, out) /\ out[<<s, n>>] = <<>>
  BY <1>4, <1>6, BroadcastSpeaks
<1>8. Routes(side, s, db[s], UpOf(s)) /\ UpOf(s) \subseteq Neighbours(s)
  BY <1>2 DEF RoutedAt, UpOf
<1>9. Routes(side, s, del_router(db[s], n), UpOf(s) \ {n})
  BY <1>1, <1>8, RoutesLost
<1> QED
  BY <1>1, <1>3, <1>5, <1>7, <1>9, DropsOk

\* What the users do.
LEMMA TalkOk ==
  ASSUME NEW side \in Sides, Splits(side), Inv(side), TypeOK',
         NEW s \in Server, s \in running, TalkStep(s, {})
  PROVE  Inv(side)'
<1>1. TypeOK /\ RoutedAt(side, s)
  BY DEF Inv
<1>2. PICK d, out : Talks(s, d, out) /\ UNCHANGED <<running, link, stops>>
                     /\ db' = [db EXCEPT ![s] = d] /\ Deliver({}, out)
                     /\ out \in [Edge -> Seq(Message)]
  BY <1>1, TalkMoves
<1>3. /\ OnlyFrom(s, out)
      /\ \A k \in Server : <<s, k>> \in Edge /\ out[<<s, k>>] # <<>> =>
           IsUp(s, k) /\ out[<<s, k>>] \in Seq(Later(side, s, k, running))
  BY <1>1, <1>2, TalkSpeaks
<1>4. Arrives({}, out)
  <2>1. \A e \in {} : net[e] # <<>>
    OBVIOUS
  <2> QED
    BY <1>1, <1>2, <2>1, Delivered
<1>5. ListsOK(s, d)
  BY <1>2 DEF Talks
<1>6. Turns(side, s, s, d, {}, out)
  BY <1>2, <1>3, <1>4, <1>5 DEF Turns, Speaks
<1>7. <<s, s>> \notin Edge
  BY SidesOf
<1>8. UpOf(s)' = UpOf(s)
  BY <1>2 DEF UpOf, IsUp
<1>9. Routes(side, s, d, UpOf(s))
  BY <1>1, <1>2, RoutesTalk DEF RoutedAt, Talks
<1>10. RoutedAt(side, s)'
  BY <1>1, <1>2, <1>5, <1>8, <1>9, RoutedNow
<1> QED
  BY <1>1, <1>6, <1>7, <1>10, TurnsOk

\* A server that goes: nothing is left on its way to it, and it says that it goes.
LEMMA HaltPair ==
  ASSUME NEW side \in Sides, Splits(side), Inv(side),
         NEW s \in Server, NEW k \in Server, <<s, k>> \in Edge,
         Stopped(s), NEW out, SentBy(s, out, UserMessage \union {Squit(s)}), Leaves(s, out)
  PROVE  BothOk(side, s, k)'
<1>1. TypeOK /\ <<k, s>> \in Edge /\ s # k /\ s \in running
  <2>1. TypeOK /\ <<k, s>> \in Edge /\ s \in running
    BY EdgesKnown DEF Inv, Stopped
  <2> QED
    BY <2>1, SidesOf
<1>2. MailOk(side, s, k) /\ LinkOk(s, k) /\ LinkOk(k, s)
  BY <1>1 DEF Inv
<1>3. s \notin running' /\ link'[<<s, k>>] = "down" /\ link'[<<k, s>>] = link[<<k, s>>]
  BY <1>1 DEF Stopped
<1>4. net'[<<k, s>>] = <<>>
  BY <1>1 DEF Leaves
<1> DEFINE M == Later(side, s, k, running')
           p == IF k \in running THEN out[<<s, k>>] ELSE <<>>
<1>5. UserMessage \union {Squit(s)} \subseteq M
  BY <1>3, SidesOf DEF Later, SquitMessage, Squit
<1>6. out[<<s, k>>] \in Seq(UserMessage \union {Squit(s)})
  BY DEF Leaves
<1>7. out[<<s, k>>] \in Seq(M)
  <2> HIDE DEF M
  <2> QED
    BY <1>5, <1>6, Wider
<1>8. p \in Seq(M) /\ (p # <<>> => IsUp(s, k))
  BY <1>7 DEF SentBy
<1>9. net'[<<s, k>>] = net[<<s, k>>] \o p
  <2>1. net[<<s, k>>] \o <<>> = net[<<s, k>>]
    BY <1>1 DEF TypeOK
  <2>2. /\ k \in running => net'[<<s, k>>] = net[<<s, k>>] \o out[<<s, k>>]
        /\ k \notin running => net'[<<s, k>>] = net[<<s, k>>]
    BY <1>1 DEF Leaves
  <2> QED
    BY <2>1, <2>2
<1>10. Grows(side, s, k, running')
  <2> HIDE DEF p
  <2> QED
    BY <1>1, <1>8, <1>9 DEF Grows
<1> HIDE DEF M, p
<1>11. /\ net'[<<s, k>>] # <<>> =>
              /\ Head(net'[<<s, k>>])
                   \in Later(side, s, k, running') \union {[cmd |-> "CALL"], Answer}
              /\ Tail(net'[<<s, k>>]) \in Seq(Later(side, s, k, running'))
       /\ \A cmd \in {"CALL", "ANSWER"} :
              (net'[<<s, k>>] # <<>> /\ Head(net'[<<s, k>>]).cmd = cmd) <=> First(s, k, cmd)
       /\ ~(s \in running /\ IsUp(s, k)) => net'[<<s, k>>] = net[<<s, k>>]
  <2>1. PICK alive : alive = running'
    OBVIOUS
  <2>2. s \in alive => s \in running
    BY <1>1
  <2>3. Grows(side, s, k, alive)
    BY <1>10, <2>1
  <2>4. /\ net'[<<s, k>>] # <<>> =>
              /\ Head(net'[<<s, k>>])
                   \in Later(side, s, k, alive) \union {[cmd |-> "CALL"], Answer}
              /\ Tail(net'[<<s, k>>]) \in Seq(Later(side, s, k, alive))
        /\ \A cmd \in {"CALL", "ANSWER"} :
              (net'[<<s, k>>] # <<>> /\ Head(net'[<<s, k>>]).cmd = cmd) <=> First(s, k, cmd)
        /\ ~(s \in running /\ IsUp(s, k)) => net'[<<s, k>>] = net[<<s, k>>]
    BY <1>1, <1>2, <2>2, <2>3, GrownMail
  <2> QED
    BY <2>1, <2>4
<1>12. /\ MailOk(side, s, k)'
       /\ First(s, k, "CALL")' <=> First(s, k, "CALL")
       /\ First(s, k, "ANSWER")' <=> First(s, k, "ANSWER")
  BY <1>11 DEF MailOk, First
<1>13. MailOk(side, k, s)' /\ ~First(k, s, "CALL")' /\ ~First(k, s, "ANSWER")'
  BY <1>4 DEF MailOk, First
<1>14. CallOk(s, k)'
  <2> SUFFICES ASSUME First(s, k, "CALL")
               PROVE  Tail(net'[<<s, k>>]) = <<>> /\ link'[<<k, s>>] = "down"
    BY <1>3, <1>4, <1>12 DEF CallOk
  <2>1. /\ Tail(net[<<s, k>>]) = <<>> /\ link[<<k, s>>] = "down" /\ link[<<s, k>>] = "calling"
    BY <1>1, <1>2 DEF LinkOk, CallOk
  <2>2. ~IsUp(s, k)
    BY <2>1 DEF IsUp
  <2> QED
    BY <1>3, <1>11, <2>1, <2>2
<1>15. AnswerOk(s, k)'
  BY <1>2, <1>3, <1>4, <1>12 DEF LinkOk, AnswerOk
<1>16. CallOk(k, s)' /\ AnswerOk(k, s)'
  BY <1>13 DEF CallOk, AnswerOk
<1>17. PairOk(s, k)' /\ PairOk(k, s)'
  BY <1>3 DEF PairOk
<1> QED
  BY <1>12, <1>13, <1>14, <1>15, <1>16, <1>17 DEF BothOk, LinkOk

LEMMA HaltOk ==
  ASSUME NEW side \in Sides, Splits(side), Inv(side), TypeOK',
         NEW s \in Server, Shutdown(s) \/ Crash(s)
  PROVE  Inv(side)'
<1>0. TypeOK
  BY DEF Inv
<1>1. PICK out : SentBy(s, out, UserMessage \union {Squit(s)}) /\ Lost(s, out)
  BY <1>0, HaltSent
<1>2. Stopped(s) /\ Leaves(s, out)
  BY <1>0, <1>1, HaltSent, LostTyped
<1>3. /\ running' = running \ {s} /\ db' = [db EXCEPT ![s] = EmptyDb(s)]
      /\ \A e \in Edge : link'[e] = IF e[1] = s THEN "down" ELSE link[e]
  BY <1>2 DEF Stopped
<1>4. ASSUME NEW a \in Server, NEW b \in Server, <<a, b>> \in Edge
      PROVE  MailOk(side, a, b)' /\ LinkOk(a, b)'
  <2>0. <<b, a>> \in Edge
    BY <1>4, EdgesKnown
  <2>1. CASE a = s
    BY <1>1, <1>2, <1>4, <2>1, HaltPair DEF BothOk
  <2>2. CASE b = s
    BY <1>1, <1>2, <2>0, <2>2, HaltPair DEF BothOk
  <2>3. CASE a # s /\ b # s
    <3>1. net'[<<a, b>>] = net[<<a, b>>] /\ net'[<<b, a>>] = net[<<b, a>>]
      BY <1>1, <1>2, <1>4, <2>0, <2>3 DEF Leaves, SentBy
    <3>2. net[<<a, b>>] \o <<>> = net[<<a, b>>] /\ net[<<b, a>>] \o <<>> = net[<<b, a>>]
      BY <1>0, <1>4, <2>0 DEF TypeOK
    <3>3. Grows(side, a, b, running) /\ Grows(side, b, a, running)
      <4>1. \A M : <<>> \in Seq(M)
        OBVIOUS
      <4> QED
        BY <3>1, <3>2, <4>1 DEF Grows
    <3>4. Aside(side, a, b)
      BY <1>3, <1>4, <2>0, <2>3, <3>3 DEF Aside
    <3> QED
      BY <1>4, <2>0, <3>4, AsideOk DEF Inv
  <2> QED
    BY <2>1, <2>2, <2>3
<1>5. ASSUME NEW a \in Server PROVE DeadOk(a)'
  <2> SUFFICES ASSUME a \notin running', NEW b \in Neighbours(a)
               PROVE  net'[<<b, a>>] = <<>> /\ link'[<<a, b>>] = "down"
    BY DEF DeadOk
  <2>1. b \in Server /\ <<a, b>> \in Edge /\ <<b, a>> \in Edge
    BY EdgesKnown DEF Neighbours
  <2>2. CASE a = s
    BY <1>2, <1>3, <2>1, <2>2 DEF Leaves
  <2>3. CASE a # s
    <3>1. a \notin running
      BY <1>3, <2>3
    <3>2. net[<<b, a>>] = <<>> /\ link[<<a, b>>] = "down"
      BY <3>1 DEF Inv, DeadOk
    <3> QED
      BY <1>2, <1>3, <2>1, <2>3, <3>1, <3>2 DEF Leaves
  <2> QED
    BY <2>2, <2>3
<1>6. ASSUME NEW a \in Server PROVE RoutedAt(side, a)'
  <2>1. CASE a = s
    <3>1. UpOf(s)' = {}
      BY <1>3 DEF UpOf, IsUp, Neighbours
    <3>2. ListsOK(s, EmptyDb(s)) /\ Routes(side, s, EmptyDb(s), {})
      BY Empty, RoutesEmpty
    <3> QED
      BY <1>0, <1>3, <2>1, <3>1, <3>2, RoutedNow
  <2>2. CASE a # s
    <3>1. db'[a] = db[a]
      BY <1>0, <1>3, <2>2, Empty, ListsMove
    <3>2. UpOf(a)' = UpOf(a)
      <4>1. \A k \in Neighbours(a) : link'[<<a, k>>] = link[<<a, k>>]
        BY <1>3, <2>2 DEF Neighbours
      <4> QED
        BY <4>1 DEF UpOf, IsUp
    <3> QED
      BY <3>1, <3>2 DEF Inv, RoutedAt
  <2> QED
    BY <2>1, <2>2
<1> QED
  BY <1>4, <1>5, <1>6 DEF Inv

\* A server that is back before its neighbours notice would break the pairs of links.
LEMMA StartOk ==
  ASSUME ~Hasty, NEW side \in Sides, Splits(side), Inv(side), TypeOK',
         NEW s \in Server, Start(s)
  PROVE  Inv(side)'
<1>1. /\ TypeOK /\ s \notin running /\ running' = running \union {s}
      /\ link' = link /\ db' = db /\ net' = net
      /\ \A n \in Neighbours(s) : net[<<s, n>>] = <<>> /\ ~IsUp(n, s)
  BY DEF Inv, Start
<1>2. ASSUME NEW n \in Server, <<s, n>> \in Edge
      PROVE  BothOk(side, s, n)'
  <2>1. n \in Neighbours(s)
    BY <1>2 DEF Neighbours
  <2>2. /\ net'[<<s, n>>] = <<>> /\ net'[<<n, s>>] = <<>> /\ link'[<<s, n>>] = "down"
        /\ link'[<<n, s>>] \notin {"called", "answered"}
    BY <1>1, <2>1 DEF Inv, DeadOk, IsUp
  <2>3. /\ MailOk(side, s, n)' /\ ~First(s, n, "CALL")' /\ ~First(s, n, "ANSWER")'
        /\ MailOk(side, n, s)' /\ ~First(n, s, "CALL")' /\ ~First(n, s, "ANSWER")'
    BY <2>2 DEF MailOk, First
  <2> QED
    BY <2>2, <2>3 DEF BothOk, LinkOk, CallOk, AnswerOk, PairOk
<1>3. ASSUME NEW a \in Server, NEW b \in Server, <<a, b>> \in Edge
      PROVE  MailOk(side, a, b)' /\ LinkOk(a, b)'
  <2>0. <<b, a>> \in Edge
    BY <1>3, EdgesKnown
  <2>1. CASE a = s
    BY <1>2, <1>3, <2>1 DEF BothOk
  <2>2. CASE b = s
    BY <1>2, <2>0, <2>2 DEF BothOk
  <2>3. CASE a # s /\ b # s
    <3>2. net[<<a, b>>] \o <<>> = net[<<a, b>>] /\ net[<<b, a>>] \o <<>> = net[<<b, a>>]
      BY <1>1, <1>3, <2>0 DEF TypeOK
    <3>3. Grows(side, a, b, running) /\ Grows(side, b, a, running)
      <4>1. \A M : <<>> \in Seq(M)
        OBVIOUS
      <4> QED
        BY <1>1, <3>2, <4>1 DEF Grows
    <3>4. Aside(side, a, b)
      BY <1>1, <2>3, <3>3 DEF Aside
    <3> QED
      BY <1>3, <2>0, <3>4, AsideOk DEF Inv
  <2> QED
    BY <2>1, <2>2, <2>3
<1>4. ASSUME NEW a \in Server PROVE DeadOk(a)' /\ RoutedAt(side, a)'
  <2>1. UpOf(a)' = UpOf(a)
    BY <1>1 DEF UpOf, IsUp
  <2> QED
    BY <1>1, <2>1 DEF Inv, DeadOk, RoutedAt
<1> QED
  BY <1>3, <1>4 DEF Inv

LEMMA InitInv ==
  ASSUME NEW side \in Sides, Init
  PROVE  Inv(side)
<1>1. /\ running = Server /\ \A e \in Edge : link[e] = "down" /\ net[e] = <<>>
      /\ \A s \in Server : db[s] = EmptyDb(s)
  BY DEF Init
<1>2. ASSUME NEW s \in Server PROVE RoutedAt(side, s)
  <2>1. UpOf(s) = {}
    BY <1>1 DEF UpOf, IsUp, Neighbours
  <2> QED
    BY <1>1, <2>1, RoutesEmpty DEF RoutedAt
<1>3. ASSUME NEW a \in Server, NEW b \in Server, <<a, b>> \in Edge
      PROVE  MailOk(side, a, b) /\ LinkOk(a, b)
  <2>1. <<b, a>> \in Edge
    BY <1>3, EdgesKnown
  <2> QED
    BY <1>1, <1>3, <2>1 DEF MailOk, LinkOk, CallOk, AnswerOk, PairOk, First
<1> QED
  BY <1>1, <1>2, <1>3, InitTyped DEF Inv, DeadOk

LEMMA NextInv ==
  ASSUME ~Hasty, NEW side \in Sides, Splits(side), Inv(side), [Next]_vars
  PROVE  Inv(side)'
<1>0. TypeOK /\ TypeOK'
  BY NextTyped DEF Inv
<1>1. ASSUME NEW e \in Edge, Work(e[1], e[2]) PROVE Inv(side)'
  <2>1. e[1] \in Server /\ e[2] \in Server /\ <<e[1], e[2]>> \in Edge
    BY EdgesKnown
  <2> QED
    BY <1>0, <1>1, <2>1, ReceiveOk, CallOkNext, TimeoutOk, GiveUpOk DEF Work
<1>2. ASSUME NEW s \in Server, Shutdown(s) \/ Crash(s) \/ Start(s) PROVE Inv(side)'
  BY <1>0, <1>2, HaltOk, StartOk
<1>3. ASSUME NEW u \in User, UserAct(u) PROVE Inv(side)'
  <2>1. Home[u] \in Server
    BY UsersKnown
  <2> QED
    BY <1>0, <1>3, <2>1, UserActTalks, TalkOk
<1>4. CASE UNCHANGED vars
  <2>1. /\ \A a, b \in Server : MailOk(side, a, b)' = MailOk(side, a, b)
        /\ \A a, b \in Server : LinkOk(a, b)' = LinkOk(a, b)
    BY <1>4 DEF vars, MailOk, LinkOk, CallOk, AnswerOk, PairOk, First
  <2>2. \A a \in Server : DeadOk(a)' = DeadOk(a) /\ RoutedAt(side, a)' = RoutedAt(side, a)
    BY <1>4 DEF vars, DeadOk, RoutedAt, UpOf, IsUp
  <2> QED
    BY <1>0, <2>1, <2>2 DEF Inv
<1> QED
  BY <1>1, <1>2, <1>3, <1>4 DEF Next

LEMMA InvNoGhosts ==
  ASSUME NEW side, Inv(side)
  PROVE  NoGhosts
<1> SUFFICES ASSUME NEW s \in running
             PROVE  /\ \A u \in DOMAIN db[s].usr : Home[u] \in DOMAIN db[s].srv
                    /\ \A n \in DOMAIN db[s].srv \ {s} : IsUp(s, db[s].srv[n])
  BY DEF NoGhosts
<1>1. s \in Server
  BY DEF Inv, TypeOK
<1>2. Routes(side, s, db[s], UpOf(s))
  BY <1>1 DEF Inv, RoutedAt
<1> QED
  BY <1>2 DEF Routes, UpOf

\* In every network without loops, and as long as no server is back before its neighbours
\* have noticed that it was gone: whoever is on the list of a running server belongs to a
\* server on the list, and every server on the list is reached through a link that is up,
\* however calls cross, servers stop or crash and messages are still on their way.
THEOREM GhostsNever ==
  ASSUME NoLoops, ~Hasty
  PROVE  Spec => []NoGhosts
<1>1. PICK side \in Sides : Splits(side)
  BY DEF NoLoops
<1>2. Init => Inv(side)
  BY InitInv
<1>3. Inv(side) /\ [Next]_vars => Inv(side)'
  BY <1>1, NextInv
<1>4. Inv(side) => NoGhosts
  BY InvNoGhosts
<1> QED
  BY <1>2, <1>3, <1>4, PTL DEF Spec

(***************************************************************************)
(* All servers know all servers.  What a server knows is known at each     *)
(* neighbour that is up, or it is on its way there.                        *)
(***************************************************************************)
Here(x) == [cmd |-> "SERVER", name |-> x]

\* The last that q says of x is that it is there, that it is gone.
Says(q, x) ==
  \E i \in DOMAIN q : q[i] = Here(x) /\ \A j \in DOMAIN q : j > i => q[j] # Squit(x)
Denies(q, x) == \E i \in DOMAIN q : q[i] = Squit(x)

\* Who knows K knows x when he has read q.
Known(q, K, x) == Says(q, x) \/ (x \in K /\ ~Denies(q, x))

WillKnow(n, s, x) == Known(net[<<n, s>>], DOMAIN db[s].srv, x)

Keen(side, n, s) ==
  n \in running /\ s \in running /\ IsUp(n, s) =>
    \A x \in DOMAIN db[n].srv \ (side[<<s, n>>] \union {n}) : WillKnow(n, s, x)

\* After q, those of new are known where those of old were.
Informs(q, old, new) == \A x \in new : Known(q, old, x)

LEMMA SaysJoined ==
  ASSUME NEW M, NEW q \in Seq(M), NEW p \in Seq(M), NEW x
  PROVE  /\ Says(p, x) => Says(q \o p, x)
         /\ Says(q, x) /\ ~Denies(p, x) => Says(q \o p, x)
         /\ ~Denies(q, x) /\ ~Denies(p, x) => ~Denies(q \o p, x)
<1> DEFINE r == q \o p
<1>1. /\ DOMAIN r = 1..(Len(q) + Len(p)) /\ DOMAIN q = 1..Len(q) /\ DOMAIN p = 1..Len(p)
      /\ Len(q) \in Nat /\ Len(p) \in Nat
      /\ \A i \in 1..Len(q) : r[i] = q[i]
      /\ \A i \in (Len(q) + 1)..(Len(q) + Len(p)) : r[i] = p[i - Len(q)]
  OBVIOUS
<1>2. \A i \in DOMAIN p : i + Len(q) \in DOMAIN r /\ r[i + Len(q)] = p[i]
  BY <1>1
<1> HIDE DEF r
<1>3. ASSUME Says(p, x) PROVE Says(r, x)
  <2>1. PICK i \in DOMAIN p : p[i] = Here(x) /\ \A j \in DOMAIN p : j > i => p[j] # Squit(x)
    BY <1>3 DEF Says
  <2>2. i + Len(q) \in DOMAIN r /\ r[i + Len(q)] = Here(x)
    BY <1>2, <2>1
  <2>3. ASSUME NEW j \in DOMAIN r, j > i + Len(q) PROVE r[j] # Squit(x)
    <3>1. j - Len(q) \in DOMAIN p /\ r[j] = p[j - Len(q)] /\ j - Len(q) > i
      BY <1>1, <2>1, <2>3
    <3> QED
      BY <2>1, <3>1
  <2> QED
    BY <2>2, <2>3 DEF Says
<1>4. ASSUME Says(q, x), ~Denies(p, x) PROVE Says(r, x)
  <2>1. PICK i \in DOMAIN q : q[i] = Here(x) /\ \A j \in DOMAIN q : j > i => q[j] # Squit(x)
    BY <1>4 DEF Says
  <2>2. i \in DOMAIN r /\ r[i] = Here(x)
    BY <1>1, <2>1
  <2>3. ASSUME NEW j \in DOMAIN r, j > i PROVE r[j] # Squit(x)
    <3>1. CASE j <= Len(q)
      BY <1>1, <2>1, <2>3, <3>1
    <3>2. CASE j > Len(q)
      <4>1. j - Len(q) \in DOMAIN p /\ r[j] = p[j - Len(q)]
        BY <1>1, <3>2
      <4> QED
        BY <1>4, <4>1 DEF Denies
    <3> QED
      BY <1>1, <3>1, <3>2
  <2> QED
    BY <2>2, <2>3 DEF Says
<1>5. ASSUME ~Denies(q, x), ~Denies(p, x) PROVE ~Denies(r, x)
  <2> SUFFICES ASSUME NEW j \in DOMAIN r PROVE r[j] # Squit(x)
    BY DEF Denies
  <2>1. CASE j <= Len(q)
    BY <1>1, <1>5, <2>1 DEF Denies
  <2>2. CASE j > Len(q)
    <3>1. j - Len(q) \in DOMAIN p /\ r[j] = p[j - Len(q)]
      BY <1>1, <2>2
    <3> QED
      BY <1>5, <3>1 DEF Denies
  <2> QED
    BY <1>1, <2>1, <2>2
<1> QED
  BY <1>3, <1>4, <1>5 DEF r

LEMMA SaysTail ==
  ASSUME NEW M, NEW q \in Seq(M), q # <<>>, NEW x
  PROVE  /\ Says(q, x) /\ Head(q) # Here(x) => Says(Tail(q), x)
         /\ Says(q, x) /\ Head(q) = Here(x) => Says(Tail(q), x) \/ ~Denies(Tail(q), x)
         /\ ~Denies(q, x) => Head(q) # Squit(x) /\ ~Denies(Tail(q), x)
<1> DEFINE r == Tail(q)
<1>1. /\ Len(q) \in Nat /\ Len(q) > 0 /\ DOMAIN q = 1..Len(q) /\ DOMAIN r = 1..(Len(q) - 1)
      /\ \A i \in 1..(Len(q) - 1) : r[i] = q[i + 1]
      /\ Head(q) = q[1]
  OBVIOUS
<1> HIDE DEF r
<1>2. ASSUME Says(q, x) PROVE Says(r, x) \/ (Head(q) = Here(x) /\ ~Denies(r, x))
  <2>1. PICK i \in DOMAIN q : q[i] = Here(x) /\ \A j \in DOMAIN q : j > i => q[j] # Squit(x)
    BY <1>2 DEF Says
  <2>2. CASE i = 1
    <3>1. \A j \in DOMAIN r : r[j] # Squit(x)
      BY <1>1, <2>1, <2>2
    <3> QED
      BY <1>1, <2>1, <2>2, <3>1 DEF Denies
  <2>3. CASE i # 1
    <3>1. i - 1 \in DOMAIN r /\ r[i - 1] = Here(x)
      BY <1>1, <2>1, <2>3
    <3>2. \A j \in DOMAIN r : j > i - 1 => r[j] # Squit(x)
      BY <1>1, <2>1, <2>3
    <3> QED
      BY <3>1, <3>2 DEF Says
  <2> QED
    BY <2>2, <2>3
<1>3. ASSUME ~Denies(q, x) PROVE Head(q) # Squit(x) /\ ~Denies(r, x)
  BY <1>1, <1>3 DEF Denies
<1> QED
  BY <1>2, <1>3 DEF r

LEMMA Quiet ==
  ASSUME NEW q, \A i \in DOMAIN q : q[i].cmd # "SQUIT", NEW x
  PROVE  ~Denies(q, x)
BY DEF Denies, Squit

LEMMA OneSaid ==
  ASSUME NEW x, NEW y
  PROVE  /\ Says(<<Here(x)>>, x) /\ ~Denies(<<Here(x)>>, y)
         /\ x # y => ~Denies(<<Squit(x)>>, y)
         /\ ~Denies(<<>>, y)
<1>1. DOMAIN <<Here(x)>> = {1} /\ <<Here(x)>>[1] = Here(x)
  OBVIOUS
<1>2. DOMAIN <<Squit(x)>> = {1} /\ <<Squit(x)>>[1] = Squit(x)
  OBVIOUS
<1>3. Says(<<Here(x)>>, x)
  BY <1>1 DEF Says
<1>4. ~Denies(<<Here(x)>>, y)
  BY <1>1 DEF Denies, Here, Squit
<1>5. x # y => ~Denies(<<Squit(x)>>, y)
  BY <1>2 DEF Denies, Squit
<1>6. ~Denies(<<>>, y)
  BY DEF Denies
<1> QED
  BY <1>3, <1>4, <1>5, <1>6

\* What a step of p that sends out and leaves the lists d must do for its neighbours.
Spreads(side, p, d, out) ==
  \A b \in Server : <<p, b>> \in Edge /\ b \in running /\ IsUp(p, b)' =>
    Informs(out[<<p, b>>], IF IsUp(p, b) THEN DOMAIN db[p].srv ELSE {},
            DOMAIN d.srv \ (side[<<b, p>>] \union {p}))

\* And what it must keep of what they said, or learn from what it takes.
Retains(side, p, d, taken) ==
  \A a \in Server : <<a, p>> \in Edge /\ a \in running /\ IsUp(a, p) =>
    \A x \in side[<<a, p>>] :
      /\ x \in DOMAIN db[p].srv /\ (<<a, p>> \in taken => Head(net[<<a, p>>]) # Squit(x))
           => x \in DOMAIN d.srv
      /\ <<a, p>> \in taken /\ Head(net[<<a, p>>]) = Here(x) => x \in DOMAIN d.srv

LEMMA ToldOn ==
  ASSUME NEW M, NEW q \in Seq(M), NEW p \in Seq(M), NEW q2, q2 = q \o p, NEW x,
         NEW K, NEW old, x \in old => Known(q, K, x), Known(p, old, x)
  PROVE  Known(q2, K, x)
BY SaysJoined DEF Known

\* Behind n: what n knows but from s.
LEMMA BehindIs ==
  ASSUME NEW side, Splits(side), NEW n \in Server, NEW s \in Server, <<n, s>> \in Edge,
         RoutedAt(side, n), NEW x \in DOMAIN db[n].srv \ (side[<<s, n>>] \union {n})
  PROVE  x \in side[<<n, s>>]
<1>1. PICK k : k = db[n].srv[x]
  OBVIOUS
<1>2. k \in UpOf(n) /\ x \in side[<<k, n>>]
  BY <1>1 DEF RoutedAt, Routes
<1>3. k \in Server /\ <<n, k>> \in Edge /\ k # s
  BY <1>2 DEF UpOf, Neighbours
<1> QED
  BY <1>2, <1>3, SidesApart

KeenAll(side) == \A n, s \in Server : <<n, s>> \in Edge => Keen(side, n, s)

LEMMA KeenStays ==
  ASSUME NEW side \in Sides, Splits(side), Inv(side), KeenAll(side),
         NEW p \in Server, NEW k \in Server, NEW d, ListsOK(p, d), db' = [db EXCEPT ![p] = d],
         UNCHANGED running, \A e \in Edge \ {<<p, k>>} : link'[e] = link[e],
         NEW taken, taken \subseteq {<<k, p>>}, \A e \in taken : net[e] # <<>>,
         NEW out \in [Edge -> Seq(Message)], Arrives(taken, out), OnlyFrom(p, out),
         Spreads(side, p, d, out), Retains(side, p, d, taken)
  PROVE  KeenAll(side)'
<1>0. TypeOK
  BY DEF Inv
<1> SUFFICES ASSUME NEW n \in Server, NEW s \in Server, <<n, s>> \in Edge
             PROVE  Keen(side, n, s)'
  BY DEF KeenAll
<1>1. n # s /\ <<s, n>> \in Edge /\ Keen(side, n, s) /\ RoutedAt(side, n)
  BY SidesOf, EdgesKnown DEF KeenAll, Inv
<1>2. db'[p] = d /\ \A x \in Server \ {p} : db'[x] = db[x]
  BY <1>0, ListsMove
<1>3. net[<<n, s>>] \in Seq(Message) /\ out[<<n, s>>] \in Seq(Message)
  BY <1>0 DEF TypeOK
<1> SUFFICES ASSUME n \in running, s \in running, IsUp(n, s)',
                    NEW x \in DOMAIN db'[n].srv \ (side[<<s, n>>] \union {n})
             PROVE  WillKnow(n, s, x)'
  BY DEF Keen
<1>4. CASE n = p
  <2>1. db'[s] = db[s] /\ x \in DOMAIN d.srv \ (side[<<s, n>>] \union {n})
    BY <1>1, <1>2, <1>4
  <2>2. net'[<<n, s>>] = net[<<n, s>>] \o out[<<n, s>>]
    BY <1>1, <1>4 DEF Arrives
  <2>3. PICK old : old = IF IsUp(n, s) THEN DOMAIN db[n].srv ELSE {}
    OBVIOUS
  <2>4. Known(out[<<n, s>>], old, x)
    BY <1>4, <2>1, <2>3 DEF Spreads, Informs
  <2>5. x \in old => Known(net[<<n, s>>], DOMAIN db[s].srv, x)
    BY <1>1, <2>1, <2>3 DEF Keen, WillKnow
  <2>6. Known(net'[<<n, s>>], DOMAIN db[s].srv, x)
    <3>1. PICK q \in Seq(Message), o \in Seq(Message) : q = net[<<n, s>>] /\ o = out[<<n, s>>]
      BY <1>3
    <3>2. PICK q2 : q2 = net'[<<n, s>>]
      OBVIOUS
    <3>3. PICK K : K = DOMAIN db[s].srv
      OBVIOUS
    <3>4. q2 = q \o o
      BY <2>2, <3>1, <3>2
    <3>5. Known(o, old, x) /\ (x \in old => Known(q, K, x))
      BY <2>4, <2>5, <3>1, <3>3
    <3>6. Known(q2, K, x)
      BY <3>4, <3>5, ToldOn
    <3> QED
      BY <3>2, <3>3, <3>6
  <2> QED
    BY <2>1, <2>6 DEF WillKnow
<1>5. CASE n # p
  <2>1. db'[n] = db[n] /\ IsUp(n, s)
    BY <1>2, <1>5 DEF IsUp
  <2>2. WillKnow(n, s, x)
    BY <1>1, <2>1 DEF Keen
  <2>3. out[<<n, s>>] = <<>>
    BY <1>5 DEF OnlyFrom
  <2>4. CASE s # p
    <3>1. db'[s] = db[s] /\ <<n, s>> \notin taken
      BY <1>2, <2>4
    <3>2. net'[<<n, s>>] = net[<<n, s>>]
      BY <2>3, <3>1 DEF Arrives
    <3> QED
      BY <2>2, <3>1, <3>2 DEF WillKnow
  <2>5. CASE s = p
    <3>1. x \in side[<<n, s>>]
      BY <1>1, <2>1, BehindIs
    <3>2. /\ x \in DOMAIN db[s].srv /\ (<<n, s>> \in taken => Head(net[<<n, s>>]) # Squit(x))
               => x \in DOMAIN d.srv
          /\ <<n, s>> \in taken /\ Head(net[<<n, s>>]) = Here(x) => x \in DOMAIN d.srv
      BY <2>1, <2>5, <3>1 DEF Retains
    <3>3. db'[s] = d
      BY <1>2, <2>5
    <3>4. CASE <<n, s>> \notin taken
      <4>1. net'[<<n, s>>] = net[<<n, s>>]
        BY <2>3, <3>4 DEF Arrives
      <4> QED
        BY <2>2, <3>2, <3>3, <3>4, <4>1 DEF WillKnow, Known
    <3>5. CASE <<n, s>> \in taken
      <4>1. net'[<<n, s>>] = Tail(net[<<n, s>>]) /\ net[<<n, s>>] # <<>>
        BY <2>3, <3>5 DEF Arrives
      <4>2. PICK q \in Seq(Message) : q = net[<<n, s>>]
        BY <1>3
      <4>3. Known(q, DOMAIN db[s].srv, x)
        BY <2>2, <4>2 DEF WillKnow
      <4>4. Known(Tail(q), DOMAIN d.srv, x)
        BY <3>2, <3>5, <4>1, <4>2, <4>3, SaysTail DEF Known
      <4> QED
        BY <3>3, <4>1, <4>2, <4>4 DEF WillKnow
    <3> QED
      BY <3>4, <3>5
  <2> QED
    BY <2>4, <2>5
<1> QED
  BY <1>4, <1>5

LEMMA InformsIs ==
  ASSUME NEW old, NEW new, NEW y
  PROVE  /\ new \subseteq old => Informs(<<>>, old, new)
         /\ new \subseteq old \union {y} => Informs(<<Here(y)>>, old, new)
         /\ new \subseteq old \ {y} => Informs(<<Squit(y)>>, old, new)
BY OneSaid DEF Informs, Known

LEMMA KeenTalk ==
  ASSUME NEW side, Inv(side), NEW s \in Server, NEW d, NEW out, Talks(s, d, out),
         UNCHANGED link, NEW taken, \A e \in taken : Head(net[e]) \in UserMessage
  PROVE  OnlyFrom(s, out) /\ Spreads(side, s, d, out) /\ Retains(side, s, d, taken)
<1>1. d.srv = db[s].srv /\ SentBy(s, out, UserMessage)
  BY DEF Talks
<1>2. ASSUME NEW b \in Server, <<s, b>> \in Edge, IsUp(s, b)'
      PROVE  Informs(out[<<s, b>>], IF IsUp(s, b) THEN DOMAIN db[s].srv ELSE {},
                     DOMAIN d.srv \ (side[<<b, s>>] \union {s}))
  <2>1. out[<<s, b>>] \in Seq(UserMessage)
    BY <1>1, <1>2 DEF SentBy
  <2>2. \A i \in DOMAIN out[<<s, b>>] : out[<<s, b>>][i].cmd # "SQUIT"
    BY <2>1, UserMessageFields
  <2>3. PICK q : q = out[<<s, b>>]
    OBVIOUS
  <2>4. \A x : ~Denies(q, x)
    BY <2>2, <2>3, Quiet
  <2>5. IsUp(s, b)
    BY <1>2 DEF IsUp
  <2> QED
    BY <1>1, <2>3, <2>4, <2>5 DEF Informs, Known
<1>3. \A e \in taken : \A x : Head(net[e]) # Here(x)
  BY UserMessageFields DEF Here
<1> QED
  BY <1>1, <1>2, <1>3 DEF Spreads, Retains, OnlyFrom, SentBy

LEMMA KeenServer ==
  ASSUME NEW side, Splits(side), Inv(side), NEW s \in Server, NEW n \in Server, <<s, n>> \in Edge,
         NEW y \in side[<<n, s>>], net[<<n, s>>] # <<>>, Head(net[<<n, s>>]) = Here(y),
         s \in running, \A e \in Edge : link'[e] = link[e], NEW d, NEW out,
         MayAddServer(db[s], y, n) => /\ out = broadcast(s, n, <<Here(y)>>)
                                      /\ DOMAIN d.srv = DOMAIN db[s].srv \union {y},
         ~MayAddServer(db[s], y, n) => out = Nothing /\ d.srv = db[s].srv
  PROVE  OnlyFrom(s, out) /\ Spreads(side, s, d, out) /\ Retains(side, s, d, {<<n, s>>})
<1>1. OnlyFrom(s, out)
  BY DEF OnlyFrom, broadcast, Nothing
<1>2. ASSUME NEW b \in Server, <<s, b>> \in Edge, IsUp(s, b)'
      PROVE  Informs(out[<<s, b>>], IF IsUp(s, b) THEN DOMAIN db[s].srv ELSE {},
                     DOMAIN d.srv \ (side[<<b, s>>] \union {s}))
  <2>1. IsUp(s, b)
    BY <1>2 DEF IsUp
  <2>2. PICK old, new : old = DOMAIN db[s].srv /\ new = DOMAIN d.srv \ (side[<<b, s>>] \union {s})
    OBVIOUS
  <2>3. CASE ~MayAddServer(db[s], y, n)
    <3>1. new \subseteq old /\ out[<<s, b>>] = <<>>
      BY <1>2, <2>2, <2>3 DEF Nothing
    <3>2. Informs(<<>>, old, new)
      BY <3>1, InformsIs
    <3> QED
      BY <2>1, <2>2, <3>1, <3>2
  <2>4. CASE MayAddServer(db[s], y, n) /\ b = n
    <3>1. new \subseteq old /\ out[<<s, b>>] = <<>>
      BY <1>2, <2>2, <2>4 DEF broadcast
    <3>2. Informs(<<>>, old, new)
      BY <3>1, InformsIs
    <3> QED
      BY <2>1, <2>2, <3>1, <3>2
  <2>5. CASE MayAddServer(db[s], y, n) /\ b # n
    <3>1. new \subseteq old \union {y} /\ out[<<s, b>>] = <<Here(y)>>
      BY <1>2, <2>1, <2>2, <2>5 DEF broadcast
    <3>2. Informs(<<Here(y)>>, old, new)
      BY <3>1, InformsIs
    <3> QED
      BY <2>1, <2>2, <3>1, <3>2
  <2> QED
    BY <2>3, <2>4, <2>5
<1>3. ASSUME n \in running, IsUp(n, s) PROVE y \in DOMAIN d.srv
  <2>1. <<n, s>> \in Edge /\ n \in Neighbours(s)
    BY EdgesKnown DEF Neighbours
  <2>2. PairOk(s, n) /\ PairOk(n, s) /\ RoutedAt(side, s)
    BY <2>1 DEF Inv, LinkOk
  <2>3. ~First(n, s, "ANSWER")
    BY DEF First, Here
  <2>4. IsUp(s, n)
    BY <1>3, <2>2, <2>3 DEF PairOk, IsUp
  <2>5. n \in DOMAIN db[s].srv
    BY <2>1, <2>2, <2>4 DEF RoutedAt, Routes, UpOf
  <2> QED
    BY <2>5 DEF MayAddServer
<1>4. \A x : Here(x) = Here(y) => x = y
  BY DEF Here
<1>5. \A x \in DOMAIN db[s].srv : x \in DOMAIN d.srv
  OBVIOUS
<1>6. Retains(side, s, d, {<<n, s>>})
  BY <1>3, <1>4, <1>5 DEF Retains
<1> QED
  BY <1>1, <1>2, <1>6 DEF Spreads

\* Something behind n is gone.
LEMMA KeenDrops ==
  ASSUME NEW side, Splits(side), Inv(side), NEW s \in Server, NEW n \in Server, <<s, n>> \in Edge,
         NEW y \in side[<<n, s>>], NEW d, DOMAIN d.srv \subseteq DOMAIN db[s].srv \ {y},
         \A x \in DOMAIN db[s].srv \ side[<<n, s>>] : x \in DOMAIN d.srv,
         NEW out, out = broadcast(s, n, <<Squit(y)>>), NEW taken, taken \subseteq {<<n, s>>},
         \A e \in Edge \ {<<s, n>>} : link'[e] = link[e], IsUp(s, n)' => IsUp(s, n),
         n \in running /\ IsUp(n, s) =>
           /\ DOMAIN db[s].srv \ {y} \subseteq DOMAIN d.srv
           /\ taken = {<<n, s>>} /\ Head(net[<<n, s>>]) = Squit(y)
  PROVE  OnlyFrom(s, out) /\ Spreads(side, s, d, out) /\ Retains(side, s, d, taken)
<1>1. OnlyFrom(s, out)
  BY DEF OnlyFrom, broadcast
<1>2. ASSUME NEW b \in Server, <<s, b>> \in Edge, IsUp(s, b)'
      PROVE  Informs(out[<<s, b>>], IF IsUp(s, b) THEN DOMAIN db[s].srv ELSE {},
                     DOMAIN d.srv \ (side[<<b, s>>] \union {s}))
  <2>1. IsUp(s, b)
    BY <1>2 DEF IsUp
  <2>2. PICK old, new : old = DOMAIN db[s].srv /\ new = DOMAIN d.srv \ (side[<<b, s>>] \union {s})
    OBVIOUS
  <2>3. CASE b = n
    <3>1. new \subseteq old /\ out[<<s, b>>] = <<>>
      BY <1>2, <2>2, <2>3 DEF broadcast
    <3>2. Informs(<<>>, old, new)
      BY <3>1, InformsIs
    <3> QED
      BY <2>1, <2>2, <3>1, <3>2
  <2>4. CASE b # n
    <3>1. new \subseteq old \ {y} /\ out[<<s, b>>] = <<Squit(y)>>
      BY <1>2, <2>1, <2>2, <2>4 DEF broadcast
    <3>2. Informs(<<Squit(y)>>, old, new)
      BY <3>1, InformsIs
    <3> QED
      BY <2>1, <2>2, <3>1, <3>2
  <2> QED
    BY <2>3, <2>4
<1>3. ASSUME NEW a \in Server, <<a, s>> \in Edge, a \in running, IsUp(a, s), NEW x \in side[<<a, s>>]
      PROVE  /\ x \in DOMAIN db[s].srv /\ (<<a, s>> \in taken => Head(net[<<a, s>>]) # Squit(x))
                  => x \in DOMAIN d.srv
             /\ <<a, s>> \in taken /\ Head(net[<<a, s>>]) = Here(x) => x \in DOMAIN d.srv
  <2>1. CASE a = n
    <3>1. /\ DOMAIN db[s].srv \ {y} \subseteq DOMAIN d.srv
          /\ <<a, s>> \in taken /\ Head(net[<<a, s>>]) = Squit(y)
      BY <1>3, <2>1
    <3>2. Squit(y) # Here(x)
      BY DEF Squit, Here
    <3> QED
      BY <3>1, <3>2
  <2>2. CASE a # n
    <3>1. <<s, a>> \in Edge /\ <<a, s>> \notin taken
      BY <1>3, <2>2, EdgesKnown
    <3>2. x \notin side[<<n, s>>]
      BY <1>3, <2>2, <3>1, SidesApart
    <3> QED
      BY <3>1, <3>2
  <2> QED
    BY <2>1, <2>2
<1> QED
  BY <1>1, <1>2, <1>3 DEF Spreads, Retains

LEMMA KeenComes ==
  ASSUME NEW side, Splits(side), Inv(side),
         NEW s \in Server, NEW n \in Server, <<s, n>> \in Edge, ~IsUp(s, n),
         NEW how, NEW greeting \in Seq(Message), NEW r,
         Introduced(s, n, how, greeting, r),
         \A x : Head(net[<<n, s>>]) # Here(x),
         \A e \in Edge \ {<<s, n>>} : link'[e] = link[e]
  PROVE  OnlyFrom(s, r.out) /\ Spreads(side, s, r.db, r.out) /\ Retains(side, s, r.db, {<<n, s>>})
<1>1. PICK d, out : d = r.db /\ out = r.out
  OBVIOUS
<1>2. /\ DOMAIN d.srv = DOMAIN db[s].srv \union {n}
      /\ out[<<s, n>>] = greeting \o Burst(s)
      /\ \A e \in Edge \ {<<s, n>>} :
           out[e] = IF e[1] = s /\ e[2] # n /\ IsUp(s, e[2]) THEN Told(n) ELSE <<>>
  BY <1>1 DEF Introduced
<1>3. OnlyFrom(s, out)
  BY <1>2 DEF OnlyFrom
<1>4. ASSUME NEW b \in Server, <<s, b>> \in Edge, b # n, IsUp(s, b)'
      PROVE  Informs(out[<<s, b>>], IF IsUp(s, b) THEN DOMAIN db[s].srv ELSE {},
                     DOMAIN d.srv \ (side[<<b, s>>] \union {s}))
  <2>1. IsUp(s, b)
    BY <1>4 DEF IsUp
  <2>2. PICK old, new : old = DOMAIN db[s].srv /\ new = DOMAIN d.srv \ (side[<<b, s>>] \union {s})
    OBVIOUS
  <2>3. new \subseteq old \union {n} /\ out[<<s, b>>] = <<Here(n)>>
    BY <1>2, <1>4, <2>1, <2>2 DEF Told, Here
  <2>4. Informs(<<Here(n)>>, old, new)
    BY <2>3, InformsIs
  <2> QED
    BY <2>1, <2>2, <2>3, <2>4
<1>5. Informs(out[<<s, n>>], {}, DOMAIN d.srv \ (side[<<n, s>>] \union {s}))
  <2> SUFFICES ASSUME NEW x \in DOMAIN d.srv \ (side[<<n, s>>] \union {s})
               PROVE  Says(out[<<s, n>>], x)
    BY DEF Informs, Known
  <2> DEFINE S == DOMAIN db[s].srv \ {s}
  <2>0. n \in side[<<n, s>>]
    BY SidesOf
  <2>1. x \in S
    BY <1>2, <2>0
  <2>2. /\ Burst(s) \in Seq(ServerMessage(S) \union UserMessage)
        /\ \E i \in DOMAIN Burst(s) : Burst(s)[i] = [cmd |-> "SERVER", name |-> x]
    BY <2>1, BurstIs DEF Inv
  <2> HIDE DEF S
  <2>3. PICK q : q = Burst(s)
    OBVIOUS
  <2>4. \A m \in ServerMessage(S) \union UserMessage : m # Squit(x)
    BY UserMessageFields DEF ServerMessage, Squit
  <2>5. \A j \in DOMAIN q : q[j] # Squit(x)
    BY <2>2, <2>3, <2>4
  <2>6. Says(q, x)
    BY <2>2, <2>3, <2>5 DEF Says, Here
  <2>7. S \subseteq Server
    BY DEF S, Inv, TypeOK, ListsOK
  <2>8. ServerMessage(S) \union UserMessage \subseteq Message
    BY <2>7 DEF ServerMessage, Message
  <2>9. q \in Seq(Message)
    BY <2>2, <2>3, <2>8, Wider
  <2>10. Says(greeting \o q, x)
    BY <2>6, <2>9, SaysJoined
  <2> QED
    BY <1>2, <2>3, <2>10
<1>6. Retains(side, s, d, {<<n, s>>})
  BY <1>2 DEF Retains
<1>7. Spreads(side, s, d, out)
  BY <1>4, <1>5 DEF Spreads
<1> QED
  BY <1>1, <1>3, <1>6, <1>7

LEMMA KeenMoves ==
  ASSUME NEW side \in Sides, Splits(side), Inv(side), KeenAll(side),
         NEW s \in Server, NEW n \in Server, NEW d, NEW how, NEW taken, NEW out,
         Moves(s, n, d, how, taken, out), taken \subseteq {<<n, s>>},
         OnlyFrom(s, out), Spreads(side, s, d, out), Retains(side, s, d, taken)
  PROVE  KeenAll(side)'
<1>1. TypeOK
  BY DEF Inv
<1>2. Arrives(taken, out)
  BY <1>1, Delivered DEF Moves
<1>3. \A e \in Edge \ {<<s, n>>} : link'[e] = link[e]
  BY <1>1 DEF Moves, TypeOK
<1> QED
  BY <1>2, <1>3, KeenStays DEF Moves

LEMMA LinkMoves ==
  ASSUME TypeOK, NEW s \in Server, NEW n \in Server, <<s, n>> \in Edge,
         NEW d, NEW how, NEW taken, NEW out, Moves(s, n, d, how, taken, out)
  PROVE  /\ link'[<<s, n>>] = how /\ \A e \in Edge \ {<<s, n>>} : link'[e] = link[e]
         /\ how = link[<<s, n>>] => UNCHANGED link
BY DEF Moves, TypeOK

LEMMA KeenSquit ==
  ASSUME NEW side \in Sides, Splits(side), Inv(side), KeenAll(side),
         NEW s \in running, NEW n \in Server, <<s, n>> \in Edge,
         NEW m \in Later(side, n, s, running), m.cmd = "SQUIT",
         net[<<n, s>>] # <<>>, m = Head(net[<<n, s>>]),
         NEW r, r = do_command(s, n, m),
         Moves(s, n, r.db, r.link, {<<n, s>>}, r.out)
  PROVE  KeenAll(side)'
<1>1. /\ TypeOK /\ s \in Server /\ RoutedAt(side, s) /\ <<n, s>> \in Edge /\ ListsOK(s, db[s])
      /\ UpOf(s) \subseteq Neighbours(s)
  BY EdgesKnown DEF Inv, TypeOK, UpOf
<1>2. PICK y : y = m.name
  OBVIOUS
<1>3. m \in Message /\ y \in side[<<n, s>>] /\ (y = n => n \notin running)
  BY <1>1, <1>2, LaterIs
<1>4. m = Squit(y)
  BY <1>2 DEF Later, ServerMessage, SquitMessage, UserMessage, NickMessage, NickOf, Squit
<1>5. PICK d, out, how : d = r.db /\ out = r.out /\ how = r.link
  OBVIOUS
<1>6. /\ out = broadcast(s, n, <<Squit(y)>>)
      /\ y = n => d = del_router(db[s], n) /\ how = "down"
      /\ y # n => d = del_server(db[s], y) /\ how = link[<<s, n>>]
  BY <1>1, <1>2, <1>3, <1>4, <1>5, SquitIs
<1>7. Moves(s, n, d, how, {<<n, s>>}, out)
  BY <1>5
<1>8. link'[<<s, n>>] = how /\ \A e \in Edge \ {<<s, n>>} : link'[e] = link[e]
  BY <1>1, <1>7, LinkMoves
<1>9. IsUp(s, n)' => IsUp(s, n)
  BY <1>6, <1>8 DEF IsUp
<1>10. CASE y # n
  <2>1. DOMAIN d.srv = DOMAIN db[s].srv \ {y}
    BY <1>1, <1>6, <1>10, DelServer
  <2>2. PICK taken : taken = {<<n, s>>}
    OBVIOUS
  <2>3. Head(net[<<n, s>>]) = Squit(y)
    BY <1>4
  <2>4. OnlyFrom(s, out) /\ Spreads(side, s, d, out) /\ Retains(side, s, d, taken)
    BY <1>1, <1>3, <1>6, <1>8, <1>9, <2>1, <2>2, <2>3, KeenDrops
  <2> QED
    BY <1>1, <1>7, <2>2, <2>4, KeenMoves
<1>11. CASE y = n
  <2>1. DOMAIN d.srv = {x \in DOMAIN db[s].srv : db[s].srv[x] # n}
    BY <1>1, <1>6, <1>11, DelRouter
  <2>2. y \in DOMAIN db[s].srv => db[s].srv[y] = n
    BY <1>1, <1>3, RoutedThrough DEF RoutedAt
  <2>3. DOMAIN d.srv \subseteq DOMAIN db[s].srv \ {y}
    BY <2>1, <2>2
  <2>4. \A x \in DOMAIN db[s].srv \ side[<<n, s>>] : x \in DOMAIN d.srv
    <3> TAKE x \in DOMAIN db[s].srv \ side[<<n, s>>]
    <3>1. s # n
      BY <1>1, SidesOf
    <3>2. db[s].srv[x] # n
      BY <1>1, <3>1 DEF RoutedAt, Routes
    <3> QED
      BY <2>1, <3>2
  <2>5. PICK taken : taken = {<<n, s>>}
    OBVIOUS
  <2>6. n \notin running
    BY <1>3, <1>11
  <2>7. OnlyFrom(s, out) /\ Spreads(side, s, d, out) /\ Retains(side, s, d, taken)
    BY <1>1, <1>3, <1>6, <1>8, <1>9, <2>3, <2>4, <2>5, <2>6, KeenDrops
  <2> QED
    BY <1>1, <1>7, <2>5, <2>7, KeenMoves
<1> QED
  BY <1>10, <1>11

LEMMA KeenOpening ==
  ASSUME NEW side \in Sides, Splits(side), Inv(side), KeenAll(side),
         NEW s \in running, NEW n \in Server, <<s, n>> \in Edge,
         NEW m \in Message, m.cmd \in {"CALL", "ANSWER"},
         net[<<n, s>>] # <<>>, m = Head(net[<<n, s>>]),
         NEW r, r = do_command(s, n, m),
         Moves(s, n, r.db, r.link, {<<n, s>>}, r.out)
  PROVE  KeenAll(side)'
<1>1. TypeOK /\ s \in Server /\ <<n, s>> \in Edge
  BY EdgesKnown DEF Inv, TypeOK
<1>2. LinkOk(n, s)
  BY <1>1 DEF Inv
<1>3. PICK greeting \in Seq(Message), how \in LinkState : r = Introduce(s, n, how, greeting)
  <2>1. CASE m.cmd = "CALL"
    <3>1. First(n, s, "CALL")
      BY <2>1 DEF First
    <3>2. link[<<s, n>>] = "down"
      BY <1>2, <3>1 DEF LinkOk, CallOk
    <3>3. r = Introduce(s, n, "answered", <<Answer>>)
      BY <1>1, <2>1, <3>2, CallIs
    <3>4. <<Answer>> \in Seq(Message) /\ "answered" \in LinkState
      BY DEF Answer, Message, LinkState
    <3> QED
      BY <3>3, <3>4
  <2>2. CASE m.cmd = "ANSWER"
    <3>1. First(n, s, "ANSWER")
      BY <2>2 DEF First
    <3>2. link[<<s, n>>] = "calling"
      BY <1>2, <3>1 DEF LinkOk, AnswerOk
    <3>3. r = Introduce(s, n, "called", <<>>)
      BY <1>1, <2>2, <3>2, AnswerIs
    <3>4. <<>> \in Seq(Message) /\ "called" \in LinkState
      BY DEF LinkState
    <3> QED
      BY <3>3, <3>4
  <2> QED
    BY <2>1, <2>2
<1>4. Introduced(s, n, how, greeting, r)
  BY <1>1, <1>3, IntroduceIs
<1>5. ~IsUp(s, n)
  BY <1>2 DEF LinkOk, CallOk, AnswerOk, First, IsUp
<1>6. \A x : Head(net[<<n, s>>]) # Here(x)
  BY DEF Here
<1>7. \A e \in Edge \ {<<s, n>>} : link'[e] = link[e]
  BY <1>1, LinkMoves
<1>8. OnlyFrom(s, r.out) /\ Spreads(side, s, r.db, r.out) /\ Retains(side, s, r.db, {<<n, s>>})
  BY <1>1, <1>4, <1>5, <1>6, <1>7, KeenComes
<1>9. PICK taken : taken = {<<n, s>>}
  OBVIOUS
<1>10. PICK d, out, state : d = r.db /\ out = r.out /\ state = r.link
  OBVIOUS
<1>11. /\ Moves(s, n, d, state, taken, out) /\ taken \subseteq {<<n, s>>}
       /\ OnlyFrom(s, out) /\ Spreads(side, s, d, out) /\ Retains(side, s, d, taken)
  BY <1>8, <1>9, <1>10
<1> QED
  BY <1>1, <1>11, KeenMoves

LEMMA KeenReceive ==
  ASSUME NEW side \in Sides, Splits(side), Inv(side), KeenAll(side),
         NEW s \in Server, NEW n \in Server, <<s, n>> \in Edge, Receive(s, n)
  PROVE  KeenAll(side)'
<1>1. TypeOK /\ s \in running /\ <<n, s>> \in Edge
  BY EdgesKnown DEF Inv, Receive
<1>2. PICK m \in Message : \E r :
           /\ net[<<n, s>>] # <<>> /\ m = Head(net[<<n, s>>]) /\ r = do_command(s, n, m)
           /\ Moves(s, n, r.db, r.link, {<<n, s>>}, r.out)
  BY <1>1, ReceiveMoves
<1>3. PICK r : /\ net[<<n, s>>] # <<>> /\ m = Head(net[<<n, s>>]) /\ r = do_command(s, n, m)
               /\ Moves(s, n, r.db, r.link, {<<n, s>>}, r.out)
  BY <1>2
<1>4. m \in Later(side, n, s, running) \union {[cmd |-> "CALL"], Answer}
  BY <1>1, <1>3 DEF Inv, MailOk
<1>5. CASE m.cmd \in {"CALL", "ANSWER"}
  BY <1>1, <1>3, <1>5, KeenOpening
<1>6. CASE m.cmd \notin {"CALL", "ANSWER"}
  <2>1. m \in Later(side, n, s, running)
    BY <1>4, <1>6 DEF Answer
  <2>2. PICK d, out, how, taken : d = r.db /\ out = r.out /\ how = r.link /\ taken = {<<n, s>>}
    OBVIOUS
  <2>3. Moves(s, n, d, how, taken, out) /\ taken \subseteq {<<n, s>>}
    BY <1>3, <2>2
  <2>4. CASE m \in UserMessage
    <3>1. Talks(s, d, out) /\ how = link[<<s, n>>]
      BY <1>1, <1>3, <2>2, <2>4, UserTalks
    <3>2. UNCHANGED link
      BY <1>1, <2>3, <3>1, LinkMoves
    <3>3. \A e \in taken : Head(net[e]) \in UserMessage
      BY <1>3, <2>2, <2>4
    <3>4. OnlyFrom(s, out) /\ Spreads(side, s, d, out) /\ Retains(side, s, d, taken)
      BY <3>1, <3>2, <3>3, KeenTalk
    <3> QED
      BY <2>3, <3>4, KeenMoves
  <2>5. CASE m.cmd = "SERVER"
    <3>1. PICK y : y = m.name
      OBVIOUS
    <3>2. y \in side[<<n, s>>] /\ m \in Message
      BY <1>1, <2>1, <2>5, <3>1, LaterIs
    <3>3. m = Here(y)
      BY <2>1, <2>5, <3>1
         DEF Later, ServerMessage, SquitMessage, UserMessage, NickMessage, NickOf, Here
    <3>4. /\ how = link[<<s, n>>]
          /\ MayAddServer(db[s], y, n) => /\ out = broadcast(s, n, <<m>>)
                                          /\ DOMAIN d.srv = DOMAIN db[s].srv \union {y}
          /\ ~MayAddServer(db[s], y, n) => out = Nothing /\ d.srv = db[s].srv
      BY <1>1, <1>3, <2>2, <2>5, <3>1, ServerIs
    <3>5. \A e \in Edge : link'[e] = link[e]
      BY <1>1, <2>3, <3>4, LinkMoves
    <3>6. /\ MayAddServer(db[s], y, n) => /\ out = broadcast(s, n, <<Here(y)>>)
                                          /\ DOMAIN d.srv = DOMAIN db[s].srv \union {y}
          /\ Head(net[<<n, s>>]) = Here(y) /\ net[<<n, s>>] # <<>>
      BY <1>3, <3>3, <3>4
    <3>7. OnlyFrom(s, out) /\ Spreads(side, s, d, out) /\ Retains(side, s, d, {<<n, s>>})
      BY <1>1, <3>2, <3>4, <3>5, <3>6, KeenServer
    <3> QED
      BY <2>2, <2>3, <3>7, KeenMoves
  <2>6. CASE m.cmd = "SQUIT"
    BY <1>1, <1>3, <2>1, <2>6, KeenSquit
  <2> QED
    BY <1>6, <2>4, <2>5, <2>6, MessageFields
<1> QED
  BY <1>5, <1>6
\* A step that neither takes a datagram nor changes which servers s knows.
LEMMA KeenKeeps ==
  ASSUME NEW side, NEW s \in Server, NEW d, d.srv = db[s].srv, NEW out, NEW taken, taken = {},
         \A b \in Server : <<s, b>> \in Edge /\ IsUp(s, b)' => IsUp(s, b) /\ out[<<s, b>>] = <<>>
  PROVE  Spreads(side, s, d, out) /\ Retains(side, s, d, taken)
<1>1. ASSUME NEW b \in Server, <<s, b>> \in Edge, IsUp(s, b)'
      PROVE  Informs(out[<<s, b>>], IF IsUp(s, b) THEN DOMAIN db[s].srv ELSE {},
                     DOMAIN d.srv \ (side[<<b, s>>] \union {s}))
  <2>1. IsUp(s, b) /\ out[<<s, b>>] = <<>>
    BY <1>1
  <2>2. PICK old, new : old = DOMAIN db[s].srv /\ new = DOMAIN d.srv \ (side[<<b, s>>] \union {s})
    OBVIOUS
  <2>3. Informs(<<>>, old, new)
    BY <2>2, InformsIs
  <2> QED
    BY <2>1, <2>2, <2>3
<1> QED
  BY <1>1 DEF Spreads, Retains

LEMMA KeenCall ==
  ASSUME NEW side \in Sides, Splits(side), Inv(side), KeenAll(side),
         NEW s \in Server, NEW n \in Server, <<s, n>> \in Edge, Call(s, n)
  PROVE  KeenAll(side)'
<1>1. TypeOK
  BY DEF Inv
<1>2. PICK d, out, taken : d = db[s] /\ out = To(s, n, <<[cmd |-> "CALL"]>>) /\ taken = {}
  OBVIOUS
<1>3. Moves(s, n, d, "calling", taken, out)
  BY <1>1, <1>2, CallMoves
<1>4. OnlyFrom(s, out) /\ \A e \in Edge \ {<<s, n>>} : out[e] = <<>>
  BY <1>2 DEF OnlyFrom, To, Nothing
<1>5. link'[<<s, n>>] = "calling" /\ \A e \in Edge \ {<<s, n>>} : link'[e] = link[e]
  BY <1>1, <1>3, LinkMoves
<1>6. \A b \in Server : <<s, b>> \in Edge /\ IsUp(s, b)' => IsUp(s, b) /\ out[<<s, b>>] = <<>>
  BY <1>4, <1>5 DEF IsUp
<1>7. Spreads(side, s, d, out) /\ Retains(side, s, d, taken)
  BY <1>2, <1>6, KeenKeeps
<1> QED
  BY <1>2, <1>3, <1>4, <1>7, KeenMoves

LEMMA KeenTimeout ==
  ASSUME NEW side \in Sides, Splits(side), Inv(side), KeenAll(side),
         NEW s \in Server, NEW n \in Server, <<s, n>> \in Edge, CallTimeout(s, n)
  PROVE  KeenAll(side)'
<1>1. TypeOK
  BY DEF Inv
<1>2. PICK d, out, taken : d = db[s] /\ out = Nothing /\ taken = {}
  OBVIOUS
<1>3. Moves(s, n, d, "down", taken, out)
  BY <1>1, <1>2, TimeoutMoves
<1>4. OnlyFrom(s, out) /\ \A e \in Edge : out[e] = <<>>
  BY <1>2 DEF OnlyFrom, Nothing
<1>5. link'[<<s, n>>] = "down" /\ \A e \in Edge \ {<<s, n>>} : link'[e] = link[e]
  BY <1>1, <1>3, LinkMoves
<1>6. \A b \in Server : <<s, b>> \in Edge /\ IsUp(s, b)' => IsUp(s, b) /\ out[<<s, b>>] = <<>>
  BY <1>4, <1>5 DEF IsUp
<1>7. Spreads(side, s, d, out) /\ Retains(side, s, d, taken)
  BY <1>2, <1>6, KeenKeeps
<1> QED
  BY <1>2, <1>3, <1>4, <1>7, KeenMoves

LEMMA KeenGiveUp ==
  ASSUME NEW side \in Sides, Splits(side), Inv(side), KeenAll(side),
         NEW s \in Server, NEW n \in Server, <<s, n>> \in Edge, GiveUp(s, n)
  PROVE  KeenAll(side)'
<1>1. /\ TypeOK /\ RoutedAt(side, s) /\ <<n, s>> \in Edge /\ ListsOK(s, db[s])
      /\ UpOf(s) \subseteq Neighbours(s) /\ ~(n \in running /\ IsUp(n, s)) /\ IsUp(s, n)
  BY EdgesKnown DEF Inv, TypeOK, UpOf, GiveUp
<1>2. n \in side[<<n, s>>] /\ s # n
  BY SidesOf
<1>3. PICK d, out, taken : /\ d = del_router(db[s], n) /\ out = broadcast(s, n, <<Squit(n)>>)
                           /\ taken = {}
  OBVIOUS
<1>4. Moves(s, n, d, "down", taken, out)
  BY <1>1, <1>3, GiveUpMoves
<1>5. \A e \in Edge \ {<<s, n>>} : link'[e] = link[e]
  BY <1>1, <1>4, LinkMoves
<1>6. DOMAIN d.srv = {x \in DOMAIN db[s].srv : db[s].srv[x] # n}
  BY <1>1, <1>3, DelRouter
<1>7. n \in DOMAIN db[s].srv => db[s].srv[n] = n
  BY <1>1, <1>2, RoutedThrough DEF RoutedAt
<1>8. DOMAIN d.srv \subseteq DOMAIN db[s].srv \ {n}
  BY <1>6, <1>7
<1>9. \A x \in DOMAIN db[s].srv \ side[<<n, s>>] : x \in DOMAIN d.srv
  <2> TAKE x \in DOMAIN db[s].srv \ side[<<n, s>>]
  <2>1. db[s].srv[x] # n
    BY <1>1, <1>2 DEF RoutedAt, Routes
  <2> QED
    BY <1>6, <2>1
<1>10. OnlyFrom(s, out) /\ Spreads(side, s, d, out) /\ Retains(side, s, d, taken)
  BY <1>1, <1>2, <1>3, <1>5, <1>8, <1>9, KeenDrops
<1> QED
  BY <1>3, <1>4, <1>10, KeenMoves

LEMMA KeenUser ==
  ASSUME NEW side \in Sides, Splits(side), Inv(side), KeenAll(side),
         NEW s \in Server, TalkStep(s, {})
  PROVE  KeenAll(side)'
<1>1. TypeOK
  BY DEF Inv
<1>2. PICK d, out : Talks(s, d, out) /\ UNCHANGED <<running, link, stops>>
                     /\ db' = [db EXCEPT ![s] = d] /\ Deliver({}, out)
                     /\ out \in [Edge -> Seq(Message)]
  BY <1>1, TalkMoves
<1>3. PICK taken : taken = {}
  OBVIOUS
<1>4. (\A e \in taken : net[e] # <<>>) /\ \A e \in taken : Head(net[e]) \in UserMessage
  BY <1>3
<1>5. Arrives(taken, out)
  BY <1>1, <1>2, <1>3, <1>4, Delivered
<1>6. OnlyFrom(s, out) /\ Spreads(side, s, d, out) /\ Retains(side, s, d, taken)
  BY <1>2, <1>4, KeenTalk
<1>7. ListsOK(s, d) /\ UNCHANGED running /\ \A e \in Edge \ {<<s, s>>} : link'[e] = link[e]
  BY <1>2 DEF Talks
<1> QED
  BY <1>2, <1>3, <1>4, <1>5, <1>6, <1>7, KeenStays

LEMMA KeenHalt ==
  ASSUME NEW side \in Sides, Inv(side), KeenAll(side), NEW p \in Server, Shutdown(p) \/ Crash(p)
  PROVE  KeenAll(side)'
<1>0. TypeOK
  BY DEF Inv
<1>1. PICK out : SentBy(p, out, UserMessage \union {Squit(p)}) /\ Lost(p, out)
  BY <1>0, HaltSent
<1>2. Stopped(p) /\ Leaves(p, out)
  BY <1>0, <1>1, HaltSent, LostTyped
<1>3. /\ running' = running \ {p} /\ db' = [db EXCEPT ![p] = EmptyDb(p)]
      /\ \A e \in Edge : link'[e] = IF e[1] = p THEN "down" ELSE link[e]
  BY <1>2 DEF Stopped
<1> SUFFICES ASSUME NEW n \in Server, NEW s \in Server, <<n, s>> \in Edge,
                    n \in running', s \in running', IsUp(n, s)',
                    NEW x \in DOMAIN db'[n].srv \ (side[<<s, n>>] \union {n})
             PROVE  WillKnow(n, s, x)'
  BY DEF KeenAll, Keen
<1>4. n # p /\ s # p /\ n \in running /\ s \in running
  BY <1>3
<1>5. db'[n] = db[n] /\ db'[s] = db[s]
  BY <1>0, <1>3, <1>4, Empty, ListsMove
<1>6. IsUp(n, s)
  BY <1>3, <1>4 DEF IsUp
<1>7. WillKnow(n, s, x)
  BY <1>4, <1>5, <1>6 DEF KeenAll, Keen
<1>8. net'[<<n, s>>] = net[<<n, s>>]
  BY <1>1, <1>2, <1>4 DEF Leaves, SentBy
<1> QED
  BY <1>5, <1>7, <1>8 DEF WillKnow

LEMMA KeenStart ==
  ASSUME ~Hasty, NEW side \in Sides, Inv(side), KeenAll(side), NEW p \in Server, Start(p)
  PROVE  KeenAll(side)'
<1>1. /\ TypeOK /\ p \notin running /\ running' = running \union {p}
      /\ link' = link /\ db' = db /\ net' = net
      /\ \A n \in Neighbours(p) : ~IsUp(n, p)
  BY DEF Inv, Start
<1> SUFFICES ASSUME NEW n \in Server, NEW s \in Server, <<n, s>> \in Edge,
                    n \in running', s \in running', IsUp(n, s)',
                    NEW x \in DOMAIN db'[n].srv \ (side[<<s, n>>] \union {n})
             PROVE  WillKnow(n, s, x)'
  BY DEF KeenAll, Keen
<1>2. IsUp(n, s) /\ <<s, n>> \in Edge
  BY <1>1, EdgesKnown DEF IsUp
<1>3. n # p
  BY <1>1, <1>2 DEF Inv, DeadOk, Neighbours, IsUp
<1>4. s # p
  BY <1>1, <1>2 DEF Neighbours
<1>5. WillKnow(n, s, x)
  BY <1>1, <1>2, <1>3, <1>4 DEF KeenAll, Keen
<1> QED
  BY <1>1, <1>5 DEF WillKnow

LEMMA KeenNext ==
  ASSUME ~Hasty, NEW side \in Sides, Splits(side), Inv(side), KeenAll(side), [Next]_vars
  PROVE  KeenAll(side)'
<1>1. ASSUME NEW e \in Edge, Work(e[1], e[2]) PROVE KeenAll(side)'
  <2>1. e[1] \in Server /\ e[2] \in Server /\ <<e[1], e[2]>> \in Edge
    BY EdgesKnown
  <2> QED
    BY <1>1, <2>1, KeenReceive, KeenCall, KeenTimeout, KeenGiveUp DEF Work
<1>2. ASSUME NEW s \in Server, Shutdown(s) \/ Crash(s) \/ Start(s) PROVE KeenAll(side)'
  BY <1>2, KeenHalt, KeenStart
<1>3. ASSUME NEW u \in User, UserAct(u) PROVE KeenAll(side)'
  <2>1. Home[u] \in Server /\ TypeOK
    BY UsersKnown DEF Inv
  <2> QED
    BY <1>3, <2>1, UserActTalks, KeenUser
<1>4. CASE UNCHANGED vars
  <2>1. \A n, s \in Server : Keen(side, n, s)' = Keen(side, n, s)
    BY <1>4 DEF vars, Keen, WillKnow, IsUp
  <2> QED
    BY <2>1 DEF KeenAll
<1> QED
  BY <1>1, <1>2, <1>3, <1>4 DEF Next
\* When all links are up and nothing is on its way, a server that somebody does not know
\* would be unknown to his neighbour on its side as well, and so on to the server itself.
LEMMA KeenKnown ==
  ASSUME NEW side \in Sides, Splits(side), Reaches(side), Inv(side), KeenAll(side), Settled
  PROVE  \A s \in Server : DOMAIN db[s].srv = Server
<1>1. \A s \in Server : ListsOK(s, db[s]) /\ s \in running
  BY DEF Inv, TypeOK, Settled
<1> SUFFICES ASSUME NEW s \in Server, NEW x \in Server, x \notin DOMAIN db[s].srv
             PROVE  FALSE
  BY <1>1 DEF ListsOK
<1> DEFINE Unaware(e) == e \in Edge /\ x \in side[e] /\ x \notin DOMAIN db[e[2]].srv
           B == {T \in SUBSET Server : \E e \in Edge : T = side[e] /\ Unaware(e)}
<1>2. \A e \in Edge : side[e] \in SUBSET Server
  BY DEF Sides
<1>3. B # {}
  <2>1. s # x
    BY DEF Inv, RoutedAt, Routes
  <2>2. PICK k \in Neighbours(s) : x \in side[<<k, s>>]
    BY <2>1 DEF Reaches
  <2>3. <<k, s>> \in Edge /\ <<k, s>>[2] = s
    BY EdgesKnown DEF Neighbours
  <2>4. Unaware(<<k, s>>)
    BY <2>2, <2>3
  <2> QED
    BY <1>2, <2>3, <2>4
<1> HIDE DEF B
<1>4. PICK T \in B : \A U \in B : ~(U \subseteq T /\ U # T)
  <2>1. B \subseteq SUBSET Server
    BY DEF B
  <2> QED
    BY <1>3, <2>1, FinitelyMany, Smallest
<1>5. PICK e \in Edge : T = side[e] /\ Unaware(e)
  BY <1>4 DEF B
<1> HIDE DEF Unaware
<1>6. PICK k \in Server, t \in Server : e = <<k, t>>
  BY EdgesKnown
<1>7. /\ <<k, t>> \in Edge /\ <<t, k>> \in Edge /\ T = side[<<k, t>>]
      /\ x \in side[<<k, t>>] /\ x \notin DOMAIN db[t].srv
  <2>1. e[2] = t
    BY <1>6
  <2> QED
    BY <1>5, <1>6, <2>1, EdgesKnown DEF Unaware
<1>8. IsUp(t, k) /\ IsUp(k, t) /\ net[<<k, t>>] = <<>>
  <2>1. \A f \in Edge : net[f] = <<>> /\ IsUp(f[1], f[2])
    BY DEF Settled
  <2>2. IsUp(<<t, k>>[1], <<t, k>>[2]) /\ IsUp(<<k, t>>[1], <<k, t>>[2])
    BY <1>7, <2>1
  <2> QED
    BY <1>7, <2>1, <2>2
<1>9. x # k
  <2>1. k \in UpOf(t)
    BY <1>7, <1>8 DEF UpOf, Neighbours
  <2>2. k \in DOMAIN db[t].srv
    BY <2>1 DEF Inv, RoutedAt, Routes
  <2> QED
    BY <1>7, <2>2
<1>10. CASE x \in DOMAIN db[k].srv
  <2>1. x \notin side[<<t, k>>]
    BY <1>7, SidesOf
  <2>2. Keen(side, k, t)
    BY <1>7 DEF KeenAll
  <2>3. WillKnow(k, t, x)
    BY <1>1, <1>8, <1>9, <1>10, <2>1, <2>2 DEF Keen
  <2>4. Says(<<>>, x) \/ x \in DOMAIN db[t].srv
    BY <1>8, <2>3 DEF WillKnow, Known
  <2> QED
    BY <1>7, <2>4 DEF Says
<1>11. CASE x \notin DOMAIN db[k].srv
  <2>1. PICK j \in Neighbours(k) : x \in side[<<j, k>>]
    BY <1>9 DEF Reaches
  <2>2. j \in Server /\ <<k, j>> \in Edge /\ <<j, k>> \in Edge /\ <<j, k>>[2] = k
    BY <2>1, EdgesKnown DEF Neighbours
  <2>3. j # t
    BY <1>7, <2>1, SidesOf
  <2>4. side[<<j, k>>] \subseteq side[<<k, t>>]
    BY <1>7, <2>2, <2>3, SidesApart
  <2>5. k \notin side[<<j, k>>] /\ k \in side[<<k, t>>]
    BY <1>7, <2>2, SidesOf
  <2>6. Unaware(<<j, k>>)
    BY <1>11, <2>1, <2>2 DEF Unaware
  <2>7. side[<<j, k>>] \in B
    BY <1>2, <2>2, <2>6 DEF B
  <2> QED
    BY <1>4, <1>7, <2>4, <2>5, <2>7
<1> QED
  BY <1>10, <1>11

\* In every network that is one tree, and as long as no server is back before its
\* neighbours have noticed that it was gone: whatever calls, splits, shutdowns and crashes
\* came before, when all servers run, every link is up and nothing is on its way, every
\* server has every other on its list.
THEOREM KnownToAll ==
  ASSUME OneTree, ~Hasty
  PROVE  Spec => []AllKnown
<1>1. PICK side \in Sides : Splits(side) /\ Reaches(side)
  BY DEF OneTree
<1>2. Init => Inv(side) /\ KeenAll(side)
  <2>1. Init => KeenAll(side)
    BY DEF Init, KeenAll, Keen, IsUp
  <2> QED
    BY <2>1, InitInv
<1>3. Inv(side) /\ KeenAll(side) /\ [Next]_vars => Inv(side)' /\ KeenAll(side)'
  BY <1>1, NextInv, KeenNext
<1>4. Inv(side) /\ KeenAll(side) => AllKnown
  BY <1>1, KeenKnown DEF AllKnown
<1> QED
  BY <1>2, <1>3, <1>4, PTL DEF Spec

=============================================================================
