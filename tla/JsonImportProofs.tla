-------------------------- MODULE JsonImportProofs --------------------------
(***************************************************************************)
(* Proofs about JsonImport and JsonForm: first the groups an export falls   *)
(* into and the parts a text is cut into, then the job that walks and sends *)
(* them, and the promise it keeps.                                          *)
(***************************************************************************)
EXTENDS JsonImport, SequenceTheorems, WellFoundedInduction, TLAPS

LEMMA LeastNatural ==
  ASSUME NEW S \in SUBSET Nat, S # {}
  PROVE  \E x \in S : \A y \in S : x <= y
<1>1. PICK x \in S : \A y \in S : ~(<<y, x>> \in OpToRel(<, Nat))
  BY NatLessThanWellFounded, WFMin
<1>2. \A y \in Nat : y < x => <<y, x>> \in OpToRel(<, Nat)
  BY DEF OpToRel
<1>3. \A y \in S : y \in Nat /\ ~(y < x)
  BY <1>1, <1>2, Zenon
<1>4. \A y \in S : x <= y
  BY <1>3
<1> QED BY <1>4

LEMMA GreatestIn ==
  ASSUME NEW n \in Nat, NEW S \in SUBSET (1..n), S # {}
  PROVE  \E x \in S : \A y \in S : y <= x
<1> DEFINE D == {n - x : x \in S}
<1>1. D \in SUBSET Nat
  <2>1. \A x \in S : x \in Int /\ n - x \in Nat
    OBVIOUS
  <2> QED BY <2>1
<1>2. D # {}
  OBVIOUS
<1> HIDE DEF D
<1>3. PICK d \in D : \A e \in D : d <= e
  BY <1>1, <1>2, LeastNatural
<1>4. PICK x \in S : d = n - x
  BY <1>3 DEF D
<1>5. \A y \in S : n - x <= n - y
  BY <1>3, <1>4 DEF D
<1>6. \A y \in S : y <= x
  BY <1>5
<1> QED BY <1>6

-----------------------------------------------------------------------------
(* Induction, with a set in the place of a predicate.                       *)

LEMMA Climb ==
  ASSUME NEW N \in Nat, NEW T, 0 \in T, \A n \in 1..N : n - 1 \in T => n \in T
  PROVE  \A n \in 0..N : n \in T
<1> DEFINE Bad == {n \in 0..N : n \notin T}
<1> SUFFICES ASSUME Bad # {}
             PROVE  FALSE
  OBVIOUS
<1>1. PICK k \in Bad : \A l \in Bad : k <= l
  <2>1. Bad \in SUBSET Nat
    OBVIOUS
  <2> QED BY <2>1, LeastNatural
<1>2. k \in 1..N /\ k - 1 \in 0..N /\ k - 1 \notin Bad
  BY <1>1
<1> QED BY <1>1, <1>2

LEMMA SeqClimb ==
  ASSUME NEW S, NEW P, <<>> \in P, \A s \in Seq(S), e \in S : s \in P => Append(s, e) \in P
  PROVE  \A s \in Seq(S) : s \in P
<1> SUFFICES ASSUME NEW s \in Seq(S)
             PROVE  s \in P
  OBVIOUS
<1> DEFINE T == {n \in 0..Len(s) : SubSeq(s, 1, n) \in P}
<1>1. 0 \in T
  <2>1. SubSeq(s, 1, 0) = <<>>
    BY SubSeqEmpty
  <2>2. 0 \in 0..Len(s)
    BY LenProperties
  <2> QED BY <2>1, <2>2
<1>2. ASSUME NEW n \in 1..Len(s), n - 1 \in T
      PROVE  n \in T
  <2>1. SubSeq(s, 1, n) = SubSeq(s, 1, n - 1) \o <<s[n]>>
    BY SubSeqRecursiveSecond
  <2>2. SubSeq(s, 1, n - 1) \in Seq(S) /\ s[n] \in S
    BY SubSeqProperties
  <2>3. SubSeq(s, 1, n) = Append(SubSeq(s, 1, n - 1), s[n])
    BY <2>1, <2>2, AppendIsConcat
  <2>4. SubSeq(s, 1, n - 1) \in P
    BY <1>2
  <2>5. SubSeq(s, 1, n) \in P
    BY <2>2, <2>3, <2>4
  <2>6. n \in 0..Len(s)
    BY LenProperties
  <2> QED BY <2>5, <2>6
<1>3. Len(s) \in Nat /\ Len(s) \in 0..Len(s)
  BY LenProperties
<1> HIDE DEF T
<1>4. Len(s) \in T
  BY <1>1, <1>2, <1>3, Climb
<1> QED BY <1>4, SubSeqFull DEF T

\* Some f begins with base and goes on with step.
Solved(N, S, base, step) ==
  \E f \in [0..N -> S] : f[0] = base /\ \A n \in 1..N : f[n] = step[n][f[n - 1]]

\* A recursion that stays in S has a solution.
LEMMA Recursion ==
  ASSUME NEW N \in Nat, NEW S, NEW base \in S, NEW step \in [1..N -> [S -> S]]
  PROVE  Solved(N, S, base, step)
<1> DEFINE Solves(f, k) == f[0] = base /\ \A n \in 1..k : f[n] = step[n][f[n - 1]]
           T == {k \in 0..N : \E f \in [0..k -> S] : Solves(f, k)}
<1>1. 0 \in T
  <2> DEFINE f == [n \in 0..0 |-> base]
  <2>1. f \in [0..0 -> S] /\ Solves(f, 0)
    OBVIOUS
  <2>2. 0 \in 0..N
    OBVIOUS
  <2> HIDE DEF f
  <2> QED BY <2>1, <2>2
<1>2. ASSUME NEW k \in 1..N, k - 1 \in T
      PROVE  k \in T
  <2>1. PICK f \in [0..(k - 1) -> S] : Solves(f, k - 1)
    BY <1>2
  <2>2. k - 1 \in 0..(k - 1) /\ f[k - 1] \in S
    BY <2>1
  <2> DEFINE last == step[k][f[k - 1]]
             g == [n \in 0..k |-> IF n = k THEN last ELSE f[n]]
  <2>3. last \in S
    BY <2>2
  <2>4. /\ \A n \in 0..(k - 1) : g[n] = f[n]
        /\ g[k] = last
    OBVIOUS
  <2>5. g \in [0..k -> S]
    BY <2>3
  <2> HIDE DEF g
  <2>6. \A n \in 1..k : g[n] = step[n][g[n - 1]]
    <3> SUFFICES ASSUME NEW n \in 1..k
                 PROVE  g[n] = step[n][g[n - 1]]
      OBVIOUS
    <3>1. n - 1 \in 0..(k - 1) /\ g[n - 1] = f[n - 1]
      BY <2>4
    <3>2. CASE n = k
      BY <2>4, <3>1, <3>2
    <3>3. CASE n # k
      <4>1. n \in 1..(k - 1) /\ n \in 0..(k - 1)
        BY <3>3
      <4> QED BY <2>1, <2>4, <3>1, <4>1
    <3> QED BY <3>2, <3>3
  <2>7. g[0] = base
    BY <2>1, <2>4
  <2> QED BY <2>5, <2>6, <2>7
<1>3. N \in 0..N
  OBVIOUS
<1> HIDE DEF T
<1>4. N \in T
  BY <1>1, <1>2, <1>3, Climb
<1> QED BY <1>4 DEF T, Solved
-----------------------------------------------------------------------------
(* Sequences of places.                                                     *)

Sorted(s) == \A i, j \in DOMAIN s : i < j => s[i] < s[j]

Before(S, T) == \A x \in S, y \in T : x < y

\* Rows of groups that follow each other make a longer row.
LEMMA Joined ==
  ASSUME NEW N \in Nat, NEW gs \in Seq(Seq(1..N)), NEW hs \in Seq(Seq(1..N)),
         InOrder(gs), InOrder(hs), Before(Members(gs), Members(hs))
  PROVE  /\ gs \o hs \in Seq(Seq(1..N)) /\ InOrder(gs \o hs)
         /\ Members(gs \o hs) = Members(gs) \union Members(hs)
         /\ Len(gs \o hs) = Len(gs) + Len(hs)
         /\ \A g \in DOMAIN gs : g \in DOMAIN (gs \o hs) /\ (gs \o hs)[g] = gs[g]
         /\ \A g \in DOMAIN (gs \o hs) : g \in DOMAIN gs \/ (g - Len(gs) \in DOMAIN hs /\ (gs \o hs)[g] = hs[g - Len(gs)])
<1> DEFINE q == gs \o hs
           n == Len(gs)
           m == Len(hs)
<1>1. /\ q \in Seq(Seq(1..N)) /\ n \in Nat /\ m \in Nat
      /\ DOMAIN gs = 1..n /\ DOMAIN hs = 1..m /\ DOMAIN q = 1 .. n + m /\ Len(q) = n + m
      /\ \A g \in 1..n : q[g] = gs[g]
      /\ \A g \in 1..m : q[n + g] = hs[g]
  OBVIOUS
<1> HIDE DEF q, n, m
<1>2. \A g \in DOMAIN q : \/ g \in DOMAIN gs /\ q[g] = gs[g]
                          \/ g > n /\ g - n \in DOMAIN hs /\ q[g] = hs[g - n]
  <2> SUFFICES ASSUME NEW g \in DOMAIN q, ~(g \in DOMAIN gs)
               PROVE  g > n /\ g - n \in DOMAIN hs /\ q[g] = hs[g - n]
    BY <1>1
  <2>1. g > n /\ g - n \in 1..m /\ n + (g - n) = g
    BY <1>1
  <2> QED BY <1>1, <2>1
<1>3. InOrder(q)
  <2> SUFFICES ASSUME NEW i \in DOMAIN q, NEW j \in DOMAIN q, NEW k \in DOMAIN q[i], NEW l \in DOMAIN q[j],
                      i < j \/ (i = j /\ k < l)
               PROVE  q[i][k] < q[j][l]
    BY DEF InOrder
  <2>1. CASE i \in DOMAIN gs /\ j \in DOMAIN gs
    BY <1>1, <2>1 DEF InOrder
  <2>2. CASE i \in DOMAIN gs /\ j > n /\ j - n \in DOMAIN hs /\ q[j] = hs[j - n]
    <3>1. k \in DOMAIN gs[i] /\ q[i] = gs[i] /\ l \in DOMAIN hs[j - n]
      BY <1>1, <2>2
    <3>2. q[i][k] \in Members(gs)
      BY <2>2, <3>1 DEF Members, ToSet
    <3>3. q[j][l] \in Members(hs)
      BY <2>2, <3>1 DEF Members, ToSet
    <3> QED BY <3>2, <3>3 DEF Before
  <2>3. CASE i > n /\ i - n \in DOMAIN hs /\ q[i] = hs[i - n]
    <3>5. i \in Nat /\ j \in Nat /\ (i < j \/ i = j) /\ n \in Nat
      BY SMTT(30), <1>1
    <3>6. i > n
      BY <2>3
    <3>1. i \in Nat /\ j \in Nat /\ j > n
      BY <3>5, <3>6
    <3>4. ~(j \in DOMAIN gs)
      BY <1>1, <3>1
    <3>2. j > n /\ j - n \in DOMAIN hs /\ q[j] = hs[j - n]
      BY <1>2, <3>1, <3>4
    <3>3. i - n < j - n \/ (i - n = j - n /\ k < l)
      BY SMTT(30), <1>1, <3>1
    <3> QED BY <2>3, <3>2, <3>3 DEF InOrder
  <2> QED BY <1>2, <2>1, <2>2, <2>3
<1>4. Members(q) = Members(gs) \union Members(hs)
  <2>1. Members(q) \subseteq Members(gs) \union Members(hs)
    BY <1>2 DEF Members
  <2>2. Members(gs) \subseteq Members(q)
    BY <1>1 DEF Members
  <2>3. \A g \in DOMAIN hs : n + g \in DOMAIN q
    BY <1>1
  <2>4. Members(hs) \subseteq Members(q)
    BY <1>1, <2>3 DEF Members
  <2> QED BY <2>1, <2>2, <2>4
<1> QED BY <1>1, <1>2, <1>3, <1>4 DEF q, n, m

\* A row of one group.
LEMMA One ==
  ASSUME NEW N \in Nat, NEW s \in Seq(1..N), Sorted(s)
  PROVE  /\ <<s>> \in Seq(Seq(1..N)) /\ InOrder(<<s>>) /\ Members(<<s>>) = ToSet(s)
         /\ Len(<<s>>) = 1 /\ DOMAIN <<s>> = {1} /\ <<s>>[1] = s
<1>1. /\ <<s>> \in Seq(Seq(1..N)) /\ DOMAIN <<s>> = 1..1 /\ <<s>>[1] = s /\ Len(<<s>>) = 1
  OBVIOUS
<1>2. DOMAIN <<s>> = {1}
  BY <1>1
<1> QED BY <1>1, <1>2 DEF InOrder, Sorted, Members

\* K pieces of M, the last perhaps shorter, make up L.
Pieces(L, M, K) ==
  /\ K \in Nat
  /\ \A k \in 1..K : (k - 1) * M \in Nat /\ k * M \in Nat /\ k * M = (k - 1) * M + M
  /\ \A k \in 1..K : (k - 1) * M < L
  /\ \A k, l \in 1..K : k < l => k * M <= (l - 1) * M
  /\ \A i \in 1..L : \E k \in 1..K : (k - 1) * M < i /\ i <= k * M

\* How a run of L messages is cut every M.
LEMMA Ceiling ==
  ASSUME NEW L \in Nat, NEW M \in Nat \ {0}, NEW K, K = (L + M - 1) \div M
  PROVE  Pieces(L, M, K)
<1>1. K \in Nat /\ K * M <= L + M - 1 /\ L + M - 1 < K * M + M
  OBVIOUS
<1>2. \A k \in 1..K : (k - 1) * M \in Nat /\ k * M \in Nat /\ k * M = (k - 1) * M + M
  BY <1>1
<1>3. \A a, b \in Nat : a <= b => a * M <= b * M
  OBVIOUS
<1>4. ASSUME NEW k \in 1..K PROVE (k - 1) * M < L
  <2>1. k * M <= K * M
    BY <1>1, <1>3
  <2> QED BY <1>1, <1>2, <2>1
<1>5. ASSUME NEW k \in 1..K, NEW l \in 1..K, k < l PROVE k * M <= (l - 1) * M
  <2>1. k <= l - 1 /\ l - 1 \in Nat /\ k \in Nat
    BY <1>1, <1>5
  <2> QED BY <1>3, <2>1
<1>6. ASSUME NEW i \in 1..L PROVE \E k \in 1..K : (k - 1) * M < i /\ i <= k * M
  <2> DEFINE a == (i - 1) \div M
  <2>1. a \in Nat /\ a * M <= i - 1 /\ i - 1 < a * M + M
    OBVIOUS
  <2> HIDE DEF a
  <2>2. (a + 1) * M = a * M + M /\ (a + 1) - 1 = a
    BY <2>1
  <2>3. a + 1 <= K
    <3>1. ASSUME a >= K PROVE FALSE
      <4>1. K * M <= a * M
        BY <1>1, <1>3, <2>1, <3>1
      <4> QED BY <1>1, <2>1, <4>1
    <3> QED BY <1>1, <2>1, <3>1
  <2>4. a + 1 \in 1..K
    BY <1>1, <2>1, <2>3
  <2> QED BY <2>1, <2>2, <2>4
<1> QED BY <1>1, <1>2, <1>4, <1>5, <1>6 DEF Pieces

-----------------------------------------------------------------------------
(* The groups of an export.                                                 *)

\* What append_group_chunk makes of a run.
LEMMA Chunked ==
  ASSUME NEW N \in Nat, NEW run \in Seq(1..N)
  PROVE  /\ Chunks(run) \in Seq(Seq(1..N))
         /\ \A c \in DOMAIN Chunks(run) :
              /\ Len(Chunks(run)[c]) \in 1..MaxItems
              /\ \E o \in 0..Len(run) : \A i \in DOMAIN Chunks(run)[c] :
                   o + i \in DOMAIN run /\ Chunks(run)[c][i] = run[o + i]
         /\ Members(Chunks(run)) = ToSet(run)
         /\ Sorted(run) => InOrder(Chunks(run))
<1> DEFINE L == Len(run)
           M == MaxItems
           K == (L + M - 1) \div M
           end(k) == IF k * M < L THEN k * M ELSE L
           q == Chunks(run)
<1>1. L \in Nat /\ M \in Nat \ {0} /\ DOMAIN run = 1..L
  BY FormAssumption
<1> HIDE DEF L, M
<1>0. Pieces(L, M, K)
  BY <1>1, Ceiling
<1> HIDE DEF K
<1>2. /\ K \in Nat
      /\ \A k \in 1..K : (k - 1) * M \in Nat /\ k * M \in Nat /\ k * M = (k - 1) * M + M
      /\ \A k \in 1..K : (k - 1) * M < L
      /\ \A k, l \in 1..K : k < l => k * M <= (l - 1) * M
      /\ \A i \in 1..L : \E k \in 1..K : (k - 1) * M < i /\ i <= k * M
  BY <1>0 DEF Pieces
<1>3. q = [k \in 1..K |-> SubSeq(run, (k - 1) * M + 1, end(k))]
  BY DEF Chunks, K, L, M
<1> HIDE DEF q
<1>4. ASSUME NEW k \in 1..K
      PROVE  /\ end(k) \in Nat /\ (k - 1) * M < end(k) /\ end(k) <= L /\ end(k) - (k - 1) * M <= M
             /\ end(k) <= k * M
  BY <1>1, <1>2
<1> HIDE DEF end
<1>5. ASSUME NEW k \in 1..K
      PROVE  /\ q[k] \in Seq(1..N)
             /\ Len(q[k]) = end(k) - (k - 1) * M
             /\ DOMAIN q[k] = 1..(end(k) - (k - 1) * M)
             /\ \A i \in DOMAIN q[k] : (k - 1) * M + i \in 1..L /\ q[k][i] = run[(k - 1) * M + i]
  <2> DEFINE a == (k - 1) * M
             b == end(k)
  <2>1. a \in Nat /\ b \in Nat /\ a < b /\ b <= L
    BY <1>2, <1>4
  <2>2. q[k] = SubSeq(run, a + 1, b)
    BY <1>3
  <2> HIDE DEF a, b
  <2>3. /\ SubSeq(run, a + 1, b) \in Seq(1..N) /\ Len(SubSeq(run, a + 1, b)) = b - a
        /\ DOMAIN SubSeq(run, a + 1, b) = 1..(b - a)
        /\ \A i \in 1..(b - a) : SubSeq(run, a + 1, b)[i] = run[a + i]
    BY <1>1, <2>1 DEF L
  <2>4. \A i \in 1..(b - a) : a + i \in 1..L
    BY <1>1, <2>1
  <2> QED BY <2>2, <2>3, <2>4 DEF a, b
<1>6. q \in Seq(Seq(1..N)) /\ DOMAIN q = 1..K
  BY <1>2, <1>3, <1>5
<1>7. ASSUME NEW c \in DOMAIN q
      PROVE  /\ Len(q[c]) \in 1..MaxItems
             /\ \E o \in 0..Len(run) : \A i \in DOMAIN q[c] : o + i \in DOMAIN run /\ q[c][i] = run[o + i]
  <2>1. Len(q[c]) \in 1..MaxItems
    BY SMTT(30), <1>1, <1>2, <1>4, <1>5, <1>6 DEF M
  <2>2. (c - 1) * M \in 0..Len(run)
    <3> DEFINE a == (c - 1) * M
    <3>1. a \in Nat /\ a < L
      BY <1>2, <1>6
    <3> HIDE DEF a
    <3>2. a \in 0..Len(run)
      BY <1>1, <3>1 DEF L
    <3> QED BY <3>2 DEF a
  <2> QED BY <1>1, <1>5, <1>6, <2>1, <2>2
<1>8. Members(q) = ToSet(run)
  <2>1. Members(q) \subseteq ToSet(run)
    BY <1>1, <1>5, <1>6 DEF Members, ToSet
  <2>2. ASSUME NEW i \in 1..L
        PROVE  run[i] \in Members(q)
    <3>1. PICK k \in 1..K : (k - 1) * M < i /\ i <= k * M
      BY <1>2
    <3> DEFINE a == (k - 1) * M
    <3>2. i <= end(k) /\ a \in Nat /\ a < i /\ end(k) \in Nat
      BY <1>1, <1>2, <1>4, <3>1 DEF end
    <3>3. q[k][i - a] = run[a + (i - a)] /\ i - a \in DOMAIN q[k]
      <4>1. DOMAIN q[k] = 1..(end(k) - a) /\ \A j \in DOMAIN q[k] : q[k][j] = run[a + j]
        BY <1>5
      <4> HIDE DEF a
      <4> QED BY <3>2, <4>1
    <3>4. a + (i - a) = i
      BY <3>2
    <3>5. run[i] = q[k][i - a]
      BY <3>3, <3>4
    <3>6. run[i] \in ToSet(q[k]) /\ k \in DOMAIN q
      BY <1>6, <3>3, <3>5 DEF ToSet
    <3> QED BY <3>6 DEF Members
  <2> QED BY <1>1, <2>1, <2>2 DEF ToSet
<1>9. ASSUME Sorted(run) PROVE InOrder(q)
  <2> SUFFICES ASSUME NEW k \in DOMAIN q, NEW l \in DOMAIN q, NEW i \in DOMAIN q[k], NEW j \in DOMAIN q[l],
                      k < l \/ (k = l /\ i < j)
               PROVE  q[k][i] < q[l][j]
    BY DEF InOrder
  <2> DEFINE a == (k - 1) * M
             b == (l - 1) * M
  <2>1. /\ a + i \in DOMAIN run /\ q[k][i] = run[a + i] /\ b + j \in DOMAIN run /\ q[l][j] = run[b + j]
        /\ i \in 1..(end(k) - a) /\ j \in 1..(end(l) - b) /\ a \in Nat /\ b \in Nat
        /\ end(k) \in Nat /\ end(l) \in Nat
    BY <1>1, <1>2, <1>4, <1>5, <1>6
  <2>2. k < l => end(k) <= b
    <3>1. ASSUME k < l PROVE end(k) <= b
      <4>1. k * M <= b /\ end(k) <= k * M /\ k * M \in Nat
        BY <1>2, <1>4, <1>6, <3>1
      <4> QED BY <2>1, <4>1
    <3> QED BY <3>1
  <2>3. k = l => a = b
    OBVIOUS
  <2> HIDE DEF a, b
  <2>4. a + i < b + j
    BY SMTT(30), <2>1, <2>2, <2>3
  <2> QED BY <1>9, <2>1, <2>4 DEF Sorted
<1> QED BY <1>6, <1>7, <1>8, <1>9 DEF q

\* What the members of a group have in common, and where explicit albums are
\* cut, as WellGrouped says it.
GroupOk(ms, G) ==
  /\ Len(G) \in 1..MaxItems
  /\ \A i \in 2..Len(G) :
       /\ ms[G[i]].album = ms[G[1]].album
       /\ ms[G[i]].album = 0 =>
            /\ Groupable(ms[G[i]]) /\ ms[G[i]].family = ms[G[1]].family
            /\ ms[G[i]].id = ms[G[i - 1]].id + 1
            /\ InTime(ms[G[i - 1]], ms[G[i]])

CutOk(ms, gs) ==
  \A g \in DOMAIN gs :
    g > 1 /\ ms[gs[g][1]].album # 0 /\ ms[gs[g - 1][1]].album = ms[gs[g][1]].album
      => Len(gs[g - 1]) = MaxItems

\* The members of a run.
RunOk(ms, run) ==
  \A i \in DOMAIN run :
    /\ ms[run[i]].album = 0 /\ Groupable(ms[run[i]]) /\ ms[run[i]].family = ms[run[1]].family
    /\ i > 1 => ms[run[i]].id = ms[run[i - 1]].id + 1 /\ InTime(ms[run[i - 1]], ms[run[i]])

\* The groups gs of the first n messages.
Formed(ms, gs, n) ==
  /\ gs \in Seq(Seq(1..Len(ms)))
  /\ InOrder(gs) /\ Members(gs) = 1..n
  /\ \A g \in DOMAIN gs : GroupOk(ms, gs[g])
  /\ CutOk(ms, gs)

\* The groups and the run the first n messages come to.
Forming(ms, s, n) ==
  /\ s \in [done : Seq(Seq(1..Len(ms))), run : Seq(1..Len(ms))]
  /\ InOrder(s.done) /\ Sorted(s.run) /\ Before(Members(s.done), ToSet(s.run))
  /\ Members(s.done) \union ToSet(s.run) = 1..n
  /\ \A g \in DOMAIN s.done : GroupOk(ms, s.done[g])
  /\ CutOk(ms, s.done) /\ RunOk(ms, s.run)

LEMMA FormedForming ==
  ASSUME NEW ms \in Seq(ExportMessage), NEW n \in Nat, NEW gs, Formed(ms, gs, n)
  PROVE  Forming(ms, [done |-> gs, run |-> <<>>], n)
<1>1. <<>> \in Seq(1..Len(ms)) /\ DOMAIN <<>> = {} /\ ToSet(<<>>) = {}
  BY DEF ToSet
<1>2. Sorted(<<>>) /\ RunOk(ms, <<>>) /\ Before(Members(gs), ToSet(<<>>))
  BY <1>1 DEF Sorted, RunOk, Before
<1> QED BY <1>1, <1>2 DEF Formed, Forming

LEMMA FlushForms ==
  ASSUME NEW ms \in Seq(ExportMessage), NEW n \in Nat, NEW s, Forming(ms, s, n)
  PROVE  Formed(ms, Flushed(s), n)
<1> DEFINE N == Len(ms)
           gs == s.done
           run == s.run
           cs == Chunks(run)
           q == gs \o cs
<1>1. N \in Nat /\ gs \in Seq(Seq(1..N)) /\ run \in Seq(1..N)
  BY DEF Forming
<1>2. Flushed(s) = q
  BY DEF Flushed
<1> HIDE DEF N
<1>3. /\ InOrder(gs) /\ Sorted(run) /\ Before(Members(gs), ToSet(run))
      /\ Members(gs) \union ToSet(run) = 1..n
      /\ \A g \in DOMAIN gs : GroupOk(ms, gs[g])
      /\ CutOk(ms, gs) /\ RunOk(ms, run)
  BY DEF Forming
<1> HIDE DEF gs, run
<1>4. /\ cs \in Seq(Seq(1..N))
      /\ \A c \in DOMAIN cs : /\ Len(cs[c]) \in 1..MaxItems
                              /\ \E o \in 0..Len(run) : \A i \in DOMAIN cs[c] :
                                   o + i \in DOMAIN run /\ cs[c][i] = run[o + i]
      /\ Members(cs) = ToSet(run) /\ InOrder(cs)
  BY <1>1, <1>3, Chunked
<1> HIDE DEF cs
<1>5. /\ q \in Seq(Seq(1..N)) /\ InOrder(q)
      /\ Members(q) = Members(gs) \union Members(cs)
      /\ \A g \in DOMAIN gs : g \in DOMAIN q /\ q[g] = gs[g]
      /\ \A g \in DOMAIN q : g \in DOMAIN gs \/ (g - Len(gs) \in DOMAIN cs /\ q[g] = cs[g - Len(gs)])
  BY <1>1, <1>3, <1>4, Joined
<1> HIDE DEF q
<1>6. ASSUME NEW c \in DOMAIN cs
      PROVE  GroupOk(ms, cs[c]) /\ ms[cs[c][1]].album = 0
  <2> DEFINE G == cs[c]
  <2>1. Len(G) \in 1..MaxItems /\ G \in Seq(1..N)
    BY <1>4
  <2>2. PICK o \in 0..Len(run) : \A i \in DOMAIN G : o + i \in DOMAIN run /\ G[i] = run[o + i]
    BY <1>4
  <2> HIDE DEF G
  <2>3. DOMAIN G = 1..Len(G) /\ Len(G) \in Nat /\ Len(G) >= 1 /\ o \in Nat
    BY <1>1, <2>1, FormAssumption
  <2>4. 1 \in DOMAIN G
    BY <2>3
  <2>5. ms[G[1]].album = 0 /\ ms[G[1]].family = ms[run[1]].family
    BY <1>3, <2>2, <2>4 DEF RunOk
  <2>6. ASSUME NEW i \in 2..Len(G)
        PROVE  /\ ms[G[i]].album = 0 /\ Groupable(ms[G[i]]) /\ ms[G[i]].family = ms[G[1]].family
               /\ ms[G[i]].id = ms[G[i - 1]].id + 1 /\ InTime(ms[G[i - 1]], ms[G[i]])
    <3>1. i \in DOMAIN G /\ i - 1 \in DOMAIN G /\ o + (i - 1) = (o + i) - 1 /\ o + i > 1
      BY <2>3
    <3>2. o + i \in DOMAIN run /\ G[i] = run[o + i] /\ G[i - 1] = run[(o + i) - 1]
      BY <2>2, <3>1
    <3> QED BY <1>3, <2>5, <3>1, <3>2 DEF RunOk
  <2> QED BY <2>1, <2>5, <2>6 DEF GroupOk, G
<1>7. \A g \in DOMAIN q : GroupOk(ms, q[g])
  BY <1>3, <1>5, <1>6
<1>8. CutOk(ms, q)
  <2> SUFFICES ASSUME NEW g \in DOMAIN q, g > 1, ms[q[g][1]].album # 0,
                      ms[q[g - 1][1]].album = ms[q[g][1]].album
               PROVE  Len(q[g - 1]) = MaxItems
    BY DEF CutOk
  <2>1. g \in DOMAIN gs
    <3>1. ASSUME NEW c \in DOMAIN cs, q[g] = cs[c] PROVE FALSE
      BY <1>6, <3>1
    <3> QED BY <1>5, <3>1
  <2>2. g - 1 \in DOMAIN gs
    BY <1>1, <2>1
  <2> QED BY <1>3, <1>5, <2>1, <2>2 DEF CutOk
<1> QED BY <1>2, <1>3, <1>4, <1>5, <1>7, <1>8 DEF Formed, N

\* A group of its own.
LEMMA NewGroup ==
  ASSUME NEW ms \in Seq(ExportMessage), NEW n \in 1..Len(ms), NEW gs, Formed(ms, gs, n - 1),
         \/ gs = <<>> \/ ms[n].album = 0
         \/ ms[gs[Len(gs)][1]].album # ms[n].album \/ Len(gs[Len(gs)]) >= MaxItems
  PROVE  Formed(ms, Append(gs, <<n>>), n)
<1> DEFINE N == Len(ms)
           q == Append(gs, <<n>>)
           l == Len(gs)
<1>1. /\ N \in Nat /\ gs \in Seq(Seq(1..N)) /\ InOrder(gs) /\ Members(gs) = 1..(n - 1)
      /\ \A g \in DOMAIN gs : GroupOk(ms, gs[g])
      /\ CutOk(ms, gs)
  BY DEF Formed
<1>2. n \in 1..N
  OBVIOUS
<1> HIDE DEF N
<1>3. <<n>> \in Seq(1..N) /\ DOMAIN <<n>> = {1} /\ <<n>>[1] = n /\ Len(<<n>>) = 1
  BY <1>2
<1>4. Sorted(<<n>>) /\ ToSet(<<n>>) = {n}
  BY <1>3, <1>2 DEF Sorted, ToSet
<1> DEFINE h == <<<<n>>>>
<1>5. /\ h \in Seq(Seq(1..N)) /\ InOrder(h) /\ Members(h) = {n}
      /\ DOMAIN h = {1} /\ h[1] = <<n>>
  BY <1>1, <1>3, <1>4, One
<1>6. q = gs \o h
  BY <1>1, <1>5
<1> HIDE DEF h
<1>7. Before(Members(gs), Members(h))
  BY <1>1, <1>2, <1>5 DEF Before
<1> HIDE DEF q
<1>8. /\ q \in Seq(Seq(1..N)) /\ InOrder(q)
      /\ Members(q) = Members(gs) \union Members(h)
      /\ \A g \in DOMAIN gs : g \in DOMAIN q /\ q[g] = gs[g]
      /\ \A g \in DOMAIN q : g \in DOMAIN gs \/ (g - l \in {1} /\ q[g] = h[g - l])
  <2>1. /\ gs \o h \in Seq(Seq(1..N)) /\ InOrder(gs \o h)
        /\ Members(gs \o h) = Members(gs) \union Members(h)
        /\ \A g \in DOMAIN gs : g \in DOMAIN (gs \o h) /\ (gs \o h)[g] = gs[g]
        /\ \A g \in DOMAIN (gs \o h) : g \in DOMAIN gs \/ (g - l \in DOMAIN h /\ (gs \o h)[g] = h[g - l])
    BY <1>1, <1>5, <1>7, Joined
  <2> QED BY <1>5, <1>6, <2>1
<1>9. Members(q) = 1..n
  <2>1. n \in Nat /\ Members(q) = (1..(n - 1)) \union {n}
    BY <1>1, <1>2, <1>5, <1>8
  <2> HIDE DEF N
  <2>2. (1..(n - 1)) \union {n} = 1..n
    BY <1>1, <1>2
  <2> QED BY <2>1, <2>2
<1>10. l \in Nat /\ DOMAIN gs = 1..l /\ (gs # <<>> => l \in DOMAIN gs)
  BY <1>1
<1>11. \A g \in DOMAIN q : g \in DOMAIN gs \/ (g - l = 1 /\ q[g] = <<n>>)
  BY <1>5, <1>8
<1>12. GroupOk(ms, <<n>>)
  BY <1>3, FormAssumption DEF GroupOk
<1>13. \A g \in DOMAIN gs : Len(gs[g]) <= MaxItems
  BY <1>1, FormAssumption DEF GroupOk
<1>14. CutOk(ms, q)
  <2> SUFFICES ASSUME NEW g \in DOMAIN q, g > 1, ms[q[g][1]].album # 0,
                      ms[q[g - 1][1]].album = ms[q[g][1]].album
               PROVE  Len(q[g - 1]) = MaxItems
    BY DEF CutOk
  <2>1. CASE g \in DOMAIN gs
    <3>1. g - 1 \in DOMAIN gs
      BY <1>10, <2>1
    <3> QED BY <1>1, <1>8, <2>1, <3>1 DEF CutOk
  <2>2. CASE g - l = 1 /\ q[g] = <<n>>
    <3>1. g \in Nat
      BY SMTT(30), <1>8
    <3>2. g - 1 = l /\ l # 0
      BY <1>10, <2>2, <3>1
    <3>3. gs # <<>> /\ l \in DOMAIN gs
      BY <1>10, <3>2
    <3>4. q[g - 1] = gs[l] /\ q[g][1] = n
      BY <1>3, <1>8, <2>2, <3>2, <3>3
    <3>5. Len(gs[l]) >= MaxItems
      BY <3>3, <3>4
    <3>6. Len(gs[l]) <= MaxItems /\ MaxItems \in Nat /\ Len(gs[l]) \in Nat
      BY <1>1, <1>13, <3>3, FormAssumption
    <3> QED BY <3>4, <3>5, <3>6
  <2> QED BY <1>11, <2>1, <2>2
<1> QED BY <1>1, <1>8, <1>9, <1>11, <1>12, <1>14 DEF Formed, q, N

\* The last group grows.
LEMMA LongerGroup ==
  ASSUME NEW ms \in Seq(ExportMessage), NEW n \in 1..Len(ms), NEW gs, Formed(ms, gs, n - 1),
         gs # <<>>, ms[gs[Len(gs)][1]].album = ms[n].album, ms[n].album # 0, Len(gs[Len(gs)]) < MaxItems
  PROVE  Formed(ms, [gs EXCEPT ![Len(gs)] = Append(@, n)], n)
<1> DEFINE N == Len(ms)
           l == Len(gs)
           G == gs[l]
           H == Append(G, n)
           q == [gs EXCEPT ![l] = H]
<1>1. /\ N \in Nat /\ gs \in Seq(Seq(1..N)) /\ InOrder(gs) /\ Members(gs) = 1..(n - 1)
      /\ \A g \in DOMAIN gs : GroupOk(ms, gs[g])
      /\ CutOk(ms, gs)
  BY DEF Formed
<1>2. n \in 1..N /\ n \in Nat
  OBVIOUS
<1> HIDE DEF N
<1>3. l \in Nat /\ DOMAIN gs = 1..l /\ l \in DOMAIN gs
  BY <1>1
<1>4. /\ ms[G[1]].album = ms[n].album /\ Len(G) < MaxItems
      /\ G \in Seq(1..N) /\ GroupOk(ms, G)
  <2>1. \A g \in DOMAIN gs : gs[g] \in Seq(1..N)
    BY <1>1
  <2> QED BY <1>1, <1>3, <2>1
<1> HIDE DEF l
<1>5. q \in Seq(Seq(1..N)) /\ DOMAIN q = 1..l /\ q[l] = H /\ \A g \in 1..l : g # l => q[g] = gs[g]
  <2>1. H \in Seq(1..N)
    BY <1>2, <1>4
  <2> HIDE DEF H
  <2>2. gs \in [1..l -> Seq(1..N)]
    BY <1>1 DEF l
  <2>3. q \in [1..l -> Seq(1..N)] /\ q[l] = H /\ \A g \in 1..l : g # l => q[g] = gs[g]
    BY <1>3, <2>1, <2>2
  <2> HIDE DEF q, l
  <2>4. q \in Seq(Seq(1..N)) /\ DOMAIN q = 1..l
    BY SMTT(30), <1>3, <2>3
  <2> QED BY <2>3, <2>4
<1> HIDE DEF G, q
<1>6. Len(G) \in 1..MaxItems
  BY <1>4 DEF GroupOk
<1> DEFINE e == Len(G)
<1>7. /\ e \in Nat /\ e >= 1 /\ e < MaxItems /\ MaxItems \in Nat /\ DOMAIN G = 1..e
      /\ Len(H) = e + 1 /\ DOMAIN H = 1..(e + 1) /\ H[e + 1] = n /\ \A i \in 1..e : H[i] = G[i]
  BY <1>2, <1>4, <1>6, FormAssumption
<1> HIDE DEF e, H
<1>8. \A i \in DOMAIN H : (i \in DOMAIN G /\ H[i] = G[i] /\ i <= e) \/ (i = e + 1 /\ H[i] = n)
  BY <1>7
<1>9. \A g \in DOMAIN gs : \A i \in DOMAIN gs[g] : gs[g][i] < n /\ gs[g][i] \in 1..N
  <2>1. ASSUME NEW g \in DOMAIN gs, NEW i \in DOMAIN gs[g]
        PROVE  gs[g][i] \in Members(gs)
    BY DEF Members, ToSet
  <2> QED BY SMTT(30), <1>1, <1>2, <2>1 DEF N
<1>10. InOrder(q)
  <2> SUFFICES ASSUME NEW g \in DOMAIN q, NEW h \in DOMAIN q, NEW i \in DOMAIN q[g], NEW j \in DOMAIN q[h],
                      g < h \/ (g = h /\ i < j)
               PROVE  q[g][i] < q[h][j]
    BY DEF InOrder
  <2>1. g \in DOMAIN gs /\ h \in DOMAIN gs /\ (g < h \/ g = h) /\ g \in Nat /\ h \in Nat
    BY SMTT(30), <1>3, <1>5
  <2>2. CASE h = l /\ j = e + 1 /\ q[h][j] = n
    <3>1. i \in DOMAIN gs[g] /\ q[g][i] = gs[g][i]
      <4>1. CASE g = l
        <5>1. i # e + 1
          BY <1>5, <1>7, <2>1, <2>2, <4>1
        <5> QED BY <1>5, <1>8, <4>1, <5>1 DEF G
      <4>2. CASE g # l
        BY <1>3, <1>5, <2>1, <4>2
      <4> QED BY <4>1, <4>2
    <3> QED BY <1>9, <2>1, <2>2, <3>1
  <2>3. CASE j \in DOMAIN gs[h] /\ q[h][j] = gs[h][j] /\ (h = l => j <= e)
    <3>1. i \in DOMAIN gs[g] /\ q[g][i] = gs[g][i]
      <4>1. CASE g = l
        <5>1. h = l
          BY <1>3, <2>1, <4>1
        <5>2. i # e + 1
          BY <1>5, <1>7, <2>1, <2>3, <4>1, <5>1
        <5> QED BY <1>5, <1>8, <4>1, <5>2 DEF G
      <4>2. CASE g # l
        BY <1>3, <1>5, <2>1, <4>2
      <4> QED BY <4>1, <4>2
    <3> QED BY <1>1, <2>1, <2>3, <3>1 DEF InOrder
  <2>4. CASE h = l
    BY <1>5, <1>8, <2>2, <2>3, <2>4 DEF G
  <2>5. CASE h # l
    BY <1>3, <1>5, <2>1, <2>3, <2>5
  <2> QED BY <2>4, <2>5
<1>11. Members(q) = 1..n
  <2>1. Members(q) \subseteq Members(gs) \union {n}
    <3> SUFFICES ASSUME NEW g \in DOMAIN q, NEW i \in DOMAIN q[g]
                 PROVE  q[g][i] \in Members(gs) \union {n}
      BY DEF Members, ToSet
    <3>1. \/ q[g][i] = n
          \/ g \in DOMAIN gs /\ i \in DOMAIN gs[g] /\ q[g][i] = gs[g][i]
      BY <1>3, <1>5, <1>8 DEF G
    <3> QED BY <3>1 DEF Members, ToSet
  <2>2. n \in Members(q)
    <3>1. n \in ToSet(H)
      BY <1>7 DEF ToSet
    <3> QED BY <1>3, <1>5, <3>1 DEF Members
  <2>3. Members(gs) \subseteq Members(q)
    <3> SUFFICES ASSUME NEW g \in DOMAIN gs, NEW i \in DOMAIN gs[g]
                 PROVE  gs[g][i] \in Members(q)
      BY DEF Members, ToSet
    <3>1. g \in DOMAIN q /\ i \in DOMAIN q[g] /\ q[g][i] = gs[g][i]
      BY SMTT(30), <1>3, <1>5, <1>7 DEF G
    <3> QED BY <3>1 DEF Members, ToSet
  <2>4. (1..(n - 1)) \union {n} = 1..n
    BY <1>2
  <2> QED BY <1>1, <2>1, <2>2, <2>3, <2>4
<1>12. GroupOk(ms, H)
  <2>1. Len(H) \in 1..MaxItems /\ H[1] = G[1]
    BY <1>7
  <2>2. ASSUME NEW i \in 2..Len(H)
        PROVE  /\ ms[H[i]].album = ms[H[1]].album
               /\ ms[H[i]].album = 0 =>
                    /\ Groupable(ms[H[i]]) /\ ms[H[i]].family = ms[H[1]].family
                    /\ ms[H[i]].id = ms[H[i - 1]].id + 1
                    /\ InTime(ms[H[i - 1]], ms[H[i]])
    <3>1. CASE i = e + 1
      BY <1>4, <1>7, <2>1, <3>1
    <3>2. CASE i # e + 1
      <4>1. i \in 2..e /\ i \in 1..e /\ i - 1 \in 1..e
        BY SMTT(30), <1>7, <3>2
      <4>2. H[i] = G[i] /\ H[i - 1] = G[i - 1] /\ i \in 2..Len(G)
        BY <1>7, <4>1 DEF e
      <4> QED BY <1>4, <2>1, <4>2 DEF GroupOk
    <3> QED BY <3>1, <3>2
  <2> QED BY <2>1, <2>2 DEF GroupOk
<1>13. \A g \in DOMAIN q : GroupOk(ms, q[g])
  BY <1>1, <1>3, <1>5, <1>12
<1>14. CutOk(ms, q)
  <2> SUFFICES ASSUME NEW g \in DOMAIN q, g > 1, ms[q[g][1]].album # 0,
                      ms[q[g - 1][1]].album = ms[q[g][1]].album
               PROVE  Len(q[g - 1]) = MaxItems
    BY DEF CutOk
  <2>1. g \in DOMAIN gs /\ g - 1 \in DOMAIN gs /\ g - 1 # l
    BY SMTT(30), <1>3, <1>5
  <2>2. q[g - 1] = gs[g - 1]
    BY <1>3, <1>5, <2>1
  <2>3. q[g][1] = gs[g][1]
    <3>1. g = l => q[g] = H /\ gs[g] = G /\ H[1] = G[1]
      BY <1>5, <1>7 DEF G
    <3>2. g # l => q[g] = gs[g]
      BY <1>3, <1>5, <2>1
    <3> QED BY <3>1, <3>2
  <2> QED BY <1>1, <2>1, <2>2, <2>3 DEF CutOk
<1> QED BY <1>5, <1>10, <1>11, <1>13, <1>14 DEF Formed, q, N, l, H, G

\* A run of its own.
LEMMA FirstOfRun ==
  ASSUME NEW ms \in Seq(ExportMessage), NEW n \in 1..Len(ms), NEW gs, Formed(ms, gs, n - 1),
         ms[n].album = 0, Groupable(ms[n])
  PROVE  Forming(ms, [done |-> gs, run |-> <<n>>], n)
<1> DEFINE N == Len(ms)
<1>1. /\ N \in Nat /\ gs \in Seq(Seq(1..N)) /\ InOrder(gs) /\ Members(gs) = 1..(n - 1)
      /\ \A g \in DOMAIN gs : GroupOk(ms, gs[g])
      /\ CutOk(ms, gs)
  BY DEF Formed
<1>2. n \in 1..N /\ n \in Nat
  OBVIOUS
<1> HIDE DEF N
<1>3. <<n>> \in Seq(1..N) /\ DOMAIN <<n>> = {1} /\ <<n>>[1] = n
  BY <1>2
<1>4. Sorted(<<n>>) /\ ToSet(<<n>>) = {n} /\ RunOk(ms, <<n>>)
  BY <1>2, <1>3 DEF Sorted, ToSet, RunOk
<1>5. Before(Members(gs), {n}) /\ Members(gs) \union {n} = 1..n
  BY <1>1, <1>2 DEF Before
<1> QED BY <1>1, <1>3, <1>4, <1>5 DEF Forming, N

\* The run grows.
LEMMA LongerRun ==
  ASSUME NEW ms \in Seq(ExportMessage), NEW n \in 1..Len(ms), NEW s, Forming(ms, s, n - 1),
         ms[n].album = 0, Joins(ms, s.run, n)
  PROVE  Forming(ms, [done |-> s.done, run |-> Append(s.run, n)], n)
<1> DEFINE N == Len(ms)
           gs == s.done
           run == s.run
           e == Len(run)
           q == Append(run, n)
<1>1. /\ N \in Nat /\ gs \in Seq(Seq(1..N)) /\ run \in Seq(1..N)
      /\ InOrder(gs) /\ Sorted(run) /\ Before(Members(gs), ToSet(run))
      /\ Members(gs) \union ToSet(run) = 1..(n - 1)
      /\ \A g \in DOMAIN gs : GroupOk(ms, gs[g])
      /\ CutOk(ms, gs) /\ RunOk(ms, run)
  BY DEF Forming
<1>2. n \in 1..N /\ n \in Nat
  OBVIOUS
<1> HIDE DEF N, gs
<1>4. /\ run # <<>> /\ Groupable(ms[n]) /\ ms[n].family = ms[run[1]].family
      /\ ms[n].id = ms[Last(run)].id + 1 /\ InTime(ms[Last(run)], ms[n])
  BY DEF Joins
<1> HIDE DEF run
<1>5. e \in Nat /\ e >= 1 /\ DOMAIN run = 1..e /\ Last(run) = run[e]
  BY <1>1, <1>4 DEF Last
<1>6. q \in Seq(1..N) /\ DOMAIN q = 1..(e + 1) /\ q[e + 1] = n /\ \A i \in 1..e : q[i] = run[i]
  BY <1>1, <1>2
<1> HIDE DEF e, q
<1>7. \A i \in DOMAIN q : (i \in DOMAIN run /\ i \in 1..e /\ q[i] = run[i]) \/ (i = e + 1 /\ q[i] = n)
  BY <1>5, <1>6
<1>8. \A i \in DOMAIN run : run[i] < n /\ run[i] \in Nat
  <2>1. \A i \in DOMAIN run : run[i] \in 1..(n - 1)
    BY <1>1 DEF ToSet
  <2> QED BY <1>2, <2>1
<1>9. Sorted(q)
  <2> SUFFICES ASSUME NEW i \in DOMAIN q, NEW j \in DOMAIN q, i < j
               PROVE  q[i] < q[j]
    BY DEF Sorted
  <2>1. i \in DOMAIN run /\ q[i] = run[i]
    BY <1>5, <1>6, <1>7
  <2>2. CASE j = e + 1 /\ q[j] = n
    BY <1>8, <2>1, <2>2
  <2>3. CASE j \in DOMAIN run /\ q[j] = run[j]
    BY <1>1, <2>1, <2>3 DEF Sorted
  <2> QED BY <1>7, <2>2, <2>3
<1>10. ToSet(q) = ToSet(run) \union {n}
  BY <1>5, <1>6, <1>7 DEF ToSet
<1>11. Before(Members(gs), ToSet(q))
  <2>1. \A x \in Members(gs) : x \in 1..(n - 1)
    BY <1>1
  <2> QED BY <1>1, <1>2, <1>10, <2>1 DEF Before
<1>12. Members(gs) \union ToSet(q) = 1..n
  <2>1. (1..(n - 1)) \union {n} = 1..n
    BY <1>2
  <2> QED BY <1>1, <1>10, <2>1
<1>13. RunOk(ms, q)
  <2> SUFFICES ASSUME NEW i \in DOMAIN q
               PROVE  /\ ms[q[i]].album = 0 /\ Groupable(ms[q[i]]) /\ ms[q[i]].family = ms[q[1]].family
                      /\ i > 1 => ms[q[i]].id = ms[q[i - 1]].id + 1 /\ InTime(ms[q[i - 1]], ms[q[i]])
    BY DEF RunOk
  <2>1. q[1] = run[1]
    BY <1>5, <1>6
  <2>2. CASE i = e + 1 /\ q[i] = n
    <3>1. q[i - 1] = run[e]
      BY <1>5, <1>6, <2>2
    <3> QED BY <1>4, <1>5, <2>1, <2>2, <3>1
  <2>3. CASE i \in DOMAIN run /\ i \in 1..e /\ q[i] = run[i]
    <3>1. i > 1 => q[i - 1] = run[i - 1]
      BY <1>5, <1>6, <2>3
    <3> QED BY <1>1, <2>1, <2>3, <3>1 DEF RunOk
  <2> QED BY <1>7, <2>2, <2>3
<1> QED BY <1>1, <1>6, <1>9, <1>11, <1>12, <1>13 DEF Forming, N, q, gs, run

LEMMA AddForms ==
  ASSUME NEW ms \in Seq(ExportMessage), NEW n \in 1..Len(ms), NEW s, Forming(ms, s, n - 1)
  PROVE  Forming(ms, AddMessage(ms, s, n), n)
<1> DEFINE gs == Flushed(s)
           l == Len(gs)
<1>1. Formed(ms, gs, n - 1)
  BY FlushForms
<1> HIDE DEF gs
<1>2. /\ l \in Nat /\ (l > 0 <=> gs # <<>>)
      /\ l > 0 => l \in DOMAIN gs /\ Len(gs[l]) \in Nat
      /\ MaxItems \in Nat
  <2>1. gs \in Seq(Seq(1..Len(ms)))
    BY <1>1 DEF Formed
  <2>2. l \in Nat /\ (l > 0 <=> gs # <<>>) /\ DOMAIN gs = 1..l /\ \A g \in DOMAIN gs : Len(gs[g]) \in Nat
    BY <2>1
  <2> QED BY <2>2, FormAssumption
<1> HIDE DEF l
<1>3. CASE ms[n].album # 0
  <2> DEFINE new == IF l > 0 /\ ms[gs[l][1]].album = ms[n].album /\ Len(gs[l]) < MaxItems
                      THEN [gs EXCEPT ![l] = Append(@, n)]
                      ELSE Append(gs, <<n>>)
  <2>1. Formed(ms, new, n)
    <3>1. CASE l > 0 /\ ms[gs[l][1]].album = ms[n].album /\ Len(gs[l]) < MaxItems
      BY <1>1, <1>2, <1>3, <3>1, LongerGroup DEF l
    <3>2. CASE ~(l > 0 /\ ms[gs[l][1]].album = ms[n].album /\ Len(gs[l]) < MaxItems)
      <4>1. gs = <<>> \/ ms[gs[l][1]].album # ms[n].album \/ Len(gs[l]) >= MaxItems
        BY <1>2, <3>2
      <4>2. Formed(ms, Append(gs, <<n>>), n)
        BY <1>1, <4>1, NewGroup DEF l
      <4> QED BY <3>2, <4>2
    <3> QED BY <3>1, <3>2
  <2>2. AddMessage(ms, s, n) = [done |-> new, run |-> <<>>]
    BY <1>3 DEF AddMessage, AddExplicit, gs, l
  <2>3. n \in Nat
    OBVIOUS
  <2> HIDE DEF new
  <2>4. Forming(ms, [done |-> new, run |-> <<>>], n)
    BY <2>1, <2>3, FormedForming
  <2> QED BY <2>2, <2>4
<1>4. CASE ms[n].album = 0 /\ Joins(ms, s.run, n)
  BY <1>4, LongerRun DEF AddMessage
<1>5. CASE ms[n].album = 0 /\ ~Joins(ms, s.run, n) /\ Groupable(ms[n])
  BY <1>1, <1>5, FirstOfRun DEF AddMessage, gs
<1>6. CASE ms[n].album = 0 /\ ~Joins(ms, s.run, n) /\ ~Groupable(ms[n])
  <2>1. Formed(ms, Append(gs, <<n>>), n)
    BY <1>1, <1>6, NewGroup
  <2>2. AddMessage(ms, s, n) = [done |-> Append(gs, <<n>>), run |-> <<>>]
    BY <1>6 DEF AddMessage, gs
  <2>3. Forming(ms, [done |-> Append(gs, <<n>>), run |-> <<>>], n)
    <3> DEFINE new == Append(gs, <<n>>)
    <3>1. n \in Nat /\ Formed(ms, new, n)
      BY <2>1
    <3> HIDE DEF new
    <3>2. Forming(ms, [done |-> new, run |-> <<>>], n)
      BY <3>1, FormedForming
    <3> QED BY <3>2 DEF new
  <2> QED BY <2>2, <2>3
<1> QED BY <1>3, <1>4, <1>5, <1>6

\* The recursion over the messages has a solution: the shortest beginning of
\* the export without one would get it from the beginning before.
LEMMA StatesExist ==
  ASSUME NEW ms \in Seq(ExportMessage)
  PROVE  \E f : f = [n \in 0..Len(ms) |->
                       IF n = 0 THEN [done |-> <<>>, run |-> <<>>] ELSE AddMessage(ms, f[n - 1], n)]
<1> DEFINE start == [done |-> <<>>, run |-> <<>>]
           Solves(f, k) == f = [n \in 0..k |-> IF n = 0 THEN start ELSE AddMessage(ms, f[n - 1], n)]
           Bad == {k \in Nat : \A f : ~Solves(f, k)}
<1> HIDE DEF start
<1>1. SUFFICES ASSUME Bad # {}
               PROVE  FALSE
  <2>1. Len(ms) \in Nat
    OBVIOUS
  <2>2. \E f : Solves(f, Len(ms))
    BY <1>1, <2>1
  <2> QED BY <2>2 DEF start
<1>2. PICK k \in Bad : \A l \in Bad : k <= l
  BY <1>1, LeastNatural
<1>3. k \in Nat /\ \A f : ~Solves(f, k)
  OBVIOUS
<1>4. CASE k = 0
  <2> DEFINE g == [n \in 0..0 |-> start]
  <2>1. g = [n \in 0..0 |-> IF n = 0 THEN start ELSE AddMessage(ms, g[n - 1], n)]
    OBVIOUS
  <2> QED BY <1>3, <1>4, <2>1
<1>5. CASE k # 0
  <2>1. k - 1 \in Nat /\ k - 1 \notin Bad
    <3>1. k - 1 \in Nat /\ ~(k <= k - 1)
      BY <1>3, <1>5
    <3> HIDE DEF Bad
    <3> QED BY <1>2, <3>1
  <2>2. PICK f : Solves(f, k - 1)
    BY <2>1
  <2> DEFINE g == [n \in 0..k |-> IF n = 0 THEN start ELSE AddMessage(ms, f[n - 1], n)]
  <2>3. ASSUME NEW n \in 0 .. k - 1 PROVE g[n] = f[n]
    BY <1>3, <2>2
  <2>4. g = [n \in 0..k |-> IF n = 0 THEN start ELSE AddMessage(ms, g[n - 1], n)]
    <3>1. \A n \in 0..k : (IF n = 0 THEN start ELSE AddMessage(ms, g[n - 1], n))
                          = (IF n = 0 THEN start ELSE AddMessage(ms, f[n - 1], n))
      <4> SUFFICES ASSUME NEW n \in 0..k, n # 0
                   PROVE  AddMessage(ms, g[n - 1], n) = AddMessage(ms, f[n - 1], n)
        OBVIOUS
      <4>1. n - 1 \in 0 .. k - 1
        BY <1>3
      <4> QED BY <2>3, <4>1
    <3> QED BY <3>1
  <2> QED BY <1>3, <2>4
<1> QED BY <1>4, <1>5

\* Every export is cut into albums as the rules for albums say.
LEMMA GroupsFormed ==
  ASSUME NEW ms \in Seq(ExportMessage)
  PROVE  Formed(ms, GroupMessages(ms), Len(ms))
<1> DEFINE f == CHOOSE f : f = [n \in 0..Len(ms) |->
                  IF n = 0 THEN [done |-> <<>>, run |-> <<>>] ELSE AddMessage(ms, f[n - 1], n)]
           Bad == {k \in 0..Len(ms) : ~Forming(ms, f[k], k)}
<1>1. GroupMessages(ms) = Flushed(f[Len(ms)])
  BY DEF GroupMessages
<1>2. f = [n \in 0..Len(ms) |->
            IF n = 0 THEN [done |-> <<>>, run |-> <<>>] ELSE AddMessage(ms, f[n - 1], n)]
  BY StatesExist
<1> HIDE DEF f
<1>3. Len(ms) \in Nat
  OBVIOUS
<1>4. f[0] = [done |-> <<>>, run |-> <<>>] /\ \A n \in 1..Len(ms) : f[n] = AddMessage(ms, f[n - 1], n)
  BY <1>2, <1>3
<1>5. Forming(ms, f[0], 0)
  <2>1. <<>> \in Seq(Seq(1..Len(ms))) /\ DOMAIN <<>> = {} /\ 1..0 = {}
    OBVIOUS
  <2>2. Formed(ms, <<>>, 0)
    BY <2>1 DEF Formed, InOrder, Members, CutOk
  <2> QED BY <1>4, <2>2, FormedForming
<1>6. Bad = {}
  <2> SUFFICES ASSUME Bad # {}
               PROVE  FALSE
    OBVIOUS
  <2>1. PICK k \in Bad : \A l \in Bad : k <= l
    <3>1. Bad \in SUBSET Nat
      BY <1>3
    <3> QED BY <3>1, LeastNatural
  <2>2. k # 0 /\ k \in 1..Len(ms) /\ k - 1 \in 0..Len(ms) /\ k - 1 \notin Bad
    BY <1>3, <1>5, <2>1
  <2>3. Forming(ms, AddMessage(ms, f[k - 1], k), k)
    BY <2>2, AddForms
  <2> QED BY <1>4, <2>2, <2>3
<1>7. Forming(ms, f[Len(ms)], Len(ms))
  BY <1>3, <1>6
<1> QED BY <1>1, <1>3, <1>7, FlushForms

\* Every place of an export is in one group.
LEMMA ExportGroups ==
  ASSUME scenario \in Scenarios
  PROVE  /\ Msgs = 1..Len(scenario.messages) /\ Len(scenario.messages) \in Nat
         /\ Formed(scenario.messages, Grouped, Len(scenario.messages))
         /\ Grouped \in Seq(Seq(Msgs)) /\ InOrder(Grouped) /\ Members(Grouped) = Msgs
         /\ \A g \in DOMAIN Grouped : Grouped[g] \in Seq(Msgs) /\ Len(Grouped[g]) >= 1 /\ Sorted(Grouped[g])
         /\ \A g, h \in DOMAIN Grouped : ToSet(Grouped[g]) \intersect ToSet(Grouped[h]) # {} => g = h
<1> DEFINE ms == scenario.messages
<1>1. ms \in Seq(ExportMessage)
  BY ImportAssumption
<1> HIDE DEF ms
<1>2. Msgs = 1..Len(ms) /\ Len(ms) \in Nat
  BY <1>1 DEF Msgs, ms
<1>3. Formed(ms, Grouped, Len(ms))
  BY <1>1, GroupsFormed DEF Grouped, ms
<1> DEFINE gs == Grouped
<1> HIDE DEF gs
<1>4. /\ gs \in Seq(Seq(Msgs)) /\ InOrder(gs) /\ Members(gs) = Msgs
      /\ \A g \in DOMAIN gs : GroupOk(ms, gs[g])
  BY <1>2, <1>3 DEF Formed, gs
<1>5. ASSUME NEW g \in DOMAIN gs
      PROVE  gs[g] \in Seq(Msgs) /\ Len(gs[g]) >= 1 /\ Sorted(gs[g])
  <2>1. gs[g] \in Seq(Msgs)
    BY <1>4
  <2>2. Len(gs[g]) >= 1
    BY <1>4, FormAssumption DEF GroupOk
  <2> QED BY <1>4, <2>1, <2>2 DEF InOrder, Sorted
<1>6. ASSUME NEW g \in DOMAIN gs, NEW h \in DOMAIN gs, NEW x \in ToSet(gs[g]), x \in ToSet(gs[h]), g < h
      PROVE  FALSE
  <2>1. PICK i \in DOMAIN gs[g] : x = gs[g][i]
    BY DEF ToSet
  <2>2. PICK j \in DOMAIN gs[h] : x = gs[h][j]
    BY <1>6 DEF ToSet
  <2>3. x \in Msgs
    BY <1>5, <2>1
  <2>4. gs[g][i] < gs[h][j]
    BY <1>4, <1>6 DEF InOrder
  <2> QED BY <1>2, <2>1, <2>2, <2>3, <2>4
<1>7. \A g, h \in DOMAIN gs : g \in Nat /\ h \in Nat
  BY <1>4
<1>8. ASSUME NEW g \in DOMAIN gs, NEW h \in DOMAIN gs, ToSet(gs[g]) \intersect ToSet(gs[h]) # {}
      PROVE  g = h
  BY <1>6, <1>7, <1>8
<1> QED BY <1>2, <1>3, <1>4, <1>5, <1>8 DEF gs, ms

\* Every export is cut into albums as the rules for albums say.
LEMMA GroupsWell ==
  ASSUME scenario \in Scenarios
  PROVE  WellGrouped(scenario.messages, Grouped)
<1>1. Formed(scenario.messages, Grouped, Len(scenario.messages))
  BY ExportGroups
<1>2. DOMAIN scenario.messages = 1..Len(scenario.messages)
  BY ExportGroups DEF Msgs
<1> QED BY <1>1, <1>2 DEF Formed, GroupOk, CutOk, WellGrouped
-----------------------------------------------------------------------------
(* Lengths.                                                                 *)

\* What Length adds up.
LEMMA LengthIs ==
  ASSUME NEW s \in Seq(Token)
  PROVE  \E f \in [0..Len(s) -> Nat] :
           f[0] = 0 /\ (\A n \in 1..Len(s) : f[n] = f[n - 1] + s[n].length) /\ Length(s) = f[Len(s)]
<1> DEFINE N == Len(s)
           f == CHOOSE f : f = [n \in 0..N |-> IF n = 0 THEN 0 ELSE f[n - 1] + s[n].length]
           step == [n \in 1..N |-> [x \in Nat |-> x + s[n].length]]
           T == {n \in 0..N : f[n] \in Nat}
<1>1. N \in Nat /\ \A n \in 1..N : s[n].length \in Nat
  <2>1. \A n \in 1..N : s[n] \in Token
    BY ElementOfSeq
  <2> QED BY <2>1, LenProperties DEF Token
<1> HIDE DEF N
<1>2. step \in [1..N -> [Nat -> Nat]]
  BY <1>1
<1>3. \A n \in 1..N, x \in Nat : step[n][x] = x + s[n].length
  OBVIOUS
<1> HIDE DEF step
<1>4. PICK g \in [0..N -> Nat] : g[0] = 0 /\ \A n \in 1..N : g[n] = step[n][g[n - 1]]
  <2>1. 0 \in Nat
    OBVIOUS
  <2>2. Solved(N, Nat, 0, step)
    BY <1>1, <1>2, <2>1, Recursion
  <2> QED BY <2>2 DEF Solved
<1>5. \A n \in 1..N : g[n] = g[n - 1] + s[n].length
  <2> SUFFICES ASSUME NEW n \in 1..N
               PROVE  g[n] = g[n - 1] + s[n].length
    OBVIOUS
  <2>1. n - 1 \in 0..N
    BY <1>1
  <2> QED BY <1>3, <1>4, <2>1
<1>6. g = [n \in 0..N |-> IF n = 0 THEN 0 ELSE g[n - 1] + s[n].length]
  <2>1. \A n \in 0..N : g[n] = IF n = 0 THEN 0 ELSE g[n - 1] + s[n].length
    BY <1>1, <1>4, <1>5
  <2> QED BY <2>1
<1>7. f = [n \in 0..N |-> IF n = 0 THEN 0 ELSE f[n - 1] + s[n].length]
  BY <1>6
<1>8. Length(s) = f[N]
  BY DEF Length, N
<1> HIDE DEF f
<1>9. f[0] = 0 /\ \A n \in 1..N : f[n] = f[n - 1] + s[n].length
  BY <1>1, <1>7
<1>10. 0 \in T
  BY <1>1, <1>9
<1>11. ASSUME NEW n \in 1..N, n - 1 \in T
       PROVE  n \in T
  <2>1. n \in 0..N /\ f[n - 1] \in Nat /\ s[n].length \in Nat
    BY <1>1, <1>11
  <2>2. f[n] = f[n - 1] + s[n].length
    BY <1>9
  <2>3. f[n] \in Nat
    BY <2>1, <2>2
  <2> QED BY <2>1, <2>3
<1> HIDE DEF T
<1>12. \A n \in 0..N : n \in T
  BY <1>1, <1>10, <1>11, Climb
<1>13. f \in [0..N -> Nat]
  BY <1>7, <1>12 DEF T
<1> QED BY <1>8, <1>9, <1>13 DEF N

LEMMA LengthType ==
  ASSUME NEW s \in Seq(Token)
  PROVE  Length(s) \in Nat
BY LengthIs, LenProperties

LEMMA LengthEmpty == Length(<<>>) = 0
<1>1. <<>> \in Seq(Token) /\ Len(<<>>) = 0
  BY EmptySeq
<1> QED BY <1>1, LengthIs

LEMMA LengthAppend ==
  ASSUME NEW s \in Seq(Token), NEW t \in Token
  PROVE  Length(Append(s, t)) = Length(s) + t.length
<1> DEFINE u == Append(s, t)
           N == Len(s)
<1>1. N \in Nat /\ u \in Seq(Token) /\ Len(u) = N + 1 /\ u[N + 1] = t /\ \A n \in 1..N : u[n] = s[n]
  BY LenProperties, AppendProperties
<1>2. PICK f \in [0..N -> Nat] :
           f[0] = 0 /\ (\A n \in 1..N : f[n] = f[n - 1] + s[n].length) /\ Length(s) = f[N]
  BY LengthIs
<1> HIDE DEF u, N
<1>3. PICK g \in [0..(N + 1) -> Nat] :
           g[0] = 0 /\ (\A n \in 1..(N + 1) : g[n] = g[n - 1] + u[n].length) /\ Length(u) = g[N + 1]
  BY <1>1, LengthIs
<1> DEFINE T == {n \in 0..N : g[n] = f[n]}
<1>4. 0 \in T
  BY <1>1, <1>2, <1>3
<1>5. ASSUME NEW n \in 1..N, n - 1 \in T
      PROVE  n \in T
  <2>1. n \in 0..N /\ n \in 1..(N + 1) /\ g[n - 1] = f[n - 1]
    BY <1>1, <1>5
  <2>2. f[n] = f[n - 1] + s[n].length /\ g[n] = g[n - 1] + u[n].length /\ u[n] = s[n]
    BY <1>1, <1>2, <1>3, <2>1
  <2>3. g[n] = f[n]
    BY <2>1, <2>2
  <2> QED BY <2>1, <2>3
<1>6. g[N] = f[N]
  <2> HIDE DEF T
  <2>0. N \in 0..N
    BY <1>1
  <2>1. N \in T
    BY <2>0, <1>1, <1>4, <1>5, Climb
  <2> QED BY <2>1 DEF T
<1>7. g[N + 1] = g[N] + t.length
  BY <1>1, <1>3
<1> QED BY <1>2, <1>3, <1>6, <1>7 DEF u

LEMMA LengthConcat ==
  ASSUME NEW x \in Seq(Token), NEW y \in Seq(Token)
  PROVE  Length(x \o y) = Length(x) + Length(y)
<1> DEFINE P == {z \in Seq(Token) : Length(x \o z) = Length(x) + Length(z)}
<1>1. <<>> \in P
  BY EmptySeq, ConcatEmptySeq, LengthEmpty, LengthType
<1>2. ASSUME NEW z \in Seq(Token), NEW t \in Token, z \in P
      PROVE  Append(z, t) \in P
  <2>1. x \o Append(z, t) = Append(x \o z, t) /\ x \o z \in Seq(Token) /\ Append(z, t) \in Seq(Token)
    OBVIOUS
  <2>2. Length(x \o Append(z, t)) = Length(x \o z) + t.length /\ Length(Append(z, t)) = Length(z) + t.length
    BY <2>1, LengthAppend
  <2>3. Length(x) \in Nat /\ Length(z) \in Nat /\ t.length \in Nat
    BY LengthType DEF Token
  <2>4. Length(x \o z) = Length(x) + Length(z)
    BY <1>2
  <2>5. Length(x \o Append(z, t)) = Length(x) + Length(Append(z, t))
    BY <2>2, <2>3, <2>4
  <2> QED BY <2>1, <2>5
<1> HIDE DEF P
<1>3. y \in P
  BY <1>1, <1>2, SeqClimb
<1> QED BY <1>3 DEF P
-----------------------------------------------------------------------------
(* Open tags.                                                               *)

Opening == {t \in Token : t.is = "open"}

LEMMA ClosersAre ==
  ASSUME NEW open \in Seq(Token)
  PROVE  /\ Closers(open) \in Seq(Token) /\ Len(Closers(open)) = Len(open)
         /\ \A i \in 1..Len(open) : Closers(open)[i] = Closing(open[Len(open) + 1 - i])
         /\ \A i \in 1..Len(open) : Closers(open)[i].is = "close"
<1>1. \A t \in Token : Closing(t) \in Token /\ Closing(t).is = "close"
  BY DEF Closing, Token
<1>2. PICK n \in Nat : n = Len(open) /\ DOMAIN open = 1..n
  OBVIOUS
<1>3. ASSUME NEW i \in 1..n
      PROVE  open[n + 1 - i] \in Token
  <2>1. n + 1 - i \in 1..Len(open)
    BY <1>2
  <2> QED BY <2>1, ElementOfSeq
<1>4. Closers(open) = [i \in 1..n |-> Closing(open[n + 1 - i])]
  BY <1>2 DEF Closers
<1> QED BY <1>1, <1>2, <1>3, <1>4

LEMMA TrackedIs ==
  ASSUME NEW S \in SUBSET Token, NEW open \in Seq(S), NEW t \in Token, t.is = "open" => t \in S
  PROVE  /\ Tracked(open, t) \in Seq(S)
         /\ t.is = "close" => \E k \in 0..Len(open) : Tracked(open, t) = SubSeq(open, 1, k)
<1> DEFINE matches == {i \in DOMAIN open : open[i].name = t.name}
           i == CHOOSE i \in matches : \A j \in matches : j <= i
<1>1. CASE t.is = "open"
  BY <1>1 DEF Tracked
<1>2. CASE t.is = "char"
  BY <1>2 DEF Tracked
<1>3. CASE t.is = "close" /\ matches = {}
  <2>1. Tracked(open, t) = open
    BY <1>3 DEF Tracked
  <2>2. open = SubSeq(open, 1, Len(open)) /\ Len(open) \in 0..Len(open)
    BY SubSeqFull, LenProperties
  <2> QED BY <2>1, <2>2
<1>4. CASE t.is = "close" /\ matches # {}
  <2>1. Len(open) \in Nat /\ matches \in SUBSET (1..Len(open))
    OBVIOUS
  <2> HIDE DEF matches
  <2>2. i \in matches
    BY <1>4, <2>1, GreatestIn
  <2> HIDE DEF i
  <2>3. i - 1 \in 0..Len(open)
    <3>1. i \in 1..Len(open)
      BY <2>1, <2>2
    <3> HIDE DEF matches
    <3> QED BY <2>1, <3>1
  <2>4. SubSeq(open, 1, i - 1) \in Seq(S)
    BY <2>1, <2>3
  <2>5. Tracked(open, t) = SubSeq(open, 1, i - 1)
    BY <1>4 DEF Tracked, i, matches
  <2> QED BY <1>4, <2>3, <2>4, <2>5
<1> QED BY <1>1, <1>2, <1>3, <1>4 DEF Token

\* The last tag opened is the first closed.
LEMMA TrackedLast ==
  ASSUME NEW open \in Seq(Token), NEW t \in Token
  PROVE  Tracked(Append(open, t), Closing(t)) = open
<1> DEFINE o == Append(open, t)
           n == Len(open) + 1
           matches == {i \in DOMAIN o : o[i].name = Closing(t).name}
<1>1. o \in Seq(Token) /\ DOMAIN o = 1..n /\ n \in Nat /\ o[n] = t /\ SubSeq(o, 1, n - 1) = open
  OBVIOUS
<1>2. Closing(t).name = t.name /\ Closing(t).is = "close"
  BY DEF Closing
<1> HIDE DEF o, n
<1>3. n \in matches /\ matches \subseteq 1..n
  <2>1. n \in 1..n
    BY <1>1 DEF n
  <2> QED BY <1>1, <1>2, <2>1
<1>4. (CHOOSE i \in matches : \A j \in matches : j <= i) = n
  <2> DEFINE m == CHOOSE i \in matches : \A j \in matches : j <= i
  <2>1. \A j \in matches : j <= n
    BY <1>3
  <2>2. m \in matches /\ \A j \in matches : j <= m
    BY <1>3, <2>1
  <2> HIDE DEF m
  <2>3. m = n
    BY <1>1, <1>3, <2>1, <2>2
  <2> QED BY <2>3 DEF m
<1>5. matches # {}
  BY <1>3
<1>6. Tracked(o, Closing(t)) = SubSeq(o, 1, n - 1)
  BY <1>2, <1>4, <1>5 DEF Tracked
<1> QED BY <1>1, <1>6 DEF o

LEMMA ClosersAppend ==
  ASSUME NEW open \in Seq(Token), NEW t \in Token
  PROVE  Closers(Append(open, t)) = <<Closing(t)>> \o Closers(open)
<1> DEFINE o == Append(open, t)
           n == Len(open)
           u == <<Closing(t)>> \o Closers(open)
<1>1. n \in Nat /\ o \in Seq(Token) /\ Len(o) = n + 1 /\ o[n + 1] = t /\ \A i \in 1..n : o[i] = open[i]
  OBVIOUS
<1>2. Closing(t) \in Token /\ <<Closing(t)>> \in Seq(Token) /\ Len(<<Closing(t)>>) = 1 /\ <<Closing(t)>>[1] = Closing(t)
  BY DEF Closing, Token
<1>3. /\ Closers(open) \in Seq(Token) /\ Len(Closers(open)) = n
      /\ \A i \in 1..n : Closers(open)[i] = Closing(open[n + 1 - i])
  BY ClosersAre
<1>4. u \in Seq(Token) /\ Len(u) = n + 1 /\ u[1] = Closing(t) /\ \A i \in 2..(n + 1) : u[i] = Closers(open)[i - 1]
  BY <1>1, <1>2, <1>3, ConcatProperties
<1> HIDE DEF o, n, u
<1>5. /\ Closers(o) \in Seq(Token) /\ Len(Closers(o)) = n + 1
      /\ \A i \in 1..(n + 1) : Closers(o)[i] = Closing(o[n + 2 - i])
  BY <1>1, ClosersAre
<1>6. ASSUME NEW i \in 1..(n + 1)
      PROVE  Closers(o)[i] = u[i]
  <2>1. CASE i = 1
    BY <1>1, <1>4, <1>5, <2>1
  <2>2. CASE i # 1
    <3>1. i - 1 \in 1..n /\ n + 2 - i \in 1..n /\ n + 1 - (i - 1) = n + 2 - i
      BY <1>1, <2>2
    <3>2. Closers(o)[i] = Closing(open[n + 2 - i]) /\ u[i] = Closers(open)[i - 1]
      BY <1>1, <1>4, <1>5, <2>2, <3>1
    <3>3. Closers(open)[i - 1] = Closing(open[n + 2 - i])
      BY <1>3, <3>1
    <3> QED BY <3>2, <3>3
  <2> QED BY <2>1, <2>2
<1>7. Closers(o) = u
  BY <1>4, <1>5, <1>6, SeqEqual
<1> QED BY <1>7 DEF o, u

LEMMA ClosersEmpty == Closers(<<>>) = <<>>
<1>1. <<>> \in Seq(Token) /\ Len(<<>>) = 0
  BY EmptySeq
<1>2. Closers(<<>>) \in Seq(Token) /\ Len(Closers(<<>>)) = 0
  BY <1>1, ClosersAre
<1> QED BY <1>2, EmptySeq

\* Each open tag needs room for the tag that closes it.
LEMMA ClosersLength ==
  ASSUME NEW open \in Seq(Token), NEW t \in Token
  PROVE  Length(Closers(Append(open, t))) = Length(Closers(open)) + t.closer
<1>1. Closing(t) \in Token /\ Closing(t).length = t.closer /\ <<Closing(t)>> \in Seq(Token) /\ t.closer \in Nat
  BY DEF Closing, Token
<1>2. <<>> \in Seq(Token) /\ Append(<<>>, Closing(t)) = <<Closing(t)>>
  BY <1>1
<1>3. Length(<<Closing(t)>>) = t.closer
  <2>1. Length(Append(<<>>, Closing(t))) = Length(<<>>) + Closing(t).length
    BY <1>1, <1>2, LengthAppend
  <2>2. Length(<<>>) + Closing(t).length = t.closer
    BY <1>1, LengthEmpty
  <2> QED BY <1>2, <2>1, <2>2
<1>4. Closers(open) \in Seq(Token)
  BY ClosersAre
<1>5. Length(<<Closing(t)>> \o Closers(open)) = t.closer + Length(Closers(open))
  BY <1>1, <1>3, <1>4, LengthConcat
<1>6. Length(Closers(open)) \in Nat
  BY <1>4, LengthType
<1>7. Length(Closers(Append(open, t))) = t.closer + Length(Closers(open))
  BY <1>5, ClosersAppend
<1>8. t.closer + Length(Closers(open)) = Length(Closers(open)) + t.closer
  BY <1>1, <1>6
<1> QED BY <1>7, <1>8

\* Fewer open tags need no more room.
LEMMA ClosersShorter ==
  ASSUME NEW open \in Seq(Token), NEW k \in 0..Len(open)
  PROVE  Length(Closers(SubSeq(open, 1, k))) <= Length(Closers(open))
<1> DEFINE N == Len(open)
           L(m) == Length(Closers(SubSeq(open, 1, m)))
           T == {n \in 0..N : \A m \in 0..n : L(m) <= L(n)}
<1>1. N \in Nat
  BY LenProperties
<1>2. ASSUME NEW m \in 0..N
      PROVE  SubSeq(open, 1, m) \in Seq(Token) /\ L(m) \in Nat
  <2>1. SubSeq(open, 1, m) \in Seq(Token)
    BY SubSeqProperties
  <2> QED BY <2>1, ClosersAre, LengthType
<1>3. ASSUME NEW n \in 1..N
      PROVE  L(n - 1) <= L(n)
  <2>1. n - 1 \in 0..N /\ open[n] \in Token
    BY <1>1
  <2>2. SubSeq(open, 1, n) = SubSeq(open, 1, n - 1) \o <<open[n]>>
    BY SubSeqRecursiveSecond
  <2>3. SubSeq(open, 1, n) = Append(SubSeq(open, 1, n - 1), open[n])
    BY <1>2, <2>1, <2>2, AppendIsConcat
  <2>4. L(n) = L(n - 1) + open[n].closer
    BY <1>2, <2>1, <2>3, ClosersLength
  <2>5. open[n].closer \in Nat
    BY <2>1 DEF Token
  <2>6. L(n - 1) \in Nat
    BY <1>2, <2>1
  <2> HIDE DEF L
  <2> QED BY <2>4, <2>5, <2>6
<1> HIDE DEF N, L
<1>4. 0 \in T
  BY <1>1, <1>2
<1>5. ASSUME NEW n \in 1..N, n - 1 \in T
      PROVE  n \in T
  <2> SUFFICES ASSUME NEW m \in 0..n
               PROVE  L(m) <= L(n)
    BY <1>1
  <2>1. m \in 0..N /\ n \in 0..N /\ n - 1 \in 0..N
    BY <1>1
  <2>2. CASE m = n
    BY <1>2, <2>1, <2>2
  <2>3. CASE m # n
    <3>1. L(m) <= L(n - 1)
      BY <1>5, <2>1, <2>3
    <3> QED BY <1>2, <1>3, <2>1, <3>1
  <2> QED BY <2>2, <2>3
<1> HIDE DEF T
<1>6. N \in T
  <2>1. N \in 0..N
    BY <1>1
  <2> QED BY <1>1, <1>4, <1>5, <2>1, Climb
<1>7. k \in 0..N
  BY DEF N
<1>8. L(k) <= L(N)
  BY <1>6, <1>7 DEF T
<1> QED BY <1>8, SubSeqFull DEF N, L
-----------------------------------------------------------------------------
(* What a reader sees.                                                      *)

Seen    == Token \X Seq(Opening)
Reading == [open : Seq(Opening), seen : Seq(Seen)]
Unread  == [open |-> <<>>, seen |-> <<>>]

LEMMA UnreadType == Unread \in Reading
<1>1. <<>> \in Seq(Opening) /\ <<>> \in Seq(Seen)
  BY EmptySeq
<1> QED BY <1>1 DEF Unread, Reading

LEMMA OpeningTokens == Opening \in SUBSET Token /\ \A o \in Seq(Opening) : o \in Seq(Token)
<1>1. Opening \in SUBSET Token
  BY DEF Opening
<1> QED BY <1>1, SeqMonotonic

LEMMA ReadTokenType ==
  ASSUME NEW r \in Reading, NEW t \in Token
  PROVE  ReadToken(r, t) \in Reading
<1>1. r.open \in Seq(Opening) /\ r.seen \in Seq(Seen)
  BY DEF Reading
<1>2. Tracked(r.open, t) \in Seq(Opening)
  BY <1>1, OpeningTokens, TrackedIs DEF Opening
<1>3. <<t, r.open>> \in Seen
  BY <1>1 DEF Seen
<1>4. Append(r.seen, <<t, r.open>>) \in Seq(Seen)
  BY <1>1, <1>3, AppendProperties
<1>5. PICK q : q \in Seq(Seen) /\ ReadToken(r, t) = [open |-> Tracked(r.open, t), seen |-> q]
  BY <1>1, <1>4 DEF ReadToken
<1> QED BY <1>2, <1>5 DEF Reading

\* How Read goes through a text.
ReadWith(s, f) ==
  f \in [0..Len(s) -> Reading] /\ f[0] = Unread /\ \A n \in 1..Len(s) : f[n] = ReadToken(f[n - 1], s[n])

LEMMA ReadIs ==
  ASSUME NEW s \in Seq(Token)
  PROVE  \E f : ReadWith(s, f) /\ Read(s) = f[Len(s)]
<1> DEFINE N == Len(s)
           f == CHOOSE f : f = [n \in 0..N |-> IF n = 0 THEN Unread ELSE ReadToken(f[n - 1], s[n])]
           step == [n \in 1..N |-> [r \in Reading |-> ReadToken(r, s[n])]]
           T == {n \in 0..N : f[n] \in Reading}
<1>1. N \in Nat /\ \A n \in 1..N : s[n] \in Token
  BY ElementOfSeq, LenProperties
<1>2. Read(s) = f[N]
  BY DEF Read, Unread
<1> HIDE DEF N
<1>3. \A n \in 1..N, r \in Reading : ReadToken(r, s[n]) \in Reading
  BY <1>1, ReadTokenType
<1>4. step \in [1..N -> [Reading -> Reading]]
  BY <1>3
<1>5. \A n \in 1..N, r \in Reading : step[n][r] = ReadToken(r, s[n])
  OBVIOUS
<1> HIDE DEF step
<1>6. PICK g \in [0..N -> Reading] : g[0] = Unread /\ \A n \in 1..N : g[n] = step[n][g[n - 1]]
  <2>1. Solved(N, Reading, Unread, step)
    BY <1>1, <1>4, UnreadType, Recursion
  <2> QED BY <2>1 DEF Solved
<1>7. \A n \in 1..N : g[n] = ReadToken(g[n - 1], s[n])
  <2> SUFFICES ASSUME NEW n \in 1..N
               PROVE  g[n] = ReadToken(g[n - 1], s[n])
    OBVIOUS
  <2>1. n - 1 \in 0..N
    BY <1>1
  <2> QED BY <1>5, <1>6, <2>1
<1>8. g = [n \in 0..N |-> IF n = 0 THEN Unread ELSE ReadToken(g[n - 1], s[n])]
  <2>1. \A n \in 0..N : g[n] = IF n = 0 THEN Unread ELSE ReadToken(g[n - 1], s[n])
    BY <1>1, <1>6, <1>7
  <2> QED BY <2>1
<1>9. f = [n \in 0..N |-> IF n = 0 THEN Unread ELSE ReadToken(f[n - 1], s[n])]
  BY <1>8
<1> HIDE DEF f
<1>10. f[0] = Unread /\ \A n \in 1..N : f[n] = ReadToken(f[n - 1], s[n])
  BY <1>1, <1>9
<1>11. 0 \in T
  BY <1>1, <1>10, UnreadType
<1>12. ASSUME NEW n \in 1..N, n - 1 \in T
       PROVE  n \in T
  <2>1. n \in 0..N /\ f[n - 1] \in Reading
    BY <1>1, <1>12
  <2>2. f[n] \in Reading
    BY <1>3, <1>10, <2>1
  <2> QED BY <2>1, <2>2
<1> HIDE DEF T
<1>13. \A n \in 0..N : n \in T
  BY <1>1, <1>11, <1>12, Climb
<1>14. f \in [0..N -> Reading]
  <2>1. \A n \in 0..N : f[n] \in Reading
    BY <1>13 DEF T
  <2> QED BY <1>9, <2>1
<1> QED BY <1>2, <1>10, <1>14 DEF N, ReadWith

LEMMA ReadType ==
  ASSUME NEW s \in Seq(Token)
  PROVE  Read(s) \in Reading /\ Read(s).open \in Seq(Opening) /\ Read(s).seen \in Seq(Seen)
<1>1. Len(s) \in 0..Len(s)
  BY LenProperties
<1>2. Read(s) \in Reading
  BY <1>1, ReadIs DEF ReadWith
<1> QED BY <1>2 DEF Reading

LEMMA ReadEmpty == Read(<<>>) = Unread
<1>1. <<>> \in Seq(Token) /\ Len(<<>>) = 0
  BY EmptySeq
<1> QED BY <1>1, ReadIs DEF ReadWith

LEMMA ReadAppend ==
  ASSUME NEW s \in Seq(Token), NEW t \in Token
  PROVE  Read(Append(s, t)) = ReadToken(Read(s), t)
<1> DEFINE u == Append(s, t)
           N == Len(s)
<1>1. N \in Nat /\ u \in Seq(Token) /\ Len(u) = N + 1 /\ u[N + 1] = t /\ \A n \in 1..N : u[n] = s[n]
  BY LenProperties, AppendProperties
<1>2. PICK f : ReadWith(s, f) /\ Read(s) = f[N]
  BY ReadIs
<1>3. f[0] = Unread /\ \A n \in 1..N : f[n] = ReadToken(f[n - 1], s[n])
  BY <1>2 DEF ReadWith
<1> HIDE DEF u, N
<1>4. PICK g : ReadWith(u, g) /\ Read(u) = g[N + 1]
  BY <1>1, ReadIs
<1>5. g[0] = Unread /\ \A n \in 1..(N + 1) : g[n] = ReadToken(g[n - 1], u[n])
  BY <1>1, <1>4 DEF ReadWith
<1> DEFINE T == {n \in 0..N : g[n] = f[n]}
<1>6. 0 \in T
  BY <1>1, <1>3, <1>5
<1>7. ASSUME NEW n \in 1..N, n - 1 \in T
      PROVE  n \in T
  <2>1. n \in 0..N /\ n \in 1..(N + 1) /\ g[n - 1] = f[n - 1]
    BY <1>1, <1>7
  <2>2. f[n] = ReadToken(f[n - 1], s[n]) /\ g[n] = ReadToken(g[n - 1], u[n]) /\ u[n] = s[n]
    BY <1>1, <1>3, <1>5, <2>1
  <2>3. g[n] = f[n]
    BY <2>1, <2>2
  <2> QED BY <2>1, <2>3
<1>8. g[N] = f[N]
  <2> HIDE DEF T
  <2>1. N \in 0..N
    BY <1>1
  <2>2. N \in T
    BY <1>1, <1>6, <1>7, <2>1, Climb
  <2> QED BY <2>2 DEF T
<1>9. g[N + 1] = ReadToken(g[N], t)
  <2>1. N + 1 \in 1..(N + 1) /\ (N + 1) - 1 = N
    BY <1>1
  <2> QED BY <1>1, <1>5, <2>1
<1> QED BY <1>2, <1>4, <1>8, <1>9 DEF u
-----------------------------------------------------------------------------
(* Joining sequences.                                                       *)

JoinedWith(S, ss, g) ==
  g \in [0..Len(ss) -> Seq(S)] /\ g[0] = <<>> /\ \A n \in 1..Len(ss) : g[n] = g[n - 1] \o ss[n]

LEMMA FlattenIs ==
  ASSUME NEW S, NEW ss \in Seq(Seq(S))
  PROVE  \E g : JoinedWith(S, ss, g) /\ FlattenSeq(ss) = g[Len(ss)]
<1> DEFINE N == Len(ss)
           f == CHOOSE f : f = [i \in 1..N |-> IF i = 1 THEN ss[i] ELSE f[i - 1] \o ss[i]]
           step == [n \in 1..N |-> [x \in Seq(S) |-> x \o ss[n]]]
<1>1. N \in Nat /\ \A n \in 1..N : ss[n] \in Seq(S)
  BY ElementOfSeq, LenProperties
<1>2. FlattenSeq(ss) = IF N = 0 THEN ss ELSE f[N]
  BY DEF FlattenSeq
<1>3. N = 0 => ss = <<>>
  BY EmptySeq
<1> HIDE DEF N
<1>4. \A n \in 1..N, x \in Seq(S) : x \o ss[n] \in Seq(S)
  BY <1>1, ConcatProperties
<1>5. step \in [1..N -> [Seq(S) -> Seq(S)]]
  BY <1>4
<1>6. \A n \in 1..N, x \in Seq(S) : step[n][x] = x \o ss[n]
  OBVIOUS
<1> HIDE DEF step
<1>7. PICK g \in [0..N -> Seq(S)] : g[0] = <<>> /\ \A n \in 1..N : g[n] = step[n][g[n - 1]]
  <2>1. <<>> \in Seq(S)
    BY EmptySeq
  <2>2. Solved(N, Seq(S), <<>>, step)
    BY <1>1, <1>5, <2>1, Recursion
  <2> QED BY <2>2 DEF Solved
<1>8. \A n \in 1..N : g[n] = g[n - 1] \o ss[n]
  <2> SUFFICES ASSUME NEW n \in 1..N
               PROVE  g[n] = g[n - 1] \o ss[n]
    OBVIOUS
  <2>1. n - 1 \in 0..N
    BY <1>1
  <2> QED BY <1>6, <1>7, <2>1
<1>9. N > 0 => g[1] = ss[1]
  <2> SUFFICES ASSUME N > 0
               PROVE  g[1] = ss[1]
    OBVIOUS
  <2>1. 1 \in 1..N /\ 1 - 1 = 0
    BY <1>1
  <2>2. g[1] = <<>> \o ss[1] /\ ss[1] \in Seq(S)
    BY <1>1, <1>7, <1>8, <2>1
  <2> QED BY <2>2, ConcatEmptySeq
<1> DEFINE h == [i \in 1..N |-> g[i]]
<1>10. h = [i \in 1..N |-> IF i = 1 THEN ss[i] ELSE h[i - 1] \o ss[i]]
  <2>1. \A i \in 1..N : g[i] = IF i = 1 THEN ss[i] ELSE h[i - 1] \o ss[i]
    <3> SUFFICES ASSUME NEW i \in 1..N
                 PROVE  g[i] = IF i = 1 THEN ss[i] ELSE h[i - 1] \o ss[i]
      OBVIOUS
    <3>1. CASE i = 1
      BY <1>1, <1>9, <3>1
    <3>2. CASE i # 1
      <4>1. i - 1 \in 1..N
        BY <1>1, <3>2
      <4>2. h[i - 1] = g[i - 1]
        BY <4>1
      <4> QED BY <1>8, <3>2, <4>2
    <3> QED BY <3>1, <3>2
  <2> QED BY <2>1
<1> HIDE DEF h
<1>11. f = [i \in 1..N |-> IF i = 1 THEN ss[i] ELSE f[i - 1] \o ss[i]]
  BY <1>10
<1> HIDE DEF f
<1> DEFINE U == {n \in 0..N : n = 0 \/ f[n] = g[n]}
<1>12. 0 \in U
  BY <1>1
<1>13. ASSUME NEW n \in 1..N, n - 1 \in U
       PROVE  n \in U
  <2>1. n \in 0..N /\ n - 1 \in 0..N
    BY <1>1
  <2>2. CASE n = 1
    <3>1. f[1] = ss[1]
      BY <1>11, <2>2
    <3> QED BY <1>1, <1>9, <2>1, <2>2, <3>1
  <2>3. CASE n # 1
    <3>1. f[n - 1] = g[n - 1]
      BY <1>13, <2>3
    <3>2. f[n] = f[n - 1] \o ss[n]
      BY <1>11, <2>3
    <3>3. f[n] = g[n]
      BY <1>8, <3>1, <3>2
    <3> QED BY <2>1, <3>3
  <2> QED BY <2>2, <2>3
<1>14. N > 0 => f[N] = g[N]
  <2> HIDE DEF U
  <2>1. N \in 0..N
    BY <1>1
  <2>2. N \in U
    BY <1>1, <1>12, <1>13, <2>1, Climb
  <2> QED BY <2>2 DEF U
<1>15. FlattenSeq(ss) = g[N]
  <2>1. CASE N = 0
    BY <1>2, <1>3, <1>7, <2>1
  <2>2. CASE N # 0
    BY <1>1, <1>2, <1>14, <2>2
  <2> QED BY <2>1, <2>2
<1> QED BY <1>7, <1>8, <1>15 DEF N, JoinedWith

LEMMA FlattenType ==
  ASSUME NEW S, NEW ss \in Seq(Seq(S))
  PROVE  FlattenSeq(ss) \in Seq(S)
<1>1. Len(ss) \in 0..Len(ss)
  BY LenProperties
<1>2. PICK g : JoinedWith(S, ss, g) /\ FlattenSeq(ss) = g[Len(ss)]
  BY FlattenIs
<1>3. g \in [0..Len(ss) -> Seq(S)]
  BY <1>2 DEF JoinedWith
<1> QED BY <1>1, <1>2, <1>3

LEMMA FlattenAppend ==
  ASSUME NEW S, NEW ss \in Seq(Seq(S)), NEW x \in Seq(S)
  PROVE  FlattenSeq(Append(ss, x)) = FlattenSeq(ss) \o x
<1> DEFINE u == Append(ss, x)
           N == Len(ss)
<1>1. N \in Nat /\ u \in Seq(Seq(S)) /\ Len(u) = N + 1 /\ u[N + 1] = x /\ \A n \in 1..N : u[n] = ss[n]
  BY LenProperties, AppendProperties
<1>2. PICK f : JoinedWith(S, ss, f) /\ FlattenSeq(ss) = f[N]
  BY FlattenIs
<1>3. f[0] = <<>> /\ \A n \in 1..N : f[n] = f[n - 1] \o ss[n]
  BY <1>2 DEF JoinedWith
<1> HIDE DEF u, N
<1>4. PICK g : JoinedWith(S, u, g) /\ FlattenSeq(u) = g[N + 1]
  BY <1>1, FlattenIs
<1>5. g[0] = <<>> /\ \A n \in 1..(N + 1) : g[n] = g[n - 1] \o u[n]
  BY <1>1, <1>4 DEF JoinedWith
<1> DEFINE T == {n \in 0..N : g[n] = f[n]}
<1>6. 0 \in T
  BY <1>1, <1>3, <1>5
<1>7. ASSUME NEW n \in 1..N, n - 1 \in T
      PROVE  n \in T
  <2>1. n \in 0..N /\ n \in 1..(N + 1) /\ g[n - 1] = f[n - 1]
    BY <1>1, <1>7
  <2>2. f[n] = f[n - 1] \o ss[n] /\ g[n] = g[n - 1] \o u[n] /\ u[n] = ss[n]
    BY <1>1, <1>3, <1>5, <2>1
  <2>3. g[n] = f[n]
    BY <2>1, <2>2
  <2> QED BY <2>1, <2>3
<1>8. g[N] = f[N]
  <2> HIDE DEF T
  <2>1. N \in 0..N
    BY <1>1
  <2>2. N \in T
    BY <1>1, <1>6, <1>7, <2>1, Climb
  <2> QED BY <2>2 DEF T
<1>9. g[N + 1] = g[N] \o x
  <2>1. N + 1 \in 1..(N + 1) /\ (N + 1) - 1 = N
    BY <1>1
  <2> QED BY <1>1, <1>5, <2>1
<1> QED BY <1>2, <1>4, <1>8, <1>9 DEF u
-----------------------------------------------------------------------------
(* Opening and closing.                                                     *)

\* The tags opened again at the head of a part are open, and show nothing.
LEMMA ReadOpens ==
  ASSUME NEW open \in Seq(Opening)
  PROVE  Read(open) = [open |-> open, seen |-> <<>>]
<1> DEFINE P == {o \in Seq(Opening) : Read(o) = [open |-> o, seen |-> <<>>]}
<1>1. <<>> \in P
  BY EmptySeq, ReadEmpty DEF Unread
<1>2. ASSUME NEW o \in Seq(Opening), NEW t \in Opening, o \in P
      PROVE  Append(o, t) \in P
  <2>1. o \in Seq(Token) /\ t \in Token /\ t.is = "open" /\ Append(o, t) \in Seq(Opening)
    BY OpeningTokens, AppendProperties DEF Opening
  <2>2. Read(Append(o, t)) = ReadToken(Read(o), t)
    BY <2>1, ReadAppend
  <2>3. Read(o) = [open |-> o, seen |-> <<>>]
    BY <1>2
  <2>4. Tracked(o, t) = Append(o, t)
    BY <2>1 DEF Tracked
  <2>5. ReadToken([open |-> o, seen |-> <<>>], t) = [open |-> Append(o, t), seen |-> <<>>]
    BY <2>1, <2>4 DEF ReadToken
  <2> QED BY <2>1, <2>2, <2>3, <2>5
<1> HIDE DEF P
<1>3. open \in P
  BY <1>1, <1>2, SeqClimb
<1> QED BY <1>3 DEF P

\* A closing tag that closes the last tag opened shows nothing.
LEMMA ReadClosing ==
  ASSUME NEW r \in Reading, NEW open \in Seq(Opening), NEW t \in Opening, r.open = Append(open, t)
  PROVE  ReadToken(r, Closing(t)) = [open |-> open, seen |-> r.seen]
<1>1. open \in Seq(Token) /\ t \in Token
  BY OpeningTokens
<1>2. Tracked(r.open, Closing(t)) = open
  BY <1>1, TrackedLast
<1>3. r.open # <<>> /\ Last(r.open) = t
  <2>1. Len(Append(open, t)) = Len(open) + 1 /\ Append(open, t)[Len(open) + 1] = t /\ Len(open) \in Nat
    BY AppendProperties, LenProperties
  <2>2. Append(open, t) # <<>>
    BY <2>1, EmptySeq
  <2> QED BY <2>1, <2>2 DEF Last
<1>4. Closing(t).is = "close" /\ Closing(t).name = t.name
  BY DEF Closing
<1> QED BY <1>2, <1>3, <1>4 DEF ReadToken

\* The closing tags put at the end of a part close what is open, and show nothing.
LEMMA ReadClosers ==
  ASSUME NEW x \in Seq(Token)
  PROVE  Read(x \o Closers(Read(x).open)) = [open |-> <<>>, seen |-> Read(x).seen]
<1> DEFINE P == {o \in Seq(Opening) :
                   \A y \in Seq(Token) : Read(y).open = o
                     => Read(y \o Closers(o)) = [open |-> <<>>, seen |-> Read(y).seen]}
<1>1. <<>> \in P
  <2> SUFFICES ASSUME NEW y \in Seq(Token), Read(y).open = <<>>
               PROVE  Read(y \o Closers(<<>>)) = [open |-> <<>>, seen |-> Read(y).seen]
    BY EmptySeq
  <2>1. y \o Closers(<<>>) = y
    BY ClosersEmpty, ConcatEmptySeq
  <2>2. Read(y) = [open |-> <<>>, seen |-> Read(y).seen]
    BY ReadType DEF Reading
  <2> QED BY <2>1, <2>2
<1>2. ASSUME NEW o \in Seq(Opening), NEW t \in Opening, o \in P
      PROVE  Append(o, t) \in P
  <2> SUFFICES ASSUME NEW y \in Seq(Token), Read(y).open = Append(o, t)
               PROVE  Read(y \o Closers(Append(o, t))) = [open |-> <<>>, seen |-> Read(y).seen]
    BY AppendProperties
  <2> DEFINE z == Append(y, Closing(t))
  <2>1. o \in Seq(Token) /\ t \in Token /\ Closing(t) \in Token
    BY OpeningTokens DEF Closing, Token
  <2>2. Read(z) = [open |-> o, seen |-> Read(y).seen]
    BY <2>1, ReadAppend, ReadClosing, ReadType
  <2>3. z \in Seq(Token) /\ Closers(o) \in Seq(Token) /\ <<Closing(t)>> \in Seq(Token)
    BY <2>1, ClosersAre, AppendProperties
  <2>4. z \o Closers(o) = y \o Closers(Append(o, t))
    <3>1. z = y \o <<Closing(t)>>
      BY <2>1, AppendIsConcat
    <3>2. (y \o <<Closing(t)>>) \o Closers(o) = y \o (<<Closing(t)>> \o Closers(o))
      BY <2>3, ConcatAssociative
    <3> QED BY <2>1, <3>1, <3>2, ClosersAppend
  <2> HIDE DEF z
  <2>5. Read(z \o Closers(o)) = [open |-> <<>>, seen |-> Read(z).seen]
    BY <1>2, <2>2, <2>3
  <2> QED BY <2>2, <2>4, <2>5
<1> HIDE DEF P
<1>3. Read(x).open \in P
  BY <1>1, <1>2, ReadType, SeqClimb
<1> QED BY <1>3 DEF P
-----------------------------------------------------------------------------
(* Cutting a text.                                                          *)

Splitting == [parts : Seq(Seq(Token)), current : Seq(Token), open : Seq(Opening)]

Seens(pieces) == [p \in DOMAIN pieces |-> Read(pieces[p]).seen]

\* The parts so far show what was read so far, and the text goes on within the
\* tags that are open.
Carries(s, r) ==
  /\ s \in Splitting
  /\ Read(s.current).open = s.open /\ r.open = s.open
  /\ FlattenSeq(Seens(s.parts)) \o Read(s.current).seen = r.seen
  /\ \A p \in DOMAIN s.parts : Read(s.parts[p]).open = <<>>

InLimits(s) ==
  /\ \A p \in DOMAIN s.parts : WithinLimit(s.parts[p])
  /\ WithinLimit(s.current \o Closers(s.open))

LEMMA SeensType ==
  ASSUME NEW pieces \in Seq(Seq(Token))
  PROVE  Seens(pieces) \in Seq(Seq(Seen)) /\ Len(Seens(pieces)) = Len(pieces)
<1> DEFINE N == Len(pieces)
<1>1. N \in Nat /\ DOMAIN pieces = 1..N /\ \A p \in 1..N : pieces[p] \in Seq(Token)
  BY ElementOfSeq, LenProperties
<1> HIDE DEF N
<1>2. \A p \in 1..N : Read(pieces[p]).seen \in Seq(Seen)
  BY <1>1, ReadType
<1>3. Seens(pieces) = [p \in 1..N |-> Read(pieces[p]).seen]
  BY <1>1 DEF Seens
<1>4. Seens(pieces) \in Seq(Seq(Seen)) /\ Len(Seens(pieces)) = N
  BY <1>1, <1>2, <1>3
<1> QED BY <1>4 DEF N

LEMMA SeensAppend ==
  ASSUME NEW pieces \in Seq(Seq(Token)), NEW x \in Seq(Token)
  PROVE  Seens(Append(pieces, x)) = Append(Seens(pieces), Read(x).seen)
<1> DEFINE u == Append(pieces, x)
           N == Len(pieces)
           v == Append(Seens(pieces), Read(x).seen)
<1>1. /\ N \in Nat /\ u \in Seq(Seq(Token)) /\ DOMAIN u = 1..(N + 1) /\ DOMAIN pieces = 1..N
      /\ Len(u) = N + 1 /\ u[N + 1] = x /\ \A n \in 1..N : u[n] = pieces[n]
  BY LenProperties, AppendProperties
<1>2. Seens(pieces) \in Seq(Seq(Seen)) /\ Len(Seens(pieces)) = N /\ Read(x).seen \in Seq(Seen)
  BY SeensType, ReadType
<1>3. \A n \in 1..N : Seens(pieces)[n] = Read(pieces[n]).seen
  BY <1>1 DEF Seens
<1>4. /\ v \in Seq(Seq(Seen)) /\ Len(v) = N + 1 /\ v[N + 1] = Read(x).seen
      /\ \A n \in 1..N : v[n] = Seens(pieces)[n]
  BY <1>2, AppendProperties
<1> HIDE DEF u, N, v
<1>5. Seens(u) \in Seq(Seq(Seen)) /\ Len(Seens(u)) = N + 1
  BY <1>1, SeensType
<1>6. \A n \in 1..(N + 1) : Seens(u)[n] = Read(u[n]).seen
  BY <1>1 DEF Seens
<1>7. ASSUME NEW n \in 1..(N + 1)
      PROVE  Seens(u)[n] = v[n]
  <2>1. CASE n = N + 1
    BY <1>1, <1>4, <1>6, <2>1
  <2>2. CASE n # N + 1
    <3>1. n \in 1..N
      BY <1>1, <2>2
    <3> QED BY <1>1, <1>3, <1>4, <1>6, <3>1
  <2> QED BY <2>1, <2>2
<1>8. Seens(u) = v
  BY <1>4, <1>5, <1>7, SeqEqual
<1> QED BY <1>8 DEF u, v

\* A cut leaves what the parts show as it was.
LEMMA CutCarries ==
  ASSUME NEW r \in Reading, NEW s, Carries(s, r)
  PROVE  Carries(Cut(s), r)
<1> DEFINE piece == s.current \o Closers(s.open)
           shown == FlattenSeq(Seens(s.parts))
           cut == [parts |-> Append(s.parts, piece), current |-> s.open, open |-> s.open]
<1>1. /\ s.parts \in Seq(Seq(Token)) /\ s.current \in Seq(Token) /\ s.open \in Seq(Opening)
      /\ Read(s.current).open = s.open /\ r.open = s.open
      /\ shown \o Read(s.current).seen = r.seen
      /\ \A p \in DOMAIN s.parts : Read(s.parts[p]).open = <<>>
  BY DEF Carries, Splitting
<1>2. CASE s.current = <<>>
  BY <1>2 DEF Cut
<1>3. CASE s.current # <<>>
  <2>1. s.open \in Seq(Token) /\ piece \in Seq(Token)
    BY <1>1, OpeningTokens, ClosersAre, ConcatProperties
  <2>2. Read(piece) = [open |-> <<>>, seen |-> Read(s.current).seen]
    BY <1>1, ReadClosers
  <2>3. Read(s.open) = [open |-> s.open, seen |-> <<>>]
    BY <1>1, ReadOpens
  <2>4. r.seen \in Seq(Seen) /\ Read(s.current).seen \in Seq(Seen)
    BY <1>1, ReadType DEF Reading
  <2> HIDE DEF piece
  <2>5. FlattenSeq(Seens(Append(s.parts, piece))) \o <<>> = r.seen
    <3>1. Seens(Append(s.parts, piece)) = Append(Seens(s.parts), Read(s.current).seen)
      BY <1>1, <2>1, <2>2, SeensAppend
    <3>2. FlattenSeq(Append(Seens(s.parts), Read(s.current).seen)) = shown \o Read(s.current).seen
      BY <1>1, <2>4, SeensType, FlattenAppend
    <3> QED BY <1>1, <2>4, <3>1, <3>2, ConcatEmptySeq
  <2>6. Append(s.parts, piece) \in Seq(Seq(Token))
    BY <1>1, <2>1, AppendProperties
  <2>7. \A p \in DOMAIN Append(s.parts, piece) : Read(Append(s.parts, piece)[p]).open = <<>>
    <3> DEFINE N == Len(s.parts)
               u == Append(s.parts, piece)
    <3>1. /\ N \in Nat /\ DOMAIN u = 1..(N + 1) /\ DOMAIN s.parts = 1..N
          /\ u[N + 1] = piece /\ \A n \in 1..N : u[n] = s.parts[n]
      BY <1>1, <2>1, <2>6, LenProperties, AppendProperties
    <3> HIDE DEF N, u
    <3>2. ASSUME NEW p \in 1..(N + 1)
          PROVE  Read(u[p]).open = <<>>
      <4>1. CASE p = N + 1
        BY <2>2, <3>1, <4>1
      <4>2. CASE p # N + 1
        <5>1. p \in 1..N
          BY <3>1, <4>2
        <5> QED BY <1>1, <3>1, <5>1
      <4> QED BY <4>1, <4>2
    <3>3. \A p \in DOMAIN u : Read(u[p]).open = <<>>
      BY <3>1, <3>2
    <3> QED BY <3>3 DEF u
  <2>8. Cut(s) = cut
    BY <1>3 DEF Cut, piece
  <2>9. Carries(cut, r)
    BY <1>1, <2>1, <2>3, <2>5, <2>6, <2>7 DEF Carries, Splitting
  <2> QED BY <2>8, <2>9
<1> QED BY <1>2, <1>3

\* A token that is added is shown as it stands in the text.
LEMMA ExtendedCarries ==
  ASSUME NEW r \in Reading, NEW s, Carries(s, r), NEW t \in Token
  PROVE  Carries(Extended(s, t), ReadToken(r, t))
<1> DEFINE shown == FlattenSeq(Seens(s.parts))
           c == Read(s.current)
           d == Append(s.current, t)
           o == Tracked(s.open, t)
<1>1. /\ s.parts \in Seq(Seq(Token)) /\ s.current \in Seq(Token) /\ s.open \in Seq(Opening)
      /\ c.open = s.open /\ r.open = s.open
      /\ shown \o c.seen = r.seen
      /\ \A p \in DOMAIN s.parts : Read(s.parts[p]).open = <<>>
  BY DEF Carries, Splitting
<1>2. d \in Seq(Token) /\ Read(d) = ReadToken(c, t)
  BY <1>1, ReadAppend, AppendProperties
<1>3. o \in Seq(Opening)
  BY <1>1, OpeningTokens, TrackedIs DEF Opening
<1>4. ReadToken(c, t).open = o /\ ReadToken(r, t).open = o
  BY <1>1 DEF ReadToken
<1>5. shown \o ReadToken(c, t).seen = ReadToken(r, t).seen
  <2>1. shown \in Seq(Seen) /\ c.seen \in Seq(Seen) /\ <<t, s.open>> \in Seen
    <3>1. shown \in Seq(Seen)
      BY <1>1, SeensType, FlattenType
    <3>2. c.seen \in Seq(Seen)
      BY <1>1, ReadType
    <3>3. <<t, s.open>> \in Seen
      BY <1>1 DEF Seen
    <3> QED BY <3>1, <3>2, <3>3
  <2>2. shown \o Append(c.seen, <<t, s.open>>) = Append(shown \o c.seen, <<t, s.open>>)
    <3>1. ASSUME NEW x \in Seq(Seen), NEW y \in Seq(Seen), NEW e \in Seen
          PROVE  x \o Append(y, e) = Append(x \o y, e)
      OBVIOUS
    <3> QED BY <2>1, <3>1
  <2>3. \/ ReadToken(c, t).seen = c.seen /\ ReadToken(r, t).seen = r.seen
        \/ /\ ReadToken(c, t).seen = Append(c.seen, <<t, s.open>>)
           /\ ReadToken(r, t).seen = Append(r.seen, <<t, s.open>>)
    BY <1>1 DEF ReadToken
  <2> QED BY <1>1, <2>2, <2>3
<1>6. Extended(s, t) = [parts |-> s.parts, current |-> d, open |-> o]
  BY DEF Extended
<1> QED BY <1>1, <1>2, <1>3, <1>4, <1>5, <1>6 DEF Carries, Splitting

LEMMA AddTokenCarries ==
  ASSUME NEW r \in Reading, NEW s, Carries(s, r), NEW t \in Token
  PROVE  Carries(AddToken(s, t), ReadToken(r, t))
<1>1. PICK u \in {s, Cut(s)} : AddToken(s, t) = Extended(u, t)
  BY DEF AddToken
<1>2. Carries(u, r)
  BY <1>1, CutCarries
<1> QED BY <1>1, <1>2, ExtendedCarries

\* With room for the token and the closing tags, the part that grows is within
\* the limit when it is closed.
LEMMA ExtendedInLimit ==
  ASSUME NEW s \in Splitting, NEW t \in Token,
         Length(s.current) + t.length + Length(Closers(s.open)) <= Limit
  PROVE  WithinLimit(Extended(s, t).current \o Closers(Extended(s, t).open))
<1> DEFINE d == Append(s.current, t)
           o == Tracked(s.open, t)
           k == Length(Closers(s.open))
           piece == d \o Closers(o)
<1>1. s.current \in Seq(Token) /\ s.open \in Seq(Opening) /\ s.open \in Seq(Token)
  BY OpeningTokens DEF Splitting
<1>2. d \in Seq(Token) /\ Length(d) = Length(s.current) + t.length
  BY <1>1, LengthAppend, AppendProperties
<1>3. o \in Seq(Opening) /\ o \in Seq(Token)
  BY <1>1, OpeningTokens, TrackedIs DEF Opening
<1>4. Closers(o) \in Seq(Token)
  BY <1>3, ClosersAre
<1>5. piece \in Seq(Token) /\ Length(piece) = Length(d) + Length(Closers(o))
  BY <1>2, <1>4, LengthConcat, ConcatProperties
<1>6. /\ Length(s.current) \in Nat /\ k \in Nat /\ Length(Closers(o)) \in Nat /\ Length(d) \in Nat
      /\ t.length \in Nat /\ t.closer \in Nat /\ Limit \in Nat
  BY <1>1, <1>2, <1>4, ClosersAre, LengthType, FormAssumption DEF Token
<1>7. Extended(s, t).current = d /\ Extended(s, t).open = o
  BY DEF Extended
<1>8. Length(d) + k <= Limit
  BY <1>2
<1>9. CASE t.is # "open"
  <2>1. Length(Closers(o)) <= k
    <3>1. CASE t.is = "char"
      BY <1>6, <3>1 DEF Tracked
    <3>2. CASE t.is = "close"
      <4>1. PICK m \in 0..Len(s.open) : o = SubSeq(s.open, 1, m)
        BY <1>1, <3>2, OpeningTokens, TrackedIs
      <4> QED BY <1>1, <4>1, ClosersShorter
    <3> QED BY <1>9, <3>1, <3>2 DEF Token
  <2> HIDE DEF d, o, k, piece
  <2>2. Length(piece) <= Limit
    BY <1>5, <1>6, <1>8, <2>1
  <2> QED BY <1>7, <2>2 DEF WithinLimit, piece
<1>10. CASE t.is = "open"
  <2>1. o = Append(s.open, t)
    BY <1>10 DEF Tracked
  <2>2. Length(Closers(o)) = k + t.closer
    BY <1>1, <2>1, ClosersLength
  <2>3. PICK n \in Nat : n = Len(s.current)
    BY <1>1, LenProperties
  <2>4. Len(d) = n + 1 /\ d[n + 1] = t
    BY <1>1, <2>3, AppendProperties
  <2>5. PICK l \in Nat : l = Len(Closers(o))
    BY <1>4, LenProperties
  <2>6. \A i \in 1..l : Closers(o)[i].is = "close"
    <3>1. \A i \in 1..Len(o) : Closers(o)[i].is = "close"
      BY <1>3, ClosersAre
    <3>2. Len(Closers(o)) = Len(o)
      BY <1>3, ClosersAre
    <3> QED BY <2>5, <3>1, <3>2
  <2> HIDE DEF o, k, d
  <2>7. /\ Len(piece) = (n + 1) + l
        /\ \A i \in 1..(n + 1) : piece[i] = d[i]
        /\ \A i \in (n + 2)..(n + 1 + l) : piece[i] = Closers(o)[i - (n + 1)]
    <3>1. Len(piece) = Len(d) + Len(Closers(o))
      BY <1>2, <1>4, ConcatProperties
    <3>2. \A i \in 1..Len(d) : piece[i] = d[i]
      BY <1>2, <1>4, ConcatProperties
    <3>3. \A i \in Len(d) + 1 .. Len(d) + Len(Closers(o)) : piece[i] = Closers(o)[i - Len(d)]
      BY <1>2, <1>4, ConcatProperties
    <3>4. (n + 1) + 1 = n + 2
      OBVIOUS
    <3> QED BY <2>4, <2>5, <3>1, <3>2, <3>3, <3>4
  <2> HIDE DEF piece
  <2>8. n + 1 \in DOMAIN piece /\ piece[n + 1] = t
    <3>1. n + 1 \in 1..(n + 1) /\ n + 1 \in 1..(n + 1 + l)
      OBVIOUS
    <3>2. DOMAIN piece = 1..(n + 1 + l)
      BY <1>5, <2>7, LenProperties
    <3> QED BY <2>4, <2>7, <3>1, <3>2
  <2>9. ASSUME NEW j \in (n + 1 + 1)..Len(piece)
        PROVE  piece[j].is = "close"
    <3>1. j \in (n + 2)..(n + 1 + l) /\ j - (n + 1) \in 1..l
      BY <2>7
    <3> QED BY <2>6, <2>7, <3>1
  <2>10. Length(piece) <= Limit + t.closer
    BY <1>5, <1>6, <1>8, <2>2
  <2>11. WithinLimit(piece)
    BY <1>10, <2>8, <2>9, <2>10 DEF WithinLimit
  <2> QED BY <1>7, <2>11 DEF piece
<1> QED BY <1>9, <1>10

LEMMA AppendedParts ==
  ASSUME NEW pieces \in Seq(Seq(Token)), NEW x \in Seq(Token), WithinLimit(x),
         \A p \in DOMAIN pieces : WithinLimit(pieces[p])
  PROVE  \A p \in DOMAIN Append(pieces, x) : WithinLimit(Append(pieces, x)[p])
<1> DEFINE N == Len(pieces)
           u == Append(pieces, x)
<1>1. /\ N \in Nat /\ DOMAIN u = 1..(N + 1) /\ DOMAIN pieces = 1..N
      /\ u[N + 1] = x /\ \A n \in 1..N : u[n] = pieces[n]
  BY LenProperties, AppendProperties
<1> HIDE DEF N, u
<1>2. ASSUME NEW p \in 1..(N + 1)
      PROVE  WithinLimit(u[p])
  <2>1. CASE p = N + 1
    BY <1>1, <2>1
  <2>2. CASE p # N + 1
    <3>1. p \in 1..N
      BY <1>1, <2>2
    <3> QED BY <1>1, <3>1
  <2> QED BY <2>1, <2>2
<1>3. \A p \in DOMAIN u : WithinLimit(u[p])
  BY <1>1, <1>2
<1> QED BY <1>3 DEF u

LEMMA CutInLimits ==
  ASSUME NEW s \in Splitting, InLimits(s)
  PROVE  \A p \in DOMAIN Cut(s).parts : WithinLimit(Cut(s).parts[p])
<1> DEFINE piece == s.current \o Closers(s.open)
<1>1. s.parts \in Seq(Seq(Token)) /\ s.current \in Seq(Token) /\ s.open \in Seq(Token)
  BY OpeningTokens DEF Splitting
<1>2. piece \in Seq(Token)
  BY <1>1, ClosersAre, ConcatProperties
<1>3. WithinLimit(piece) /\ \A p \in DOMAIN s.parts : WithinLimit(s.parts[p])
  BY DEF InLimits
<1>4. Cut(s).parts = s.parts \/ Cut(s).parts = Append(s.parts, piece)
  BY DEF Cut
<1> HIDE DEF piece
<1>5. \A p \in DOMAIN Append(s.parts, piece) : WithinLimit(Append(s.parts, piece)[p])
  BY <1>1, <1>2, <1>3, AppendedParts
<1> QED BY <1>3, <1>4, <1>5

LEMMA AddTokenInLimits ==
  ASSUME NEW r \in Reading, NEW s, Carries(s, r), InLimits(s), NEW t \in Token,
         Length(s.open) + t.length + Length(Closers(s.open)) <= Limit
  PROVE  InLimits(AddToken(s, t))
<1>1. s \in Splitting /\ s.open \in Seq(Opening) /\ Read(s.current).open = s.open
  BY DEF Carries, Splitting
<1> DEFINE full == Length(s.current) + t.length + Length(Closers(s.open)) > Limit
           u == IF full THEN Cut(s) ELSE s
<1>2. AddToken(s, t) = Extended(u, t) /\ (u = s \/ u = Cut(s))
  BY DEF AddToken
<1>3. Carries(u, r)
  BY <1>2, CutCarries
<1>4. u \in Splitting
  BY <1>3 DEF Carries
<1>5. Length(u.current) + t.length + Length(Closers(u.open)) <= Limit
  <2>1. CASE ~full
    <3>1. s.current \in Seq(Token) /\ s.open \in Seq(Token)
      BY <1>1, OpeningTokens DEF Splitting
    <3>2. Length(s.current) \in Nat /\ Length(Closers(s.open)) \in Nat /\ t.length \in Nat /\ Limit \in Nat
      BY <3>1, ClosersAre, LengthType, FormAssumption DEF Token
    <3> QED BY <2>1, <3>2
  <2>2. CASE full /\ s.current = <<>>
    <3>1. u = s
      BY <2>2 DEF Cut
    <3>2. s.open = <<>>
      BY <1>1, <2>2, ReadEmpty DEF Unread
    <3>3. u.current = s.open /\ u.open = s.open
      BY <2>2, <3>1, <3>2
    <3> HIDE DEF u, full
    <3> QED BY <3>3
  <2>3. CASE full /\ s.current # <<>>
    <3>1. u.current = s.open /\ u.open = s.open
      BY <2>3 DEF Cut
    <3> HIDE DEF u, full
    <3> QED BY <3>1
  <2> QED BY <2>1, <2>2, <2>3
<1> HIDE DEF u
<1>6. \A p \in DOMAIN u.parts : WithinLimit(u.parts[p])
  <2>1. CASE u = s
    BY <2>1 DEF InLimits
  <2>2. CASE u = Cut(s)
    BY <1>1, <2>2, CutInLimits
  <2> QED BY <1>2, <2>1, <2>2
<1>7. Extended(u, t).parts = u.parts
  BY DEF Extended
<1>8. WithinLimit(Extended(u, t).current \o Closers(Extended(u, t).open))
  BY <1>4, <1>5, ExtendedInLimit
<1>9. InLimits(Extended(u, t))
  BY <1>6, <1>7, <1>8 DEF InLimits
<1> QED BY <1>2, <1>9

\* How SplitText goes through a text.
Empty == [parts |-> <<>>, current |-> <<>>, open |-> <<>>]
SplitsWith(s, f) ==
  f \in [0..Len(s) -> Splitting] /\ f[0] = Empty /\ \A n \in 1..Len(s) : f[n] = AddToken(f[n - 1], s[n])

LEMMA CutType ==
  ASSUME NEW s \in Splitting
  PROVE  Cut(s) \in Splitting
<1>1. s.parts \in Seq(Seq(Token)) /\ s.current \in Seq(Token) /\ s.open \in Seq(Opening) /\ s.open \in Seq(Token)
  BY OpeningTokens DEF Splitting
<1>2. s.current \o Closers(s.open) \in Seq(Token)
  BY <1>1, ClosersAre, ConcatProperties
<1>3. Append(s.parts, s.current \o Closers(s.open)) \in Seq(Seq(Token))
  BY <1>1, <1>2, AppendProperties
<1> QED BY <1>1, <1>3 DEF Cut, Splitting

LEMMA AddTokenType ==
  ASSUME NEW s \in Splitting, NEW t \in Token
  PROVE  AddToken(s, t) \in Splitting
<1>1. PICK u \in {s, Cut(s)} : AddToken(s, t) = Extended(u, t)
  BY DEF AddToken
<1>2. u \in Splitting
  BY <1>1, CutType
<1>3. u.parts \in Seq(Seq(Token)) /\ u.current \in Seq(Token) /\ u.open \in Seq(Opening)
  BY <1>2 DEF Splitting
<1>4. Tracked(u.open, t) \in Seq(Opening)
  BY <1>3, OpeningTokens, TrackedIs DEF Opening
<1>5. Append(u.current, t) \in Seq(Token)
  BY <1>3, AppendProperties
<1>6. Extended(u, t) \in Splitting
  BY <1>3, <1>4, <1>5 DEF Extended, Splitting
<1> QED BY <1>1, <1>6

LEMMA EmptyCarries == Empty \in Splitting /\ Carries(Empty, Unread) /\ InLimits(Empty)
<1>1. /\ <<>> \in Seq(Seq(Token)) /\ <<>> \in Seq(Token) /\ <<>> \in Seq(Opening) /\ <<>> \in Seq(Seq(Seen))
      /\ Len(<<>>) = 0
  BY EmptySeq
<1>2. Empty \in Splitting
  BY <1>1 DEF Empty, Splitting
<1>3. Seens(<<>>) = <<>>
  <2>1. Seens(<<>>) \in Seq(Seq(Seen)) /\ Len(Seens(<<>>)) = 0
    BY <1>1, SeensType
  <2> QED BY <2>1, EmptySeq
<1>4. FlattenSeq(<<>>) = <<>>
  BY <1>1, FlattenIs DEF JoinedWith
<1>5. <<>> \o <<>> = <<>>
  OBVIOUS
<1>6. Carries(Empty, Unread)
  BY <1>2, <1>3, <1>4, <1>5, ReadEmpty DEF Carries, Empty, Unread
<1>7. WithinLimit(<<>> \o Closers(<<>>))
  <2>1. <<>> \o Closers(<<>>) = <<>>
    BY <1>5, ClosersEmpty
  <2>2. 0 <= Limit
    BY FormAssumption
  <2> QED BY <2>1, <2>2, LengthEmpty DEF WithinLimit
<1> QED BY <1>2, <1>6, <1>7 DEF InLimits, Empty

LEMMA SplitIs ==
  ASSUME NEW s \in Seq(Token), Length(s) > Limit
  PROVE  \E f : SplitsWith(s, f) /\ SplitText(s) = Cut(f[Len(s)]).parts
<1> DEFINE N == Len(s)
           f == CHOOSE f : f = [n \in 0..N |-> IF n = 0 THEN Empty ELSE AddToken(f[n - 1], s[n])]
           step == [n \in 1..N |-> [r \in Splitting |-> AddToken(r, s[n])]]
           T == {n \in 0..N : f[n] \in Splitting}
<1>1. N \in Nat /\ \A n \in 1..N : s[n] \in Token
  BY ElementOfSeq, LenProperties
<1>2. SplitText(s) = Cut(f[N]).parts
  <2>1. ~(Length(s) <= Limit)
    BY LengthType, FormAssumption
  <2> QED BY <2>1 DEF SplitText, Empty
<1> HIDE DEF N
<1>3. \A n \in 1..N, r \in Splitting : AddToken(r, s[n]) \in Splitting
  BY <1>1, AddTokenType
<1>4. step \in [1..N -> [Splitting -> Splitting]]
  BY <1>3
<1>5. \A n \in 1..N, r \in Splitting : step[n][r] = AddToken(r, s[n])
  OBVIOUS
<1> HIDE DEF step
<1>6. PICK g \in [0..N -> Splitting] : g[0] = Empty /\ \A n \in 1..N : g[n] = step[n][g[n - 1]]
  <2>1. Solved(N, Splitting, Empty, step)
    BY <1>1, <1>4, EmptyCarries, Recursion
  <2> QED BY <2>1 DEF Solved
<1>7. \A n \in 1..N : g[n] = AddToken(g[n - 1], s[n])
  <2> SUFFICES ASSUME NEW n \in 1..N
               PROVE  g[n] = AddToken(g[n - 1], s[n])
    OBVIOUS
  <2>1. n - 1 \in 0..N
    BY <1>1
  <2> QED BY <1>5, <1>6, <2>1
<1>8. g = [n \in 0..N |-> IF n = 0 THEN Empty ELSE AddToken(g[n - 1], s[n])]
  <2>1. \A n \in 0..N : g[n] = IF n = 0 THEN Empty ELSE AddToken(g[n - 1], s[n])
    BY <1>1, <1>6, <1>7
  <2> QED BY <2>1
<1>9. f = [n \in 0..N |-> IF n = 0 THEN Empty ELSE AddToken(f[n - 1], s[n])]
  BY <1>8
<1> HIDE DEF f
<1>10. f[0] = Empty /\ \A n \in 1..N : f[n] = AddToken(f[n - 1], s[n])
  BY <1>1, <1>9
<1>11. 0 \in T
  BY <1>1, <1>10, EmptyCarries
<1>12. ASSUME NEW n \in 1..N, n - 1 \in T
       PROVE  n \in T
  <2>1. n \in 0..N /\ f[n - 1] \in Splitting
    BY <1>1, <1>12
  <2>2. f[n] \in Splitting
    BY <1>3, <1>10, <2>1
  <2> QED BY <2>1, <2>2
<1> HIDE DEF T
<1>13. \A n \in 0..N : n \in T
  BY <1>1, <1>11, <1>12, Climb
<1>14. f \in [0..N -> Splitting]
  <2>1. \A n \in 0..N : f[n] \in Splitting
    BY <1>13 DEF T
  <2> QED BY <1>9, <2>1
<1> QED BY <1>2, <1>10, <1>14 DEF N, SplitsWith

\* What is read of a text after n of its tokens.
LEMMA ReadSoFar ==
  ASSUME NEW s \in Seq(Token), NEW n \in 1..Len(s)
  PROVE  /\ Read(SubSeq(s, 1, n)) = ReadToken(Read(SubSeq(s, 1, n - 1)), s[n])
         /\ Read(SubSeq(s, 1, n - 1)) \in Reading
<1>1. SubSeq(s, 1, n) = SubSeq(s, 1, n - 1) \o <<s[n]>>
  BY SubSeqRecursiveSecond
<1>2. SubSeq(s, 1, n - 1) \in Seq(Token) /\ s[n] \in Token
  BY SubSeqProperties
<1>3. SubSeq(s, 1, n) = Append(SubSeq(s, 1, n - 1), s[n])
  BY <1>1, <1>2, AppendIsConcat
<1> QED BY <1>2, <1>3, ReadAppend, ReadType

\* A long text is cut soundly.
LEMMA LongSplit ==
  ASSUME NEW s \in Seq(Token), Length(s) > Limit
  PROVE  SplitText(s) \in Seq(Seq(Token)) /\ WellSplit(s, SplitText(s))
<1> DEFINE N == Len(s)
           R(n) == Read(SubSeq(s, 1, n))
<1>1. PICK f : SplitsWith(s, f) /\ SplitText(s) = Cut(f[N]).parts
  BY SplitIs
<1>2. N \in Nat /\ N \in 0..N /\ \A n \in 1..N : s[n] \in Token
  BY ElementOfSeq, LenProperties
<1>3. /\ f \in [0..N -> Splitting] /\ f[0] = Empty
      /\ \A n \in 1..N : f[n] = AddToken(f[n - 1], s[n])
  BY <1>1 DEF SplitsWith
<1>4. R(0) = Unread
  <2>1. SubSeq(s, 1, 0) = <<>>
    BY SubSeqEmpty
  <2> QED BY <2>1, ReadEmpty
<1>5. \A n \in 1..N : R(n) = ReadToken(R(n - 1), s[n]) /\ R(n - 1) \in Reading
  BY ReadSoFar
<1>6. R(N) = Read(s)
  BY SubSeqFull
<1>7. Fits(s) => \A n \in 1..N : Length(R(n - 1).open) + s[n].length + Length(Closers(R(n - 1).open)) <= Limit
  <2>1. DOMAIN s = 1..N
    BY LenProperties
  <2> QED BY <2>1 DEF Fits
<1> DEFINE T == {n \in 0..N : Carries(f[n], R(n)) /\ (Fits(s) => InLimits(f[n]))}
<1> HIDE DEF N, R
<1>8. 0 \in T
  BY <1>2, <1>3, <1>4, EmptyCarries
<1>9. ASSUME NEW n \in 1..N, n - 1 \in T
      PROVE  n \in T
  <2>1. n \in 0..N /\ Carries(f[n - 1], R(n - 1)) /\ (Fits(s) => InLimits(f[n - 1]))
    BY <1>2, <1>9
  <2>2. f[n] = AddToken(f[n - 1], s[n]) /\ R(n) = ReadToken(R(n - 1), s[n]) /\ R(n - 1) \in Reading /\ s[n] \in Token
    BY <1>2, <1>3, <1>5
  <2>3. Carries(f[n], R(n))
    BY <2>1, <2>2, AddTokenCarries
  <2>4. ASSUME Fits(s)
        PROVE  InLimits(f[n])
    <3>1. R(n - 1).open = f[n - 1].open
      BY <2>1 DEF Carries
    <3>2. Length(f[n - 1].open) + s[n].length + Length(Closers(f[n - 1].open)) <= Limit
      BY <1>7, <2>4, <3>1
    <3>3. InLimits(f[n - 1])
      BY <2>1, <2>4
    <3> QED BY <2>1, <2>2, <3>2, <3>3, AddTokenInLimits
  <2> QED BY <2>1, <2>3, <2>4
<1> HIDE DEF T
<1>10. N \in T
  BY <1>2, <1>8, <1>9, Climb
<1> DEFINE last == f[N]
           pieces == SplitText(s)
<1>11. Carries(last, Read(s)) /\ (Fits(s) => InLimits(last)) /\ last \in Splitting
  BY <1>2, <1>3, <1>6, <1>10 DEF T
<1>12. pieces = Cut(last).parts
  BY <1>1 DEF N
<1> HIDE DEF last, pieces
<1>13. Read(s) \in Reading /\ Read(s).seen \in Seq(Seen)
  BY ReadType
<1>14. Carries(Cut(last), Read(s)) /\ Cut(last) \in Splitting
  BY <1>11, <1>13, CutCarries, CutType
<1>15. pieces \in Seq(Seq(Token))
  BY <1>12, <1>14 DEF Splitting
<1>16. FlattenSeq(Seens(pieces)) = Read(s).seen
  <2>1. Read(Cut(last).current).seen = <<>>
    <3>1. CASE last.current = <<>>
      BY <3>1, ReadEmpty DEF Cut, Unread
    <3>2. CASE last.current # <<>>
      <4>1. Cut(last).current = last.open /\ last.open \in Seq(Opening)
        BY <1>11, <3>2 DEF Cut, Splitting
      <4> QED BY <4>1, ReadOpens
    <3> QED BY <3>1, <3>2
  <2>2. FlattenSeq(Seens(pieces)) \o <<>> = Read(s).seen
    BY <1>12, <1>14, <2>1 DEF Carries
  <2>3. FlattenSeq(Seens(pieces)) \in Seq(Seen)
    BY <1>15, SeensType, FlattenType
  <2> QED BY <2>2, <2>3, ConcatEmptySeq
<1>17. \A p \in DOMAIN pieces : Read(pieces[p]).open = <<>>
  BY <1>12, <1>14 DEF Carries
<1>18. Fits(s) => \A p \in DOMAIN pieces : WithinLimit(pieces[p])
  BY <1>11, <1>12, CutInLimits
<1>19. WellSplit(s, pieces)
  BY <1>16, <1>17, <1>18 DEF WellSplit, Seens
<1> QED BY <1>15, <1>19 DEF pieces

\* A text is cut soundly (_split_json_text_for_send).
LEMMA SplitSound ==
  ASSUME NEW s \in Seq(Token)
  PROVE  SplitText(s) \in Seq(Seq(Token)) /\ WellSplit(s, SplitText(s))
<1>1. CASE Length(s) > Limit
  BY <1>1, LongSplit
<1>2. CASE ~(Length(s) > Limit) /\ s = <<>>
  <2>1. Length(s) <= Limit
    <3>1. Length(s) \in Nat /\ Limit \in Nat
      BY LengthType, FormAssumption
    <3> QED BY <1>2, <3>1
  <2>2. SplitText(s) = <<>>
    BY <1>2, <2>1 DEF SplitText
  <2>3. <<>> \in Seq(Seq(Token)) /\ <<>> \in Seq(Seq(Seen)) /\ Len(<<>>) = 0 /\ DOMAIN <<>> = {}
    BY EmptySeq
  <2>4. Seens(<<>>) = <<>>
    <3>1. Seens(<<>>) \in Seq(Seq(Seen)) /\ Len(Seens(<<>>)) = 0
      BY <2>3, SeensType
    <3> QED BY <3>1, EmptySeq
  <2>5. FlattenSeq(<<>>) = <<>>
    BY <2>3, FlattenIs DEF JoinedWith
  <2>6. FlattenSeq(Seens(SplitText(s))) = Read(s).seen
    BY <1>2, <2>2, <2>4, <2>5, ReadEmpty DEF Unread
  <2> QED BY <2>2, <2>3, <2>6 DEF WellSplit, Seens
<1>3. CASE ~(Length(s) > Limit) /\ s # <<>>
  <2>1. Length(s) <= Limit
    BY <1>3, LengthType, FormAssumption
  <2>2. SplitText(s) = <<s>>
    BY <1>3, <2>1 DEF SplitText
  <2>3. <<s>> \in Seq(Seq(Token)) /\ <<>> \in Seq(Seq(Token)) /\ <<s>> = Append(<<>>, s)
    OBVIOUS
  <2>4. DOMAIN <<s>> = {1} /\ <<s>>[1] = s
    OBVIOUS
  <2>5. FlattenSeq(Seens(<<s>>)) = Read(s).seen
    <3>1. Seens(<<s>>) = Append(Seens(<<>>), Read(s).seen)
      BY <2>3, SeensAppend
    <3>2. <<>> \in Seq(Seq(Seen)) /\ Len(<<>>) = 0
      BY EmptySeq
    <3>3. Seens(<<>>) = <<>>
      <4>1. Seens(<<>>) \in Seq(Seq(Seen)) /\ Len(Seens(<<>>)) = 0
        BY <2>3, <3>2, SeensType
      <4> QED BY <4>1, EmptySeq
    <3>4. FlattenSeq(<<>>) = <<>>
      BY <3>2, FlattenIs DEF JoinedWith
    <3>5. Read(s).seen \in Seq(Seen)
      BY ReadType
    <3>6. FlattenSeq(Append(<<>>, Read(s).seen)) = <<>> \o Read(s).seen
      BY <3>2, <3>4, <3>5, FlattenAppend
    <3> QED BY <3>1, <3>3, <3>5, <3>6, ConcatEmptySeq
  <2>6. WithinLimit(s)
    BY <2>1 DEF WithinLimit
  <2>7. WellSplit(s, <<s>>)
    BY <1>3, <2>4, <2>5, <2>6 DEF WellSplit, Seens
  <2> QED BY <2>2, <2>3, <2>7
<1> QED BY <1>1, <1>2, <1>3
-----------------------------------------------------------------------------
(* Types.                                                                   *)

USE DEF setting, database, place, sending

Receipts == {"none", "sending", "unconfirmed"}

Fixed == scenario \in Scenarios /\ parts \in Seq(Seq(Token)) /\ missing \subseteq Msgs

Records ==
  /\ receipt \in [Msgs -> Receipts] /\ mapping \in [Msgs -> Msgs \union {0}]
  /\ copies \in [Msgs -> Nat] /\ extra \in [Msgs -> Nat]
  /\ report \in [Msgs -> SUBSET Results]

Flags ==
  /\ force \in BOOLEAN /\ stop \in BOOLEAN
  /\ ended \in {"none", "completed", "stopped", "raised", "crashed"}

\* A bot is asked only in a round that is left, and a delivery begins with the
\* first round.
Request ==
  /\ guard \in {"fresh", "prepared"} /\ via \in {"bot", "user"}
  /\ rounds \in 0..BotRounds /\ tries \in 0..NetRetries /\ answer \in Seq(Msgs \X Msgs)
  /\ via = "bot" => rounds < BotRounds
  /\ pc \in {"album", "select"} => rounds = 0
  /\ part = 1 \/ part \in DOMAIN parts

Used == bounds \in [Limited -> Nat] /\ \A b \in Limited : bounds[b] <= scenario.limits[b]

Where ==
  pc \in Labels /\ groups \in Seq(Seq(Msgs)) /\ todo \in Seq(Msgs) /\ unit \in Seq(Msgs)

Types == Fixed /\ Records /\ Flags /\ Request /\ Used /\ Where

LEMMA TypesOK == Types => TypeOK
<1> SUFFICES ASSUME Types PROVE TypeOK
  OBVIOUS
<1>1. \A b \in Limited : scenario.limits[b] \in Nat /\ bounds[b] \in 0..scenario.limits[b]
  BY ImportAssumption DEF Types, Fixed, Used
<1> QED BY <1>1 DEF Types, Fixed, Records, Flags, Request, Where, TypeOK, Receipts

LEMMA Numbers ==
  /\ BotRounds \in Nat \ {0} /\ NetRetries \in Nat /\ Limited = {"jobs", "forced", "trouble", "stops", "crashes", "repairs"}
  /\ \A s \in Scenarios : s.messages \in Seq(ExportMessage) /\ s.limits \in [Limited -> Nat]
                          /\ s.text \in Seq(Token) /\ s.missing \subseteq DOMAIN s.messages
BY ImportAssumption DEF Limited

LEMMA CountUsed ==
  ASSUME Fixed, Used, NEW b \in Limited, Count(b), UNCHANGED scenario
  PROVE  Used'
<1>1. scenario.limits \in [Limited -> Nat]
  BY Numbers DEF Fixed
<1>2. bounds[b] < scenario.limits[b] /\ bounds' = [bounds EXCEPT ![b] = @ + 1]
  BY DEF Count
<1> QED BY <1>1, <1>2 DEF Used

LEMMA FreshRequest ==
  ASSUME NEW u, Fresh(u)
  PROVE  Request' /\ unit' = u
<1>1. <<>> \in Seq(Msgs' \X Msgs')
  OBVIOUS
<1> QED BY <1>1, Numbers DEF Fresh, Request

LEMMA EndTypes ==
  ASSUME NEW how \in {"none", "completed", "stopped", "raised", "crashed"}, End(how), UNCHANGED force, Flags
  PROVE  Request' /\ Where' /\ Flags'
<1>1. /\ Fresh(<<>>) /\ pc' = "idle" /\ groups' = <<>> /\ todo' = <<>>
      /\ ended' = how /\ stop' = FALSE
  BY DEF End
<1>2. Request' /\ unit' = <<>>
  BY <1>1, FreshRequest
<1>3. <<>> \in Seq(Seq(Msgs')) /\ <<>> \in Seq(Msgs')
  OBVIOUS
<1> QED BY <1>1, <1>2, <1>3 DEF Where, Labels, Flags

LEMMA OnwardTypes ==
  ASSUME Onward, UNCHANGED <<scenario, force>>, Flags, Where
  PROVE  Request' /\ Where' /\ Flags'
<1>1. Fresh(<<>>) /\ UNCHANGED <<groups, stop, ended>> /\ pc' \in {"item", "next"}
      /\ todo' \in {todo, Tail(todo)} /\ (todo = <<>> => todo' = todo)
  BY DEF Onward, Single
<1>2. Request' /\ unit' = <<>>
  BY <1>1, FreshRequest
<1>3. <<>> \in Seq(Msgs') /\ Msgs' = Msgs
  BY DEF Msgs
<1>4. todo' \in Seq(Msgs)
  <2>1. todo # <<>> => Tail(todo) \in Seq(Msgs)
    BY DEF Where
  <2> QED BY <1>1, <2>1 DEF Where
<1> QED BY <1>1, <1>2, <1>3, <1>4 DEF Where, Labels, Flags

LEMMA FailsTypes ==
  ASSUME NEW fatal, Fails(fatal), UNCHANGED <<scenario, force>>, Flags, Where
  PROVE  Request' /\ Where' /\ Flags'
BY OnwardTypes, EndTypes DEF Fails

LEMMA AddedType ==
  ASSUME NEW f \in [Msgs -> Nat], NEW S
  PROVE  /\ Added(f, S) \in [Msgs -> Nat]
         /\ \A m \in Msgs : Added(f, S)[m] = IF m \in S THEN f[m] + 1 ELSE f[m]
BY DEF Added

LEMMA RecordedType ==
  ASSUME Records, NEW S, NEW r \in Results
  PROVE  /\ Recorded(S, r) \in [Msgs -> SUBSET Results]
         /\ \A m \in Msgs : Recorded(S, r)[m] = IF m \in S THEN report[m] \union {r} ELSE report[m]
BY DEF Recorded, Records

LEMMA MarkedType ==
  ASSUME Records
  PROVE  /\ Marked \in [Msgs -> Receipts]
         /\ \A m \in Msgs : (Marked[m] = "none") = (receipt[m] = "none")
BY DEF Marked, Records, Receipts

LEMMA FixedStep ==
  ASSUME Fixed, Next
  PROVE  Fixed' /\ Msgs' = Msgs /\ UNCHANGED <<scenario, parts>> /\ missing' \subseteq missing
<1>1. UNCHANGED <<scenario, parts>> /\ missing' \subseteq missing
  <2>1. CASE \E f \in BOOLEAN : Begin(f)
    BY <2>1 DEF Begin
  <2>2. CASE Job
    BY <2>2 DEF Job, NextGroup, CheckAlbum, CheckItem, Select, CannotSend, Prepare, StopSeen, Answered, NetworkError,
                TurnedAway, FloodWait, TooLarge, Refused, Confirm, ConfirmFails, Logged, LogFails
  <2>3. CASE RequestStop \/ Crash \/ \E m \in missing : Repair(m)
    BY <2>3 DEF RequestStop, Crash, Repair
  <2> QED BY <2>1, <2>2, <2>3 DEF Next
<1> QED BY <1>1 DEF Fixed, Msgs

LEMMA UsedStep ==
  ASSUME Fixed, Used, Next
  PROVE  Used'
<1>1. UNCHANGED scenario
  BY FixedStep
<1>2. CASE \E f \in BOOLEAN : Begin(f)
  <2>1. PICK f \in BOOLEAN : Begin(f)
    BY <1>2
  <2>2. scenario.limits \in [Limited -> Nat]
    BY Numbers DEF Fixed
  <2>3. /\ bounds["jobs"] < scenario.limits["jobs"]
        /\ f => bounds["forced"] < scenario.limits["forced"]
        /\ bounds' = [bounds EXCEPT !["jobs"] = @ + 1, !["forced"] = IF f THEN @ + 1 ELSE @]
    BY <2>1 DEF Begin
  <2>4. bounds' \in [Limited -> Nat]
    BY <2>3, Numbers DEF Used
  <2>5. /\ "jobs" \in Limited /\ "forced" \in Limited /\ "jobs" # "forced"
        /\ \A b \in Limited : /\ bounds[b] <= scenario.limits[b] /\ bounds[b] \in Nat
                            /\ scenario.limits[b] \in Nat
    BY <2>2, Numbers DEF Used
  <2>6. /\ bounds'["jobs"] = bounds["jobs"] + 1
        /\ bounds'["forced"] = IF f THEN bounds["forced"] + 1 ELSE bounds["forced"]
        /\ \A b \in Limited : b \notin {"jobs", "forced"} => bounds'[b] = bounds[b]
    BY <2>3, <2>5 DEF Used
  <2>7. bounds'["jobs"] <= scenario.limits["jobs"] /\ bounds'["forced"] <= scenario.limits["forced"]
    BY <2>3, <2>5, <2>6
  <2> QED BY <1>1, <2>4, <2>5, <2>6, <2>7 DEF Used
<1>3. CASE UNCHANGED bounds
  BY <1>1, <1>3 DEF Used
<1>4. CASE \E b \in Limited : Count(b)
  BY <1>1, <1>4, CountUsed
<1>5. CASE Job
  <2>1. Count("trouble") \/ UNCHANGED bounds
    BY <1>5 DEF Job, NextGroup, CheckAlbum, CheckItem, Select, CannotSend, Prepare, StopSeen, Answered, NetworkError,
                TurnedAway, FloodWait, TooLarge, Refused, Confirm, ConfirmFails, Logged, LogFails
  <2> QED BY <1>3, <1>4, <2>1, Numbers
<1>6. CASE RequestStop \/ Crash \/ \E m \in missing : Repair(m)
  BY <1>4, <1>6, Numbers DEF RequestStop, Crash, Repair
<1> QED BY <1>2, <1>5, <1>6 DEF Next

\* An answer's pairs.
LEMMA AnswerType ==
  ASSUME unit \in Seq(Msgs), NEW ids \in Answers, Complete(ids)
  PROVE  /\ DOMAIN ids = DOMAIN unit
         /\ [i \in DOMAIN ids |-> <<unit[i], ids[i]>>] \in Seq(Msgs \X Msgs)
<1>1. PICK n \in Nat : n = Len(unit) /\ DOMAIN unit = 1..n /\ \A i \in 1..n : unit[i] \in Msgs
  OBVIOUS
<1>2. PICK m \in Nat : ids \in [1..m -> Unit]
  BY <1>1 DEF Answers, SeqOf
<1>3. Unit \subseteq Msgs
  BY <1>1 DEF Unit, ToSet
<1>4. ids \in Seq(Unit) /\ Len(ids) = m /\ DOMAIN ids = 1..m
  BY <1>2
<1>5. m = n
  BY <1>1, <1>4 DEF Complete
<1> DEFINE a == [i \in 1..n |-> <<unit[i], ids[i]>>]
<1>6. \A i \in 1..n : <<unit[i], ids[i]>> \in Msgs \X Msgs
  BY <1>1, <1>2, <1>3, <1>5
<1>7. a \in Seq(Msgs \X Msgs)
  BY <1>1, <1>6
<1> QED BY <1>1, <1>4, <1>5, <1>7

\* The control of a step, and the request it is about.
LEMMA ControlStep ==
  ASSUME Types, Next
  PROVE  Request' /\ Where' /\ Flags'
<1>1. Fixed /\ Records /\ Flags /\ Request /\ Where /\ Msgs' = Msgs /\ UNCHANGED <<scenario, parts>>
  BY FixedStep DEF Types
<1>2. ASSUME UNCHANGED <<guard, via, rounds, tries, part, answer>>,
             pc' \in {"album", "select"} => pc \in {"album", "select"}
      PROVE  Request'
  BY <1>1, <1>2 DEF Request
<1>3. ASSUME UNCHANGED <<groups, todo, unit>>, pc' \in Labels PROVE Where'
  BY <1>1, <1>3 DEF Where
<1>4. ASSUME UNCHANGED <<force, stop, ended>> PROVE Flags'
  BY <1>1, <1>4 DEF Flags
<1>5. ASSUME NEW sender \in {"bot", "user"}, NEW round \in 0..BotRounds, Resent(sender, round),
             sender = "bot" => round < BotRounds, UNCHANGED force, pc = "request"
      PROVE  Request' /\ Where' /\ Flags'
  <2>1. Request'
    BY <1>1, <1>5, Numbers DEF Request, Resent
  <2> QED BY <1>1, <1>3, <1>4, <1>5, <2>1 DEF Resent, InUnit, Where
<1>6. Senders \subseteq {"bot", "user"}
  BY DEF Senders
<1>7. CASE \E f \in BOOLEAN : Begin(f)
  <2>1. PICK f \in BOOLEAN : Begin(f)
    BY <1>7
  <2>2. Grouped \in Seq(Seq(Msgs)) /\ <<>> \in Seq(Msgs)
    BY <1>1, ExportGroups DEF Fixed
  <2>3. Request'
    BY <1>2, <2>1 DEF Begin
  <2> QED BY <1>1, <2>1, <2>2, <2>3 DEF Begin, Where, Flags, Labels
<1>8. CASE NextGroup
  <2>1. CASE stop
    BY <1>1, <1>8, <2>1, EndTypes DEF NextGroup
  <2>2. CASE ~stop /\ groups = <<>>
    BY <1>1, <1>8, <2>2, EndTypes DEF NextGroup
  <2>3. CASE ~stop /\ groups # <<>>
    <3>1. Fresh(Head(groups))
      BY <1>8, <2>3 DEF NextGroup
    <3>2. Request' /\ unit' = Head(groups)
      BY <3>1, FreshRequest
    <3>3. Head(groups) \in Seq(Msgs) /\ Tail(groups) \in Seq(Seq(Msgs)) /\ <<>> \in Seq(Msgs)
      BY <1>1, <2>3 DEF Where
    <3>4. pc' \in {"album", "item"} /\ todo' \in {<<>>, Head(groups)} /\ groups' = Tail(groups)
      BY <1>8, <2>3 DEF NextGroup
    <3>5. Flags'
      BY <1>4, <1>8, <2>3 DEF NextGroup
    <3> QED BY <1>1, <3>2, <3>3, <3>4, <3>5 DEF Where, Labels
  <2> QED BY <2>1, <2>2, <2>3
<1>9. CASE CheckAlbum
  <2>1. CASE Onward
    BY <1>1, <1>9, <2>1, OnwardTypes DEF CheckAlbum
  <2>2. CASE pc' = "item" /\ todo' = unit /\ Fresh(<<>>) /\ UNCHANGED <<groups, stop, ended>>
    <3>1. Request' /\ unit' = <<>> /\ <<>> \in Seq(Msgs)
      BY <2>2, FreshRequest
    <3> QED BY <1>1, <1>4, <1>9, <2>2, <3>1 DEF CheckAlbum, Where, Labels
  <2>3. CASE pc' = "select" /\ UNCHANGED <<groups, todo, stop, ended, sending>>
    BY <1>2, <1>3, <1>4, <1>9, <2>3 DEF CheckAlbum, Labels
  <2> QED BY <1>9, <2>1, <2>2, <2>3 DEF CheckAlbum
<1>10. CASE CheckItem
  <2>1. CASE todo = <<>>
    BY <1>2, <1>3, <1>4, <1>10, <2>1 DEF CheckItem, Labels
  <2>2. CASE todo # <<>> /\ stop
    BY <1>1, <1>10, <2>2, EndTypes DEF CheckItem
  <2>3. CASE todo # <<>> /\ ~stop /\ Verdict(Head(todo)) = "send"
    <3>1. Fresh(<<Head(todo)>>) /\ pc' = "select" /\ UNCHANGED <<stop, groups, todo, ended, force>>
      BY <1>10, <2>3 DEF CheckItem
    <3>2. Request' /\ unit' = <<Head(todo)>>
      BY <3>1, FreshRequest
    <3>3. <<Head(todo)>> \in Seq(Msgs)
      BY <1>1, <2>3 DEF Where
    <3> QED BY <1>1, <1>4, <3>1, <3>2, <3>3 DEF Where, Labels
  <2>4. CASE todo # <<>> /\ ~stop /\ Verdict(Head(todo)) # "send"
    BY <1>1, <1>10, <2>4, OnwardTypes DEF CheckItem
  <2> QED BY <2>1, <2>2, <2>3, <2>4
<1>11. CASE Select
  BY <1>1, <1>3, <1>4, <1>6, <1>11, Numbers DEF Select, InUnit, Request, Labels
<1>12. CASE CannotSend
  BY <1>1, <1>12, FailsTypes DEF CannotSend
<1>13. CASE Prepare
  <2>1. Request'
    BY <1>1, <1>13 DEF Prepare, Request
  <2> QED BY <1>3, <1>4, <1>13, <2>1 DEF Prepare, InUnit, Labels
<1>14. CASE StopSeen
  BY <1>1, <1>14, EndTypes DEF StopSeen
<1>15. CASE Answered
  <2>1. PICK ids \in Answers :
       \/ /\ Complete(ids) /\ MoreParts
          /\ part' = part + 1 /\ rounds' = 0 /\ tries' = 0
          /\ InUnit
          /\ UNCHANGED <<pc, unit, guard, via, answer, receipt>>
       \/ /\ Complete(ids) /\ ~MoreParts
          /\ pc' = "confirm" /\ answer' = [i \in DOMAIN ids |-> <<unit[i], ids[i]>>]
          /\ InUnit
          /\ UNCHANGED <<unit, guard, via, rounds, tries, part, receipt>>
       \/ ~Complete(ids) /\ Doubt
       \/ ~Complete(ids) /\ UNCHANGED receipt /\ Fails(FALSE)
       \/ ~Complete(ids) /\ UNCHANGED <<receipt, report>> /\ End("raised")
    BY <1>15 DEF Answered
  <2>2. UNCHANGED force
    BY <1>15 DEF Answered
  <2>3. CASE /\ Complete(ids) /\ MoreParts
             /\ part' = part + 1 /\ rounds' = 0 /\ tries' = 0
             /\ InUnit
             /\ UNCHANGED <<pc, unit, guard, via, answer, receipt>>
    <3>1. part' \in DOMAIN parts
      <4>1. Len(parts) \in Nat /\ DOMAIN parts = 1..Len(parts)
        BY <1>1 DEF Fixed
      <4>2. part \in Nat /\ part >= 1 /\ part < Len(parts)
        BY <1>1, <2>3, <4>1 DEF MoreParts, Request
      <4> QED BY <2>3, <4>1, <4>2
    <3>2. Request'
      BY <1>1, <2>3, <3>1, Numbers DEF Request
    <3> QED BY <1>1, <1>3, <1>4, <2>2, <2>3, <3>2 DEF InUnit, Where
  <2>4. CASE /\ Complete(ids) /\ ~MoreParts
             /\ pc' = "confirm" /\ answer' = [i \in DOMAIN ids |-> <<unit[i], ids[i]>>]
             /\ InUnit
             /\ UNCHANGED <<unit, guard, via, rounds, tries, part, receipt>>
    <3>1. answer' \in Seq(Msgs \X Msgs)
      BY <1>1, <2>4, AnswerType DEF Where
    <3>2. Request'
      BY <1>1, <2>4, <3>1 DEF Request
    <3> QED BY <1>3, <1>4, <2>2, <2>4, <3>2 DEF InUnit, Labels
  <2>5. CASE Doubt \/ Fails(FALSE) \/ End("raised")
    BY <1>1, <2>2, <2>5, OnwardTypes, FailsTypes, EndTypes DEF Doubt
  <2> QED BY <2>1, <2>3, <2>4, <2>5
<1>16. CASE NetworkError
  <2>1. CASE tries < NetRetries
    <3>1. Request'
      BY <1>1, <1>16, <2>1, Numbers DEF NetworkError, Request
    <3> QED BY <1>1, <1>3, <1>4, <1>16, <2>1, <3>1 DEF NetworkError, InUnit, Where
  <2>2. CASE ~(tries < NetRetries)
    BY <1>1, <1>16, <2>2, FailsTypes DEF NetworkError
  <2> QED BY <2>1, <2>2
<1>17. CASE TurnedAway
  <2>1. pc = "request" /\ via = "bot" /\ UNCHANGED force /\ rounds \in Nat /\ rounds < BotRounds
        /\ rounds + 1 \in 0..BotRounds
    BY <1>1, <1>17, Numbers DEF TurnedAway, Request
  <2>2. \/ \E sender \in Senders : (sender = "user" \/ rounds + 1 < BotRounds) /\ Resent(sender, rounds + 1)
        \/ Resent("user", rounds + 1)
        \/ Fails(FALSE) \/ Doubt
    BY <1>17 DEF TurnedAway
  <2>3. CASE \E sender \in Senders : (sender = "user" \/ rounds + 1 < BotRounds) /\ Resent(sender, rounds + 1)
    <3>1. PICK sender \in Senders : (sender = "user" \/ rounds + 1 < BotRounds) /\ Resent(sender, rounds + 1)
      BY <2>3
    <3> QED BY <1>5, <1>6, <2>1, <3>1
  <2>4. CASE Resent("user", rounds + 1)
    BY <1>5, <2>1, <2>4
  <2>5. CASE Fails(FALSE) \/ Doubt
    BY <1>1, <2>1, <2>5, FailsTypes, OnwardTypes DEF Doubt
  <2> QED BY <2>2, <2>3, <2>4, <2>5
<1>18. CASE FloodWait \/ TooLarge
  <2>1. pc = "request" /\ Resent("user", rounds) /\ UNCHANGED force /\ rounds \in 0..BotRounds
    BY <1>1, <1>18 DEF FloodWait, TooLarge, Request
  <2> QED BY <1>5, <2>1
<1>19. CASE Refused
  BY <1>1, <1>19, FailsTypes DEF Refused
<1>20. CASE Confirm
  <2>1. Tail(answer) \in Seq(Msgs \X Msgs)
    BY <1>1, <1>20 DEF Confirm, Request
  <2>2. Request'
    BY <1>1, <1>20, <2>1 DEF Confirm, Request
  <2> QED BY <1>1, <1>3, <1>4, <1>20, <2>2 DEF Confirm, InUnit, Where
<1>21. CASE ConfirmFails
  BY <1>1, <1>21, EndTypes DEF ConfirmFails
<1>22. CASE Logged
  BY <1>1, <1>22, OnwardTypes DEF Logged
<1>23. CASE LogFails
  BY <1>1, <1>23, OnwardTypes, EndTypes DEF LogFails
<1>24. CASE RequestStop
  BY <1>1, <1>2, <1>3, <1>24 DEF RequestStop, Flags, Where
<1>25. CASE Crash
  BY <1>1, <1>25, EndTypes DEF Crash
<1>26. CASE \E m \in missing : Repair(m)
  BY <1>1, <1>2, <1>3, <1>4, <1>26 DEF Repair, Where
<1> QED BY <1>7, <1>8, <1>9, <1>10, <1>11, <1>12, <1>13, <1>14, <1>15, <1>16, <1>17, <1>18, <1>19, <1>20,
           <1>21, <1>22, <1>23, <1>24, <1>25, <1>26 DEF Next, Job

LEMMA RecordsStep ==
  ASSUME Types, Next
  PROVE  Records'
<1>1. Fixed /\ Records /\ Request /\ Where /\ Msgs' = Msgs
  BY FixedStep DEF Types
<1>2. ASSUME UNCHANGED <<database, copies, extra>>,
             report' = report \/ \E S : \E r \in Results : report' = Recorded(S, r)
      PROVE  Records'
  <2>1. report' \in [Msgs -> SUBSET Results]
    BY <1>1, <1>2, RecordedType DEF Records
  <2> QED BY <1>1, <1>2, <2>1 DEF Records
<1>3. ASSUME NEW fatal, Fails(fatal)
      PROVE  report' \in [Msgs -> SUBSET Results]
  BY <1>1, <1>3, RecordedType DEF Fails, Records, Results
<1>4. ASSUME NEW S
      PROVE  [m \in Msgs |-> IF m \in S THEN "sending" ELSE receipt[m]] \in [Msgs -> Receipts]
  BY <1>1 DEF Records, Receipts
<1>5. Results = {"sent_mapped", "sent_unmapped", "skipped", "failed"}
  BY DEF Results
<1>6. CASE \E f \in BOOLEAN : Begin(f)
  <2>1. PICK f \in BOOLEAN : Begin(f)
    BY <1>6
  <2>2. extra' \in [Msgs -> Nat]
    BY <1>1, <2>1, AddedType DEF Begin, Records
  <2>3. report' \in [Msgs -> SUBSET Results]
    BY <2>1 DEF Begin
  <2> QED BY <1>1, <2>1, <2>2, <2>3 DEF Begin, Records
<1>7. CASE NextGroup \/ Select \/ ConfirmFails \/ RequestStop \/ \E m \in missing : Repair(m)
  BY <1>2, <1>7 DEF NextGroup, Select, InUnit, ConfirmFails, RequestStop, Repair
<1>8. CASE CheckAlbum
  <2>1. extra' \in [Msgs -> Nat]
    <3>1. extra' = extra \/ \E S : extra' = Added(extra, S)
      BY <1>8 DEF CheckAlbum
    <3> QED BY <1>1, <3>1, AddedType DEF Records
  <2>2. report' \in [Msgs -> SUBSET Results]
    BY <1>1, <1>5, <1>8, RecordedType DEF CheckAlbum, Records
  <2> QED BY <1>1, <1>8, <2>1, <2>2 DEF CheckAlbum, Records
<1>9. CASE CheckItem
  <2>1. \A m : Verdict(m) \in {"ignored", "skipped", "sent_unmapped", "failed", "send"}
    BY DEF Verdict
  <2>2. report' = report \/ \E S : \E r \in Results : report' = Recorded(S, r)
    BY <1>5, <1>9, <2>1 DEF CheckItem
  <2> QED BY <1>2, <1>9, <2>2 DEF CheckItem
<1>10. CASE CannotSend
  <2>1. receipt' \in [Msgs -> Receipts] /\ report' \in [Msgs -> SUBSET Results]
    BY <1>1, <1>3, <1>10 DEF CannotSend, Records, Receipts
  <2> QED BY <1>1, <1>10, <2>1 DEF CannotSend, Records
<1>11. CASE Prepare
  BY <1>1, <1>4, <1>11 DEF Prepare, InUnit, Records
<1>12. CASE StopSeen \/ Crash
  <2>1. copies' \in [Msgs -> Nat]
    BY <1>1, <1>12, AddedType DEF StopSeen, Crash, Records
  <2> QED BY <1>1, <1>12, <2>1 DEF StopSeen, Crash, Records
<1>13. ASSUME Doubt
       PROVE  receipt' \in [Msgs -> Receipts] /\ report' \in [Msgs -> SUBSET Results]
  BY <1>1, <1>5, <1>13, MarkedType, RecordedType DEF Doubt
<1>14. CASE Answered
  <2>1. copies' \in [Msgs -> Nat]
    BY <1>1, <1>14, AddedType DEF Answered, Carried, Records
  <2>2. receipt' \in [Msgs -> Receipts] /\ report' \in [Msgs -> SUBSET Results]
    <3>1. \/ UNCHANGED <<receipt, report>>
          \/ Doubt \/ (UNCHANGED receipt /\ Fails(FALSE))
      BY <1>14 DEF Answered, InUnit
    <3> QED BY <1>1, <1>3, <1>13, <3>1 DEF Records
  <2> QED BY <1>1, <1>14, <2>1, <2>2 DEF Answered, Records
<1>15. CASE NetworkError
  <2>1. copies' \in [Msgs -> Nat] /\ extra' \in [Msgs -> Nat]
    BY <1>1, <1>15, AddedType DEF NetworkError, Records
  <2>2. report' \in [Msgs -> SUBSET Results]
    BY <1>1, <1>3, <1>15 DEF NetworkError, InUnit, Records
  <2> QED BY <1>1, <1>15, <2>1, <2>2 DEF NetworkError, Records
<1>16. CASE TurnedAway
  <2>1. receipt' \in [Msgs -> Receipts] /\ report' \in [Msgs -> SUBSET Results]
    <3>1. \/ UNCHANGED <<receipt, report>>
          \/ Doubt \/ (UNCHANGED receipt /\ Fails(FALSE))
      BY <1>16 DEF TurnedAway, Resent, InUnit
    <3> QED BY <1>1, <1>3, <1>13, <3>1 DEF Records
  <2> QED BY <1>1, <1>16, <2>1 DEF TurnedAway, Records
<1>17. CASE FloodWait \/ TooLarge
  BY <1>2, <1>17 DEF FloodWait, TooLarge, Resent, InUnit
<1>18. CASE Refused
  BY <1>1, <1>3, <1>18 DEF Refused, Records
<1>19. CASE Confirm
  <2>1. answer # <<>> /\ answer \in Seq(Msgs \X Msgs)
    BY <1>1, <1>19 DEF Confirm, Request
  <2>2. Head(answer) \in Msgs \X Msgs
    BY <2>1
  <2>3. receipt' \in [Msgs -> Receipts] /\ mapping' \in [Msgs -> Msgs \union {0}]
    BY <1>1, <1>19, <2>2 DEF Confirm, Records, Receipts
  <2> QED BY <1>1, <1>19, <2>3 DEF Confirm, InUnit, Records
<1>20. CASE Logged
  BY <1>2, <1>5, <1>20 DEF Logged
<1>21. CASE LogFails
  <2>1. \A m \in Msgs : report[m] \in SUBSET Results /\ report[m] \union {"sent_mapped", "failed"} \in SUBSET Results
    BY <1>1 DEF Records, Results
  <2>2. \/ UNCHANGED report
        \/ report' = [m \in Msgs |-> IF m \in Unit THEN report[m] \union {"sent_mapped", "failed"} ELSE report[m]]
    BY <1>21 DEF LogFails
  <2>3. report' \in [Msgs -> SUBSET Results]
    BY <1>1, <2>1, <2>2 DEF Records
  <2> QED BY <1>1, <1>21, <2>3 DEF LogFails, Records
<1> QED BY <1>6, <1>7, <1>8, <1>9, <1>10, <1>11, <1>12, <1>14, <1>15, <1>16, <1>17, <1>18, <1>19, <1>20,
           <1>21 DEF Next, Job

LEMMA TypesStep ==
  ASSUME Types, Next
  PROVE  Types'
BY FixedStep, UsedStep, ControlStep, RecordsStep DEF Types

LEMMA TypesInit ==
  ASSUME Init
  PROVE  Types
<1>1. Fixed
  <2>1. scenario \in Scenarios /\ parts = SplitText(scenario.text) /\ missing = scenario.missing
    BY DEF Init
  <2> QED BY <2>1, SplitSound, Numbers DEF Fixed, Msgs
<1>2. Where /\ Flags
  <2>1. <<>> \in Seq(Seq(Msgs)) /\ <<>> \in Seq(Msgs)
    OBVIOUS
  <2> QED BY <2>1 DEF Init, Where, Flags, Labels
<1>3. Records
  BY DEF Init, Records, Receipts
<1>4. Request
  <2>1. <<>> \in Seq(Msgs \X Msgs)
    OBVIOUS
  <2> QED BY <2>1, Numbers DEF Init, Request
<1>5. Used
  <2>1. scenario.limits \in [Limited -> Nat] /\ bounds = [b \in Limited |-> 0]
    BY <1>1, Numbers DEF Init, Fixed
  <2> QED BY <2>1 DEF Used
<1> QED BY <1>1, <1>2, <1>3, <1>4, <1>5 DEF Types
-----------------------------------------------------------------------------
(* The walk through the export.                                             *)

Sending == {"select", "prepare", "request", "confirm"}

\* What the running job has not finished, and what it has not begun to send.
Left  == Members(groups) \union ToSet(todo) \union Unit
Ahead == IF pc \in Sending THEN (Members(groups) \union ToSet(todo)) \ Unit ELSE Left

OfExport(s) == \E g \in DOMAIN Grouped : s = Grouped[g]

\* Where the job is in the export: the groups that are left come after what it
\* works on, and a delivery is a whole album, with every file there, or the first
\* of the messages that go one by one.
Walk ==
  /\ InOrder(groups) /\ Sorted(todo) /\ Sorted(unit)
  /\ Before(ToSet(todo) \union Unit, Members(groups))
  /\ \A g \in DOMAIN groups : OfExport(groups[g])
  /\ pc \in {"idle", "next"} => todo = <<>> /\ unit = <<>>
  /\ pc = "idle" => groups = <<>>
  /\ pc = "album" => todo = <<>> /\ OfExport(unit) /\ Len(unit) > 1
  /\ pc = "item" => Unit \subseteq ToSet(todo)
  /\ pc \in Sending => IF todo = <<>> THEN OfExport(unit) /\ Len(unit) > 1 /\ Unit \intersect missing = {}
                       ELSE unit = <<Head(todo)>> /\ Fate(Head(todo)) = "wanted"

LEMMA Nothing ==
  /\ DOMAIN <<>> = {} /\ ToSet(<<>>) = {} /\ Members(<<>>) = {}
  /\ Sorted(<<>>) /\ InOrder(<<>>)
<1>1. DOMAIN <<>> = {}
  OBVIOUS
<1> QED BY <1>1 DEF ToSet, Members, Sorted, InOrder

\* The first place of a sequence and the others.
LEMMA FirstRest ==
  ASSUME NEW N \in Nat, NEW s \in Seq(1..N), s # <<>>, Sorted(s)
  PROVE  /\ Head(s) \in 1..N /\ Head(s) = s[1] /\ Tail(s) \in Seq(1..N) /\ Sorted(Tail(s))
         /\ ToSet(s) = {Head(s)} \union ToSet(Tail(s))
         /\ Head(s) \notin ToSet(Tail(s))
<1> DEFINE n == Len(s)
           t == Tail(s)
<1>1. n \in Nat /\ n >= 1 /\ DOMAIN s = 1..n /\ \A i \in 1..n : s[i] \in 1..N
  <2>1. Len(s) \in Nat /\ DOMAIN s = 1..Len(s) /\ \A i \in 1..Len(s) : s[i] \in 1..N
    OBVIOUS
  <2>2. Len(s) # 0
    OBVIOUS
  <2> QED BY <2>1, <2>2
<1>2. /\ Head(s) = s[1] /\ t \in Seq(1..N) /\ DOMAIN t = 1..(n - 1)
      /\ \A i \in 1..(n - 1) : t[i] = s[i + 1]
  BY <1>1
<1> HIDE DEF t, n
<1>3. \A i \in DOMAIN t : i + 1 \in DOMAIN s /\ t[i] = s[i + 1] /\ i \in Nat /\ 1 < i + 1
  BY SMTT(30), <1>1, <1>2
<1>4. Sorted(t)
  BY <1>3 DEF Sorted
<1>5. \A i \in DOMAIN s : i = 1 \/ (i - 1 \in DOMAIN t /\ s[i] = t[i - 1])
  BY SMTT(30), <1>1, <1>2
<1>6. ToSet(s) = {s[1]} \union ToSet(t)
  <2>1. ToSet(s) \subseteq {s[1]} \union ToSet(t)
    BY <1>5 DEF ToSet
  <2>2. ToSet(t) \subseteq ToSet(s)
    BY <1>3 DEF ToSet
  <2>3. 1 \in DOMAIN s
    BY <1>1
  <2>4. s[1] \in ToSet(s)
    BY <2>3 DEF ToSet
  <2> QED BY <2>1, <2>2, <2>4
<1>7. s[1] \notin ToSet(t)
  <2> SUFFICES ASSUME NEW i \in DOMAIN t
               PROVE  s[1] # t[i]
    BY DEF ToSet
  <2>1. 1 \in DOMAIN s /\ i + 1 \in DOMAIN s /\ 1 < i + 1 /\ s[1] \in 1..N /\ s[i + 1] \in 1..N
    BY <1>1, <1>3
  <2>2. s[1] < s[i + 1]
    BY <2>1 DEF Sorted
  <2>3. s[1] # s[i + 1]
    BY <2>1, <2>2
  <2> QED BY <1>3, <2>3
<1> QED BY <1>1, <1>2, <1>4, <1>6, <1>7 DEF t

\* The first group and the others.
LEMMA FirstGroup ==
  ASSUME NEW N \in Nat, NEW gs \in Seq(Seq(1..N)), InOrder(gs), gs # <<>>
  PROVE  /\ Head(gs) \in Seq(1..N) /\ Sorted(Head(gs))
         /\ Tail(gs) \in Seq(Seq(1..N)) /\ InOrder(Tail(gs))
         /\ Members(gs) = ToSet(Head(gs)) \union Members(Tail(gs))
         /\ Before(ToSet(Head(gs)), Members(Tail(gs)))
         /\ \A g \in DOMAIN Tail(gs) : \E h \in DOMAIN gs : Tail(gs)[g] = gs[h]
         /\ \E h \in DOMAIN gs : Head(gs) = gs[h]
<1> DEFINE n == Len(gs)
<1>1. n \in Nat /\ n >= 1 /\ DOMAIN gs = 1..n /\ \A i \in 1..n : gs[i] \in Seq(1..N)
  <2>1. Len(gs) \in Nat /\ DOMAIN gs = 1..Len(gs) /\ \A i \in 1..Len(gs) : gs[i] \in Seq(1..N)
    OBVIOUS
  <2>2. Len(gs) # 0
    OBVIOUS
  <2> QED BY <2>1, <2>2
<1> DEFINE t == Tail(gs)
<1>2. /\ Head(gs) = gs[1] /\ t \in Seq(Seq(1..N)) /\ 1 \in DOMAIN gs
      /\ DOMAIN t = 1..(n - 1)
      /\ \A g \in 1..(n - 1) : t[g] = gs[g + 1]
  BY <1>1
<1> HIDE DEF t, n
<1>3. \A g \in DOMAIN t : g + 1 \in DOMAIN gs /\ t[g] = gs[g + 1] /\ 1 < g + 1 /\ g \in Nat
  BY SMTT(30), <1>1, <1>2
<1>4. Sorted(gs[1])
  BY <1>2 DEF InOrder, Sorted
<1>5. InOrder(t)
  <2> SUFFICES ASSUME NEW i \in DOMAIN t, NEW j \in DOMAIN t, NEW k \in DOMAIN t[i], NEW l \in DOMAIN t[j],
                      i < j \/ (i = j /\ k < l)
               PROVE  t[i][k] < t[j][l]
    BY DEF InOrder
  <2>1. CASE i < j
    <3>1. i + 1 < j + 1
      BY <1>3, <2>1
    <3> QED BY <1>3, <3>1 DEF InOrder
  <2>2. CASE i = j /\ k < l
    BY <1>3, <2>2 DEF InOrder
  <2> QED BY <2>1, <2>2
<1>6. Members(gs) = ToSet(gs[1]) \union Members(t)
  <2>1. \A g \in DOMAIN gs : g = 1 \/ (g - 1 \in DOMAIN t /\ gs[g] = t[g - 1])
    BY <1>1, <1>2
  <2>2. Members(gs) \subseteq ToSet(gs[1]) \union Members(t)
    BY <2>1 DEF Members
  <2>3. Members(t) \subseteq Members(gs)
    BY <1>3 DEF Members
  <2>4. ToSet(gs[1]) \subseteq Members(gs)
    BY <1>2 DEF Members
  <2> QED BY <2>2, <2>3, <2>4
<1>7. Before(ToSet(gs[1]), Members(t))
  <2> SUFFICES ASSUME NEW k \in DOMAIN gs[1], NEW g \in DOMAIN t, NEW l \in DOMAIN t[g]
               PROVE  gs[1][k] < t[g][l]
    BY DEF Before, Members, ToSet
  <2> QED BY <1>2, <1>3 DEF InOrder
<1> QED BY <1>1, <1>2, <1>3, <1>4, <1>5, <1>6, <1>7 DEF t

LEMMA EndWalk ==
  ASSUME NEW how, End(how)
  PROVE  Walk'
<1>1. pc' = "idle" /\ groups' = <<>> /\ todo' = <<>> /\ unit' = <<>>
  BY DEF End, Fresh
<1>2. Unit' = {}
  BY <1>1, Nothing DEF Unit
<1>3. pc' \notin Sending
  BY <1>1 DEF Sending
<1> QED BY <1>1, <1>2, <1>3, Nothing DEF Walk, Before

LEMMA OnwardWalk ==
  ASSUME Types, Walk, Onward, UNCHANGED scenario
  PROVE  Walk'
<1>1. /\ groups' = groups /\ unit' = <<>>
      /\ (todo # <<>> /\ pc' = "item" /\ todo' = Tail(todo)) \/ (todo = <<>> /\ pc' = "next" /\ todo' = <<>>)
  BY DEF Onward, Fresh, Single
<1>2. Unit' = {} /\ pc' \notin Sending /\ pc' \notin {"idle", "album"}
  BY <1>1, Nothing DEF Unit, Sending
<1>3. Sorted(todo') /\ ToSet(todo') \subseteq ToSet(todo)
  <2>1. PICK N \in Nat : Msgs = 1..N
    BY ExportGroups DEF Types, Fixed
  <2>2. todo # <<>> => Sorted(Tail(todo)) /\ ToSet(Tail(todo)) \subseteq ToSet(todo)
    BY <2>1, FirstRest DEF Types, Where, Walk
  <2> QED BY <1>1, <2>2, Nothing
<1>4. \A s : OfExport(s)' = OfExport(s)
  BY DEF OfExport, Grouped
<1> QED BY <1>1, <1>2, <1>3, <1>4, Nothing DEF Walk, Before

LEMMA StayWalk ==
  ASSUME Types, Walk, UNCHANGED <<scenario, groups, todo, unit>>, missing' \subseteq missing,
         pc' = pc \/ (pc \in Sending /\ pc' \in Sending)
  PROVE  Walk'
<1>1. UNCHANGED Unit /\ \A s : OfExport(s)' = OfExport(s)
  BY DEF Unit, OfExport, Grouped
<1>2. pc' \in Sending <=> pc \in Sending
  OBVIOUS
<1>3. pc' = pc \/ (pc' \notin {"idle", "next", "album", "item"} /\ pc \notin {"idle", "next", "album", "item"})
  BY DEF Sending
<1>4. \A m : Fate(m)' = Fate(m)
  BY DEF Fate
<1> QED BY <1>1, <1>2, <1>3, <1>4 DEF Walk

\* The steps of a delivery.
Deliver ==
  \/ Select \/ CannotSend \/ Prepare \/ StopSeen
  \/ Answered \/ NetworkError \/ TurnedAway \/ FloodWait \/ TooLarge \/ Refused
  \/ Confirm \/ ConfirmFails \/ Logged \/ LogFails

LEMMA Delivers ==
  ASSUME Deliver
  PROVE  /\ pc \in Sending /\ UNCHANGED <<scenario, parts, missing, force>>
         /\ \/ End("stopped") \/ End("raised")
            \/ Onward
            \/ UNCHANGED <<groups, todo, unit, stop, ended, report>> /\ pc' \in Sending
<1>1. CASE Select \/ Prepare
  BY <1>1 DEF Select, Prepare, InUnit, Sending
<1>2. CASE CannotSend \/ Refused
  BY <1>2 DEF CannotSend, Refused, Fails, Sending
<1>3. CASE StopSeen \/ ConfirmFails
  BY <1>3 DEF StopSeen, ConfirmFails, Sending
<1>4. CASE Answered
  BY <1>4 DEF Answered, InUnit, Doubt, Fails, Sending
<1>5. CASE NetworkError
  BY <1>5 DEF NetworkError, InUnit, Fails, Sending
<1>6. CASE TurnedAway
  BY <1>6 DEF TurnedAway, Resent, InUnit, Doubt, Fails, Sending
<1>7. CASE FloodWait \/ TooLarge
  BY <1>7 DEF FloodWait, TooLarge, Resent, InUnit, Sending
<1>8. CASE Confirm \/ Logged \/ LogFails
  BY <1>8 DEF Confirm, Logged, LogFails, InUnit, Sending
<1> QED BY <1>1, <1>2, <1>3, <1>4, <1>5, <1>6, <1>7, <1>8 DEF Deliver

LEMMA WalkStep ==
  ASSUME Types, Walk, Next
  PROVE  Walk'
<1>1. UNCHANGED scenario /\ Msgs' = Msgs /\ missing' \subseteq missing
  BY FixedStep DEF Types
<1>2. PICK N \in Nat : Msgs = 1..N
  BY ExportGroups DEF Types, Fixed
<1>3. groups \in Seq(Seq(1..N)) /\ todo \in Seq(1..N) /\ unit \in Seq(1..N)
  BY <1>2 DEF Types, Where
<1>4. \A s : OfExport(s)' = OfExport(s)
  BY <1>1 DEF OfExport, Grouped
<1>5. CASE \E f \in BOOLEAN : Begin(f)
  <2>1. pc = "idle" /\ pc' = "next" /\ groups' = Grouped /\ todo' = <<>> /\ unit' = unit
    BY <1>5 DEF Begin
  <2>2. unit' = <<>> /\ Unit' = {} /\ pc' \notin Sending
    BY <2>1, Nothing DEF Walk, Unit, Sending
  <2>3. InOrder(Grouped) /\ \A g \in DOMAIN Grouped : OfExport(Grouped[g])
    BY ExportGroups DEF Types, Fixed, OfExport
  <2> QED BY <1>4, <2>1, <2>2, <2>3, Nothing DEF Walk, Before
<1>6. CASE NextGroup
  <2>1. CASE stop \/ groups = <<>>
    BY <1>6, <2>1, EndWalk DEF NextGroup
  <2>2. CASE ~stop /\ groups # <<>>
    <3>1. /\ pc = "next" /\ unit' = Head(groups) /\ groups' = Tail(groups)
          /\ \/ Len(Head(groups)) > 1 /\ pc' = "album" /\ todo' = <<>>
             \/ pc' = "item" /\ todo' = Head(groups)
      BY <1>6, <2>2 DEF NextGroup, Fresh
    <3>2. /\ Sorted(Head(groups)) /\ InOrder(Tail(groups))
          /\ Before(ToSet(Head(groups)), Members(Tail(groups)))
          /\ \A g \in DOMAIN Tail(groups) : \E h \in DOMAIN groups : Tail(groups)[g] = groups[h]
          /\ \E h \in DOMAIN groups : Head(groups) = groups[h]
      BY <1>3, <2>2, FirstGroup DEF Walk
    <3>3. OfExport(Head(groups)) /\ \A g \in DOMAIN Tail(groups) : OfExport(Tail(groups)[g])
      BY <3>2 DEF Walk
    <3>4. Unit' = ToSet(Head(groups))
      BY <3>1 DEF Unit
    <3>5. Before(ToSet(todo') \union Unit', Members(groups'))
      BY <3>1, <3>2, <3>4, Nothing DEF Before
    <3>6. pc' \notin Sending
      BY <3>1 DEF Sending
    <3> QED BY <1>4, <3>1, <3>2, <3>3, <3>4, <3>5, <3>6, Nothing DEF Walk
  <2> QED BY <2>1, <2>2
<1>7. CASE CheckAlbum
  <2>1. pc = "album" /\ todo = <<>> /\ OfExport(unit) /\ Len(unit) > 1 /\ missing' = missing
    BY <1>7 DEF CheckAlbum, Walk
  <2>2. CASE Onward
    BY <1>1, <2>2, OnwardWalk
  <2>3. CASE pc' = "item" /\ todo' = unit /\ Fresh(<<>>) /\ UNCHANGED groups
    <3>1. unit' = <<>> /\ Unit' = {} /\ pc' \notin Sending /\ ToSet(todo') = Unit
      BY <2>3, Nothing DEF Fresh, Unit, Sending
    <3> QED BY <1>4, <2>3, <3>1, Nothing DEF Walk, Before
  <2>4. CASE pc' = "select" /\ UNCHANGED <<groups, todo, unit>> /\ Unit \intersect missing = {}
    <3>1. UNCHANGED Unit /\ pc' \in Sending
      BY <2>4 DEF Unit, Sending
    <3> QED BY <1>4, <2>1, <2>4, <3>1 DEF Walk
  <2> QED BY <1>7, <2>2, <2>3, <2>4 DEF CheckAlbum
<1>8. CASE CheckItem
  <2>1. pc = "item"
    BY <1>8 DEF CheckItem
  <2>2. CASE todo = <<>>
    <3>1. pc' = "next" /\ UNCHANGED <<groups, todo, unit>>
      BY <1>8, <2>2 DEF CheckItem
    <3>2. Unit = {} /\ unit = <<>>
      <4>1. Unit = {}
        BY <2>1, <2>2, Nothing DEF Walk
      <4>2. unit # <<>> => 1 \in DOMAIN unit
        BY <1>3
      <4> QED BY <4>1, <4>2 DEF Unit, ToSet
    <3>3. UNCHANGED Unit /\ pc' \notin Sending
      BY <3>1 DEF Unit, Sending
    <3> QED BY <1>4, <2>2, <3>1, <3>2, <3>3, Nothing DEF Walk
  <2>3. CASE todo # <<>> /\ stop
    BY <1>8, <2>3, EndWalk DEF CheckItem
  <2>4. CASE todo # <<>> /\ ~stop /\ Verdict(Head(todo)) = "send"
    <3>1. pc' = "select" /\ unit' = <<Head(todo)>> /\ UNCHANGED <<groups, todo, missing>>
      BY <1>8, <2>4 DEF CheckItem, Fresh
    <3>2. Fate(Head(todo)) = "wanted"
      BY <2>4 DEF Verdict
    <3>3. Head(todo) \in 1..N /\ Head(todo) \in ToSet(todo)
      BY <1>3, <2>4, FirstRest DEF Walk
    <3>4. Unit' = {Head(todo)} /\ Sorted(<<Head(todo)>>)
      <4>1. DOMAIN <<Head(todo)>> = {1}
        OBVIOUS
      <4> QED BY <3>1, <3>3, <4>1 DEF Unit, ToSet, Sorted
    <3>5. Fate(Head(todo))' = Fate(Head(todo))
      BY <1>1, <3>1 DEF Fate
    <3>6. pc' \in Sending
      BY <3>1 DEF Sending
    <3> QED BY <1>4, <2>4, <3>1, <3>2, <3>3, <3>4, <3>5, <3>6 DEF Walk, Before
  <2>5. CASE todo # <<>> /\ ~stop /\ Verdict(Head(todo)) # "send"
    BY <1>1, <1>8, <2>5, OnwardWalk DEF CheckItem
  <2> QED BY <2>2, <2>3, <2>4, <2>5
<1>9. CASE Deliver
  BY <1>1, <1>9, Delivers, EndWalk, OnwardWalk, StayWalk
<1>10. CASE RequestStop \/ \E m \in missing : Repair(m)
  BY <1>1, <1>10, StayWalk DEF RequestStop, Repair
<1>11. CASE Crash
  BY <1>11, EndWalk DEF Crash
<1> QED BY <1>5, <1>6, <1>7, <1>8, <1>9, <1>10, <1>11 DEF Next, Job, Deliver
-----------------------------------------------------------------------------
(* Receipts, mappings and copies.                                           *)

\* What is known of receipts, mappings and copies.
Ledger ==
  /\ Traced /\ MappingSound /\ CopiesExplained
  /\ pc \in {"album", "select"} => guard = "fresh"
  /\ pc = "request" => \A m \in Unit : receipt[m] # "none"
  /\ pc = "confirm" =>
       /\ \A i \in DOMAIN answer : answer[i][1] = answer[i][2] /\ answer[i][1] \in Unit
       /\ \A m \in Unit : \/ \E i \in DOMAIN answer : answer[i][1] = m
                          \/ receipt[m] = "none" /\ mapping[m] # 0
  /\ pc \in {"select", "prepare"} \/ (pc = "request" /\ part = 1) => \A m \in Unit : copies[m] <= extra[m]
  /\ force => \A m \in Ahead : copies[m] <= extra[m]

\* Ascending numbers of 1..n, n of them, are 1, 2, ... n.
LEMMA Ascending ==
  ASSUME NEW n \in Nat, NEW K \in [1..n -> 1..n], \A i, j \in 1..n : i < j => K[i] < K[j]
  PROVE  \A i \in 1..n : K[i] = i
<1>1. \A i \in 1..n : K[i] \in 1..n
  OBVIOUS
<1> DEFINE Low == {i \in 1..n : K[i] < i}
           High == {i \in 1..n : i < K[i]}
<1>2. Low = {}
  <2> SUFFICES ASSUME Low # {} PROVE FALSE
    OBVIOUS
  <2>1. Low \in SUBSET Nat
    OBVIOUS
  <2>2. \A i : i \in Low <=> i \in 1..n /\ K[i] < i
    OBVIOUS
  <2> HIDE DEF Low
  <2>3. PICK i \in Low : \A j \in Low : i <= j
    BY <2>1, LeastNatural
  <2>4. i \in 1..n /\ K[i] < i /\ K[i] \in 1..n
    BY <1>1, <2>2
  <2>5. i - 1 \in 1..n /\ i - 1 < i /\ ~(i <= i - 1)
    BY <2>4
  <2>6. i - 1 \notin Low
    BY <2>3, <2>5
  <2>7. K[i - 1] \in 1..n /\ ~(K[i - 1] < i - 1) /\ K[i - 1] < K[i]
    BY <1>1, <2>2, <2>4, <2>5, <2>6
  <2> QED BY <2>4, <2>7
<1>3. High = {}
  <2> SUFFICES ASSUME High # {} PROVE FALSE
    OBVIOUS
  <2>1. High \in SUBSET (1..n)
    OBVIOUS
  <2>2. \A i : i \in High <=> i \in 1..n /\ i < K[i]
    OBVIOUS
  <2> HIDE DEF High
  <2>3. PICK i \in High : \A j \in High : j <= i
    BY <2>1, GreatestIn
  <2>4. i \in 1..n /\ i < K[i] /\ K[i] \in 1..n
    BY <1>1, <2>2
  <2>5. i + 1 \in 1..n /\ i < i + 1 /\ ~(i + 1 <= i)
    BY <2>4
  <2>6. i + 1 \notin High
    BY <2>3, <2>5
  <2>7. K[i + 1] \in 1..n /\ ~(i + 1 < K[i + 1]) /\ K[i] < K[i + 1]
    BY <1>1, <2>2, <2>4, <2>5, <2>6
  <2> QED BY <2>4, <2>7
<1>4. \A i \in 1..n : ~(K[i] < i) /\ ~(i < K[i])
  BY <1>2, <1>3
<1> QED BY <1>1, <1>4

\* An ascending answer of full length is the answer for the delivery.
LEMMA FullAnswer ==
  ASSUME NEW N \in Nat, NEW n \in Nat, NEW s \in [1..n -> 1..N], NEW t \in [1..n -> 1..N],
         Sorted(s), Sorted(t), \A i \in 1..n : \E k \in 1..n : t[i] = s[k]
  PROVE  t = s
<1> DEFINE K == [i \in 1..n |-> CHOOSE k \in 1..n : t[i] = s[k]]
<1>1. K \in [1..n -> 1..n] /\ \A i \in 1..n : K[i] \in 1..n /\ t[i] = s[K[i]]
  OBVIOUS
<1> HIDE DEF K
<1>2. DOMAIN s = 1..n /\ DOMAIN t = 1..n /\ \A i \in 1..n : s[i] \in Nat /\ t[i] \in Nat
  OBVIOUS
<1>3. \A i, j \in 1..n : (i < j => s[i] < s[j]) /\ (i < j => t[i] < t[j])
  BY <1>2 DEF Sorted
<1>4. ASSUME NEW i \in 1..n, NEW j \in 1..n, i < j
      PROVE  K[i] < K[j]
  <2>1. s[K[i]] < s[K[j]]
    BY <1>1, <1>3, <1>4
  <2>2. K[i] \in 1..n /\ K[j] \in 1..n /\ s[K[i]] \in Nat /\ s[K[j]] \in Nat
    BY <1>1, <1>2
  <2>3. K[j] < K[i] => s[K[j]] < s[K[i]]
    BY <1>3, <2>2
  <2>4. K[i] # K[j] /\ ~(K[j] < K[i])
    <3> DEFINE a == K[i]
               b == K[j]
               x == s[a]
               y == s[b]
    <3>1. x < y /\ x \in Nat /\ y \in Nat /\ (b < a => y < x)
      BY <2>1, <2>2, <2>3
    <3>2. a = b => x = y
      OBVIOUS
    <3> HIDE DEF a, b, x, y
    <3>3. a # b /\ ~(b < a)
      BY <3>1, <3>2
    <3> QED BY <3>3 DEF a, b
  <2>5. \A k, l \in 1..n : k # l /\ ~(l < k) => k < l
    OBVIOUS
  <2> QED BY <2>2, <2>4, <2>5
<1>5. \A i \in 1..n : K[i] = i
  BY <1>1, <1>4, Ascending
<1> QED BY <1>1, <1>5

LEMMA AnswerIs ==
  ASSUME Types, Walk, NEW ids \in Answers, Complete(ids)
  PROVE  ids = unit
<1>1. PICK N \in Nat : Msgs = 1..N
  BY ExportGroups DEF Types, Fixed
<1> DEFINE n == Len(unit)
<1>2. n \in Nat /\ DOMAIN unit = 1..n /\ unit \in [1..n -> 1..N]
  BY <1>1 DEF Types, Where
<1>3. PICK m \in Nat : ids \in [1..m -> Unit]
  BY <1>2 DEF Answers, SeqOf
<1>4. Len(ids) = m
  BY <1>3
<1>5. m = n
  BY <1>2, <1>4 DEF Complete
<1>6. Unit = {unit[i] : i \in 1..n}
  BY <1>2 DEF Unit, ToSet
<1> HIDE DEF n
<1>7. ids \in [1..n -> 1..N] /\ \A i \in 1..n : \E k \in 1..n : ids[i] = unit[k]
  BY <1>2, <1>3, <1>5, <1>6
<1>8. Sorted(ids) /\ Sorted(unit)
  BY DEF Answers, Sorted, Walk
<1> QED BY <1>2, <1>7, <1>8, FullAnswer

\* What the job goes past leaves what it has not begun to send.
LEMMA OnwardLeft ==
  ASSUME Types, Walk, Onward, UNCHANGED scenario,
         pc \in Sending \/ pc = "album" \/ (pc = "item" /\ todo # <<>>)
  PROVE  /\ Left' = Left \ (IF pc = "item" THEN {Head(todo)} ELSE Unit)
         /\ Ahead' = Left' /\ Left' \subseteq Ahead /\ pc' \notin Sending /\ pc' # "idle"
<1>1. PICK N \in Nat : Msgs = 1..N
  BY ExportGroups DEF Types, Fixed
<1>2. groups \in Seq(Seq(1..N)) /\ todo \in Seq(1..N) /\ unit \in Seq(1..N)
  BY <1>1 DEF Types, Where
<1>3. /\ groups' = groups /\ unit' = <<>>
      /\ (todo # <<>> /\ pc' = "item" /\ todo' = Tail(todo)) \/ (todo = <<>> /\ pc' = "next" /\ todo' = <<>>)
  BY DEF Onward, Fresh, Single
<1>4. Unit' = {} /\ pc' \notin Sending /\ pc' # "idle" /\ Members(groups)' = Members(groups)
  BY <1>3, Nothing DEF Unit, Sending
<1>5. Left' = Members(groups) \union ToSet(todo') /\ Ahead' = Left'
  BY <1>3, <1>4 DEF Left, Ahead
<1>6. todo # <<>> => /\ ToSet(todo) = {Head(todo)} \union ToSet(Tail(todo))
                     /\ Head(todo) \notin ToSet(Tail(todo)) /\ Head(todo) \in 1..N
  BY <1>2, FirstRest DEF Walk
<1>7. \A x \in ToSet(todo) \union Unit : x \notin Members(groups)
  <2>1. \A x \in ToSet(todo) \union Unit : x \in Nat
    BY <1>2 DEF Unit, ToSet
  <2> QED BY <2>1 DEF Walk, Before
<1>8. CASE pc \in Sending /\ todo # <<>>
  <2>1. unit = <<Head(todo)>>
    BY <1>8 DEF Walk
  <2>2. DOMAIN <<Head(todo)>> = {1}
    OBVIOUS
  <2>3. Unit = {Head(todo)} /\ pc # "item"
    BY <1>8, <2>1, <2>2 DEF Unit, ToSet, Sending
  <2> QED BY <1>3, <1>4, <1>5, <1>6, <1>7, <1>8, <2>3 DEF Left, Ahead
<1>9. CASE (pc \in Sending \/ pc = "album") /\ todo = <<>>
  <2>1. pc # "item" /\ ToSet(todo) = {} /\ ToSet(todo') = {}
    BY <1>3, <1>9, Nothing DEF Sending
  <2> QED BY <1>4, <1>5, <1>7, <2>1 DEF Left, Ahead
<1>10. CASE pc = "item" /\ todo # <<>>
  <2>1. Unit \subseteq ToSet(todo) /\ pc \notin Sending
    BY <1>10 DEF Walk, Sending
  <2> QED BY <1>3, <1>4, <1>5, <1>6, <1>7, <1>10, <2>1 DEF Left, Ahead
<1> QED BY <1>8, <1>9, <1>10 DEF Walk

LEMMA EndLeft ==
  ASSUME NEW how, End(how)
  PROVE  Left' = {} /\ Ahead' = {} /\ pc' = "idle"
<1>1. pc' = "idle" /\ groups' = <<>> /\ todo' = <<>> /\ unit' = <<>>
  BY DEF End, Fresh
<1>2. Unit' = {} /\ pc' \notin Sending /\ Members(groups)' = {} /\ ToSet(todo)' = {}
  BY <1>1, Nothing DEF Unit, Sending
<1> QED BY <1>1, <1>2 DEF Left, Ahead

LEMMA LeftMsgs ==
  ASSUME Types
  PROVE  Left \subseteq Msgs /\ Unit \subseteq Msgs
<1>1. /\ DOMAIN groups = 1..Len(groups) /\ \A g \in 1..Len(groups) : groups[g] \in Seq(Msgs)
      /\ \A s \in Seq(Msgs) : \A i \in DOMAIN s : s[i] \in Msgs
  BY DEF Types, Where
<1>2. \A s \in Seq(Msgs) : ToSet(s) \subseteq Msgs
  BY <1>1 DEF ToSet
<1>3. Members(groups) \subseteq Msgs
  BY <1>1, <1>2 DEF Members
<1> QED BY <1>2, <1>3 DEF Left, Unit, Types, Where

\* What a request brings about, and what it leaves alone.
LEMMA Carry ==
  ASSUME Types, Ledger, NEW C, C = {} \/ (pc = "request" /\ part = 1 /\ C = Unit),
         copies' = Added(copies, C), extra' = extra \/ extra' = Added(extra, C)
  PROVE  /\ copies' \in [Msgs -> Nat] /\ extra' \in [Msgs -> Nat]
         /\ \A m \in Msgs :
              /\ copies'[m] <= 1 + extra'[m] /\ extra[m] <= extra'[m]
              /\ m \notin C => copies'[m] = copies[m] /\ extra'[m] = extra[m]
              /\ m \in C => receipt[m] # "none" /\ copies'[m] = copies[m] + 1
              /\ m \in Ahead => m \notin C
<1>1. copies \in [Msgs -> Nat] /\ extra \in [Msgs -> Nat]
  BY DEF Types, Records
<1>2. copies' \in [Msgs -> Nat] /\ \A m \in Msgs : copies'[m] = IF m \in C THEN copies[m] + 1 ELSE copies[m]
  BY <1>1, AddedType
<1>3. extra' \in [Msgs -> Nat] /\ \A m \in Msgs : extra'[m] = extra[m] \/ (m \in C /\ extra'[m] = extra[m] + 1)
  BY <1>1, AddedType
<1>4. \A m \in Msgs : m \in C => receipt[m] # "none" /\ copies[m] <= extra[m] /\ m \notin Ahead
  BY DEF Ledger, Ahead, Sending
<1>5. \A m \in Msgs : copies[m] <= 1 + extra[m]
  BY DEF Ledger, CopiesExplained
<1>6. \A m \in Msgs : copies[m] \in Nat /\ extra[m] \in Nat
  BY <1>1
<1> QED BY <1>2, <1>3, <1>4, <1>5, <1>6

\* A step that leaves a delivery, or is outside of one.
LEMMA AfterLedger ==
  ASSUME Types, Ledger, Msgs' = Msgs, UNCHANGED <<mapping, force>>,
         pc' \notin Sending, pc' = "album" => guard' = "fresh", Ahead' \subseteq Ahead, Ahead \subseteq Msgs,
         \A m \in Msgs : /\ receipt[m] # "none" => receipt'[m] # "none"
                         /\ copies'[m] <= 1 + extra'[m]
                         /\ copies'[m] = copies[m] \/ receipt'[m] # "none"
                         /\ m \in Ahead' => copies'[m] = copies[m] /\ extra'[m] = extra[m]
  PROVE  Ledger'
<1>1. Traced'
  BY DEF Ledger, Traced
<1>2. MappingSound' /\ CopiesExplained'
  BY DEF Ledger, MappingSound, CopiesExplained
<1>3. force' => \A m \in Ahead' : copies'[m] <= extra'[m]
  BY DEF Ledger
<1>4. pc' \notin {"select", "prepare", "request", "confirm"}
  BY DEF Sending
<1> QED BY <1>1, <1>2, <1>3, <1>4 DEF Ledger

\* A delivery that is over.
LEMMA LeaveLedger ==
  ASSUME Types, Walk, Ledger, Msgs' = Msgs, UNCHANGED <<scenario, mapping, force>>,
         pc \in Sending, Onward \/ \E how : End(how),
         NEW C, C = {} \/ (pc = "request" /\ part = 1 /\ C = Unit),
         copies' = Added(copies, C), extra' = extra \/ extra' = Added(extra, C),
         \A m \in Msgs : receipt[m] # "none" => receipt'[m] # "none"
  PROVE  Ledger'
<1>1. pc' \notin Sending /\ pc' # "album" /\ Ahead' \subseteq Ahead
  <2>1. CASE Onward
    <3>1. pc' # "album"
      BY <2>1 DEF Onward
    <3> QED BY <2>1, <3>1, OnwardLeft
  <2>2. CASE \E how : End(how)
    BY <2>2, EndLeft DEF Sending
  <2> QED BY <2>1, <2>2
<1>2. Ahead \subseteq Msgs
  BY LeftMsgs DEF Ahead, Left
<1>3. \A m \in Msgs : /\ copies'[m] <= 1 + extra'[m]
                      /\ copies'[m] = copies[m] \/ receipt'[m] # "none"
                      /\ m \in Ahead => copies'[m] = copies[m] /\ extra'[m] = extra[m]
  BY Carry
<1> QED BY <1>1, <1>2, <1>3, AfterLedger

\* A request that is made again, or for the next part.
LEMMA RequestLedger ==
  ASSUME Types, Ledger, pc = "request",
         UNCHANGED <<scenario, mapping, receipt, force, groups, todo, unit, pc>>,
         NEW C, C = {} \/ (part = 1 /\ C = Unit),
         copies' = Added(copies, C), extra' = extra \/ extra' = Added(extra, C),
         part' = 1 => part = 1 /\ (C = {} \/ extra' = Added(extra, C))
  PROVE  Ledger'
<1>1. UNCHANGED <<Msgs, Unit, Ahead>>
  BY DEF Msgs, Unit, Ahead, Left
<1>2. Unit \subseteq Msgs /\ Ahead \subseteq Msgs
  BY LeftMsgs DEF Ahead, Left
<1>3. \A m \in Msgs : /\ copies'[m] <= 1 + extra'[m] /\ extra[m] <= extra'[m]
                      /\ m \notin C => copies'[m] = copies[m] /\ extra'[m] = extra[m]
                      /\ m \in C => receipt[m] # "none" /\ copies'[m] = copies[m] + 1
                      /\ m \in Ahead => m \notin C
  BY Carry
<1>4. Traced'
  BY <1>1, <1>3 DEF Ledger, Traced
<1>5. MappingSound' /\ CopiesExplained'
  BY <1>1, <1>3 DEF Ledger, MappingSound, CopiesExplained
<1>6. part' = 1 => \A m \in Unit : copies'[m] <= extra'[m]
  <2> SUFFICES ASSUME part' = 1, NEW m \in Unit PROVE copies'[m] <= extra'[m]
    OBVIOUS
  <2>1. copies[m] <= extra[m] /\ m \in Msgs
    BY <1>2 DEF Ledger
  <2>2. m \in C => extra'[m] = extra[m] + 1
    BY <2>1, AddedType DEF Types, Records
  <2>3. copies[m] \in Nat /\ extra[m] \in Nat
    BY <2>1 DEF Types, Records
  <2> QED BY <1>3, <2>1, <2>2, <2>3
<1>7. force' => \A m \in Ahead' : copies'[m] <= extra'[m]
  BY <1>1, <1>2, <1>3 DEF Ledger
<1> QED BY <1>1, <1>4, <1>5, <1>6, <1>7 DEF Ledger

\* A step of a delivery before its first request, or of something else.
LEMMA KeepLedger ==
  ASSUME Types, Ledger,
         UNCHANGED <<scenario, mapping, copies, extra, force, groups, todo, unit, guard, part, answer>>,
         \/ UNCHANGED <<pc, receipt>>
         \/ pc = "select" /\ pc' = "prepare" /\ UNCHANGED receipt
  PROVE  Ledger'
<1>1. UNCHANGED <<Msgs, Unit, Left>> /\ Ahead' = Ahead
  BY DEF Msgs, Unit, Ahead, Left, Sending
<1> QED BY <1>1 DEF Ledger, Traced, MappingSound, CopiesExplained

LEMMA NothingAdded ==
  ASSUME NEW f \in [Msgs -> Nat]
  PROVE  f = Added(f, {})
BY DEF Added

\* The walk between deliveries, up to the choice of the next one.
LEMMA WalkLedger ==
  ASSUME Types, Types', Walk, Ledger, Msgs' = Msgs,
         (\E f \in BOOLEAN : Begin(f)) \/ NextGroup \/ RequestStop \/ Crash \/ \E m \in missing : Repair(m)
  PROVE  Ledger'
<1>1. Ahead \subseteq Msgs
  BY LeftMsgs DEF Ahead, Left
<1>2. \A m \in Msgs : copies[m] <= 1 + extra[m] /\ copies[m] \in Nat /\ extra[m] \in Nat
  BY DEF Ledger, CopiesExplained, Types, Records
<1>3. ASSUME NEW f \in BOOLEAN, Begin(f)
      PROVE  Ledger'
  <2>1. /\ UNCHANGED <<mapping, receipt, copies>> /\ pc' = "next" /\ force' = f
        /\ extra' = IF f THEN Added(extra, Msgs) ELSE extra
    BY <1>3 DEF Begin
  <2>2. \A m \in Msgs : extra'[m] = IF f THEN extra[m] + 1 ELSE extra[m]
    BY <2>1, AddedType DEF Types, Records
  <2>3. Ahead' \subseteq Msgs
    <3>1. pc' \notin Sending /\ groups' = Grouped /\ todo' = <<>> /\ unit' = <<>>
      BY <1>3 DEF Begin, Walk, Sending
    <3>2. Members(groups)' = Msgs /\ ToSet(todo)' = {} /\ Unit' = {}
      BY <3>1, ExportGroups, Nothing DEF Unit, Types, Fixed
    <3> QED BY <3>1, <3>2 DEF Ahead, Left
  <2>4. Traced' /\ MappingSound'
    BY <2>1 DEF Ledger, Traced, MappingSound
  <2>5. CopiesExplained'
    BY <1>2, <2>1, <2>2 DEF CopiesExplained
  <2>6. force' => \A m \in Ahead' : copies'[m] <= extra'[m]
    BY <1>2, <2>1, <2>2, <2>3
  <2> QED BY <2>1, <2>4, <2>5, <2>6 DEF Ledger
<1>4. CASE NextGroup
  <2>1. UNCHANGED <<mapping, force, receipt, copies, extra>> /\ pc = "next"
    BY <1>4 DEF NextGroup
  <2>2. pc' \notin Sending /\ (pc' = "album" => guard' = "fresh") /\ Ahead' \subseteq Ahead
    <3>1. CASE stop \/ groups = <<>>
      BY <1>4, <3>1, EndLeft DEF NextGroup, Sending
    <3>2. CASE ~stop /\ groups # <<>>
      <4>1. /\ unit' = Head(groups) /\ groups' = Tail(groups) /\ guard' = "fresh"
            /\ pc' \in {"album", "item"} /\ todo' \in {<<>>, Head(groups)}
        BY <1>4, <3>2 DEF NextGroup, Fresh
      <4>2. Members(groups) = ToSet(Head(groups)) \union Members(Tail(groups))
        <5>1. PICK N \in Nat : Msgs = 1..N
          BY ExportGroups DEF Types, Fixed
        <5>2. groups \in Seq(Seq(1..N))
          BY <5>1 DEF Types, Where
        <5> QED BY <3>2, <5>2, FirstGroup DEF Walk
      <4>3. Unit' = ToSet(Head(groups)) /\ Members(groups)' = Members(Tail(groups)) /\ ToSet(todo') \subseteq ToSet(Head(groups))
        BY <4>1, Nothing DEF Unit
      <4>4. pc' \notin Sending /\ pc \notin Sending
        BY <2>1, <4>1 DEF Sending
      <4> QED BY <4>1, <4>2, <4>3, <4>4 DEF Ahead, Left
    <3> QED BY <3>1, <3>2
  <2>3. \A m \in Msgs : copies'[m] <= 1 + extra'[m]
    BY <1>2, <2>1
  <2> QED BY <1>1, <2>1, <2>2, <2>3, AfterLedger
<1>5. CASE RequestStop \/ \E m \in missing : Repair(m)
  BY <1>5, KeepLedger DEF RequestStop, Repair
<1>6. CASE Crash
  <2>1. /\ UNCHANGED <<mapping, force, receipt, extra>> /\ End("crashed")
        /\ \E carried \in {{}, IF pc = "request" /\ part = 1 THEN Unit ELSE {}} : copies' = Added(copies, carried)
    BY <1>6 DEF Crash
  <2>2. PICK C : copies' = Added(copies, C) /\ (C = {} \/ (pc = "request" /\ part = 1 /\ C = Unit))
    BY <2>1
  <2>3. \A m \in Msgs : /\ copies'[m] <= 1 + extra'[m]
                        /\ copies'[m] = copies[m] \/ receipt'[m] # "none"
                        /\ m \in Ahead => copies'[m] = copies[m] /\ extra'[m] = extra[m]
    BY <2>1, <2>2, Carry
  <2>4. pc' \notin Sending /\ pc' # "album" /\ Ahead' \subseteq Ahead
    BY <2>1, EndLeft DEF Sending
  <2> QED BY <1>1, <2>1, <2>3, <2>4, AfterLedger
<1> QED BY <1>3, <1>4, <1>5, <1>6

\* The checks of an album and of a single message.
LEMMA CheckLedger ==
  ASSUME Types, Types', Walk, Ledger, Msgs' = Msgs, CheckAlbum \/ CheckItem
  PROVE  Ledger'
<1>1. Ahead \subseteq Msgs /\ Unit \subseteq Msgs
  BY LeftMsgs DEF Ahead, Left
<1>2. \A m \in Msgs : copies[m] <= 1 + extra[m] /\ copies[m] \in Nat /\ extra[m] \in Nat
  BY DEF Ledger, CopiesExplained, Types, Records
<1>3. \A m \in Msgs : ~Pending({m}) /\ mapping[m] = 0 => force \/ copies[m] = 0
  BY <1>2 DEF Pending, Ledger, Traced
<1>4. UNCHANGED <<scenario, mapping, force, receipt, copies>> /\ pc \in {"album", "item"} /\ pc \notin Sending
  BY DEF CheckAlbum, CheckItem, Sending
<1>5. Ahead = Left
  BY <1>4 DEF Ahead
<1>6. ASSUME UNCHANGED extra, pc' \notin Sending, pc' # "album", Ahead' \subseteq Ahead
      PROVE  Ledger'
  BY <1>1, <1>2, <1>4, <1>6, AfterLedger
<1>7. ASSUME pc' = "select", guard' = "fresh", Ahead' \subseteq Ahead,
             \A m \in Msgs : extra[m] <= extra'[m] /\ extra'[m] \in Nat,
             force => \A m \in Msgs : extra'[m] = extra[m],
             Unit' \subseteq Msgs, \A m \in Unit' : copies[m] <= extra'[m]
      PROVE  Ledger'
  <2>1. Traced' /\ MappingSound'
    BY <1>4 DEF Ledger, Traced, MappingSound
  <2>2. CopiesExplained'
    BY <1>2, <1>4, <1>7 DEF CopiesExplained
  <2>3. force' => \A m \in Ahead' : copies'[m] <= extra'[m]
    BY <1>1, <1>4, <1>7 DEF Ledger
  <2> QED BY <1>4, <1>7, <2>1, <2>2, <2>3 DEF Ledger
<1>8. CASE CheckAlbum
  <2>1. pc = "album" /\ guard = "fresh" /\ todo = <<>>
    BY <1>8 DEF CheckAlbum, Walk, Ledger
  <2>2. CASE Onward /\ UNCHANGED extra
    <3>1. pc' # "album"
      BY <2>2 DEF Onward
    <3> QED BY <1>4, <1>6, <2>1, <2>2, <3>1, OnwardLeft
  <2>3. CASE pc' = "item" /\ todo' = unit /\ Fresh(<<>>) /\ UNCHANGED <<groups, extra>>
    <3>1. Unit' = {} /\ pc' \notin Sending /\ pc' # "album" /\ ToSet(todo') = Unit /\ Members(groups)' = Members(groups)
      BY <2>3, Nothing DEF Fresh, Unit, Sending
    <3>2. Ahead' \subseteq Ahead
      BY <1>5, <3>1 DEF Ahead, Left
    <3> QED BY <1>6, <2>3, <3>1, <3>2
  <2>4. CASE /\ ~Pending(Unit) /\ pc' = "select" /\ extra' = Added(extra, {m \in Unit : Synced(m)})
             /\ UNCHANGED <<groups, todo, sending>>
    <3>1. Unit' = Unit /\ guard' = "fresh"
      BY <2>1, <2>4 DEF Unit
    <3>2. Ahead' \subseteq Ahead
      <4>1. pc' \in Sending
        BY <2>4 DEF Sending
      <4> QED BY <1>5, <2>4, <3>1, <4>1 DEF Ahead, Left
    <3>3. \A m \in Msgs : extra'[m] = IF m \in Unit /\ Synced(m) THEN extra[m] + 1 ELSE extra[m]
      BY <2>4, AddedType DEF Types, Records
    <3>4. \A m \in Unit : copies[m] <= extra'[m]
      <4> SUFFICES ASSUME NEW m \in Unit PROVE copies[m] <= extra'[m]
        OBVIOUS
      <4>1. m \in Msgs /\ m \in Ahead /\ ~Pending({m})
        BY <1>1, <1>5, <2>4 DEF Left, Pending
      <4>2. CASE force
        BY <1>2, <3>3, <4>1, <4>2 DEF Ledger, Synced
      <4>3. CASE ~force /\ mapping[m] # 0
        BY <1>2, <3>3, <4>1, <4>3 DEF Synced
      <4>4. CASE ~force /\ mapping[m] = 0
        BY <1>2, <1>3, <3>3, <4>1, <4>4
      <4> QED BY <4>2, <4>3, <4>4
    <3>5. \A m \in Msgs : extra[m] <= extra'[m] /\ extra'[m] \in Nat /\ (force => extra'[m] = extra[m])
      BY <1>2, <3>3 DEF Synced
    <3> QED BY <1>1, <1>7, <2>4, <3>1, <3>2, <3>4, <3>5
  <2> QED BY <1>8, <2>2, <2>3, <2>4 DEF CheckAlbum
<1>9. CASE CheckItem
  <2>1. pc = "item" /\ UNCHANGED extra /\ Unit \subseteq ToSet(todo)
    BY <1>9 DEF CheckItem, Walk
  <2>2. CASE todo = <<>>
    <3>1. pc' = "next" /\ UNCHANGED <<groups, todo, unit>>
      BY <1>9, <2>2 DEF CheckItem
    <3>2. UNCHANGED Left /\ pc' \notin Sending /\ pc' # "album"
      BY <3>1 DEF Left, Unit, Sending
    <3> QED BY <1>5, <1>6, <2>1, <3>2 DEF Ahead
  <2>3. CASE todo # <<>> /\ stop
    <3>1. End("stopped")
      BY <1>9, <2>3 DEF CheckItem
    <3>2. pc' \notin Sending /\ pc' # "album" /\ Ahead' = {}
      BY <3>1, EndLeft DEF Sending
    <3> QED BY <1>6, <2>1, <3>2
  <2>4. CASE todo # <<>> /\ ~stop /\ Verdict(Head(todo)) = "send"
    <3>1. pc' = "select" /\ unit' = <<Head(todo)>> /\ guard' = "fresh" /\ UNCHANGED <<groups, todo>>
      BY <1>9, <2>4 DEF CheckItem, Fresh
    <3>2. ~Pending({Head(todo)}) /\ ~Synced(Head(todo))
      BY <2>4 DEF Verdict
    <3>3. Head(todo) \in Msgs /\ Head(todo) \in ToSet(todo)
      <4>1. 1 \in DOMAIN todo /\ Head(todo) = todo[1] /\ todo[1] \in Msgs
        BY <2>4 DEF Types, Where
      <4> QED BY <4>1 DEF ToSet
    <3>4. Unit' = {Head(todo)}
      <4>1. DOMAIN <<Head(todo)>> = {1}
        OBVIOUS
      <4> QED BY <3>1, <4>1 DEF Unit, ToSet
    <3>5. Ahead' \subseteq Ahead
      <4>1. pc' \in Sending
        BY <3>1 DEF Sending
      <4> QED BY <1>5, <3>1, <4>1 DEF Ahead, Left
    <3>6. copies[Head(todo)] <= extra[Head(todo)]
      <4>1. CASE force
        BY <1>5, <3>3, <4>1 DEF Ledger, Left
      <4>2. CASE ~force
        BY <1>2, <1>3, <3>2, <3>3, <4>2 DEF Synced
      <4> QED BY <4>1, <4>2
    <3> QED BY <1>2, <1>7, <2>1, <3>1, <3>3, <3>4, <3>5, <3>6
  <2>5. CASE todo # <<>> /\ ~stop /\ Verdict(Head(todo)) # "send"
    <3>1. Onward
      BY <1>9, <2>5 DEF CheckItem
    <3>2. pc' # "album"
      BY <3>1 DEF Onward
    <3> QED BY <1>4, <1>6, <2>1, <2>5, <3>1, <3>2, OnwardLeft
  <2> QED BY <2>2, <2>3, <2>4, <2>5
<1> QED BY <1>8, <1>9

\* What a delivery does with the ledger.
LEMMA AnsweredLedger ==
  ASSUME Types, Types', Walk, Ledger, Msgs' = Msgs, Answered
  PROVE  Ledger'
<1>1. /\ pc = "request" /\ pc \in Sending /\ UNCHANGED <<scenario, mapping, force, extra>>
  BY DEF Answered, Sending
<1> DEFINE C == IF part = 1 THEN Unit ELSE {}
<1>2. copies' = Added(copies, C) /\ (C = {} \/ (part = 1 /\ C = Unit))
  BY DEF Answered, Carried
<1>3. PICK ids \in Answers :
       \/ /\ Complete(ids) /\ MoreParts
          /\ part' = part + 1
          /\ UNCHANGED <<groups, todo, pc, unit, receipt>>
       \/ /\ Complete(ids)
          /\ pc' = "confirm" /\ answer' = [i \in DOMAIN ids |-> <<unit[i], ids[i]>>]
          /\ UNCHANGED <<groups, todo, unit, receipt>>
       \/ Doubt
       \/ UNCHANGED receipt /\ (Onward \/ End("raised"))
  BY DEF Answered, InUnit, Fails
<1> HIDE DEF C
<1>4. CASE Doubt \/ (UNCHANGED receipt /\ (Onward \/ End("raised")))
  <2>1. Onward \/ \E how : End(how)
    BY <1>4 DEF Doubt
  <2>2. \A m \in Msgs : receipt[m] # "none" => receipt'[m] # "none"
    <3>1. \A m \in Msgs : (Marked[m] = "none") = (receipt[m] = "none")
      BY MarkedType DEF Types
    <3> QED BY <1>4, <3>1 DEF Doubt
  <2> QED BY <1>1, <1>2, <2>1, <2>2, LeaveLedger
<1>5. CASE part' = part + 1 /\ UNCHANGED <<groups, todo, pc, unit, receipt>>
  <2>1. part \in Nat /\ part >= 1
    BY DEF Types, Request, Fixed
  <2>2. part' # 1
    BY <1>5, <2>1
  <2> QED BY <1>1, <1>2, <1>5, <2>2, RequestLedger
<1>6. CASE /\ Complete(ids) /\ pc' = "confirm" /\ answer' = [i \in DOMAIN ids |-> <<unit[i], ids[i]>>]
           /\ UNCHANGED <<groups, todo, unit, receipt>>
  <2>1. ids = unit
    BY <1>6, AnswerIs
  <2>2. DOMAIN answer' = DOMAIN unit /\ \A i \in DOMAIN unit : answer'[i] = <<unit[i], unit[i]>>
    BY <1>6, <2>1
  <2>3. Unit' = Unit /\ Ahead' = Ahead
    BY <1>1, <1>6 DEF Unit, Ahead, Left, Sending
  <2>4. \A i \in DOMAIN answer' : answer'[i][1] = answer'[i][2] /\ answer'[i][1] \in Unit
    BY <2>2 DEF Unit, ToSet
  <2>5. \A m \in Unit : \E i \in DOMAIN answer' : answer'[i][1] = m
    BY <2>2 DEF Unit, ToSet
  <2>6. Ahead \subseteq Msgs
    BY LeftMsgs DEF Ahead, Left
  <2>7. \A m \in Msgs : /\ copies'[m] <= 1 + extra'[m]
                        /\ m \notin C => copies'[m] = copies[m]
                        /\ m \in C => receipt[m] # "none"
                        /\ m \in Ahead => m \notin C
    BY <1>1, <1>2, Carry
  <2>8. Traced'
    BY <1>1, <1>6, <2>7 DEF Ledger, Traced
  <2>9. MappingSound' /\ CopiesExplained'
    BY <1>1, <2>7 DEF Ledger, MappingSound, CopiesExplained
  <2>10. force' => \A m \in Ahead' : copies'[m] <= extra'[m]
    BY <1>1, <2>3, <2>6, <2>7 DEF Ledger
  <2> QED BY <1>6, <2>3, <2>4, <2>5, <2>8, <2>9, <2>10 DEF Ledger
<1> QED BY <1>3, <1>4, <1>5, <1>6

LEMMA PrepareLedger ==
  ASSUME Types, Types', Ledger, Msgs' = Msgs, Prepare
  PROVE  Ledger'
<1>1. /\ pc = "prepare" /\ pc' = "request"
      /\ UNCHANGED <<scenario, mapping, copies, force, extra, groups, todo, unit, part>>
      /\ receipt' = [m \in Msgs |-> IF m \in Unit THEN "sending" ELSE receipt[m]]
  BY DEF Prepare, InUnit
<1>2. \A m \in Msgs : receipt'[m] = IF m \in Unit THEN "sending" ELSE receipt[m]
  BY <1>1
<1>3. Unit' = Unit /\ Ahead' = Ahead /\ Unit \subseteq Msgs
  BY <1>1, LeftMsgs DEF Unit, Ahead, Left, Sending
<1> QED BY <1>1, <1>2, <1>3 DEF Ledger, Traced, MappingSound, CopiesExplained

LEMMA ConfirmLedger ==
  ASSUME Types, Types', Ledger, Msgs' = Msgs, Confirm
  PROVE  Ledger'
<1>1. /\ pc = "confirm" /\ pc' = "confirm" /\ answer # <<>> /\ answer' = Tail(answer)
      /\ UNCHANGED <<scenario, copies, force, extra, groups, todo, unit>>
      /\ mapping' = [mapping EXCEPT ![Head(answer)[1]] = IF force \/ @ = 0 THEN Head(answer)[2] ELSE @]
      /\ receipt' = [receipt EXCEPT ![Head(answer)[1]] = "none"]
  BY DEF Confirm, InUnit
<1> DEFINE n == Len(answer)
           m == Head(answer)[1]
           t == Tail(answer)
<1>2. n \in Nat /\ n >= 1 /\ DOMAIN answer = 1..n /\ Head(answer) = answer[1] /\ answer[1] \in Msgs \X Msgs
  BY <1>1 DEF Types, Request
<1>3. DOMAIN t = 1..(n - 1) /\ \A i \in 1..(n - 1) : t[i] = answer[i + 1]
  BY <1>1, <1>2
<1>4. Unit \subseteq Msgs /\ Unit' = Unit /\ Ahead' = Ahead
  BY <1>1, LeftMsgs DEF Unit, Ahead, Left, Sending
<1>5. m \in Unit /\ m \in Msgs /\ Head(answer)[2] = m
  BY <1>1, <1>2, <1>4 DEF Ledger
<1>6. m # 0
  BY <1>5, ExportGroups DEF Types, Fixed
<1>7. mapping \in [Msgs -> Msgs \union {0}] /\ receipt \in [Msgs -> Receipts] /\ MappingSound
  BY DEF Types, Records, Ledger
<1> HIDE DEF n, m, t
<1>8. /\ \A x \in Msgs : x # m => mapping'[x] = mapping[x] /\ receipt'[x] = receipt[x]
      /\ mapping'[m] = m /\ receipt'[m] = "none"
  BY <1>1, <1>5, <1>7 DEF m, MappingSound
<1>9. Traced' /\ MappingSound' /\ CopiesExplained'
  BY <1>1, <1>6, <1>8 DEF Ledger, Traced, MappingSound, CopiesExplained
<1>10. \A i \in 1..(n - 1) : i + 1 \in 1..n
  BY <1>2
<1>11. \A i \in DOMAIN t : t[i][1] = t[i][2] /\ t[i][1] \in Unit
  <2> SUFFICES ASSUME NEW i \in DOMAIN t PROVE t[i][1] = t[i][2] /\ t[i][1] \in Unit
    OBVIOUS
  <2>1. i + 1 \in DOMAIN answer /\ t[i] = answer[i + 1]
    BY <1>2, <1>3, <1>10
  <2>2. answer[i + 1][1] = answer[i + 1][2] /\ answer[i + 1][1] \in Unit
    BY <1>1, <2>1 DEF Ledger
  <2> QED BY <2>1, <2>2
<1>12. ASSUME NEW x \in Unit
       PROVE  (\E i \in DOMAIN t : t[i][1] = x) \/ (receipt'[x] = "none" /\ mapping'[x] # 0)
  <2>1. CASE x = m
    BY <1>6, <1>8, <2>1
  <2>2. CASE x # m /\ receipt[x] = "none" /\ mapping[x] # 0
    BY <1>4, <1>8, <2>2
  <2>3. ASSUME x # m, NEW i \in DOMAIN answer, answer[i][1] = x PROVE i - 1 \in DOMAIN t /\ t[i - 1][1] = x
    <3>1. i # 1
      BY <1>2, <2>3 DEF m
    <3>2. i - 1 \in 1..(n - 1) /\ (i - 1) + 1 = i
      BY <1>2, <3>1
    <3> QED BY <1>3, <2>3, <3>2
  <2> QED BY <1>1, <2>1, <2>2, <2>3 DEF Ledger
<1>13. force' => \A x \in Ahead' : copies'[x] <= extra'[x]
  BY <1>1, <1>4 DEF Ledger
<1>14. answer' = t
  BY <1>1 DEF t
<1> QED BY <1>1, <1>4, <1>9, <1>11, <1>12, <1>13, <1>14 DEF Ledger

LEMMA LedgerStep ==
  ASSUME Types, Types', Walk, Ledger, Next
  PROVE  Ledger'
<1>1. Msgs' = Msgs
  BY FixedStep DEF Types
<1>2. CASE (\E f \in BOOLEAN : Begin(f)) \/ NextGroup \/ RequestStop \/ Crash \/ \E m \in missing : Repair(m)
  BY <1>1, <1>2, WalkLedger
<1>3. CASE CheckAlbum \/ CheckItem
  BY <1>1, <1>3, CheckLedger
<1>4. copies = Added(copies, {}) /\ extra = Added(extra, {})
  BY NothingAdded DEF Types, Records
<1>5. CASE Select
  <2>1. /\ pc = "select" /\ guard = "fresh" /\ pc' = "prepare"
        /\ UNCHANGED <<scenario, mapping, receipt, copies, extra, force, groups, todo, unit, guard, part, answer>>
    BY <1>5 DEF Select, InUnit, Ledger
  <2> QED BY <2>1, KeepLedger
<1>6. CASE CannotSend
  <2>1. /\ pc \in Sending /\ UNCHANGED <<scenario, mapping, force, copies, extra>> /\ (Onward \/ End("raised"))
        /\ \E fatal \in BOOLEAN : receipt' = [m \in Msgs |-> IF fatal /\ m \in Unit THEN "sending" ELSE receipt[m]]
    BY <1>6 DEF CannotSend, Fails, Sending
  <2>2. \A m \in Msgs : receipt[m] # "none" => receipt'[m] # "none"
    BY <2>1
  <2> QED BY <1>1, <1>4, <2>1, <2>2, LeaveLedger
<1>7. CASE Prepare
  BY <1>1, <1>7, PrepareLedger
<1>8. CASE StopSeen
  <2>1. /\ pc \in Sending /\ UNCHANGED <<scenario, mapping, receipt, force, extra>> /\ End("stopped")
        /\ \E carried \in {{}, IF pc = "request" /\ part = 1 THEN Unit ELSE {}} : copies' = Added(copies, carried)
    BY <1>8 DEF StopSeen, Sending
  <2>2. PICK C : copies' = Added(copies, C) /\ (C = {} \/ (pc = "request" /\ part = 1 /\ C = Unit))
    BY <2>1
  <2> QED BY <1>1, <2>1, <2>2, LeaveLedger
<1>9. CASE Answered
  BY <1>1, <1>9, AnsweredLedger
<1>10. CASE NetworkError
  <2>1. /\ pc = "request" /\ pc \in Sending /\ UNCHANGED <<scenario, mapping, receipt, force>>
        /\ \E carried \in {{}, IF part = 1 THEN Unit ELSE {}} : copies' = Added(copies, carried) /\ extra' = Added(extra, carried)
        /\ (UNCHANGED <<groups, todo, unit, pc, part>> \/ Onward \/ End("raised"))
    BY <1>10 DEF NetworkError, InUnit, Fails, Sending
  <2>2. PICK C : copies' = Added(copies, C) /\ extra' = Added(extra, C) /\ (C = {} \/ (part = 1 /\ C = Unit))
    BY <2>1
  <2>3. CASE UNCHANGED <<groups, todo, unit, pc, part>>
    BY <2>1, <2>2, <2>3, RequestLedger
  <2>4. CASE Onward \/ End("raised")
    BY <1>1, <2>1, <2>2, <2>4, LeaveLedger
  <2> QED BY <2>1, <2>3, <2>4
<1>11. CASE TurnedAway \/ FloodWait \/ TooLarge
  <2>1. /\ pc = "request" /\ pc \in Sending /\ UNCHANGED <<scenario, mapping, copies, extra, force>>
        /\ \/ UNCHANGED <<groups, todo, unit, pc, part, receipt>>
           \/ (Onward \/ End("raised")) /\ UNCHANGED receipt
           \/ Onward /\ receipt' = Marked
    BY <1>11 DEF TurnedAway, FloodWait, TooLarge, Resent, InUnit, Fails, Doubt, Sending
  <2>2. CASE UNCHANGED <<groups, todo, unit, pc, part, receipt>>
    BY <1>4, <2>1, <2>2, RequestLedger
  <2>3. CASE ((Onward \/ End("raised")) /\ UNCHANGED receipt) \/ (Onward /\ receipt' = Marked)
    <3>1. \A m \in Msgs : (Marked[m] = "none") = (receipt[m] = "none")
      BY MarkedType DEF Types
    <3>2. \A m \in Msgs : receipt[m] # "none" => receipt'[m] # "none"
      BY <2>3, <3>1
    <3> QED BY <1>1, <1>4, <2>1, <2>3, <3>2, LeaveLedger
  <2> QED BY <2>1, <2>2, <2>3
<1>12. CASE Refused \/ ConfirmFails \/ Logged \/ LogFails
  <2>1. /\ pc \in Sending /\ UNCHANGED <<scenario, mapping, receipt, copies, extra, force>> /\ (Onward \/ End("raised"))
    BY <1>12 DEF Refused, ConfirmFails, Logged, LogFails, Fails, Sending
  <2> QED BY <1>1, <1>4, <2>1, LeaveLedger
<1>13. CASE Confirm
  BY <1>1, <1>13, ConfirmLedger
<1> QED BY <1>2, <1>3, <1>5, <1>6, <1>7, <1>8, <1>9, <1>10, <1>11, <1>12, <1>13 DEF Next, Job

-----------------------------------------------------------------------------
(* What is in doubt was meant to be sent.                                   *)

\* A member of an album that is not sent for a blocked member, and one of an
\* album that is sent as a whole.
Barred(m) == \E g \in DOMAIN Grouped :
  /\ m \in ToSet(Grouped[g]) /\ Len(Grouped[g]) > 1
  /\ \E n \in ToSet(Grouped[g]) : Fate(n) = "blocked"
Whole(m) == \E g \in DOMAIN Grouped :
  m \in ToSet(Grouped[g]) /\ Len(Grouped[g]) > 1 /\ ToSet(Grouped[g]) \intersect missing = {}

\* A message that is never sent by itself has a receipt only as a member of an
\* album that was sent as a whole, and none if its album cannot be sent.
Doubts ==
  /\ \A m \in Msgs : Barred(m) => receipt[m] = "none" /\ m \notin ToSet(todo) /\ (pc \in Sending => m \notin Unit)
  /\ \A m \in Msgs : Fate(m) # "wanted" /\ receipt[m] # "none" => Whole(m)
  /\ \A m \in ToSet(todo) : Fate(m) # "wanted" => receipt[m] = "none"

\* A message is in one group only.
LEMMA InGroup ==
  ASSUME Types, NEW s, OfExport(s), NEW m \in ToSet(s)
  PROVE  /\ m \in Msgs
         /\ Barred(m) <=> Len(s) > 1 /\ \E n \in ToSet(s) : Fate(n) = "blocked"
         /\ Whole(m) <=> Len(s) > 1 /\ ToSet(s) \intersect missing = {}
<1>1. PICK g \in DOMAIN Grouped : s = Grouped[g]
  BY DEF OfExport
<1>2. /\ Members(Grouped) = Msgs
      /\ \A h \in DOMAIN Grouped : m \in ToSet(Grouped[h]) => h = g
  BY <1>1, ExportGroups DEF Types, Fixed
<1>3. m \in Msgs
  BY <1>1, <1>2 DEF Members
<1> QED BY <1>1, <1>2, <1>3 DEF Barred, Whole

\* Every step but the choice of what is sent next.
LEMMA DoubtsKept ==
  ASSUME Types, Walk, Doubts, Msgs' = Msgs, UNCHANGED scenario, missing' \subseteq missing,
         ToSet(todo') \subseteq ToSet(todo),
         pc' \in Sending => pc \in Sending /\ unit' = unit,
         \A m \in Msgs : receipt'[m] # "none" => receipt[m] # "none" \/ (pc \in Sending /\ m \in Unit)
  PROVE  Doubts'
<1>1. \A m : Barred(m)' = Barred(m) /\ Fate(m)' = Fate(m) /\ (Whole(m) => Whole(m)')
  BY DEF Barred, Whole, Grouped, Fate
<1>2. unit' = unit => Unit' = Unit
  BY DEF Unit
<1>3. todo # <<>> /\ pc \in Sending => Unit = {Head(todo)}
  <2>1. DOMAIN <<Head(todo)>> = {1}
    OBVIOUS
  <2> QED BY <2>1 DEF Walk, Unit, ToSet
<1>4. \A m \in Unit : pc \in Sending /\ Fate(m) # "wanted" => todo = <<>> /\ Whole(m)
  BY <1>3, InGroup DEF Walk, Unit
<1>5. ToSet(todo) \subseteq Msgs /\ ToSet(<<>>) = {}
  BY LeftMsgs, Nothing DEF Left
<1>6. \A m \in Msgs : Barred(m) => receipt'[m] = "none" /\ m \notin ToSet(todo') /\ (pc' \in Sending => m \notin Unit')
  BY <1>2 DEF Doubts
<1>7. \A m \in Msgs : Fate(m) # "wanted" /\ receipt'[m] # "none" => Whole(m)
  BY <1>4 DEF Doubts
<1>8. \A m \in ToSet(todo') : Fate(m) # "wanted" => receipt'[m] = "none"
  BY <1>4, <1>5 DEF Doubts
<1> QED BY <1>1, <1>6, <1>7, <1>8 DEF Doubts

LEMMA DoubtsStep ==
  ASSUME Types, Types', Walk, Walk', Doubts, Next
  PROVE  Doubts'
<1>1. Msgs' = Msgs /\ UNCHANGED scenario /\ missing' \subseteq missing
  BY FixedStep DEF Types
<1>2. ToSet(todo) \subseteq Msgs /\ ToSet(<<>>) = {}
  BY LeftMsgs, Nothing DEF Left
<1>3. todo # <<>> => /\ ToSet(Tail(todo)) \subseteq ToSet(todo) /\ Head(todo) \in ToSet(todo)
  <2>1. PICK N \in Nat : Msgs = 1..N
    BY ExportGroups DEF Types, Fixed
  <2>2. todo \in Seq(1..N)
    BY <2>1 DEF Types, Where
  <2> QED BY <2>2, FirstRest DEF Walk
<1>4. Onward => ToSet(todo') \subseteq ToSet(todo) /\ pc' \notin Sending
  BY <1>3 DEF Onward, Single, Sending
<1>5. \A how : End(how) => ToSet(todo') \subseteq ToSet(todo) /\ pc' \notin Sending
  BY <1>2 DEF End, Sending
<1>6. \A m : Barred(m)' = Barred(m) /\ Fate(m)' = Fate(m) /\ (Whole(m) => Whole(m)')
  BY <1>1 DEF Barred, Whole, Grouped, Fate
<1>7. CASE (\E f \in BOOLEAN : Begin(f)) \/ RequestStop \/ Crash \/ \E m \in missing : Repair(m)
  <2>1. UNCHANGED receipt
    BY <1>7 DEF Begin, RequestStop, Crash, Repair
  <2>2. /\ ToSet(todo') \subseteq ToSet(todo)
        /\ pc' \in Sending => pc \in Sending /\ unit' = unit
    BY <1>2, <1>5, <1>7 DEF Begin, RequestStop, Crash, Repair, Sending
  <2> QED BY <1>1, <2>1, <2>2, DoubtsKept
<1>8. CASE Deliver
  <2>1. pc \in Sending
    BY <1>8, Delivers
  <2>2. /\ ToSet(todo') \subseteq ToSet(todo)
        /\ pc' \in Sending => unit' = unit
    BY <1>4, <1>5, <1>8, Delivers
  <2>3. \A m \in Msgs : receipt'[m] # "none" => receipt[m] # "none" \/ m \in Unit
    <3>1. \A m \in Msgs : (Marked[m] = "none") = (receipt[m] = "none")
      BY MarkedType DEF Types
    <3>2. CASE UNCHANGED receipt \/ receipt' = Marked
      BY <3>1, <3>2
    <3>3. CASE CannotSend \/ Prepare
      BY <3>3 DEF CannotSend, Prepare
    <3>4. CASE Confirm
      BY <3>4 DEF Confirm, Types, Records
    <3>5. CASE Answered \/ TurnedAway
      BY <3>2, <3>5 DEF Answered, TurnedAway, Doubt
    <3> QED BY <1>8, <3>2, <3>3, <3>4, <3>5
            DEF Deliver, Select, StopSeen, NetworkError, FloodWait, TooLarge, Refused, ConfirmFails, Logged, LogFails
  <2> QED BY <1>1, <2>1, <2>2, <2>3, DoubtsKept
<1>9. CASE NextGroup
  <2>1. UNCHANGED <<receipt, missing>> /\ pc = "next"
    BY <1>9 DEF NextGroup
  <2>2. CASE (stop \/ groups = <<>>) \/ (~stop /\ groups # <<>> /\ todo' = <<>>)
    <3>1. ToSet(todo') \subseteq ToSet(todo) /\ pc' \notin Sending
      BY <1>2, <1>5, <1>9, <2>2 DEF NextGroup, Sending
    <3> QED BY <1>1, <2>1, <3>1, DoubtsKept
  <2>3. CASE ~stop /\ groups # <<>> /\ todo' # <<>>
    <3>1. todo' = Head(groups) /\ ~(Len(Head(groups)) > 1) /\ pc' \notin Sending
      BY <1>9, <2>3 DEF NextGroup, Sending
    <3>2. OfExport(Head(groups))
      <4>1. 1 \in DOMAIN groups /\ Head(groups) = groups[1]
        BY <2>3 DEF Types, Where
      <4> QED BY <4>1 DEF Walk
    <3>3. \A m \in ToSet(todo') : m \in Msgs /\ ~Barred(m) /\ ~Whole(m)
      BY <3>1, <3>2, InGroup
    <3> QED BY <1>1, <1>6, <2>1, <3>1, <3>3 DEF Doubts
  <2> QED BY <2>2, <2>3
<1>10. CASE CheckAlbum
  <2>1. UNCHANGED <<receipt, missing>> /\ pc = "album" /\ todo = <<>> /\ OfExport(unit)
    BY <1>10 DEF CheckAlbum, Walk
  <2>2. CASE Onward
    BY <1>1, <1>4, <2>1, <2>2, DoubtsKept
  <2>3. CASE /\ ~\E m \in Unit : Fate(m) = "blocked"
             /\ Unit \intersect missing # {} /\ pc' = "item" /\ todo' = unit
    <3>1. \A m \in Unit : m \in Msgs /\ ~Barred(m) /\ ~Whole(m)
      BY <2>1, <2>3, InGroup DEF Unit
    <3>2. ToSet(todo') = Unit /\ pc' \notin Sending
      BY <2>3 DEF Unit, Sending
    <3> QED BY <1>1, <1>6, <2>1, <3>1, <3>2 DEF Doubts
  <2>4. CASE ~(\E m \in Unit : Fate(m) = "blocked") /\ UNCHANGED <<todo, unit>>
    <3>1. \A m \in Unit : m \in Msgs /\ ~Barred(m)
      BY <2>1, <2>4, InGroup DEF Unit
    <3>2. Unit' = Unit
      BY <2>4 DEF Unit
    <3> QED BY <1>1, <1>6, <2>1, <2>4, <3>1, <3>2 DEF Doubts
  <2> QED BY <1>10, <2>2, <2>3, <2>4 DEF CheckAlbum
<1>11. CASE CheckItem
  <2>1. UNCHANGED <<receipt, missing>> /\ pc = "item"
    BY <1>11 DEF CheckItem
  <2>2. CASE pc' \notin Sending /\ ToSet(todo') \subseteq ToSet(todo)
    BY <1>1, <2>1, <2>2, DoubtsKept
  <2>3. CASE todo # <<>> /\ ~stop /\ Verdict(Head(todo)) = "send"
    <3>1. unit' = <<Head(todo)>> /\ UNCHANGED todo
      BY <1>11, <2>3 DEF CheckItem, Fresh
    <3>2. Unit' = {Head(todo)}
      <4>1. DOMAIN <<Head(todo)>> = {1}
        OBVIOUS
      <4> QED BY <3>1, <4>1 DEF Unit, ToSet
    <3>3. ~Barred(Head(todo))
      BY <1>2, <1>3, <2>3 DEF Doubts
    <3> QED BY <1>1, <1>6, <2>1, <3>1, <3>2, <3>3 DEF Doubts
  <2>4. CASE todo = <<>>
    <3>1. pc' \notin Sending /\ UNCHANGED todo
      BY <1>11, <2>4 DEF CheckItem, Sending
    <3> QED BY <2>2, <3>1
  <2>5. CASE todo # <<>> /\ (stop \/ Verdict(Head(todo)) # "send")
    <3>1. Onward \/ End("stopped")
      BY <1>11, <2>5 DEF CheckItem
    <3> QED BY <1>4, <1>5, <2>2, <3>1
  <2> QED BY <2>3, <2>4, <2>5
<1> QED BY <1>7, <1>8, <1>9, <1>10, <1>11 DEF Next, Job, Deliver

-----------------------------------------------------------------------------
(* The report.                                                              *)

\* Why a message may be skipped.
Why(m) ==
  \/ Fate(m) # "wanted" \/ mapping[m] # 0
  \/ mapping[AlbumOf(m)[1]] # 0
  \/ \E n \in ToSet(AlbumOf(m)) : Fate(n) = "blocked"

\* What the report says of a message.
Told(m) ==
  /\ m \in Left => report[m] = {}
  /\ m \notin Left /\ Message(m).kind # "service" => report[m] # {}
  /\ "sent_mapped" \in report[m] => mapping[m] # 0
  /\ receipt[m] # "none" => report[m] \subseteq {"sent_unmapped", "failed"}
  /\ "skipped" \in report[m] => Why(m)

\* The report of a job that runs, or has come to its end.
Reports ==
  /\ pc # "idle" => ended = "none"
  /\ pc # "idle" \/ ended = "completed" => \A m \in Msgs : Told(m)

LEMMA AlbumIs ==
  ASSUME Types, NEW s, OfExport(s), NEW m \in ToSet(s)
  PROVE  AlbumOf(m) = s
<1>1. PICK g \in DOMAIN Grouped : s = Grouped[g]
  BY DEF OfExport
<1>2. \A h \in DOMAIN Grouped : m \in ToSet(Grouped[h]) => h = g
  BY <1>1, ExportGroups DEF Types, Fixed
<1> DEFINE h == CHOOSE h \in DOMAIN Grouped : m \in ToSet(Grouped[h])
<1>3. h = g
  BY <1>1, <1>2
<1> QED BY <1>1, <1>3 DEF AlbumOf

LEMMA AlbumFirst ==
  ASSUME Types, NEW m \in Msgs
  PROVE  AlbumOf(m)[1] \in Msgs
<1>1. PICK g \in DOMAIN Grouped : m \in ToSet(Grouped[g])
  BY ExportGroups DEF Types, Fixed, Members
<1>2. AlbumOf(m) = Grouped[g]
  BY <1>1, AlbumIs DEF OfExport
<1>3. Grouped[g] \in Seq(Msgs) /\ Len(Grouped[g]) >= 1
  BY ExportGroups DEF Types, Fixed
<1> QED BY <1>2, <1>3

\* A reason to skip a message stays one.
LEMMA WhyStays ==
  ASSUME Types, UNCHANGED scenario, \A m \in Msgs : mapping[m] # 0 => mapping'[m] # 0
  PROVE  \A m \in Msgs : Why(m) => Why(m)'
<1>1. \A m : Fate(m)' = Fate(m) /\ AlbumOf(m)' = AlbumOf(m)
  BY DEF Fate, AlbumOf, Grouped
<1> QED BY <1>1, AlbumFirst DEF Why

\* A step that is done with the messages S.
LEMMA TellsOf ==
  ASSUME Types, Msgs' = Msgs, UNCHANGED scenario, \A m \in Msgs : Told(m),
         \A m \in Msgs : mapping[m] # 0 => mapping'[m] # 0,
         NEW S, Left' = Left \ S,
         \A m \in Msgs \ S : report'[m] = report[m] /\ (m \notin Left /\ receipt'[m] # "none" => receipt[m] # "none"),
         \A m \in S : /\ report'[m] # {}
                      /\ "sent_mapped" \in report'[m] => mapping'[m] # 0
                      /\ receipt'[m] # "none" => report'[m] \subseteq {"sent_unmapped", "failed"}
                      /\ "skipped" \in report'[m] => Why(m)'
  PROVE  \A m \in Msgs : Told(m)'
<1>1. \A m \in Msgs : Why(m) => Why(m)'
  BY WhyStays
<1>2. \A m : Message(m)' = Message(m)
  BY DEF Message
<1> SUFFICES ASSUME NEW m \in Msgs PROVE Told(m)'
  OBVIOUS
<1>3. CASE m \in S
  BY <1>3 DEF Told
<1>4. CASE m \notin S
  <2>1. m \in Left' <=> m \in Left
    BY <1>4
  <2>2. report'[m] = report[m] /\ (m \notin Left /\ receipt'[m] # "none" => receipt[m] # "none")
    BY <1>4
  <2> QED BY <1>1, <1>2, <2>1, <2>2 DEF Told
<1> QED BY <1>3, <1>4

\* The job goes on, and what it is done with is recorded.
LEMMA OnwardReports ==
  ASSUME Types, Walk, Reports, Msgs' = Msgs, UNCHANGED scenario,
         Onward, UNCHANGED mapping,
         NEW S, \/ pc = "item" /\ todo # <<>> /\ S = {Head(todo)}
                \/ (pc \in Sending \/ pc = "album") /\ S = Unit,
         \A m \in Msgs \ S : receipt'[m] = receipt[m],
         NEW R \in SUBSET Results, R # {},
         report' = [m \in Msgs |-> IF m \in S THEN report[m] \union R ELSE report[m]],
         "sent_mapped" \in R => \A m \in S : mapping[m] # 0,
         "skipped" \in R => \A m \in S : Why(m),
         \A m \in S : receipt'[m] # "none" => R \subseteq {"sent_unmapped", "failed"}
  PROVE  Reports'
<1>1. Left' = Left \ S /\ pc' # "idle"
  BY OnwardLeft DEF Sending
<1>2. pc # "idle" /\ ended' = ended
  BY DEF Onward, Sending
<1>3. \A m \in Msgs : Told(m)
  BY <1>2 DEF Reports
<1>4. S \subseteq Left /\ S \subseteq Msgs
  <2>1. Unit \subseteq Left /\ Left \subseteq Msgs
    BY LeftMsgs DEF Left
  <2>2. pc = "item" => Head(todo) \in Left
    <3>1. pc = "item" => 1 \in DOMAIN todo /\ Head(todo) = todo[1]
      BY DEF Types, Where, Sending
    <3> QED BY <3>1 DEF Left, ToSet
  <2> QED BY <2>1, <2>2
<1>5. \A m \in S : report'[m] = R
  BY <1>3, <1>4 DEF Told
<1>6. \A m \in Msgs \ S : report'[m] = report[m]
  OBVIOUS
<1>7. \A m \in Msgs : Why(m) => Why(m)'
  BY WhyStays
<1>8. \A m \in S : /\ report'[m] # {}
                   /\ "sent_mapped" \in report'[m] => mapping'[m] # 0
                   /\ receipt'[m] # "none" => report'[m] \subseteq {"sent_unmapped", "failed"}
                   /\ "skipped" \in report'[m] => Why(m)'
  BY <1>4, <1>5, <1>7
<1>9. \A m \in Msgs : Told(m)'
  BY <1>1, <1>3, <1>6, <1>8, TellsOf
<1> QED BY <1>1, <1>2, <1>9 DEF Reports

\* A step that is not done with any message.
LEMMA StayReports ==
  ASSUME Types, Reports, Msgs' = Msgs, UNCHANGED <<scenario, report, ended>>, Left' = Left,
         pc' # "idle" => pc # "idle", pc' = "idle" => pc = "idle",
         \A m \in Msgs : mapping[m] # 0 => mapping'[m] # 0,
         \A m \in Msgs : m \notin Left /\ receipt'[m] # "none" => receipt[m] # "none"
  PROVE  Reports'
<1> DEFINE S == {}
<1>1. /\ Left' = Left \ S /\ \A m \in S : FALSE
      /\ \A m \in Msgs \ S : report'[m] = report[m] /\ (m \notin Left /\ receipt'[m] # "none" => receipt[m] # "none")
  OBVIOUS
<1> HIDE DEF S
<1>2. ASSUME \A m \in Msgs : Told(m)
      PROVE  \A m \in Msgs : Told(m)'
  BY <1>1, <1>2, TellsOf
<1> QED BY <1>2 DEF Reports

LEMMA EndReports ==
  ASSUME NEW how \in {"stopped", "raised", "crashed"}, End(how)
  PROVE  Reports'
BY DEF End, Reports

\* The checks between deliveries.
LEMMA WalkReports ==
  ASSUME Types, Types', Walk, Walk', Ledger, Doubts, Reports, Msgs' = Msgs,
         \/ \E f \in BOOLEAN : Begin(f)
         \/ NextGroup \/ CheckAlbum \/ CheckItem \/ RequestStop \/ Crash \/ \E m \in missing : Repair(m)
  PROVE  Reports'
<1>1. UNCHANGED scenario
  BY DEF Begin, NextGroup, CheckAlbum, CheckItem, RequestStop, Crash, Repair
<1>2. ToSet(todo) \subseteq Msgs /\ Unit \subseteq Msgs /\ Left \subseteq Msgs
  BY LeftMsgs DEF Left
<1>3. CASE \E f \in BOOLEAN : Begin(f)
  <2>1. /\ pc' = "next" /\ ended' = "none" /\ report' = [m \in Msgs |-> {}]
        /\ groups' = Grouped
    BY <1>3 DEF Begin
  <2>2. Msgs \subseteq Left'
    BY <2>1, ExportGroups DEF Left, Types, Fixed
  <2>3. \A m \in Msgs : Told(m)'
    BY <2>1, <2>2 DEF Told
  <2> QED BY <1>1, <2>1, <2>3 DEF Reports
<1>4. CASE NextGroup
  <2>1. pc = "next" /\ UNCHANGED <<mapping, receipt, report>> /\ ToSet(todo) = {} /\ Unit = {}
    BY <1>4, Nothing DEF NextGroup, Walk, Unit
  <2>2. CASE stop
    BY <1>4, <2>2, EndReports DEF NextGroup
  <2>3. CASE ~stop /\ groups = <<>>
    <3>1. Left = {} /\ Left' = {}
      <4>1. End("completed")
        BY <1>4, <2>3 DEF NextGroup
      <4> QED BY <2>1, <2>3, <4>1, EndLeft, Nothing DEF Left
    <3>2. \A m \in Msgs : Told(m)
      BY <2>1 DEF Reports
    <3>3. \A m : Why(m)' = Why(m) /\ Message(m)' = Message(m)
      BY <1>1, <2>1 DEF Why, Fate, AlbumOf, Grouped, Message
    <3>4. \A m \in Msgs : Told(m)'
      BY <2>1, <3>1, <3>2, <3>3 DEF Told
    <3>5. pc' = "idle"
      BY <1>4, <2>3 DEF NextGroup, End
    <3> QED BY <1>1, <3>4, <3>5 DEF Reports
  <2>4. CASE ~stop /\ groups # <<>>
    <3>1. /\ unit' = Head(groups) /\ groups' = Tail(groups) /\ ended' = ended
          /\ pc' \in {"album", "item"} /\ todo' \in {<<>>, Head(groups)}
      BY <1>4, <2>4 DEF NextGroup, Fresh
    <3>2. Members(groups) = ToSet(Head(groups)) \union Members(Tail(groups))
      <4>1. PICK N \in Nat : Msgs = 1..N
        BY ExportGroups DEF Types, Fixed
      <4>2. groups \in Seq(Seq(1..N))
        BY <4>1 DEF Types, Where
      <4> QED BY <2>4, <4>2, FirstGroup DEF Walk
    <3>3. Unit' = ToSet(Head(groups)) /\ Members(groups)' = Members(Tail(groups)) /\ ToSet(todo') \subseteq ToSet(Head(groups))
      BY <3>1, Nothing DEF Unit
    <3>4. Left' = Left
      BY <2>1, <3>2, <3>3 DEF Left
    <3> QED BY <1>1, <2>1, <3>1, <3>4, StayReports
  <2> QED BY <2>2, <2>3, <2>4
<1>5. CASE CheckAlbum
  <2>1. /\ pc = "album" /\ UNCHANGED <<mapping, receipt>> /\ OfExport(unit) /\ Len(unit) > 1 /\ todo = <<>>
    BY <1>5 DEF CheckAlbum, Walk
  <2>2. CASE /\ Pending(Unit) \/ Synced(Head(unit)) \/ \E m \in Unit : Fate(m) = "blocked"
             /\ report' = Recorded(Unit, IF Pending(Unit) THEN "sent_unmapped" ELSE "skipped") /\ Onward
    <3>1. CASE Pending(Unit)
      <4> DEFINE R == {"sent_unmapped"}
      <4>1. R \in SUBSET Results /\ R # {} /\ report' = [m \in Msgs |-> IF m \in Unit THEN report[m] \union R ELSE report[m]]
        BY <2>2, <3>1 DEF Results, Recorded
      <4>2. "sent_mapped" \notin R /\ "skipped" \notin R /\ R \subseteq {"sent_unmapped", "failed"}
        OBVIOUS
      <4> HIDE DEF R
      <4> QED BY <1>1, <2>1, <2>2, <4>1, <4>2, OnwardReports
    <3>2. CASE ~Pending(Unit)
      <4> DEFINE R == {"skipped"}
      <4>1. R \in SUBSET Results /\ R # {} /\ report' = [m \in Msgs |-> IF m \in Unit THEN report[m] \union R ELSE report[m]]
        BY <2>2, <3>2 DEF Results, Recorded
      <4>2. "sent_mapped" \notin R
        OBVIOUS
      <4>3. \A m \in Unit : AlbumOf(m) = unit /\ m \in Msgs
        BY <1>2, <2>1, AlbumIs DEF Unit
      <4>4. Head(unit) = unit[1]
        BY <2>1 DEF Types, Where
      <4>5. CASE \E m \in Unit : Fate(m) = "blocked"
        <5>1. \A m \in Unit : Why(m)
          BY <4>3, <4>5 DEF Why, Unit
        <5>2. \A m \in Unit : receipt[m] = "none"
          <6>1. \A m \in Unit : Barred(m)
            BY <2>1, <4>5, InGroup DEF Unit
          <6> QED BY <4>3, <6>1 DEF Doubts
        <5> HIDE DEF R
        <5> QED BY <1>1, <2>1, <2>2, <4>1, <4>2, <5>1, <5>2, OnwardReports
      <4>6. CASE Synced(Head(unit))
        <5>1. \A m \in Unit : Why(m)
          BY <4>3, <4>4, <4>6 DEF Why, Synced
        <5>2. \A m \in Unit : receipt[m] = "none"
          BY <3>2, <4>6 DEF Pending, Synced
        <5> HIDE DEF R
        <5> QED BY <1>1, <2>1, <2>2, <4>1, <4>2, <5>1, <5>2, OnwardReports
      <4> QED BY <2>2, <3>2, <4>5, <4>6
    <3> QED BY <3>1, <3>2
  <2>3. CASE /\ UNCHANGED <<groups, report, ended>> /\ pc' \in {"item", "select"}
             /\ \/ todo' = unit /\ unit' = <<>>
                \/ UNCHANGED <<todo, unit>>
    <3>1. Left' = Left
      <4>1. CASE todo' = unit /\ unit' = <<>>
        <5>1. ToSet(todo') = Unit /\ Unit' = {} /\ ToSet(todo) = {} /\ Members(groups)' = Members(groups)
          BY <2>1, <2>3, <4>1, Nothing DEF Unit
        <5> QED BY <5>1 DEF Left
      <4>2. CASE UNCHANGED <<todo, unit>>
        BY <2>3, <4>2 DEF Left, Unit
      <4> QED BY <2>3, <4>1, <4>2
    <3> QED BY <1>1, <2>1, <2>3, <3>1, StayReports
  <2> QED BY <1>5, <2>2, <2>3 DEF CheckAlbum, Fresh
<1>6. CASE CheckItem
  <2>1. pc = "item" /\ UNCHANGED <<mapping, receipt>>
    BY <1>6 DEF CheckItem
  <2>2. CASE todo = <<>>
    <3>1. pc' = "next" /\ UNCHANGED <<groups, todo, unit, ended, report>>
      BY <1>6, <2>2 DEF CheckItem
    <3>2. Left' = Left
      BY <3>1 DEF Left, Unit
    <3> QED BY <1>1, <2>1, <3>1, <3>2, StayReports
  <2>3. CASE todo # <<>> /\ stop
    BY <1>6, <2>3, EndReports DEF CheckItem
  <2> DEFINE h == Head(todo)
  <2>4. todo # <<>> => h \in Msgs /\ h \in ToSet(todo)
    <3>1. todo # <<>> => 1 \in DOMAIN todo /\ h = todo[1] /\ todo[1] \in Msgs
      BY DEF Types, Where
    <3> QED BY <3>1 DEF ToSet
  <2>5. CASE todo # <<>> /\ ~stop /\ Verdict(h) = "send"
    <3>1. pc' = "select" /\ unit' = <<h>> /\ UNCHANGED <<groups, todo, ended, report>>
      BY <1>6, <2>5 DEF CheckItem, Fresh
    <3>2. Unit' = {h} /\ Unit \subseteq ToSet(todo)
      <4>1. DOMAIN <<h>> = {1}
        OBVIOUS
      <4> QED BY <2>1, <3>1, <4>1 DEF Unit, ToSet, Walk
    <3>3. Left' = Left
      BY <2>4, <2>5, <3>1, <3>2 DEF Left
    <3> QED BY <1>1, <2>1, <3>1, <3>3, StayReports
  <2>6. CASE todo # <<>> /\ ~stop /\ Verdict(h) = "ignored"
    <3>1. Onward /\ report' = report
      BY <1>6, <2>6 DEF CheckItem
    <3>2. Left' = Left \ {h} /\ pc' # "idle" /\ ended' = ended
      BY <1>1, <2>1, <2>6, <3>1, OnwardLeft DEF Onward
    <3>3. Message(h).kind = "service"
      BY <2>6 DEF Verdict, Pending, Synced
    <3>4. \A m \in Msgs : Told(m)
      BY <2>1 DEF Reports
    <3>5. \A m : Why(m)' = Why(m) /\ Message(m)' = Message(m)
      BY <1>1, <2>1 DEF Why, Fate, AlbumOf, Grouped, Message
    <3>6. \A m \in Msgs : Told(m)'
      BY <2>1, <3>1, <3>2, <3>3, <3>4, <3>5 DEF Told
    <3> QED BY <1>1, <2>1, <3>2, <3>6 DEF Reports
  <2>7. CASE todo # <<>> /\ ~stop /\ Verdict(h) \in {"skipped", "sent_unmapped", "failed"}
    <3> DEFINE R == {Verdict(h)}
               S == {h}
    <3>1. Onward /\ report' = [m \in Msgs |-> IF m \in S THEN report[m] \union R ELSE report[m]]
      BY <1>6, <2>7 DEF CheckItem, Recorded
    <3>2. /\ R \in SUBSET Results /\ R # {} /\ "sent_mapped" \notin R
          /\ "skipped" \notin R => R \subseteq {"sent_unmapped", "failed"}
      BY <2>7 DEF Results
    <3>3. "skipped" \in R => Why(h) /\ receipt[h] = "none"
      <4> SUFFICES ASSUME Verdict(h) = "skipped" PROVE Why(h) /\ receipt[h] = "none"
        OBVIOUS
      <4>1. CASE Fate(h) # "wanted"
        BY <2>4, <2>7, <4>1 DEF Why, Doubts
      <4>2. CASE Fate(h) = "wanted"
        <5>1. ~Pending({h}) /\ Synced(h)
          BY <4>2 DEF Verdict, Pending, Synced
        <5> QED BY <5>1 DEF Why, Pending, Synced
      <4> QED BY <4>1, <4>2
    <3>4. /\ "skipped" \in R => \A m \in S : Why(m)
          /\ "sent_mapped" \in R => \A m \in S : mapping[m] # 0
          /\ \A m \in S : receipt'[m] # "none" => R \subseteq {"sent_unmapped", "failed"}
      BY <2>1, <3>2, <3>3
    <3>5. /\ S = {Head(todo)}
          /\ \A m \in Msgs \ S : receipt'[m] = receipt[m]
      BY <2>1
    <3>6. pc = "item" /\ todo # <<>> /\ UNCHANGED mapping
      BY <2>1, <2>7
    <3> HIDE DEF R, S, h
    <3>7. R \in SUBSET Results /\ R # {}
      BY <3>2
    <3> QED BY ZenonT(60), <1>1, <3>1, <3>7, <3>4, <3>5, <3>6, OnwardReports
  <2>8. Verdict(h) \in {"ignored", "skipped", "sent_unmapped", "failed", "send"}
    BY DEF Verdict
  <2> QED BY <2>2, <2>3, <2>5, <2>6, <2>7, <2>8
<1>7. CASE RequestStop \/ \E m \in missing : Repair(m)
  <2>1. UNCHANGED <<groups, todo, unit, pc, ended, report, mapping, receipt>>
    BY <1>7 DEF RequestStop, Repair
  <2>2. Left' = Left
    BY <2>1 DEF Left, Unit
  <2> QED BY <1>1, <2>1, <2>2, StayReports
<1>8. CASE Crash
  BY <1>8, EndReports DEF Crash
<1> QED BY <1>3, <1>4, <1>5, <1>6, <1>7, <1>8

LEMMA DeliverReports ==
  ASSUME Types, Types', Walk, Walk', Ledger, Reports, Msgs' = Msgs, Deliver
  PROVE  Reports'
<1>1. /\ pc \in Sending /\ UNCHANGED <<scenario, parts, missing, force>>
      /\ \/ End("stopped") \/ End("raised")
         \/ Onward
         \/ UNCHANGED <<groups, todo, unit, stop, ended, report>> /\ pc' \in Sending
  BY Delivers
<1>2. Unit \subseteq Left /\ Unit \subseteq Msgs
  BY LeftMsgs DEF Left
<1>3. CASE End("stopped") \/ End("raised")
  BY <1>3, EndReports
<1>4. CASE UNCHANGED <<groups, todo, unit, stop, ended, report>> /\ pc' \in Sending
  <2>1. Left' = Left /\ pc # "idle" /\ pc' # "idle"
    BY <1>1, <1>4 DEF Left, Unit, Sending
  <2>2. \A m \in Msgs : mapping[m] # 0 => mapping'[m] # 0
    <3>1. CASE UNCHANGED mapping
      BY <3>1
    <3>2. CASE Confirm
      <4>1. /\ pc = "confirm" /\ answer # <<>>
            /\ mapping' = [mapping EXCEPT ![Head(answer)[1]] = IF force \/ @ = 0 THEN Head(answer)[2] ELSE @]
        BY <3>2 DEF Confirm
      <4>2. 1 \in DOMAIN answer /\ Head(answer) = answer[1]
        BY <4>1 DEF Types, Request
      <4>3. Head(answer)[2] = Head(answer)[1] /\ Head(answer)[1] \in Msgs
        BY <1>2, <4>1, <4>2 DEF Ledger
      <4>4. Head(answer)[2] # 0
        BY <4>3, ExportGroups DEF Types, Fixed
      <4> HIDE DEF Reports
      <4> QED BY <4>1, <4>3, <4>4 DEF Types, Records
    <3> QED BY <3>1, <3>2 DEF Deliver, Select, CannotSend, Prepare, StopSeen, Answered, NetworkError, TurnedAway,
                              FloodWait, TooLarge, Refused, ConfirmFails, Logged, LogFails
  <2>3. \A m \in Msgs : m \notin Left /\ receipt'[m] # "none" => receipt[m] # "none"
    <3>1. \A m \in Msgs : (Marked[m] = "none") = (receipt[m] = "none")
      BY MarkedType DEF Types
    <3>2. CASE UNCHANGED receipt \/ receipt' = Marked
      BY <3>1, <3>2
    <3>3. CASE CannotSend \/ Prepare
      BY <1>2, <3>3 DEF CannotSend, Prepare
    <3>4. CASE Confirm
      BY <3>4 DEF Confirm, Types, Records
    <3>5. CASE Answered \/ TurnedAway
      BY <3>2, <3>5 DEF Answered, TurnedAway, Doubt
    <3> QED BY <3>2, <3>3, <3>4, <3>5
            DEF Deliver, Select, StopSeen, NetworkError, FloodWait, TooLarge, Refused, ConfirmFails, Logged, LogFails
  <2> QED BY <1>1, <1>4, <2>1, <2>2, <2>3, StayReports
<1>5. CASE Onward
  <2>1. pc # "item" /\ pc # "idle" /\ pc' \notin Sending
    BY <1>1, <1>5 DEF Onward, Sending
  <2>2. \/ UNCHANGED mapping /\ report' = Recorded(Unit, "failed") /\ (\A m \in Msgs \ Unit : receipt'[m] = receipt[m])
        \/ UNCHANGED mapping /\ report' = Recorded(Unit, "sent_unmapped") /\ (\A m \in Msgs \ Unit : receipt'[m] = receipt[m])
        \/ /\ pc = "confirm" /\ answer = <<>> /\ UNCHANGED <<mapping, receipt>>
           /\ \/ report' = Recorded(Unit, "sent_mapped")
              \/ report' = [m \in Msgs |-> IF m \in Unit THEN report[m] \union {"sent_mapped", "failed"} ELSE report[m]]
    <3>1. \A m \in Msgs \ Unit : Marked[m] = receipt[m]
      BY DEF Marked
    <3>2. ~End("raised") /\ ~End("stopped")
      BY <1>5, <2>1 DEF Onward, End
    <3>3. CASE Select \/ Prepare \/ StopSeen \/ FloodWait \/ TooLarge \/ Confirm \/ ConfirmFails
      BY <1>5, <2>1, <3>2, <3>3
         DEF Select, Prepare, StopSeen, FloodWait, TooLarge, Resent, Confirm, ConfirmFails, Onward, Sending
    <3>4. CASE CannotSend \/ Refused
      BY <3>2, <3>4 DEF CannotSend, Refused, Fails
    <3>5. CASE Answered
      BY <2>1, <3>1, <3>2, <3>5 DEF Answered, Doubt, Fails, Sending
    <3>6. CASE NetworkError
      BY <2>1, <3>2, <3>6 DEF NetworkError, Fails, Sending
    <3>7. CASE TurnedAway
      BY <2>1, <3>1, <3>2, <3>7 DEF TurnedAway, Resent, Doubt, Fails, Sending
    <3>8. CASE Logged \/ LogFails
      BY <3>2, <3>8 DEF Logged, LogFails
    <3> QED BY <3>3, <3>4, <3>5, <3>6, <3>7, <3>8, Zenon DEF Deliver
  <2>3. ASSUME NEW R \in SUBSET Results, R # {}, UNCHANGED mapping,
               report' = [m \in Msgs |-> IF m \in Unit THEN report[m] \union R ELSE report[m]],
               \A m \in Msgs \ Unit : receipt'[m] = receipt[m], "skipped" \notin R,
               "sent_mapped" \in R => \A m \in Unit : mapping[m] # 0 /\ receipt'[m] = "none",
               "sent_mapped" \notin R => R \subseteq {"sent_unmapped", "failed"}
        PROVE  Reports'
    BY <1>1, <1>5, <2>1, <2>3, OnwardReports
  <2>4. CASE UNCHANGED mapping /\ report' = Recorded(Unit, "failed") /\ (\A m \in Msgs \ Unit : receipt'[m] = receipt[m])
    <3> DEFINE R == {"failed"}
    <3>1. R \in SUBSET Results /\ R # {} /\ "skipped" \notin R /\ "sent_mapped" \notin R /\ R \subseteq {"sent_unmapped", "failed"}
      BY DEF Results
    <3>2. report' = [m \in Msgs |-> IF m \in Unit THEN report[m] \union R ELSE report[m]]
      BY <2>4 DEF Recorded
    <3> HIDE DEF R
    <3> QED BY <2>3, <2>4, <3>1, <3>2
  <2>5. CASE UNCHANGED mapping /\ report' = Recorded(Unit, "sent_unmapped") /\ (\A m \in Msgs \ Unit : receipt'[m] = receipt[m])
    <3> DEFINE R == {"sent_unmapped"}
    <3>1. R \in SUBSET Results /\ R # {} /\ "skipped" \notin R /\ "sent_mapped" \notin R /\ R \subseteq {"sent_unmapped", "failed"}
      BY DEF Results
    <3>2. report' = [m \in Msgs |-> IF m \in Unit THEN report[m] \union R ELSE report[m]]
      BY <2>5 DEF Recorded
    <3> HIDE DEF R
    <3> QED BY <2>3, <2>5, <3>1, <3>2
  <2>6. CASE /\ pc = "confirm" /\ answer = <<>> /\ UNCHANGED <<mapping, receipt>>
             /\ \/ report' = Recorded(Unit, "sent_mapped")
                \/ report' = [m \in Msgs |-> IF m \in Unit THEN report[m] \union {"sent_mapped", "failed"} ELSE report[m]]
    <3>1. \A m \in Unit : receipt[m] = "none" /\ mapping[m] # 0
      <4>1. DOMAIN answer = {}
        BY <2>6
      <4> QED BY <2>6, <4>1 DEF Ledger
    <3> DEFINE R == IF report' = Recorded(Unit, "sent_mapped") THEN {"sent_mapped"} ELSE {"sent_mapped", "failed"}
    <3>2. R \in SUBSET Results /\ R # {} /\ "skipped" \notin R /\ "sent_mapped" \in R
      BY DEF Results
    <3>3. report' = [m \in Msgs |-> IF m \in Unit THEN report[m] \union R ELSE report[m]]
      BY <2>6 DEF Recorded
    <3> HIDE DEF R
    <3> QED BY <2>3, <2>6, <3>1, <3>2, <3>3
  <2> QED BY <2>2, <2>4, <2>5, <2>6
<1> QED BY <1>1, <1>3, <1>4, <1>5
-----------------------------------------------------------------------------
(* Theorems.                                                                *)

\* What every state of the import satisfies.
IInv == Types /\ Walk /\ Ledger /\ Doubts /\ Reports

LEMMA IInvInit ==
  ASSUME Init
  PROVE  IInv
<1>1. Types
  BY TypesInit
<1>2. /\ pc = "idle" /\ ended = "none" /\ groups = <<>> /\ todo = <<>> /\ unit = <<>>
      /\ guard = "fresh" /\ force = FALSE /\ missing = scenario.missing
      /\ receipt = [m \in Msgs |-> "none"] /\ mapping = [m \in Msgs |-> 0]
      /\ copies = [m \in Msgs |-> 0] /\ extra = [m \in Msgs |-> 0]
  BY DEF Init
<1>3. pc \notin Sending /\ Unit = {} /\ ToSet(todo) = {}
  BY <1>2, Nothing DEF Sending, Unit
<1>4. Walk
  BY <1>2, <1>3, Nothing DEF Walk, Before
<1>5. Ledger
  BY <1>2 DEF Ledger, Traced, MappingSound, CopiesExplained
<1>6. Doubts
  BY <1>2, <1>3 DEF Doubts
<1>7. Reports
  BY <1>2 DEF Reports
<1> QED BY <1>1, <1>4, <1>5, <1>6, <1>7 DEF IInv

LEMMA IInvStep ==
  ASSUME IInv, Next
  PROVE  IInv'
<1>1. Types /\ Walk /\ Ledger /\ Doubts /\ Reports
  BY DEF IInv
<1>2. Types' /\ Msgs' = Msgs
  BY <1>1, TypesStep, FixedStep DEF Types
<1>3. Walk'
  BY <1>1, WalkStep
<1>4. Ledger'
  BY <1>1, <1>2, LedgerStep
<1>5. Doubts'
  BY <1>1, <1>2, <1>3, DoubtsStep
<1>6. Reports'
  <2>1. Deliver \/ ( \/ \E f \in BOOLEAN : Begin(f)
                     \/ NextGroup \/ CheckAlbum \/ CheckItem \/ RequestStop \/ Crash \/ \E m \in missing : Repair(m))
    BY DEF Next, Job, Deliver
  <2> QED BY <1>1, <1>2, <1>3, <2>1, WalkReports, DeliverReports
<1> QED BY <1>2, <1>3, <1>4, <1>5, <1>6 DEF IInv

\* The same values in the next state.
LEMMA IInvStutter ==
  ASSUME IInv, UNCHANGED vars
  PROVE  IInv'
<1>1. UNCHANGED <<scenario, parts, missing, receipt, mapping, copies, pc, stop, groups, todo, ended, force,
                  unit, guard, via, rounds, tries, part, answer, report, extra, bounds>>
  BY DEF vars
<1>2. /\ UNCHANGED <<Msgs, Unit, Left, Ahead, Grouped>>
      /\ \A m : Fate(m)' = Fate(m) /\ Message(m)' = Message(m)
  BY <1>1 DEF Msgs, Unit, Left, Ahead, Grouped, Fate, Message
<1>3. \A m : AlbumOf(m)' = AlbumOf(m)
  BY <1>2 DEF AlbumOf
<1>4. \A m : Barred(m)' = Barred(m) /\ Whole(m)' = Whole(m) /\ OfExport(m)' = OfExport(m) /\ Why(m)' = Why(m)
  BY <1>1, <1>2, <1>3 DEF Barred, Whole, OfExport, Why
<1>5. Types'
  BY <1>1, <1>2 DEF IInv, Types, Fixed, Records, Flags, Request, Used, Where
<1>6. Walk'
  BY <1>1, <1>2, <1>4 DEF IInv, Walk
<1>7. Ledger'
  BY <1>1, <1>2 DEF IInv, Ledger, Traced, MappingSound, CopiesExplained
<1>8. Doubts'
  BY <1>1, <1>2, <1>4 DEF IInv, Doubts
<1>9. Reports'
  BY <1>1, <1>2, <1>4 DEF IInv, Reports, Told
<1> QED BY <1>5, <1>6, <1>7, <1>8, <1>9 DEF IInv

LEMMA Invariant == Spec => []IInv
<1>1. Init => IInv
  BY IInvInit
<1>2. IInv /\ [Next]_vars => IInv'
  BY IInvStep, IInvStutter
<1> QED BY <1>1, <1>2, PTL DEF Spec

\* The values have their types, and a mapping names the copy of its own message,
\* whichever of the answers a request may get.
THEOREM LedgerCorrect == Spec => []LedgerConsistent
<1>1. IInv => LedgerConsistent
  BY TypesOK DEF IInv, Ledger, LedgerConsistent
<1> QED BY <1>1, Invariant, PTL

\* A message that may be in the target has a receipt or a mapping, for every
\* export and however many jobs are stopped, fail or die.
THEOREM TracedCorrect == Spec => []Traced
<1>1. IInv => Traced
  BY DEF IInv, Ledger
<1> QED BY <1>1, Invariant, PTL

\* Every copy of a message but the first has a reason.
THEOREM CopiesCorrect == Spec => []CopiesExplained
<1>1. IInv => CopiesExplained
  BY DEF IInv, Ledger
<1> QED BY <1>1, Invariant, PTL

\* What a job that came to its end reports of the messages is so.
THEOREM ReportCorrect == Spec => []ReportSound
<1>1. IInv => ReportSound
  <2> SUFFICES ASSUME IInv, ended = "completed", NEW m \in Msgs, Message(m).kind # "service"
               PROVE  /\ report[m] # {}
                      /\ "sent_mapped" \in report[m] => mapping[m] # 0
                      /\ receipt[m] # "none" => report[m] \subseteq {"sent_unmapped", "failed"}
                      /\ "skipped" \in report[m] => Why(m)
    BY DEF ReportSound, Why
  <2>1. pc = "idle" /\ Told(m)
    BY DEF IInv, Reports
  <2>2. Left = {}
    <3>1. groups = <<>> /\ todo = <<>> /\ unit = <<>>
      BY <2>1 DEF IInv, Walk
    <3> QED BY <3>1, Nothing DEF Left, Unit
  <2> QED BY <2>1, <2>2 DEF Told
<1> QED BY <1>1, Invariant, PTL

\* Every export, however long, is cut into albums as the rules for albums say.
THEOREM GroupsCorrect == Spec => []GroupsSound
<1>1. IInv => GroupsSound
  BY GroupsWell DEF IInv, Types, Fixed, GroupsSound
<1> QED BY <1>1, Invariant, PTL

\* The text is cut once.
PartsCut == parts = SplitText(scenario.text)

\* Every export is cut into albums as the rules for albums say, and every text,
\* however long and however its tags lie, into parts that show what it shows, that
\* leave no tag open and that are within the limit.
THEOREM CutsCorrect == Spec => []CutsSound
<1>1. Init => PartsCut
  BY DEF Init, PartsCut
<1>2. IInv /\ PartsCut /\ [Next]_vars => PartsCut'
  <2>1. IInv /\ Next => UNCHANGED <<scenario, parts>>
    BY FixedStep DEF IInv, Types
  <2>2. UNCHANGED vars => UNCHANGED <<scenario, parts>>
    BY DEF vars
  <2> QED BY <2>1, <2>2 DEF PartsCut
<1>3. IInv /\ PartsCut => CutsSound
  <2> SUFFICES ASSUME IInv, PartsCut
               PROVE  GroupsSound /\ PartsSound
    BY DEF CutsSound
  <2>1. scenario \in Scenarios
    BY DEF IInv, Types, Fixed
  <2>2. GroupsSound
    BY <2>1, GroupsWell DEF GroupsSound
  <2>3. scenario.text \in Seq(Token)
    BY <2>1, Numbers
  <2>4. WellSplit(scenario.text, parts)
    BY <2>3, SplitSound DEF PartsCut
  <2> QED BY <2>2, <2>4 DEF PartsSound
<1> QED BY <1>1, <1>2, <1>3, Invariant, PTL DEF Spec
-----------------------------------------------------------------------------
(* What steps do with copies and receipts.                                  *)

\* Only a request can copy, and only with its first part.
LEMMA Copying ==
  ASSUME Types, Next
  PROVE  \E C : (C = {} \/ (pc = "request" /\ part = 1 /\ C = Unit)) /\ copies' = Added(copies, C)
<1>1. CASE UNCHANGED copies
  BY <1>1, NothingAdded DEF Types, Records
<1>2. CASE Crash \/ StopSeen
  BY <1>2 DEF Crash, StopSeen
<1>3. CASE Answered
  BY <1>3 DEF Answered, Carried
<1>4. CASE NetworkError
  BY <1>4 DEF NetworkError
<1> QED BY <1>1, <1>2, <1>3, <1>4
        DEF Next, Job, Begin, NextGroup, CheckAlbum, CheckItem, Select, CannotSend, Prepare, TurnedAway, FloodWait,
            TooLarge, Refused, Confirm, ConfirmFails, Logged, LogFails, RequestStop, Repair

\* A receipt is written by a reservation and deleted by a confirmation.
LEMMA Settled ==
  ASSUME Types, Next
  PROVE  \/ Prepare \/ CannotSend \/ Confirm
         \/ UNCHANGED mapping /\ \A m \in Msgs : (receipt'[m] = "none") = (receipt[m] = "none")
<1>1. CASE UNCHANGED <<mapping, receipt>>
  BY <1>1
<1>2. CASE Answered \/ TurnedAway
  <2>1. UNCHANGED mapping /\ (UNCHANGED receipt \/ receipt' = Marked)
    <3>1. CASE Answered
      BY <3>1 DEF Answered, Doubt
    <3>2. CASE TurnedAway
      BY <3>2 DEF TurnedAway, Doubt
    <3> QED BY <1>2, <3>1, <3>2
  <2> QED BY <2>1, MarkedType DEF Types
<1> QED BY <1>1, <1>2
        DEF Next, Job, Begin, NextGroup, CheckAlbum, CheckItem, Select, StopSeen, NetworkError, FloodWait,
            TooLarge, Refused, ConfirmFails, Logged, LogFails, RequestStop, Crash, Repair

\* What is confirmed was copied: the request was answered.
Sent ==
  /\ pc \notin {"request", "confirm"} => part = 1
  /\ pc = "confirm" \/ (pc = "request" /\ part # 1) => \A m \in Unit : copies[m] > 0

LEMMA SentStep ==
  ASSUME Types, Ledger, Sent, Next
  PROVE  Sent'
<1>1. PICK C : (C = {} \/ (pc = "request" /\ part = 1 /\ C = Unit)) /\ copies' = Added(copies, C)
  BY Copying
<1>2. \A m \in Msgs : copies[m] \in Nat /\ copies'[m] = IF m \in C THEN copies[m] + 1 ELSE copies[m]
  BY <1>1, AddedType DEF Types, Records
<1>3. Unit \subseteq Msgs
  BY LeftMsgs
<1>4. CASE part' = 1 /\ pc' \notin {"request", "confirm"}
  BY <1>4 DEF Sent
<1>5. CASE Deliver /\ UNCHANGED unit /\ pc' \in Sending
  <2>1. CASE Select
    <3>1. pc = "select" /\ guard = "fresh" /\ pc' = "prepare" /\ UNCHANGED part
      BY <2>1 DEF Select, Ledger
    <3> QED BY <3>1 DEF Sent
  <2>2. CASE Prepare
    <3>1. pc = "prepare" /\ pc' = "request" /\ UNCHANGED part
      BY <2>2 DEF Prepare
    <3> QED BY <3>1 DEF Sent
  <2>3. CASE Answered
    <3>1. pc = "request" /\ copies' = Added(copies, IF part = 1 THEN Unit ELSE {})
      BY <2>3 DEF Answered, Carried
    <3>2. \A m \in Unit : copies'[m] > 0
      <4> SUFFICES ASSUME NEW m \in Unit PROVE copies'[m] > 0
        OBVIOUS
      <4>1. m \in Msgs /\ copies[m] \in Nat
        BY <1>2, <1>3
      <4>2. copies'[m] = IF m \in (IF part = 1 THEN Unit ELSE {}) THEN copies[m] + 1 ELSE copies[m]
        BY <3>1, <4>1, AddedType DEF Types, Records
      <4>3. CASE part = 1
        BY <4>1, <4>2, <4>3
      <4>4. CASE part # 1
        BY <3>1, <4>1, <4>2, <4>4 DEF Sent
      <4> QED BY <4>3, <4>4
    <3>3. pc' \in {"request", "confirm"} \/ part' = 1
      BY <2>3 DEF Answered, Doubt, Fails, Onward, End, Fresh
    <3>4. Unit' = Unit
      BY <1>5 DEF Unit
    <3> QED BY <3>2, <3>3, <3>4 DEF Sent
  <2>4. CASE NetworkError \/ TurnedAway \/ FloodWait \/ TooLarge
    <3>1. pc = "request" /\ ((UNCHANGED <<pc, part>>) \/ (part' = 1 /\ pc' \notin Sending))
      BY <2>4 DEF NetworkError, TurnedAway, FloodWait, TooLarge, Resent, Doubt, Fails, Onward, End, Fresh, Sending
    <3>2. Unit' = Unit
      BY <1>5 DEF Unit
    <3> QED BY <1>2, <1>3, <1>5, <3>1, <3>2 DEF Sent
  <2>5. CASE Confirm
    <3>1. pc = "confirm" /\ pc' = "confirm" /\ UNCHANGED <<copies, part>> /\ Unit' = Unit
      BY <1>5, <2>5 DEF Confirm, Unit
    <3> QED BY <3>1 DEF Sent
  <2>6. CASE CannotSend \/ StopSeen \/ Refused \/ ConfirmFails \/ Logged \/ LogFails
    <3>1. pc' \notin Sending
      BY <2>6 DEF CannotSend, StopSeen, Refused, ConfirmFails, Logged, LogFails, Fails, Onward, End, Sending
    <3> QED BY <1>5, <3>1
  <2> QED BY <1>5, <2>1, <2>2, <2>3, <2>4, <2>5, <2>6 DEF Deliver
<1>6. CASE Deliver /\ ~(UNCHANGED unit /\ pc' \in Sending)
  <2>1. Onward \/ End("stopped") \/ End("raised")
    BY <1>6, Delivers
  <2> QED BY <1>4, <2>1 DEF Onward, End, Fresh
<1>7. CASE CheckAlbum
  <2>1. pc = "album" /\ (part' = 1 \/ UNCHANGED part) /\ pc' \in {"item", "next", "select"}
    BY <1>7 DEF CheckAlbum, Onward, Fresh
  <2> QED BY <2>1 DEF Sent
<1>8. CASE CheckItem
  <2>1. pc = "item" /\ (part' = 1 \/ UNCHANGED part) /\ pc' \in {"item", "next", "select", "idle"}
    BY <1>8 DEF CheckItem, Onward, End, Fresh
  <2> QED BY <2>1 DEF Sent
<1>9. CASE (\E f \in BOOLEAN : Begin(f)) \/ NextGroup
  <2>1. pc \in {"idle", "next"} /\ (part' = 1 \/ UNCHANGED part) /\ pc' \in {"item", "next", "album", "idle"}
    BY <1>9 DEF Begin, NextGroup, End, Fresh
  <2> QED BY <2>1 DEF Sent
<1>10. CASE RequestStop \/ \E m \in missing : Repair(m)
  <2>1. UNCHANGED <<pc, part, unit, copies>>
    BY <1>10 DEF RequestStop, Repair
  <2> QED BY <2>1 DEF Sent, Unit
<1>11. CASE Crash
  BY <1>4, <1>11 DEF Crash, End, Fresh
<1> QED BY <1>5, <1>6, <1>7, <1>8, <1>9, <1>10, <1>11 DEF Next, Job, Deliver
-----------------------------------------------------------------------------
(* The promise. A reservation puts in doubt what was open, a request that is *)
(* carried out posts what has a receipt, and a confirmation confirms what    *)
(* was posted.                                                               *)

Statuses == [m \in AllMsgs |-> Status(m)]
Posted   == {m \in Msgs : copies[m] > 0}

PromiseStep == [Promise!Next]_Promise!vars

LEMMA OfScenario ==
  ASSUME Types
  PROVE  Msgs \subseteq AllMsgs
BY DEF Types, Fixed, Msgs, AllMsgs

LEMMA PromiseInit ==
  ASSUME Init
  PROVE  Promise!Init
<1>1. /\ receipt = [m \in Msgs |-> "none"] /\ mapping = [m \in Msgs |-> 0]
      /\ copies = [m \in Msgs |-> 0]
  BY DEF Init
<1>2. \A m \in AllMsgs : Status(m) = "open"
  BY <1>1 DEF Status
<1>3. {m \in Msgs : copies[m] > 0} = {}
  BY <1>1
<1> QED BY <1>2, <1>3 DEF Promise!Init

\* A reservation.
LEMMA ReserveStep ==
  ASSUME Types, Msgs' = Msgs, UNCHANGED <<mapping, copies>>,
         NEW S, S \subseteq Unit, receipt' = [m \in Msgs |-> IF m \in S THEN "sending" ELSE receipt[m]]
  PROVE  PromiseStep
<1> DEFINE R == {m \in S : Status(m) = "open"}
<1>1. S \subseteq Msgs /\ Msgs \subseteq AllMsgs
  BY LeftMsgs, OfScenario
<1>2. R \in SUBSET AllMsgs
  BY <1>1
<1>3. \A m \in Msgs : receipt'[m] = IF m \in S THEN "sending" ELSE receipt[m]
  OBVIOUS
<1>4. ASSUME NEW m \in AllMsgs
      PROVE  Status(m)' = IF m \in R /\ Status(m) = "open" THEN "inDoubt" ELSE Status(m)
  <2>1. CASE m \notin Msgs
    BY <1>1, <2>1 DEF Status
  <2>2. CASE m \in Msgs
    BY <1>3, <2>2 DEF Status
  <2> QED BY <2>1, <2>2
<1>5. \A m \in R : m \in AllMsgs /\ Status(m) = "open"
  BY <1>2
<1> HIDE DEF R
<1>6. Statuses' = [m \in AllMsgs |-> IF m \in R /\ Statuses[m] = "open" THEN "inDoubt" ELSE Statuses[m]]
  <2>1. AllMsgs' = AllMsgs
    BY DEF AllMsgs
  <2>2. Statuses' = [m \in AllMsgs |-> Status(m)']
    BY <2>1 DEF Statuses
  <2>3. \A m \in AllMsgs : Statuses[m] = Status(m)
    BY DEF Statuses
  <2> QED BY <1>4, <2>2, <2>3
<1>7. \A m \in R : Statuses[m] # "inDoubt"
  BY <1>5 DEF Statuses
<1>8. Posted' = Posted
  BY DEF Posted
<1>9. Promise!Reserve(R)
  BY <1>6, <1>7, <1>8 DEF Promise!Reserve, Promise!Move, Statuses, Posted
<1> QED BY <1>2, <1>9 DEF PromiseStep, Promise!Next

\* A request that is carried out, or nothing.
LEMMA PostStep ==
  ASSUME Types, Msgs' = Msgs, UNCHANGED mapping,
         \A m \in Msgs : (receipt'[m] = "none") = (receipt[m] = "none"),
         NEW C, C \subseteq Msgs, copies' = Added(copies, C), \A m \in C : receipt[m] # "none"
  PROVE  PromiseStep
<1>1. C \in SUBSET AllMsgs
  BY OfScenario
<1>2. \A m \in Msgs : copies[m] \in Nat /\ copies'[m] = IF m \in C THEN copies[m] + 1 ELSE copies[m]
  BY AddedType DEF Types, Records
<1>3. Statuses' = Statuses
  <2>1. AllMsgs' = AllMsgs
    BY DEF AllMsgs
  <2>2. \A m \in AllMsgs : Status(m)' = Status(m)
    BY DEF Status
  <2> QED BY <2>1, <2>2 DEF Statuses
<1>4. Posted' = Posted \union C
  <2>1. \A m \in Msgs : copies'[m] > 0 <=> (copies[m] > 0 \/ m \in C)
    BY <1>2
  <2> QED BY <2>1 DEF Posted
<1>5. \A m \in C : Statuses[m] # "open"
  BY <1>1 DEF Statuses, Status
<1>6. Promise!Post(C)
  BY <1>3, <1>4, <1>5 DEF Promise!Post, Statuses, Posted
<1> QED BY <1>1, <1>6 DEF PromiseStep, Promise!Next

\* A confirmation.
LEMMA ConfirmStep ==
  ASSUME Types, Types', Ledger, Sent, Msgs' = Msgs, Confirm
  PROVE  PromiseStep
<1>1. /\ pc = "confirm" /\ answer # <<>> /\ UNCHANGED copies
      /\ mapping' = [mapping EXCEPT ![Head(answer)[1]] = IF force \/ @ = 0 THEN Head(answer)[2] ELSE @]
      /\ receipt' = [receipt EXCEPT ![Head(answer)[1]] = "none"]
  BY DEF Confirm
<1>2. PICK a \in DOMAIN answer : Head(answer) = answer[a]
  BY <1>1 DEF Types, Request
<1> DEFINE m == Head(answer)[1]
<1>3. m \in Unit /\ Head(answer)[2] = m /\ copies[m] > 0
  BY <1>1, <1>2 DEF Ledger, Sent
<1>4. m \in Msgs /\ m \in AllMsgs /\ m # 0
  BY <1>3, LeftMsgs, OfScenario, ExportGroups DEF Types, Fixed
<1>5. mapping \in [Msgs -> Msgs \union {0}] /\ receipt \in [Msgs -> Receipts]
  BY DEF Types, Records
<1>6. /\ mapping' = [mapping EXCEPT ![m] = IF force \/ @ = 0 THEN m ELSE @]
      /\ receipt' = [receipt EXCEPT ![m] = "none"]
  BY <1>1, <1>3
<1> HIDE DEF m
<1>7. /\ \A x \in Msgs : x # m => mapping'[x] = mapping[x] /\ receipt'[x] = receipt[x]
      /\ mapping'[m] # 0
  BY <1>4, <1>5, <1>6
<1>8. ASSUME NEW x \in AllMsgs
      PROVE  Status(x)' = IF x = m THEN "confirmed" ELSE Status(x)
  <2>1. CASE x \notin Msgs
    BY <1>4, <2>1 DEF Status
  <2>2. CASE x \in Msgs
    BY <1>7, <2>2 DEF Status
  <2> QED BY <2>1, <2>2
<1>9. Statuses' = [Statuses EXCEPT ![m] = "confirmed"]
  <2>1. AllMsgs' = AllMsgs
    BY DEF AllMsgs
  <2>2. Statuses' = [x \in AllMsgs |-> Status(x)']
    BY <2>1 DEF Statuses
  <2>3. Statuses = [x \in AllMsgs |-> Status(x)]
    BY DEF Statuses
  <2> QED BY <1>8, <2>2, <2>3
<1>10. m \in Posted /\ Posted' = Posted
  BY <1>1, <1>3, <1>4 DEF Posted, m
<1>11. Promise!Confirm(m)
  BY <1>9, <1>10 DEF Promise!Confirm, Statuses, Posted
<1> QED BY <1>4, <1>11 DEF PromiseStep, Promise!Next

LEMMA PromiseNext ==
  ASSUME IInv, Sent, Next
  PROVE  PromiseStep
<1>1. Types /\ Ledger /\ Types' /\ Msgs' = Msgs
  BY IInvStep, FixedStep DEF IInv, Types
<1>2. PICK C : (C = {} \/ (pc = "request" /\ part = 1 /\ C = Unit)) /\ copies' = Added(copies, C)
  BY <1>1, Copying
<1>3. C \subseteq Msgs /\ \A m \in C : receipt[m] # "none"
  BY <1>1, <1>2, LeftMsgs DEF Ledger
<1>4. CASE Prepare
  <2>1. /\ UNCHANGED <<mapping, copies>>
        /\ receipt' = [m \in Msgs |-> IF m \in Unit THEN "sending" ELSE receipt[m]]
    BY <1>4 DEF Prepare
  <2> QED BY <1>1, <2>1, ReserveStep
<1>5. CASE CannotSend
  <2>1. /\ UNCHANGED <<mapping, copies>>
        /\ \E fatal \in BOOLEAN :
             receipt' = [m \in Msgs |-> IF fatal /\ m \in Unit THEN "sending" ELSE receipt[m]]
    BY <1>5 DEF CannotSend
  <2>2. PICK S \in {{}, Unit} : receipt' = [m \in Msgs |-> IF m \in S THEN "sending" ELSE receipt[m]]
    <3>1. PICK fatal \in BOOLEAN : receipt' = [m \in Msgs |-> IF fatal /\ m \in Unit THEN "sending" ELSE receipt[m]]
      BY <2>1
    <3>2. CASE fatal
      BY <3>1, <3>2
    <3>3. CASE ~fatal
      BY <3>1, <3>3
    <3> QED BY <3>2, <3>3
  <2>3. S \subseteq Unit
    OBVIOUS
  <2> QED BY <1>1, <2>1, <2>2, <2>3, ReserveStep
<1>6. CASE Confirm
  BY <1>1, <1>6, ConfirmStep
<1>7. CASE UNCHANGED mapping /\ \A m \in Msgs : (receipt'[m] = "none") = (receipt[m] = "none")
  BY <1>1, <1>2, <1>3, <1>7, PostStep
<1> QED BY <1>1, <1>4, <1>5, <1>6, <1>7, Settled

\* The import keeps the promise of DeliveryLedger: no message is in the target
\* before it is in doubt, and a doubt ends only when the message is confirmed.
THEOREM ImplementsCorrect == Spec => ImplementsLedger
<1>1. Init => Promise!Init
  BY PromiseInit
<1>2. Init => Sent
  BY DEF Init, Sent
<1>3. IInv /\ Sent /\ [Next]_vars => Sent'
  <2>1. UNCHANGED vars => UNCHANGED <<pc, part, unit, copies>>
    BY DEF vars
  <2>2. Sent /\ UNCHANGED <<pc, part, unit, copies>> => Sent'
    BY DEF Sent, Unit
  <2> QED BY <2>1, <2>2, SentStep DEF IInv
<1>4. IInv /\ Sent /\ [Next]_vars => [Promise!Next]_Promise!vars
  <2>1. CASE Next
    BY <2>1, PromiseNext DEF PromiseStep
  <2>2. CASE UNCHANGED vars
    <3>1. UNCHANGED <<scenario, receipt, mapping, copies>>
      BY <2>2 DEF vars
    <3>2. UNCHANGED <<Statuses, Posted>>
      BY <3>1 DEF Statuses, Status, Posted, Msgs, AllMsgs
    <3> QED BY <3>2 DEF Promise!vars, Statuses, Posted
  <2> QED BY <2>1, <2>2
<1> QED BY <1>1, <1>2, <1>3, <1>4, Invariant, PTL DEF Spec, ImplementsLedger, Promise!Spec
-----------------------------------------------------------------------------
(* What is sent again.                                                      *)

\* The first message of a delivery was not mapped when it was chosen.
FirstNew == ~force /\ pc \in {"select", "prepare", "request"} => mapping[unit[1]] = 0

LEMMA FirstNewStep ==
  ASSUME IInv, FirstNew, Next
  PROVE  FirstNew'
<1>1. CASE CheckAlbum
  <2>1. CASE Onward
    BY <2>1 DEF Onward, FirstNew
  <2>2. CASE pc' = "item"
    BY <2>2 DEF FirstNew
  <2>3. CASE ~Synced(Head(unit)) /\ pc' = "select" /\ UNCHANGED unit
    <3>1. pc = "album"
      BY <1>1 DEF CheckAlbum
    <3>2. Head(unit) = unit[1]
      BY <3>1 DEF IInv, Types, Where, Walk
    <3> QED BY <1>1, <2>3, <3>2 DEF CheckAlbum, FirstNew, Synced
  <2> QED BY <1>1, <2>1, <2>2, <2>3 DEF CheckAlbum
<1>2. CASE CheckItem
  <2>1. UNCHANGED <<mapping, force>> /\ pc = "item"
    BY <1>2 DEF CheckItem
  <2>2. pc' = "select" => ~Synced(Head(todo)) /\ unit' = <<Head(todo)>>
    BY <1>2 DEF CheckItem, End, Onward, Fresh, Verdict
  <2>3. pc' \notin {"prepare", "request"}
    BY <1>2 DEF CheckItem, End, Onward
  <2> QED BY <2>1, <2>2, <2>3 DEF FirstNew, Synced
<1>3. CASE Deliver
  <2>1. CASE End("stopped") \/ End("raised") \/ Onward
    BY <2>1 DEF End, Onward, FirstNew
  <2>2. CASE UNCHANGED <<groups, todo, unit, stop, ended, report>> /\ pc' \in Sending
    <3>1. pc' = "confirm" \/ (UNCHANGED mapping /\ pc \in {"select", "prepare", "request"})
      <4>1. CASE Select \/ Prepare
        BY <4>1 DEF Select, Prepare
      <4>2. CASE CannotSend \/ StopSeen \/ Refused
        BY <4>2 DEF CannotSend, StopSeen, Refused
      <4>3. CASE Answered \/ NetworkError
        BY <4>3 DEF Answered, NetworkError
      <4>4. CASE TurnedAway \/ FloodWait \/ TooLarge
        BY <4>4 DEF TurnedAway, FloodWait, TooLarge
      <4>5. CASE Confirm
        BY <4>5 DEF Confirm
      <4>6. CASE ConfirmFails \/ Logged \/ LogFails
        BY <2>2, <4>6 DEF ConfirmFails, Logged, LogFails, End, Onward, Sending
      <4> QED BY <1>3, <4>1, <4>2, <4>3, <4>4, <4>5, <4>6 DEF Deliver
    <3>2. UNCHANGED force
      BY <1>3, Delivers
    <3> QED BY <2>2, <3>1, <3>2 DEF FirstNew
  <2> QED BY <1>3, <2>1, <2>2, Delivers
<1>4. CASE (\E f \in BOOLEAN : Begin(f)) \/ NextGroup
  BY <1>4 DEF Begin, NextGroup, End, FirstNew
<1>5. CASE Crash \/ RequestStop \/ \E m \in missing : Repair(m)
  BY <1>5 DEF Crash, RequestStop, Repair, End, FirstNew
<1> QED BY <1>1, <1>2, <1>3, <1>4, <1>5 DEF Next, Job, Deliver

\* docs/usage.md:93, with its exception: only an album can bring a second copy
\* of a confirmed message, and only when its first member is not confirmed.
THEOREM RepeatsCorrect == Spec => RepeatedInAlbum
<1> DEFINE Again ==
      \A m \in Msgs : ~force /\ mapping[m] # 0 /\ copies'[m] # copies[m] =>
        ~Single /\ m \in Unit /\ m # unit[1] /\ mapping[unit[1]] = 0
<1>1. Init => FirstNew
  BY DEF Init, FirstNew
<1>2. IInv /\ FirstNew /\ [Next]_vars => FirstNew'
  <2>1. UNCHANGED vars => (FirstNew => FirstNew')
    BY DEF vars, FirstNew
  <2> QED BY <2>1, FirstNewStep
<1>3. IInv /\ FirstNew /\ [Next]_vars => [Again]_vars
  <2> SUFFICES ASSUME IInv, FirstNew, Next PROVE Again
    OBVIOUS
  <2>2. PICK C : (C = {} \/ (pc = "request" /\ C = Unit)) /\ copies' = Added(copies, C)
    BY Copying DEF IInv
  <2>3. \A m \in Msgs : copies'[m] # copies[m] => m \in C
    BY <2>2, AddedType DEF IInv, Types, Records
  <2> SUFFICES ASSUME NEW m \in Msgs, ~force, mapping[m] # 0, copies'[m] # copies[m]
               PROVE  ~Single /\ m \in Unit /\ m # unit[1] /\ mapping[unit[1]] = 0
    OBVIOUS
  <2>4. pc = "request" /\ m \in Unit
    BY <2>2, <2>3
  <2>5. mapping[unit[1]] = 0 /\ m # unit[1]
    BY <2>4 DEF FirstNew
  <2>6. todo # <<>> => Unit = {unit[1]}
    <3>1. todo # <<>> => unit = <<Head(todo)>>
      BY <2>4 DEF IInv, Walk, Sending
    <3>2. DOMAIN <<Head(todo)>> = {1}
      OBVIOUS
    <3> QED BY <3>1, <3>2 DEF Unit, ToSet
  <2> QED BY <2>4, <2>5, <2>6 DEF Single
<1> QED BY <1>1, <1>2, <1>3, Invariant, PTL DEF Spec, RepeatedInAlbum
=============================================================================
