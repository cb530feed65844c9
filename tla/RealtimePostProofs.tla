------------------------- MODULE RealtimePostProofs -------------------------
(***************************************************************************)
(* Proofs about RealtimePost: the album cache has its timer and the gate    *)
(* its count, a copy more, a foreign mapping or a missing copy has a reason *)
(* - for any posts, targets, scenarios and bounds.                          *)
(***************************************************************************)
EXTENDS RealtimePost, FiniteSetTheorems, SequenceTheorems, WellFoundedInduction, TLAPS

\* The workers that deliver.
Live == {"gate"} \union Sending

Task == [pc : Labels, plan : Seq(Rules), at : Nat, group : Seq(Posts),
         each : Seq(Posts), answer : Seq(Posts \X Posts), tries : 0..NetRetries,
         account : BOOLEAN]

\* A worker has a place in its plan, and the posts it walks are those of its
\* group, which is in order for an album.
WorkAt(w) ==
  /\ work[w] \in Task
  /\ IsInjective(work[w].plan) /\ IsInjective(work[w].group)
  /\ work[w].pc \in {"reading", "sleep"} \union Live => work[w].at \in DOMAIN work[w].plan
  /\ work[w].pc \in {"none", "reading", "sleep"} => work[w].at = 1 /\ work[w].group = <<>>
  /\ work[w].pc \in Live => work[w].group # <<>>
  /\ work[w].pc \in {"group", "save"} => Kind(w) = "album"
  /\ work[w].pc \in Live /\ Kind(w) = "album" => work[w].group = Ascending(Members(w))
  /\ work[w].pc \in {"each", "saveEach"} =>
       work[w].each # <<>> /\ IsInjective(work[w].each) /\ ToSet(work[w].each) \subseteq Members(w)

\* What the worker has still to send to its target.
Remaining(w) ==
  IF work[w].pc \in {"gate", "group"} THEN Members(w)
  ELSE IF work[w].pc = "each" THEN ToSet(work[w].each)
  ELSE IF work[w].pc = "saveEach" THEN ToSet(Tail(work[w].each))
  ELSE {}

\* A post that is still to be sent has no copy without a reason.
Fresh(t, p) == copies[t][p] <= extra[t][p]

FreshAt(w) ==
  /\ work[w].pc = "reading" => \A t \in Rules : Fresh(t, w)
  /\ work[w].pc \in Live =>
       /\ \A i \in DOMAIN work[w].plan : i > work[w].at =>
            \A p \in Members(w) : Fresh(work[w].plan[i], p)
       /\ \A p \in Remaining(w) : Fresh(Target(w), p)

\* What the worker has behind it is copied or accounted for.
Settled(t, p) == copies[t][p] > 0 \/ \E why \in Reasons : <<t, p, why>> \in traces

SettledAt(w) ==
  /\ work[w].pc = "done" =>
       \A i \in DOMAIN work[w].plan, p \in Members(w) : Settled(work[w].plan[i], p)
  /\ work[w].pc \in Live =>
       /\ \A i \in DOMAIN work[w].plan : i < work[w].at =>
            \A p \in Members(w) : Settled(work[w].plan[i], p)
       /\ \A p \in Members(w) \ Remaining(w) : Settled(Target(w), p)

\* An answer that pairs a post with another one left a member out.
LeftOut(t) == \E q \in Posts : <<t, q, "left out">> \in traces

AnswerAt(w) ==
  work[w].pc = "save" =>
    \A i \in DOMAIN work[w].answer :
      work[w].answer[i][1] # work[w].answer[i][2] => LeftOut(Target(w))

WorkerInv(w) == WorkAt(w) /\ FreshAt(w) /\ SettledAt(w) /\ AnswerAt(w)

\* No post is in two hands: it is unseen, in the cache, or with one worker.
Mine(w) == IF work[w].pc = "reading" THEN {w} ELSE IF work[w].pc \in Live THEN Members(w) ELSE {}

Apart ==
  /\ ToSet(cache) \subseteq seen
  /\ \A w \in Posts : Mine(w) \subseteq seen /\ Mine(w) \intersect ToSet(cache) = {}
  /\ \A v, w \in Posts : v # w => Mine(v) \intersect Mine(w) = {}

Waiting == (Posts \ seen) \union ToSet(cache)

GivenInv ==
  /\ scenario \in Scenarios /\ rules \subseteq Rules /\ seen \subseteq Posts
  /\ again \subseteq Posts /\ running \in BOOLEAN

\* The registered task and the cancelled ones have not ended.
AlbumInv ==
  /\ \A w \in cancelled : work[w].pc \in {"sleep"} \union Live
  /\ cache \in Seq(Posts) /\ timer \in Posts \union {None} /\ cancelled \subseteq Posts
  /\ stranded \in BOOLEAN
  /\ timer # None => work[timer].pc \in {"sleep"} \union Live
  /\ TimerCovers

GateInv == operations \in Nat /\ switching \in BOOLEAN /\ GateHeld

CountInv ==
  /\ copies \in [Rules -> [Posts -> Nat]] /\ extra \in [Rules -> [Posts -> Nat]]
  /\ traces \subseteq Rules \X Posts \X Reasons
  /\ CopiesExplained
  /\ \A t \in Rules, p \in Waiting : Fresh(t, p)

MapInv == mapping \in [Rules -> [Posts -> Posts \union {None}]] /\ MappingExplained

BoundsInv ==
  bounds \in [Limited -> Nat] /\ \A b \in Limited : bounds[b] <= scenario.limits[b]

IInv ==
  /\ GivenInv /\ AlbumInv /\ GateInv /\ CountInv /\ MapInv /\ BoundsInv /\ Apart
  /\ work = [w \in Posts |-> work[w]] /\ \A w \in Posts : WorkerInv(w)
-----------------------------------------------------------------------------
(* Sequences.                                                               *)

LEMMA LeastNatural ==
  ASSUME NEW S \in SUBSET Nat, S # {}
  PROVE  \E x \in S : \A y \in S : x <= y
<1>1. PICK x \in S : \A y \in S : ~(<<y, x>> \in OpToRel(<, Nat))
  BY NatLessThanWellFounded, WFMin
<1>2. \A y \in Nat : y < x => <<y, x>> \in OpToRel(<, Nat)
  BY DEF OpToRel
<1>3. \A y \in S : y \in Nat /\ ~(y < x)
  BY <1>1, <1>2, Zenon
<1>4. \A y \in S : x <= y
  BY <1>3
<1> QED BY <1>4

LEMMA GreatestIn ==
  ASSUME NEW n \in Nat, NEW S \in SUBSET (1..n), S # {}
  PROVE  \E x \in S : \A y \in S : y <= x
<1> DEFINE D == {n - x : x \in S}
<1>1. D \in SUBSET Nat
  <2>1. \A x \in S : x \in Int /\ n - x \in Nat
    OBVIOUS
  <2> QED BY <2>1
<1>2. D # {}
  OBVIOUS
<1> HIDE DEF D
<1>3. PICK d \in D : \A e \in D : d <= e
  BY <1>1, <1>2, LeastNatural
<1>4. PICK x \in S : d = n - x
  BY <1>3 DEF D
<1>5. \A y \in S : n - x <= n - y
  BY <1>3, <1>4 DEF D
<1>6. \A y \in S : y <= x
  BY <1>5
<1> QED BY <1>6

Sorted(s) == \A i, j \in DOMAIN s : i < j => s[i] < s[j]

\* A finite set of numbers can be sorted: a smallest set that could not would
\* have a greatest member, and the rest of it could.
LEMMA Sortable ==
  ASSUME NEW n \in Nat, NEW S \in SUBSET (1..n)
  PROVE  \E s \in [1..Cardinality(S) -> S] : Sorted(s)
<1> DEFINE Can(T) == \E s \in [1..Cardinality(T) -> T] : Sorted(s)
           Bad    == {k \in Nat : \E T \in SUBSET (1..n) : Cardinality(T) = k /\ ~Can(T)}
<1>1. \A T \in SUBSET (1..n) : IsFiniteSet(T) /\ Cardinality(T) \in Nat
  <2>1. IsFiniteSet(1..n)
    BY FS_Interval
  <2>2. \A T \in SUBSET (1..n) : IsFiniteSet(T)
    BY <2>1, FS_Subset
  <2> QED BY <2>2, FS_CardinalityType
<1>2. SUFFICES ASSUME Bad # {}
               PROVE  FALSE
  BY <1>1
<1> HIDE DEF Bad
<1>3. PICK k \in Bad : \A l \in Bad : k <= l
  <2>1. Bad \in SUBSET Nat
    BY DEF Bad
  <2> QED BY <1>2, <2>1, LeastNatural
<1>4. PICK T \in SUBSET (1..n) : Cardinality(T) = k /\ ~Can(T)
  BY <1>3 DEF Bad
<1>5. k \in Nat
  BY <1>3 DEF Bad
<1>6. T # {}
  <2>1. ASSUME T = {}
        PROVE  FALSE
    <3>1. Cardinality(T) = 0
      BY <2>1, FS_EmptySet
    <3>2. [i \in 1..0 |-> 0] \in [1..Cardinality(T) -> T] /\ Sorted([i \in 1..0 |-> 0])
      BY <3>1 DEF Sorted
    <3> QED BY <1>4, <3>2
  <2> QED BY <2>1
<1>7. PICK x \in T : \A y \in T : y <= x
  BY <1>6, GreatestIn
<1> DEFINE R == T \ {x}
<1>8. Cardinality(R) = k - 1 /\ R \in SUBSET (1..n)
  BY <1>1, <1>4, <1>7, FS_RemoveElement
<1>9. k - 1 \in Nat
  BY <1>1, <1>8
<1>10. Can(R)
  <2>1. k - 1 \notin Bad
    BY <1>3, <1>5
  <2> QED BY <1>8, <1>9, <2>1 DEF Bad
<1>11. PICK r \in [1..(k - 1) -> R] : Sorted(r)
  BY <1>8, <1>10
<1> DEFINE s == [i \in 1..k |-> IF i = k THEN x ELSE r[i]]
<1>12. \A i \in 1..k : i # k => i \in 1..(k - 1)
  BY <1>5
<1>13. \A i \in 1..(k - 1) : r[i] \in T /\ r[i] < x
  <2>1. \A y \in R : y \in T /\ y < x
    BY <1>7
  <2> QED BY <1>11, <2>1
<1>14. s \in [1..k -> T]
  BY <1>12, <1>13, <1>7
<1>15. Sorted(s)
  <2> SUFFICES ASSUME NEW i \in 1..k, NEW j \in 1..k, i < j
               PROVE  s[i] < s[j]
    BY DEF Sorted
  <2>1. i \in 1..(k - 1)
    BY <1>5
  <2>2. CASE j = k
    BY <1>5, <1>13, <2>1, <2>2
  <2>3. CASE j # k
    <3>1. j \in 1..(k - 1)
      BY <1>12, <2>3
    <3>2. r[i] < r[j]
      BY <1>11, <2>1, <3>1 DEF Sorted
    <3> QED BY <1>5, <2>1, <2>3, <3>1, <3>2
  <2> QED BY <2>2, <2>3
<1> QED BY <1>4, <1>14, <1>15

LEMMA Ascends ==
  ASSUME NEW n \in Nat, NEW S \in SUBSET (1..n)
  PROVE  /\ Ascending(S) \in Seq(S) /\ Len(Ascending(S)) = Cardinality(S)
         /\ Cardinality(S) \in Nat
         /\ ToSet(Ascending(S)) = S
         /\ IsInjective(Ascending(S))
         /\ S # {} => Ascending(S) # <<>>
<1> DEFINE s == Ascending(S)
           k == Cardinality(S)
<1>1. IsFiniteSet(S) /\ k \in Nat
  <2>1. IsFiniteSet(1..n)
    BY FS_Interval
  <2>2. IsFiniteSet(S)
    BY <2>1, FS_Subset
  <2> QED BY <2>2, FS_CardinalityType
<1>2. s \in [1..k -> S] /\ Sorted(s)
  BY Sortable DEF Ascending, Sorted
<1> HIDE DEF s, k
<1>3. s \in Seq(S) /\ Len(s) = k /\ DOMAIN s = 1..k
  BY <1>1, <1>2
<1>4. IsInjective(s)
  <2> SUFFICES ASSUME NEW i \in 1..k, NEW j \in 1..k, s[i] = s[j]
               PROVE  i = j
    BY <1>2 DEF IsInjective
  <2>1. s[i] \in 1..n /\ s[j] \in 1..n
    BY <1>2
  <2>2. ~(i < j) /\ ~(j < i)
    BY <1>2, <2>1, <1>3 DEF Sorted
  <2> QED BY <1>1, <2>2
<1>5. ToSet(s) = S
  <2>1. s \in Injection(1..k, S)
    BY <1>2, <1>4 DEF Injection
  <2>2. Cardinality(1..k) = k
    BY <1>1, FS_Interval
  <2>3. s \in Surjection(1..k, S)
    BY <1>1, <2>1, <2>2, FS_Injection DEF k
  <2>4. \A x \in S : \E i \in 1..k : s[i] = x
    BY <2>3 DEF Surjection
  <2> QED BY <1>2, <1>3, <2>4 DEF ToSet
<1>6. S # {} => s # <<>>
  <2>1. k = 0 <=> S = {}
    BY <1>1, FS_EmptySet DEF k
  <2> QED BY <1>1, <1>3, <2>1
<1> QED BY <1>1, <1>3, <1>4, <1>5, <1>6 DEF s, k

LEMMA PlannedWorks ==
  ASSUME rules \subseteq Rules
  PROVE  Planned \in Seq(Rules) /\ IsInjective(Planned) /\ (rules # {} => 1 \in DOMAIN Planned)
<1> DEFINE n == Len(Targets)
           places == {i \in DOMAIN Targets : Targets[i] \in rules}
           s == Ascending(places)
<1>1. Targets \in Seq(Rules) /\ IsInjective(Targets) /\ n \in Nat /\ DOMAIN Targets = 1..n
  BY RealtimeAssumption DEF RealtimeAssumption
<1>2. places \in SUBSET (1..n)
  BY <1>1
<1> HIDE DEF n, places
<1>3. s \in Seq(places) /\ IsInjective(s) /\ (places # {} => s # <<>>) /\ ToSet(s) = places
  BY <1>1, <1>2, Ascends
<1> HIDE DEF s
<1>4. Planned = [i \in DOMAIN s |-> Targets[s[i]]]
  BY DEF Planned, s, places
<1>5. \A i \in DOMAIN s : s[i] \in DOMAIN Targets /\ Targets[s[i]] \in Rules
  <2>1. \A i \in DOMAIN s : s[i] \in places
    BY <1>3
  <2>2. \A i \in places : i \in DOMAIN Targets
    BY DEF places
  <2> QED BY <1>1, <2>1, <2>2
<1>6. Planned \in Seq(Rules) /\ DOMAIN Planned = DOMAIN s
  <2>1. Len(s) \in Nat /\ DOMAIN s = 1..Len(s)
    BY <1>3
  <2> QED BY <1>4, <1>5, <2>1
<1>7. IsInjective(Planned)
  <2> SUFFICES ASSUME NEW i \in DOMAIN s, NEW j \in DOMAIN s, Targets[s[i]] = Targets[s[j]]
               PROVE  i = j
    BY <1>4 DEF IsInjective
  <2>1. s[i] = s[j]
    BY <1>1, <1>5 DEF IsInjective
  <2> QED BY <1>3, <2>1 DEF IsInjective
<1>8. ASSUME rules # {}
      PROVE  1 \in DOMAIN Planned
  <2>1. PICK t \in Rules : t \in rules
    BY <1>8
  <2>2. PICK i \in DOMAIN Targets : Targets[i] = t
    BY <2>1 DEF Rules, ToSet
  <2>3. places # {}
    BY <2>1, <2>2 DEF places
  <2>4. 1 \in DOMAIN s
    BY <1>3, <2>3
  <2> QED BY <1>6, <2>4
<1> QED BY <1>6, <1>7, <1>8

LEMMA HeadAndTail ==
  ASSUME NEW S, NEW s \in Seq(S), s # <<>>, IsInjective(s)
  PROVE  /\ Head(s) \in S /\ Tail(s) \in Seq(S) /\ IsInjective(Tail(s))
         /\ Head(s) \in ToSet(s) /\ ToSet(Tail(s)) = ToSet(s) \ {Head(s)}
         /\ Len(s) = 1 => ToSet(Tail(s)) = {}
         /\ Len(s) # 1 => Tail(s) # <<>>
<1>1. Len(s) \in Nat /\ Len(s) # 0 /\ DOMAIN s = 1..Len(s) /\ Head(s) = s[1]
  OBVIOUS
<1>2. /\ Tail(s) \in Seq(S) /\ Len(Tail(s)) = Len(s) - 1 /\ DOMAIN Tail(s) = 1..(Len(s) - 1)
      /\ \A i \in 1..(Len(s) - 1) : Tail(s)[i] = s[i + 1]
  BY <1>1, HeadTailProperties
<1>3. IsInjective(Tail(s))
  <2> SUFFICES ASSUME NEW i \in 1..(Len(s) - 1), NEW j \in 1..(Len(s) - 1), s[i + 1] = s[j + 1]
               PROVE  i = j
    BY <1>2 DEF IsInjective
  <2>1. i + 1 \in 1..Len(s) /\ j + 1 \in 1..Len(s)
    BY <1>1
  <2>2. i + 1 = j + 1
    BY <1>1, <2>1 DEF IsInjective
  <2> QED BY <2>2
<1>4. Head(s) \in ToSet(s) /\ Head(s) \in S
  BY <1>1 DEF ToSet
<1>5. ToSet(Tail(s)) = ToSet(s) \ {Head(s)}
  <2>1. ASSUME NEW i \in 1..(Len(s) - 1)
        PROVE  Tail(s)[i] \in ToSet(s) \ {Head(s)}
    <3>1. i + 1 \in 1..Len(s) /\ i + 1 # 1 /\ 1 \in 1..Len(s)
      BY <1>1
    <3>2. s[i + 1] # s[1]
      BY <1>1, <3>1 DEF IsInjective
    <3> QED BY <1>1, <1>2, <3>1, <3>2 DEF ToSet
  <2>2. ASSUME NEW i \in 1..Len(s), s[i] # Head(s)
        PROVE  s[i] \in ToSet(Tail(s))
    <3>1. i # 1 /\ i - 1 \in 1..(Len(s) - 1) /\ (i - 1) + 1 = i
      BY <1>1, <2>2
    <3>2. Tail(s)[i - 1] = s[i]
      BY <1>2, <3>1
    <3> QED BY <1>2, <3>1, <3>2 DEF ToSet
  <2> QED BY <1>1, <1>2, <2>1, <2>2 DEF ToSet
<1>6. Len(s) = 1 => ToSet(Tail(s)) = {}
  BY <1>2 DEF ToSet
<1>7. Len(s) # 1 => Tail(s) # <<>>
  <2> SUFFICES ASSUME Len(s) # 1, Tail(s) = <<>>
               PROVE  FALSE
    OBVIOUS
  <2>1. 1 \in DOMAIN Tail(s)
    BY <1>1, <1>2
  <2>2. DOMAIN <<>> = {}
    OBVIOUS
  <2>3. 1 \in DOMAIN <<>>
    BY <2>1, Zenon
  <2> QED BY <2>2, <2>3
<1> QED BY <1>2, <1>3, <1>4, <1>5, <1>6, <1>7

LEMMA Appended ==
  ASSUME NEW S, NEW s \in Seq(S), NEW e \in S
  PROVE  /\ Append(s, e) \in Seq(S) /\ Append(s, e) # <<>>
         /\ ToSet(Append(s, e)) = ToSet(s) \union {e}
<1>1. /\ Append(s, e) \in Seq(S) /\ Append(s, e) # <<>> /\ Len(Append(s, e)) = Len(s) + 1
      /\ \A i \in 1..Len(s) : Append(s, e)[i] = s[i]
      /\ Append(s, e)[Len(s) + 1] = e
  BY AppendProperties
<1>2. Len(s) \in Nat /\ DOMAIN s = 1..Len(s) /\ DOMAIN Append(s, e) = 1..(Len(s) + 1)
  BY <1>1
<1>3. \A i \in 1..(Len(s) + 1) : i \in 1..Len(s) \/ i = Len(s) + 1
  BY <1>2
<1> QED BY <1>1, <1>2, <1>3 DEF ToSet

LEMMA NoElements ==
  ToSet(<<>>) = {} /\ IsInjective(<<>>)
BY DEF ToSet, IsInjective

LEMMA OneElement ==
  ASSUME NEW p
  PROVE  <<p>> # <<>> /\ ToSet(<<p>>) = {p} /\ IsInjective(<<p>>)
BY DEF ToSet, IsInjective
-----------------------------------------------------------------------------
(* What a step does to the others.                                          *)

Beside(w) == work' = [v \in Posts |-> work'[v]] /\ \A v \in Posts \ {w} : work'[v] = work[v]

\* Copies and traces are only added; a post of C, and no other, may have a copy
\* more in the target of w.
Grows(w, C) ==
  /\ copies' \in [Rules -> [Posts -> Nat]] /\ extra' \in [Rules -> [Posts -> Nat]]
  /\ traces \subseteq traces' /\ traces' \subseteq Rules \X Posts \X Reasons
  /\ \A t \in Rules, p \in Posts :
       /\ copies[t][p] <= copies'[t][p]
       /\ copies'[t][p] <= 1 + extra'[t][p]
       /\ Fresh(t, p) => copies'[t][p] <= extra'[t][p] \/ (t = Target(w) /\ p \in C)

\* What the step leaves of the worker itself, the album and the gate.
Fits(w) == WorkerInv(w)' /\ AlbumInv' /\ GateInv' /\ Mine(w)' \subseteq Mine(w)

LEMMA TargetType ==
  ASSUME IInv, NEW w \in Posts, work[w].pc \in {"reading", "sleep"} \union Live
  PROVE  /\ work[w].at \in 1..Len(work[w].plan) /\ Len(work[w].plan) \in Nat
         /\ DOMAIN work[w].plan = 1..Len(work[w].plan)
         /\ Target(w) \in Rules
         /\ \A i \in DOMAIN work[w].plan : work[w].plan[i] \in Rules
<1>1. work[w].plan \in Seq(Rules) /\ work[w].at \in DOMAIN work[w].plan
  BY DEF IInv, WorkerInv, WorkAt, Task
<1> QED BY <1>1 DEF Target

LEMMA MembersType ==
  ASSUME IInv, NEW w \in Posts
  PROVE  Members(w) \subseteq Posts
<1>1. work[w].group \in Seq(Posts)
  BY DEF IInv, WorkerInv, WorkAt, Task
<1> QED BY <1>1 DEF Members, ToSet

LEMMA RemainingMine ==
  ASSUME IInv, NEW w \in Posts
  PROVE  Remaining(w) \subseteq Members(w)
<1>1. CASE work[w].pc = "saveEach"
  <2>1. /\ work[w].each \in Seq(Posts) /\ work[w].each # <<>> /\ IsInjective(work[w].each)
        /\ ToSet(work[w].each) \subseteq Members(w)
    BY <1>1 DEF IInv, WorkerInv, WorkAt, Task
  <2>2. ToSet(Tail(work[w].each)) \subseteq ToSet(work[w].each)
    BY <2>1, HeadAndTail
  <2> QED BY <1>1, <2>1, <2>2 DEF Remaining
<1>2. CASE work[w].pc = "each"
  BY <1>2 DEF Remaining, IInv, WorkerInv, WorkAt
<1>3. CASE work[w].pc \notin {"each", "saveEach"}
  BY <1>3 DEF Remaining
<1> QED BY <1>1, <1>2, <1>3

LEMMA SettledStays ==
  ASSUME NEW t, NEW p, Settled(t, p), copies[t][p] \in Nat, copies'[t][p] \in Nat,
         copies[t][p] <= copies'[t][p], traces \subseteq traces'
  PROVE  Settled(t, p)'
BY DEF Settled

LEMMA SettledGrows ==
  ASSUME IInv, NEW w \in Posts, NEW C, Grows(w, C), NEW t \in Rules, NEW p \in Posts, Settled(t, p)
  PROVE  Settled(t, p)'
<1>1. copies[t][p] \in Nat /\ copies'[t][p] \in Nat
  BY DEF IInv, CountInv, Grows
<1> QED BY <1>1, SettledStays DEF Grows

\* The posts of another worker are none of C.
LEMMA OthersFit ==
  ASSUME IInv, NEW w \in Posts, NEW C \in SUBSET Mine(w), Grows(w, C), Beside(w), UNCHANGED given,
         NEW v \in Posts, v # w
  PROVE  WorkerInv(v)' /\ Mine(v)' = Mine(v)
<1>1. work'[v] = work[v] /\ scenario' = scenario
  BY DEF Beside, given
<1>2. Mine(v)' = Mine(v) /\ Members(v)' = Members(v) /\ Remaining(v)' = Remaining(v) /\ Target(v)' = Target(v)
      /\ Kind(v)' = Kind(v)
  BY <1>1 DEF Mine, Members, Remaining, Target, Kind
<1>3. WorkerInv(v) /\ Members(v) \subseteq Posts /\ Remaining(v) \subseteq Members(v)
  BY MembersType, RemainingMine DEF IInv
<1>4. Mine(v) \intersect C = {}
  BY DEF IInv, Apart
<1>5. WorkAt(v)'
  BY <1>1, <1>2, <1>3 DEF WorkerInv, WorkAt
<1>6. \A t \in Rules, p \in Posts : p \in Mine(v) /\ Fresh(t, p) => Fresh(t, p)'
  BY <1>4 DEF Grows, Fresh
<1>7. FreshAt(v)'
  <2>1. CASE work[v].pc = "reading"
    BY <1>1, <1>3, <1>6, <2>1 DEF FreshAt, WorkerInv, Mine, Live, Sending
  <2>2. CASE work[v].pc \in Live
    <3>1. Mine(v) = Members(v) /\ work[v].pc # "reading"
      BY <2>2 DEF Mine, Live, Sending
    <3>2. Target(v) \in Rules /\ \A i \in DOMAIN work[v].plan : work[v].plan[i] \in Rules
      BY <2>2, TargetType
    <3> QED BY <1>1, <1>2, <1>3, <1>6, <2>2, <3>1, <3>2 DEF FreshAt, WorkerInv
  <2>3. CASE work[v].pc \notin {"reading"} \union Live
    BY <1>1, <2>3 DEF FreshAt
  <2> QED BY <2>1, <2>2, <2>3
<1>8. \A t \in Rules, p \in Posts : Settled(t, p) => Settled(t, p)'
  BY SettledGrows
<1>9. SettledAt(v)'
  <2>1. \A i \in DOMAIN work[v].plan : work[v].plan[i] \in Rules
    <3>1. work[v].plan \in Seq(Rules)
      BY <1>3 DEF WorkerInv, WorkAt, Task
    <3> QED BY <3>1
  <2>2. CASE work[v].pc \in Live
    <3>1. Target(v) \in Rules /\ work[v].pc # "done"
      BY <2>2, TargetType DEF Live, Sending
    <3> QED BY <1>1, <1>2, <1>3, <1>8, <2>1, <2>2, <3>1 DEF SettledAt, WorkerInv
  <2>3. CASE work[v].pc \notin Live
    BY <1>1, <1>2, <1>3, <1>8, <2>1, <2>3 DEF SettledAt, WorkerInv
  <2> QED BY <2>2, <2>3
<1>10. AnswerAt(v)'
  BY <1>1, <1>2, <1>3 DEF AnswerAt, WorkerInv, LeftOut, Grows
<1> QED BY <1>2, <1>5, <1>7, <1>9, <1>10 DEF WorkerInv

\* A step of one worker that fits keeps the invariant.
LEMMA StepFits ==
  ASSUME IInv, NEW w \in Posts, NEW C \in SUBSET Mine(w), Grows(w, C), Beside(w),
         UNCHANGED <<given, cache>>, Fits(w), MapInv', BoundsInv'
  PROVE  IInv'
<1>1. GivenInv'
  BY DEF IInv, GivenInv, given
<1>2. \A v \in Posts : WorkerInv(v)' /\ Mine(v)' \subseteq Mine(v)
  BY OthersFit DEF Fits
<1>3. Apart'
  BY <1>2 DEF IInv, Apart, given
<1>4. CountInv'
  <2>1. Waiting' = Waiting /\ Waiting \intersect Mine(w) = {} /\ Waiting \subseteq Posts
    BY DEF IInv, Apart, Waiting, given, AlbumInv, ToSet
  <2>2. \A t \in Rules, p \in Waiting : Fresh(t, p)'
    BY <2>1 DEF IInv, CountInv, Grows, Fresh
  <2> QED BY <2>1, <2>2 DEF CountInv, CopiesExplained, Grows
<1> QED BY <1>1, <1>2, <1>3, <1>4 DEF IInv, Fits, Beside
-----------------------------------------------------------------------------
(* Copies, traces and counters.                                             *)

LEMMA CountsType ==
  ASSUME IInv, NEW t \in Rules, NEW p \in Posts
  PROVE  copies[t][p] \in Nat /\ extra[t][p] \in Nat /\ copies[t][p] <= 1 + extra[t][p]
BY DEF IInv, CountInv, CopiesExplained

LEMMA AddedType ==
  ASSUME NEW f \in [Rules -> [Posts -> Nat]], NEW t \in Rules, NEW S
  PROVE  /\ Added(f, t, S) \in [Rules -> [Posts -> Nat]]
         /\ \A r \in Rules, p \in Posts :
              Added(f, t, S)[r][p] = IF r = t /\ p \in S THEN f[r][p] + 1 ELSE f[r][p]
BY DEF Added

LEMMA NotedType ==
  ASSUME traces \subseteq Rules \X Posts \X Reasons,
         NEW T \in SUBSET Rules, NEW S \in SUBSET Posts, NEW why \in Reasons
  PROVE  /\ traces \subseteq Noted(T, S, why) /\ Noted(T, S, why) \subseteq Rules \X Posts \X Reasons
         /\ \A t \in T, p \in S : <<t, p, why>> \in Noted(T, S, why)
BY DEF Noted

\* No copy is added.
LEMMA GrowsTraces ==
  ASSUME IInv, NEW w \in Posts, UNCHANGED <<copies, extra>>,
         traces \subseteq traces', traces' \subseteq Rules \X Posts \X Reasons
  PROVE  Grows(w, {})
BY CountsType DEF Grows, Fresh, IInv, CountInv

\* Posts that are still to be sent are copied.
LEMMA GrowsCopies ==
  ASSUME IInv, NEW w \in Posts, Target(w) \in Rules, NEW C \in SUBSET Posts,
         \A p \in C : Fresh(Target(w), p),
         copies' = Added(copies, Target(w), C), UNCHANGED extra,
         traces \subseteq traces', traces' \subseteq Rules \X Posts \X Reasons
  PROVE  Grows(w, C) /\ \A p \in C : copies'[Target(w)][p] > 0
<1>1. copies \in [Rules -> [Posts -> Nat]] /\ extra \in [Rules -> [Posts -> Nat]]
  BY DEF IInv, CountInv
<1>2. /\ copies' \in [Rules -> [Posts -> Nat]]
      /\ \A r \in Rules, p \in Posts :
           copies'[r][p] = IF r = Target(w) /\ p \in C THEN copies[r][p] + 1 ELSE copies[r][p]
  BY <1>1, AddedType
<1>3. \A r \in Rules, p \in Posts :
        /\ copies[r][p] \in Nat /\ extra[r][p] \in Nat /\ copies[r][p] <= 1 + extra[r][p]
        /\ r = Target(w) /\ p \in C => copies[r][p] <= extra[r][p]
  BY CountsType DEF Fresh
<1> QED BY <1>1, <1>2, <1>3 DEF Grows, Fresh

\* Posts whose copies have a reason are copied.
LEMMA GrowsBoth ==
  ASSUME IInv, NEW w \in Posts, Target(w) \in Rules, NEW C \in SUBSET Posts,
         copies' = Added(copies, Target(w), C), extra' = Added(extra, Target(w), C),
         traces \subseteq traces', traces' \subseteq Rules \X Posts \X Reasons
  PROVE  Grows(w, {})
<1>1. copies \in [Rules -> [Posts -> Nat]] /\ extra \in [Rules -> [Posts -> Nat]]
  BY DEF IInv, CountInv
<1>2. /\ copies' \in [Rules -> [Posts -> Nat]] /\ extra' \in [Rules -> [Posts -> Nat]]
      /\ \A r \in Rules, p \in Posts :
           /\ copies'[r][p] = IF r = Target(w) /\ p \in C THEN copies[r][p] + 1 ELSE copies[r][p]
           /\ extra'[r][p] = IF r = Target(w) /\ p \in C THEN extra[r][p] + 1 ELSE extra[r][p]
  BY <1>1, AddedType
<1>3. \A r \in Rules, p \in Posts :
        copies[r][p] \in Nat /\ extra[r][p] \in Nat /\ copies[r][p] <= 1 + extra[r][p]
  BY CountsType
<1> QED BY <1>1, <1>2, <1>3 DEF Grows, Fresh

\* A reason is added for posts that may be copied again.
LEMMA GrowsExtra ==
  ASSUME IInv, NEW w \in Posts, Target(w) \in Rules, NEW C \in SUBSET Posts,
         UNCHANGED <<copies, traces>>, extra' = Added(extra, Target(w), C)
  PROVE  Grows(w, {}) /\ \A p \in C : Fresh(Target(w), p) \/ copies'[Target(w)][p] <= extra'[Target(w)][p]
<1>1. copies \in [Rules -> [Posts -> Nat]] /\ extra \in [Rules -> [Posts -> Nat]]
      /\ traces \subseteq Rules \X Posts \X Reasons
  BY DEF IInv, CountInv
<1>2. /\ extra' \in [Rules -> [Posts -> Nat]]
      /\ \A r \in Rules, p \in Posts :
           extra'[r][p] = IF r = Target(w) /\ p \in C THEN extra[r][p] + 1 ELSE extra[r][p]
  BY <1>1, AddedType
<1>3. \A r \in Rules, p \in Posts :
        copies[r][p] \in Nat /\ extra[r][p] \in Nat /\ copies[r][p] <= 1 + extra[r][p]
  BY CountsType
<1> QED BY <1>1, <1>2, <1>3 DEF Grows, Fresh

LEMMA SomeCount ==
  ASSUME IInv, NEW b \in Limited, Count(b), UNCHANGED scenario
  PROVE  BoundsInv'
<1>1. bounds \in [Limited -> Nat] /\ \A c \in Limited : bounds[c] <= scenario.limits[c]
  BY DEF IInv, BoundsInv
<1>2. \A c \in Limited : scenario.limits[c] \in Nat
  BY RealtimeAssumption DEF RealtimeAssumption, IInv, GivenInv
<1>3. bounds' = [bounds EXCEPT ![b] = bounds[b] + 1] /\ bounds[b] < scenario.limits[b]
  BY DEF Count
<1>4. bounds' \in [Limited -> Nat]
  BY <1>1, <1>3
<1>5. \A c \in Limited : bounds'[c] <= scenario.limits[c]
  BY <1>1, <1>2, <1>3
<1> QED BY <1>4, <1>5 DEF BoundsInv

LEMMA NoCount ==
  ASSUME IInv, UNCHANGED <<bounds, scenario>>
  PROVE  BoundsInv'
BY DEF IInv, BoundsInv

LEMMA SomeTrouble ==
  ASSUME IInv, Trouble, UNCHANGED scenario
  PROVE  BoundsInv'
BY SomeCount, NoCount DEF Trouble, Limited

LEMMA MapStays ==
  ASSUME IInv, UNCHANGED mapping, traces \subseteq traces'
  PROVE  MapInv'
BY DEF IInv, MapInv, MappingExplained
-----------------------------------------------------------------------------
(* The gate and the timer.                                                  *)

Holders == {w \in Posts : Holding(w)}

LEMMA HoldersFinite ==
  IsFiniteSet(Holders) /\ Cardinality(Holders) \in Nat
<1>1. IsFiniteSet(Posts)
  BY RealtimeAssumption, FS_Interval DEF RealtimeAssumption, Posts
<1>2. Holders \in SUBSET Posts
  BY DEF Holders
<1> QED BY <1>1, <1>2, FS_Subset, FS_CardinalityType

LEMMA OthersHold ==
  ASSUME NEW w \in Posts, Beside(w)
  PROVE  \A v \in Posts \ {w} : Holding(v)' = Holding(v)
BY DEF Beside, Holding, Target

LEMMA GateStays ==
  ASSUME IInv, NEW w \in Posts, Beside(w), Holding(w)' = Holding(w), UNCHANGED gate
  PROVE  GateInv'
<1>1. Holders' = Holders
  BY OthersHold DEF Holders
<1> QED BY <1>1 DEF IInv, GateInv, GateHeld, Holders, gate

LEMMA GateLeft ==
  ASSUME IInv, NEW w \in Posts, Beside(w), ~Holding(w)', operations' = GivenBack(w), UNCHANGED switching
  PROVE  GateInv'
<1>1. operations = Cardinality(Holders) /\ switching \in BOOLEAN /\ (switching => operations = 0)
  BY DEF IInv, GateInv, GateHeld, Holders
<1>2. IsFiniteSet(Holders) /\ Cardinality(Holders) \in Nat
  BY HoldersFinite
<1>3. Holders' = Holders \ {w} /\ (w \in Holders <=> Holding(w))
  BY OthersHold DEF Holders
<1>4. Cardinality(Holders') = IF w \in Holders THEN Cardinality(Holders) - 1 ELSE Cardinality(Holders)
  BY <1>2, <1>3, FS_RemoveElement
<1>5. Cardinality(Holders') \in Nat
  <2>1. IsFiniteSet(Holders \ {w})
    BY <1>2, FS_RemoveElement
  <2> QED BY <1>3, <2>1, FS_CardinalityType
<1>6. operations' = Cardinality(Holders')
  BY <1>1, <1>3, <1>4 DEF GivenBack
<1>7. switching => operations' = 0
  BY <1>1, <1>2, <1>4, <1>5, <1>6
<1> QED BY <1>1, <1>5, <1>6, <1>7 DEF GateInv, GateHeld, Holders

LEMMA GateEntered ==
  ASSUME IInv, NEW w \in Posts, Beside(w), ~Holding(w), Holding(w)', operations' = operations + 1,
         ~switching, UNCHANGED switching
  PROVE  GateInv'
<1>1. operations = Cardinality(Holders) /\ switching \in BOOLEAN
  BY DEF IInv, GateInv, GateHeld, Holders
<1>2. IsFiniteSet(Holders) /\ Cardinality(Holders) \in Nat
  BY HoldersFinite
<1>3. Holders' = Holders \union {w} /\ w \notin Holders
  BY OthersHold DEF Holders
<1>4. Cardinality(Holders') = Cardinality(Holders) + 1
  BY <1>2, <1>3, FS_AddElement
<1> QED BY <1>1, <1>2, <1>4 DEF GateInv, GateHeld, Holders

\* A worker that delivers and goes on leaves the album alone.
LEMMA AlbumStays ==
  ASSUME IInv, NEW w \in Posts, Beside(w), work[w].pc \in Live, work'[w].pc \in Live, UNCHANGED <<album, running>>
  PROVE  AlbumInv'
<1>1. \A v \in Posts : At(v, "sleep")' = At(v, "sleep")
  BY DEF Beside, At, Live, Sending, album
<1>2. {v \in Posts : At(v, "sleep")}' = {v \in Posts : At(v, "sleep")}
  BY <1>1
<1>3. timer \in Posts \union {None}
  BY DEF IInv, AlbumInv
<1> QED BY <1>2, <1>3 DEF IInv, AlbumInv, TimerCovers, album, Beside

\* A worker that ends in a running process is not the one the album waits for.
LEMMA AlbumEnd ==
  ASSUME IInv, NEW w \in Posts, Beside(w), work[w].pc # "sleep" \/ w \in cancelled \/ ~running,
         work'[w].pc = "done", timer' = Unregistered(w), cancelled' = cancelled \ {w},
         UNCHANGED <<cache, stranded, running>>
  PROVE  AlbumInv'
<1> DEFINE S == {v \in Posts : At(v, "sleep")}
<1>1. TimerCovers /\ cache \in Seq(Posts) /\ timer \in Posts \union {None} /\ cancelled \subseteq Posts
      /\ stranded \in BOOLEAN
  BY DEF IInv, AlbumInv
<1>2. \A v \in Posts : At(v, "sleep")' <=> (At(v, "sleep") /\ v # w)
  BY DEF Beside, At
<1>3. S' = S \ {w}
  BY <1>2
<1>4. timer' \in Posts \union {None} /\ (timer' # None => timer' = timer /\ timer # w)
  BY <1>1 DEF Unregistered
<1>5. timer' # None => work'[timer'].pc \in {"sleep"} \union Live
  BY <1>4 DEF IInv, AlbumInv, Beside
<1>6. S = IF cache = <<>> \/ timer = None THEN {} ELSE {timer}
  BY <1>1 DEF TimerCovers
<1>7. cache # <<>> /\ running => timer' # None \/ stranded
  <2> SUFFICES ASSUME cache # <<>>, running, timer = w
               PROVE  timer = None
    BY <1>1 DEF TimerCovers, Unregistered
  <2>1. ~At(w, "sleep")
    BY DEF At
  <2>2. w \notin S
    BY <2>1
  <2> QED BY <1>6, <2>2
<1> HIDE DEF S
<1>8. S' = IF cache = <<>> \/ timer' = None THEN {} ELSE {timer'}
  BY <1>3, <1>6 DEF Unregistered
<1>9. TimerCovers'
  BY <1>7, <1>8 DEF TimerCovers, S
<1>10. \A v \in cancelled' : work'[v].pc \in {"sleep"} \union Live
  <2>1. \A v \in cancelled' : v \in cancelled /\ v # w /\ v \in Posts
    BY <1>1
  <2> QED BY <2>1 DEF IInv, AlbumInv, Beside
<1> QED BY <1>1, <1>4, <1>5, <1>9, <1>10 DEF AlbumInv
-----------------------------------------------------------------------------
(* How a worker goes on.                                                    *)

FreshNext(t, p)   == copies'[t][p] <= extra'[t][p]
SettledNext(t, p) == copies'[t][p] > 0 \/ \E why \in Reasons : <<t, p, why>> \in traces'

\* Targets to come stay fresh, and targets behind stay settled.
LEMMA OtherTargets ==
  ASSUME IInv, NEW w \in Posts, NEW C, Grows(w, C), work[w].pc \in Live
  PROVE  /\ \A i \in DOMAIN work[w].plan, p \in Members(w) :
              /\ i > work[w].at => FreshNext(work[w].plan[i], p)
              /\ i < work[w].at => SettledNext(work[w].plan[i], p)
         /\ \A p \in Members(w) \ Remaining(w) : SettledNext(Target(w), p)
         /\ \A p \in Remaining(w) \ C : FreshNext(Target(w), p)
<1>1. /\ DOMAIN work[w].plan \subseteq Int /\ work[w].at \in DOMAIN work[w].plan /\ Target(w) \in Rules
      /\ \A i \in DOMAIN work[w].plan : work[w].plan[i] \in Rules
  BY TargetType
<1>2. Members(w) \subseteq Posts /\ Remaining(w) \subseteq Members(w)
  BY MembersType, RemainingMine
<1>3. WorkAt(w) /\ FreshAt(w) /\ SettledAt(w)
  BY DEF IInv, WorkerInv
<1>4. \A t \in Rules, p \in Posts : Settled(t, p) => SettledNext(t, p)
  BY SettledGrows DEF Settled, SettledNext
<1>5. \A i \in DOMAIN work[w].plan : i > work[w].at => work[w].plan[i] # Target(w)
  BY <1>1, <1>3 DEF WorkAt, IsInjective, Target
<1>6. \A i \in DOMAIN work[w].plan, p \in Members(w) : i > work[w].at => FreshNext(work[w].plan[i], p)
  <2> SUFFICES ASSUME NEW i \in DOMAIN work[w].plan, NEW p \in Members(w), i > work[w].at
               PROVE  FreshNext(work[w].plan[i], p)
    OBVIOUS
  <2>1. Fresh(work[w].plan[i], p)
    BY <1>3 DEF FreshAt
  <2> QED BY <1>1, <1>2, <1>5, <2>1 DEF Grows, FreshNext
<1>7. \A i \in DOMAIN work[w].plan, p \in Members(w) : i < work[w].at => SettledNext(work[w].plan[i], p)
  BY <1>1, <1>2, <1>3, <1>4 DEF SettledAt
<1>8. \A p \in Members(w) \ Remaining(w) : SettledNext(Target(w), p)
  BY <1>1, <1>2, <1>3, <1>4 DEF SettledAt
<1>9. \A p \in Remaining(w) \ C : FreshNext(Target(w), p)
  <2> SUFFICES ASSUME NEW p \in Remaining(w), p \notin C
               PROVE  FreshNext(Target(w), p)
    OBVIOUS
  <2>1. Fresh(Target(w), p)
    BY <1>3 DEF FreshAt
  <2> QED BY <1>1, <1>2, <2>1 DEF Grows, FreshNext
<1> QED BY <1>6, <1>7, <1>8, <1>9

LEMMA EndFits ==
  ASSUME IInv, NEW w \in Posts, End(w), UNCHANGED <<scenario, running>>, work[w].pc \in {"reading", "sleep"} \union Live,
         work[w].pc # "sleep" \/ w \in cancelled \/ ~running,
         \A i \in DOMAIN work[w].plan, p \in Members(w) : SettledNext(work[w].plan[i], p)
  PROVE  Fits(w) /\ Beside(w) /\ UNCHANGED cache
<1>1. work' = [work EXCEPT ![w].pc = "done"] /\ work[w] \in Task /\ DOMAIN work = Posts
  BY DEF End, IInv, WorkerInv, WorkAt
<1>2. /\ work'[w] = [work[w] EXCEPT !.pc = "done"] /\ work'[w] \in Task /\ work'[w].pc = "done"
      /\ work'[w].plan = work[w].plan /\ work'[w].group = work[w].group
  BY <1>1 DEF Task, Labels
<1>3. Beside(w) /\ UNCHANGED cache
  BY <1>1 DEF Beside, End
<1>4. Members(w)' = Members(w) /\ ~Holding(w)' /\ Mine(w)' = {}
  BY <1>2 DEF Members, Holding, Mine, Live, Sending
<1>5. WorkAt(w)'
  BY <1>2 DEF WorkAt, Live, Sending, IInv, WorkerInv
<1>6. FreshAt(w)' /\ AnswerAt(w)'
  BY <1>2 DEF FreshAt, AnswerAt, Live, Sending
<1>7. SettledAt(w)'
  BY <1>2, <1>4 DEF SettledAt, Settled, SettledNext, Live, Sending
<1>8. AlbumInv'
  BY <1>2, <1>3, AlbumEnd DEF End
<1>9. GateInv'
  BY <1>3, <1>4, GateLeft DEF End
<1> QED BY <1>3, <1>4, <1>5, <1>6, <1>7, <1>8, <1>9 DEF Fits, WorkerInv

LEMMA NextTargetFits ==
  ASSUME IInv, NEW w \in Posts, NEW C, Grows(w, C), work[w].pc \in Sending, NextTarget(w),
         UNCHANGED <<scenario, running>>, \A p \in Members(w) : SettledNext(Target(w), p)
  PROVE  Fits(w) /\ Beside(w) /\ UNCHANGED cache
<1>1. work[w].pc \in Live /\ work[w] \in Task /\ DOMAIN work = Posts
  BY DEF Live, IInv, WorkerInv, WorkAt
<1>2. /\ work[w].at \in 1..Len(work[w].plan) /\ Len(work[w].plan) \in Nat
      /\ DOMAIN work[w].plan = 1..Len(work[w].plan)
  BY <1>1, TargetType
<1>3. \A i \in DOMAIN work[w].plan, p \in Members(w) : i <= work[w].at => SettledNext(work[w].plan[i], p)
  BY <1>1, <1>2, OtherTargets DEF Target
<1>4. CASE work[w].at = Len(work[w].plan)
  <2>1. End(w)
    BY <1>4 DEF NextTarget
  <2>2. work[w].pc # "sleep"
    BY DEF Sending
  <2> QED BY <1>1, <1>2, <1>3, <1>4, <2>1, <2>2, EndFits
<1>5. CASE work[w].at # Len(work[w].plan)
  <2>1. /\ work' = [work EXCEPT ![w].pc = "gate", ![w].at = work[w].at + 1, ![w].answer = <<>>, ![w].tries = 0]
        /\ operations' = GivenBack(w) /\ UNCHANGED <<album, switching>>
    BY <1>5 DEF NextTarget
  <2>2. Beside(w) /\ UNCHANGED cache
    BY <1>1, <2>1 DEF Beside, album
  <2>3. /\ work'[w].pc = "gate" /\ work'[w].at = work[w].at + 1 /\ work'[w].plan = work[w].plan
        /\ work'[w].group = work[w].group /\ work'[w] \in Task
    <3>1. 0 \in 0..NetRetries
      BY RealtimeAssumption DEF RealtimeAssumption
    <3> QED BY <1>1, <2>1, <3>1 DEF Task, Labels
  <2>4. Members(w)' = Members(w) /\ Remaining(w)' = Members(w) /\ ~Holding(w)' /\ Mine(w)' = Mine(w)
        /\ Kind(w)' = Kind(w) /\ Target(w)' = work[w].plan[work[w].at + 1]
    BY <1>1, <2>3 DEF Members, Remaining, Holding, Mine, Live, Sending, Kind, Target
  <2>5. WorkAt(w)'
    <3>1. work[w].at + 1 \in DOMAIN work[w].plan
      BY <1>2, <1>5
    <3> QED BY <1>1, <2>3, <2>4, <3>1 DEF WorkAt, Live, Sending, IInv, WorkerInv
  <2>6. FreshAt(w)'
    <3>1. \A i \in DOMAIN work[w].plan, p \in Members(w) : i > work[w].at => FreshNext(work[w].plan[i], p)
      BY <1>1, OtherTargets
    <3>2. \A i \in DOMAIN work[w].plan : i > work[w].at + 1 => i > work[w].at
      BY <1>2
    <3>3. work[w].at + 1 \in DOMAIN work[w].plan /\ work[w].at + 1 > work[w].at
      BY <1>2, <1>5
    <3>4. \A p \in Members(w) : FreshNext(work[w].plan[work[w].at + 1], p)
      BY <3>1, <3>3
    <3>5. \A i \in DOMAIN work[w].plan, p \in Members(w) :
            i > work[w].at + 1 => FreshNext(work[w].plan[i], p)
      BY <3>1, <3>2
    <3> QED BY <2>3, <2>4, <3>4, <3>5 DEF FreshAt, Fresh, FreshNext
  <2>7. SettledAt(w)'
    <3>1. \A i \in DOMAIN work[w].plan : i < work[w].at + 1 => i <= work[w].at
      BY <1>2
    <3> QED BY <1>3, <2>3, <2>4, <3>1 DEF SettledAt, Settled, SettledNext, Live, Sending
  <2>8. AnswerAt(w)'
    BY <2>3 DEF AnswerAt
  <2>9. AlbumInv'
    BY <1>1, <2>1, <2>2, <2>3, AlbumStays DEF Live
  <2>10. GateInv'
    BY <2>1, <2>2, <2>4, GateLeft
  <2> QED BY <2>2, <2>4, <2>5, <2>6, <2>7, <2>8, <2>9, <2>10 DEF Fits, WorkerInv
<1> QED BY <1>4, <1>5

\* The head of the items is settled, and the others are as they were.
LEMMA NextItemFits ==
  ASSUME IInv, NEW w \in Posts, NEW C, Grows(w, C), work[w].pc \in {"each", "saveEach"}, NextItem(w),
         UNCHANGED <<scenario, running>>, SettledNext(Target(w), Head(work[w].each)),
         C \subseteq {Head(work[w].each)}
  PROVE  Fits(w) /\ Beside(w) /\ UNCHANGED cache
<1> DEFINE each == work[w].each
<1>1. work[w].pc \in Live /\ work[w].pc \in Sending /\ work[w] \in Task /\ DOMAIN work = Posts /\ WorkAt(w)
  BY DEF Live, Sending, IInv, WorkerInv, WorkAt
<1>2. /\ each \in Seq(Posts) /\ each # <<>> /\ IsInjective(each) /\ ToSet(each) \subseteq Members(w)
      /\ Len(each) \in Nat
  BY <1>1 DEF WorkAt, Task
<1> HIDE DEF each
<1>3. /\ Tail(each) \in Seq(Posts) /\ IsInjective(Tail(each)) /\ Head(each) \in ToSet(each)
      /\ ToSet(Tail(each)) = ToSet(each) \ {Head(each)}
      /\ (Len(each) = 1 => ToSet(Tail(each)) = {}) /\ (Len(each) # 1 => Tail(each) # <<>>)
  BY <1>2, HeadAndTail
<1>4. /\ \A i \in DOMAIN work[w].plan, p \in Members(w) :
           /\ i > work[w].at => FreshNext(work[w].plan[i], p)
           /\ i < work[w].at => SettledNext(work[w].plan[i], p)
      /\ \A p \in Members(w) \ Remaining(w) : SettledNext(Target(w), p)
      /\ \A p \in Remaining(w) \ C : FreshNext(Target(w), p)
  BY <1>1, OtherTargets
<1>5. ToSet(Tail(each)) \subseteq Remaining(w) /\ Remaining(w) \subseteq ToSet(Tail(each)) \union {Head(each)}
  BY <1>3 DEF Remaining, each
<1>6. /\ \A p \in Members(w) \ ToSet(Tail(each)) : SettledNext(Target(w), p)
      /\ \A p \in ToSet(Tail(each)) : FreshNext(Target(w), p)
  BY <1>3, <1>4, <1>5 DEF each
<1>7. CASE Len(each) = 1
  <2>1. NextTarget(w) /\ \A p \in Members(w) : SettledNext(Target(w), p)
    BY <1>3, <1>6, <1>7 DEF NextItem, each
  <2> QED BY <1>1, <2>1, NextTargetFits
<1>8. CASE Len(each) # 1
  <2>1. work' = [work EXCEPT ![w].pc = "each", ![w].each = Tail(each), ![w].tries = 0]
        /\ UNCHANGED <<album, gate>>
    BY <1>8 DEF NextItem, each
  <2>2. Beside(w) /\ UNCHANGED cache
    BY <1>1, <2>1 DEF Beside, album
  <2>3. /\ work'[w].pc = "each" /\ work'[w].each = Tail(each) /\ work'[w].at = work[w].at
        /\ work'[w].plan = work[w].plan /\ work'[w].group = work[w].group /\ work'[w] \in Task
    <3>1. 0 \in 0..NetRetries
      BY RealtimeAssumption DEF RealtimeAssumption
    <3> QED BY <1>1, <1>3, <2>1, <3>1 DEF Task, Labels, Sending
  <2>4. Members(w)' = Members(w) /\ Remaining(w)' = ToSet(Tail(each)) /\ Holding(w)' = Holding(w)
        /\ Mine(w)' = Mine(w) /\ Kind(w)' = Kind(w) /\ Target(w)' = Target(w)
    BY <1>1, <2>3 DEF Members, Remaining, Holding, Mine, Live, Sending, Kind, Target
  <2>5. WorkAt(w)'
    BY <1>1, <1>2, <1>3, <1>8, <2>3, <2>4 DEF WorkAt, Live, Sending
  <2>6. FreshAt(w)'
    BY <1>4, <1>6, <2>3, <2>4 DEF FreshAt, Fresh, FreshNext, Live, Sending
  <2>7. SettledAt(w)'
    BY <1>4, <1>6, <2>3, <2>4 DEF SettledAt, Settled, SettledNext, Live, Sending
  <2>8. AnswerAt(w)'
    BY <2>3 DEF AnswerAt
  <2>9. AlbumInv'
    BY <1>1, <2>1, <2>2, <2>3, AlbumStays DEF Live, Sending
  <2>10. GateInv'
    BY <2>1, <2>2, <2>4, GateStays
  <2> QED BY <2>2, <2>4, <2>5, <2>6, <2>7, <2>8, <2>9, <2>10 DEF Fits, WorkerInv
<1> QED BY <1>7, <1>8

\* All members are to be sent once more.
LEMMA FallBackFits ==
  ASSUME IInv, NEW w \in Posts, Grows(w, {}), work[w].pc \in {"group", "save"}, FallBack(w),
         UNCHANGED <<scenario, running>>, \A p \in Members(w) : FreshNext(Target(w), p)
  PROVE  Fits(w) /\ Beside(w) /\ UNCHANGED cache
<1>1. work[w].pc \in Live /\ work[w].pc \in Sending /\ work[w] \in Task /\ DOMAIN work = Posts /\ WorkAt(w)
  BY DEF Live, Sending, IInv, WorkerInv, WorkAt
<1>2. work' = [work EXCEPT ![w].pc = "each", ![w].each = work[w].group, ![w].tries = 0]
      /\ UNCHANGED <<album, gate>>
  BY DEF FallBack
<1>3. Beside(w) /\ UNCHANGED cache
  BY <1>1, <1>2 DEF Beside, album
<1>4. /\ work'[w].pc = "each" /\ work'[w].each = work[w].group /\ work'[w].at = work[w].at
      /\ work'[w].plan = work[w].plan /\ work'[w].group = work[w].group /\ work'[w] \in Task
  <2>1. 0 \in 0..NetRetries
    BY RealtimeAssumption DEF RealtimeAssumption
  <2> QED BY <1>1, <1>2, <2>1 DEF Task, Labels, Sending
<1>5. Members(w)' = Members(w) /\ Remaining(w)' = Members(w) /\ Holding(w)' = Holding(w)
      /\ Mine(w)' = Mine(w) /\ Kind(w)' = Kind(w) /\ Target(w)' = Target(w)
  BY <1>1, <1>4 DEF Members, Remaining, Holding, Mine, Live, Sending, Kind, Target
<1>6. \A i \in DOMAIN work[w].plan, p \in Members(w) :
        /\ i > work[w].at => FreshNext(work[w].plan[i], p)
        /\ i < work[w].at => SettledNext(work[w].plan[i], p)
  BY <1>1, OtherTargets
<1>7. WorkAt(w)'
  BY <1>1, <1>4, <1>5 DEF WorkAt, Live, Sending, Members
<1>8. FreshAt(w)'
  BY <1>4, <1>5, <1>6 DEF FreshAt, Fresh, FreshNext, Live, Sending
<1>9. SettledAt(w)'
  BY <1>4, <1>5, <1>6 DEF SettledAt, Settled, SettledNext, Live, Sending
<1>10. AnswerAt(w)'
  BY <1>4 DEF AnswerAt
<1>11. AlbumInv'
  BY <1>1, <1>2, <1>3, <1>4, AlbumStays DEF Live, Sending
<1>12. GateInv'
  BY <1>2, <1>3, <1>5, GateStays
<1> QED BY <1>3, <1>5, <1>7, <1>8, <1>9, <1>10, <1>11, <1>12 DEF Fits, WorkerInv
-----------------------------------------------------------------------------
(* The steps of a worker.                                                   *)

LEMMA LiveWorker ==
  ASSUME IInv, NEW w \in Posts, work[w].pc \in Live
  PROVE  /\ DOMAIN work = Posts /\ work[w] \in Task /\ WorkerInv(w)
         /\ Target(w) \in Rules /\ work[w].at \in DOMAIN work[w].plan
         /\ Members(w) \subseteq Posts /\ Mine(w) = Members(w)
         /\ traces \subseteq Rules \X Posts \X Reasons
BY TargetType, MembersType DEF IInv, WorkerInv, WorkAt, Mine, Live, Sending, CountInv

\* What a request is about is still to be sent.
LEMMA InFlightFresh ==
  ASSUME IInv, NEW w \in Posts, work[w].pc \in Live
  PROVE  InFlight(w) \subseteq Members(w) /\ \A p \in InFlight(w) : Fresh(Target(w), p)
<1>1. WorkAt(w) /\ FreshAt(w)
  BY DEF IInv, WorkerInv
<1>2. CASE work[w].pc = "group"
  BY <1>1, <1>2 DEF InFlight, FreshAt, Remaining
<1>3. CASE work[w].pc = "each"
  <2>1. work[w].each \in Seq(Posts) /\ work[w].each # <<>> /\ IsInjective(work[w].each)
        /\ ToSet(work[w].each) \subseteq Members(w)
    BY <1>1, <1>3 DEF WorkAt, Task
  <2>2. Head(work[w].each) \in ToSet(work[w].each)
    BY <2>1, HeadAndTail
  <2> QED BY <1>1, <1>3, <2>1, <2>2 DEF InFlight, FreshAt, Remaining
<1>4. CASE work[w].pc \notin {"group", "each"}
  BY <1>4 DEF InFlight
<1> QED BY <1>2, <1>3, <1>4

LEMMA OutcomesInFlight ==
  ASSUME NEW w, NEW C \in Outcomes(w)
  PROVE  C \in SUBSET InFlight(w)
BY DEF Outcomes

LEMMA MessageType ==
  ASSUME IInv, NEW p \in Posts
  PROVE  Message(p) \in Posts
<1>1. scenario \in Scenarios
  BY DEF IInv, GivenInv
<1>2. scenario.posts \in [Posts -> [kind : Kinds, fate : Fates, message : Posts]]
  BY <1>1, RealtimeAssumption DEF RealtimeAssumption
<1> QED BY <1>2 DEF Message

\* A worker that gives up notes why for what it leaves.
LEMMA NoteRest ==
  ASSUME IInv, NEW w \in Posts, work[w].pc \in {"reading", "sleep"} \union Live, NEW why \in Reasons,
         traces' = Noted({work[w].plan[i] : i \in work[w].at .. Len(work[w].plan)}, Members(w), why)
  PROVE  /\ traces \subseteq traces' /\ traces' \subseteq Rules \X Posts \X Reasons
         /\ \A i \in DOMAIN work[w].plan, p \in Members(w) :
              i >= work[w].at => SettledNext(work[w].plan[i], p)
<1> DEFINE T == {work[w].plan[i] : i \in work[w].at .. Len(work[w].plan)}
<1>1. /\ work[w].at \in 1..Len(work[w].plan) /\ Len(work[w].plan) \in Nat
      /\ DOMAIN work[w].plan = 1..Len(work[w].plan)
      /\ \A i \in DOMAIN work[w].plan : work[w].plan[i] \in Rules
  BY TargetType
<1>2. \A i \in work[w].at .. Len(work[w].plan) : i \in DOMAIN work[w].plan
  BY <1>1
<1>3. T \in SUBSET Rules
  BY <1>1, <1>2
<1>4. \A i \in DOMAIN work[w].plan : i >= work[w].at => work[w].plan[i] \in T
  BY <1>1
<1> HIDE DEF T
<1>5. traces' = Noted(T, Members(w), why)
  BY DEF T
<1>6. traces \subseteq Rules \X Posts \X Reasons /\ Members(w) \in SUBSET Posts
  BY MembersType DEF IInv, CountInv
<1>7. /\ traces \subseteq traces' /\ traces' \subseteq Rules \X Posts \X Reasons
      /\ \A t \in T, p \in Members(w) : <<t, p, why>> \in traces'
  BY <1>3, <1>5, <1>6, NotedType
<1> QED BY <1>4, <1>7 DEF SettledNext

LEMMA NoteHere ==
  ASSUME IInv, NEW w \in Posts, work[w].pc \in Live, NEW S \in SUBSET Members(w), NEW why \in Reasons,
         traces' = Noted({Target(w)}, S, why)
  PROVE  /\ traces \subseteq traces' /\ traces' \subseteq Rules \X Posts \X Reasons
         /\ \A p \in S : SettledNext(Target(w), p) /\ <<Target(w), p, why>> \in traces'
<1>1. {Target(w)} \in SUBSET Rules /\ S \in SUBSET Posts /\ traces \subseteq Rules \X Posts \X Reasons
  BY LiveWorker
<1> QED BY <1>1, NotedType DEF SettledNext

LEMMA HandleStep ==
  ASSUME IInv, NEW w \in Posts, Handle(w)
  PROVE  IInv'
<1>1. work[w].pc = "reading" /\ w \notin cancelled /\ Kind(w) = "single" /\ work[w] \in Task
      /\ DOMAIN work = Posts /\ WorkerInv(w)
  BY DEF Handle, At, IInv, WorkerInv, WorkAt
<1>2. UNCHANGED <<scenario, rules, seen, again, running, cache, timer, cancelled, stranded, operations, switching, copies, mapping,
                  traces, extra, bounds>>
  BY DEF Handle, given, album, gate, stored, history
<1>3. CASE Fate(w) = "wanted"
  <2>1. work' = [work EXCEPT ![w].group = <<w>>, ![w].pc = "gate"]
    BY <1>3 DEF Handle
  <2>2. /\ work'[w].pc = "gate" /\ work'[w].group = <<w>> /\ work'[w].plan = work[w].plan
        /\ work'[w].at = work[w].at /\ work'[w] \in Task
    <3>1. <<w>> \in Seq(Posts) /\ "gate" \in Labels
      BY DEF Labels
    <3> QED BY <1>1, <2>1, <3>1 DEF Task
  <2>3. Beside(w)
    BY <1>1, <2>1 DEF Beside
  <2>4. <<w>> # <<>> /\ ToSet(<<w>>) = {w} /\ IsInjective(<<w>>)
    BY OneElement
  <2>5. Members(w)' = {w} /\ Remaining(w)' = {w} /\ ~Holding(w)' /\ ~Holding(w) /\ Mine(w)' = {w}
        /\ Mine(w) = {w} /\ Kind(w)' = "single" /\ Target(w)' = Target(w)
    BY <1>1, <1>2, <2>2, <2>4 DEF Members, Remaining, Holding, Mine, Live, Sending, Kind, Target
  <2>6. WorkAt(w)'
    BY <1>1, <2>2, <2>4, <2>5 DEF WorkAt, Live, Sending, WorkerInv
  <2>7. FreshAt(w)' /\ SettledAt(w)' /\ AnswerAt(w)'
    <3>1. \A t \in Rules : Fresh(t, w)
      BY <1>1 DEF WorkerInv, FreshAt
    <3>2. Target(w) \in Rules /\ \A i \in DOMAIN work[w].plan : work[w].plan[i] \in Rules
      BY <1>1, TargetType
    <3>3. DOMAIN work[w].plan \subseteq Int /\ \A i \in DOMAIN work[w].plan : ~(i < work[w].at)
      <4>1. work[w].at = 1 /\ work[w].plan \in Seq(Rules)
        BY <1>1 DEF WorkerInv, WorkAt, Task
      <4> QED BY <4>1
    <3> QED BY <1>2, <2>2, <2>5, <3>1, <3>2, <3>3 DEF FreshAt, Fresh, SettledAt, AnswerAt, Live, Sending
  <2>8. AlbumInv'
    <3>1. \A v \in Posts : At(v, "sleep")' = At(v, "sleep")
      BY <1>1, <1>2, <2>2, <2>3 DEF At, Beside
    <3>2. {v \in Posts : At(v, "sleep")}' = {v \in Posts : At(v, "sleep")}
      BY <3>1
    <3>3. \A v \in Posts : work[v].pc \in Live => work'[v].pc \in Live
      BY <1>1, <2>2, <2>3 DEF Beside, Live
    <3>4. \A v \in Posts : work[v].pc = "sleep" => work'[v].pc = "sleep"
      BY <1>1, <2>2, <2>3 DEF Beside
    <3> QED BY <1>2, <3>2, <3>3, <3>4 DEF IInv, AlbumInv, TimerCovers
  <2>9. GateInv'
    <3>1. UNCHANGED gate
      BY <1>2 DEF gate
    <3>2. Holding(w)' = Holding(w)
      BY <2>5 DEF Holding
    <3> QED BY <2>3, <3>1, <3>2, GateStays
  <2>10. Grows(w, {})
    BY <1>2, GrowsTraces DEF IInv, CountInv
  <2>11. MapInv' /\ BoundsInv'
    BY <1>2, MapStays, NoCount
  <2> QED BY <1>2, <2>3, <2>5, <2>6, <2>7, <2>8, <2>9, <2>10, <2>11, StepFits DEF Fits, WorkerInv, given
<1>4. CASE Fate(w) # "wanted"
  <2>1. work' = [work EXCEPT ![w].group = <<>>, ![w].pc = "done"]
    BY <1>4 DEF Handle
  <2>2. /\ work'[w].pc = "done" /\ work'[w].group = <<>> /\ work'[w].plan = work[w].plan
        /\ work'[w].at = work[w].at /\ work'[w] \in Task
    BY <1>1, <2>1 DEF Task, Labels
  <2>3. Beside(w)
    BY <1>1, <2>1 DEF Beside
  <2>4. Members(w)' = {} /\ ~Holding(w)' /\ ~Holding(w) /\ Mine(w)' = {}
    BY <1>1, <2>2, NoElements DEF Members, Holding, Mine, Live, Sending
  <2>5. WorkAt(w)' /\ FreshAt(w)' /\ SettledAt(w)' /\ AnswerAt(w)'
    BY <1>1, <2>2, <2>4, NoElements DEF WorkAt, FreshAt, SettledAt, AnswerAt, Live, Sending, WorkerInv
  <2>6. AlbumInv'
    <3>1. \A v \in Posts : At(v, "sleep")' = At(v, "sleep")
      BY <1>1, <1>2, <2>2, <2>3 DEF At, Beside
    <3>2. {v \in Posts : At(v, "sleep")}' = {v \in Posts : At(v, "sleep")}
      BY <3>1
    <3>3. \A v \in Posts : work[v].pc \in {"sleep"} \union Live => work'[v] = work[v]
      BY <1>1, <2>3 DEF Beside, Live, Sending
    <3> QED BY <1>2, <3>2, <3>3 DEF IInv, AlbumInv, TimerCovers
  <2>7. GateInv'
    <3>1. UNCHANGED gate
      BY <1>2 DEF gate
    <3>2. Holding(w)' = Holding(w)
      BY <2>4 DEF Holding
    <3> QED BY <2>3, <3>1, <3>2, GateStays
  <2>8. Grows(w, {})
    BY <1>2, GrowsTraces DEF IInv, CountInv
  <2>9. MapInv' /\ BoundsInv'
    BY <1>2, MapStays, NoCount
  <2> QED BY <1>2, <2>3, <2>4, <2>5, <2>6, <2>7, <2>8, <2>9, StepFits DEF Fits, WorkerInv, given
<1> QED BY <1>3, <1>4

LEMMA InterruptedStep ==
  ASSUME IInv, NEW w \in Posts, Interrupted(w)
  PROVE  IInv'
<1>1. work[w].pc \in {"reading", "sleep"} \union Live /\ (w \in cancelled \/ ~running)
  <2>1. work[w].pc \in Labels
    BY DEF IInv, WorkerInv, WorkAt, Task
  <2> QED BY <2>1 DEF Interrupted, Labels, Live
<1>2. /\ traces \subseteq traces' /\ traces' \subseteq Rules \X Posts \X Reasons
      /\ \A i \in DOMAIN work[w].plan, p \in Members(w) :
           i >= work[w].at => SettledNext(work[w].plan[i], p)
  BY <1>1, NoteRest DEF Interrupted, Reasons
<1>3. PICK C \in SUBSET InFlight(w) : copies' = IF C = {} THEN copies ELSE Added(copies, Target(w), C)
  BY OutcomesInFlight DEF Interrupted
<1>4. UNCHANGED <<scenario, rules, seen, again, running, mapping, extra, bounds>> /\ End(w)
  BY DEF Interrupted, given
<1>5. C \in SUBSET Mine(w) /\ Grows(w, C)
  <2>1. CASE work[w].pc \in {"reading", "sleep"}
    <3>1. C = {}
      BY <2>1 DEF InFlight
    <3> QED BY <1>2, <1>3, <1>4, <3>1, GrowsTraces
  <2>2. CASE work[w].pc \in Live
    <3>1. C \in SUBSET Members(w) /\ Members(w) \subseteq Posts /\ Mine(w) = Members(w) /\ Target(w) \in Rules
          /\ \A p \in C : Fresh(Target(w), p)
      BY <2>2, InFlightFresh, LiveWorker
    <3>2. CASE C = {}
      BY <1>2, <1>3, <1>4, <3>2, GrowsTraces
    <3>3. CASE C # {}
      BY <1>2, <1>3, <1>4, <3>1, <3>3, GrowsCopies
    <3> QED BY <3>1, <3>2, <3>3
  <2> QED BY <1>1, <2>1, <2>2
<1>6. \A i \in DOMAIN work[w].plan, p \in Members(w) : SettledNext(work[w].plan[i], p)
  <2>1. CASE work[w].pc \in {"reading", "sleep"}
    <3>1. Members(w) = {}
      BY <2>1, NoElements DEF Members, IInv, WorkerInv, WorkAt
    <3> QED BY <3>1
  <2>2. CASE work[w].pc \in Live
    <3>1. DOMAIN work[w].plan \subseteq Int /\ work[w].at \in Int
      BY <2>2, TargetType
    <3> QED BY <1>2, <1>5, <2>2, <3>1, OtherTargets
  <2> QED BY <1>1, <2>1, <2>2
<1>7. Fits(w) /\ Beside(w) /\ UNCHANGED cache
  BY <1>1, <1>4, <1>6, EndFits
<1>8. MapInv' /\ BoundsInv'
  BY <1>2, <1>4, MapStays, NoCount
<1> QED BY <1>4, <1>5, <1>7, <1>8, StepFits DEF given

LEMMA RefusedStep ==
  ASSUME IInv, NEW w \in Posts, Refused(w)
  PROVE  IInv'
<1>1. work[w].pc = "gate" /\ work[w].pc \in Live
  BY DEF Refused, At, Live
<1>2. /\ traces \subseteq traces' /\ traces' \subseteq Rules \X Posts \X Reasons
      /\ \A i \in DOMAIN work[w].plan, p \in Members(w) :
           i >= work[w].at => SettledNext(work[w].plan[i], p)
  BY <1>1, NoteRest DEF Refused, Reasons
<1>3. UNCHANGED <<scenario, rules, seen, again, running, copies, mapping, extra, bounds>> /\ End(w)
  BY DEF Refused, given, stored
<1>4. Grows(w, {})
  BY <1>2, <1>3, GrowsTraces
<1>5. \A i \in DOMAIN work[w].plan, p \in Members(w) : SettledNext(work[w].plan[i], p)
  <2>1. DOMAIN work[w].plan \subseteq Int /\ work[w].at \in Int
    BY <1>1, TargetType
  <2> QED BY <1>1, <1>2, <1>4, <2>1, OtherTargets
<1>6. Fits(w) /\ Beside(w) /\ UNCHANGED cache
  BY <1>1, <1>3, <1>5, EndFits
<1>7. MapInv' /\ BoundsInv'
  BY <1>2, <1>3, MapStays, NoCount
<1> QED BY <1>3, <1>4, <1>6, <1>7, StepFits DEF given

\* A worker that stays with its target.
LEMMA StayFits ==
  ASSUME IInv, NEW w \in Posts, NEW C, Grows(w, C), Beside(w), UNCHANGED <<scenario, running, album>>,
         work[w].pc \in Live, work'[w].pc \in Sending, work'[w] \in Task,
         work'[w].plan = work[w].plan, work'[w].at = work[w].at, work'[w].group = work[w].group,
         work'[w].pc \in {"group", "save"} => Kind(w) = "album",
         work'[w].pc \in {"each", "saveEach"} =>
           /\ work'[w].each # <<>> /\ IsInjective(work'[w].each)
           /\ ToSet(work'[w].each) \subseteq Members(w),
         \A p \in Remaining(w)' : FreshNext(Target(w), p),
         \A p \in Members(w) \ Remaining(w)' : SettledNext(Target(w), p),
         AnswerAt(w)', GateInv'
  PROVE  Fits(w)
<1>1. work'[w].pc \in Live /\ work'[w].pc \notin {"none", "reading", "sleep", "done"}
      /\ work[w].pc \notin {"none", "reading", "sleep", "done"}
  BY DEF Live, Sending
<1>2. Members(w)' = Members(w) /\ Mine(w)' = Mine(w) /\ Kind(w)' = Kind(w) /\ Target(w)' = Target(w)
  BY <1>1 DEF Members, Mine, Kind, Target
<1>3. WorkAt(w)'
  BY <1>1, <1>2 DEF WorkAt, IInv, WorkerInv
<1>4. \A i \in DOMAIN work[w].plan, p \in Members(w) :
        /\ i > work[w].at => FreshNext(work[w].plan[i], p)
        /\ i < work[w].at => SettledNext(work[w].plan[i], p)
  BY OtherTargets
<1>5. FreshAt(w)'
  BY <1>1, <1>2, <1>4 DEF FreshAt, Fresh, FreshNext
<1>6. SettledAt(w)'
  BY <1>1, <1>2, <1>4 DEF SettledAt, Settled, SettledNext
<1>7. AlbumInv'
  BY <1>1, AlbumStays
<1> QED BY <1>2, <1>3, <1>5, <1>6, <1>7 DEF Fits, WorkerInv

LEMMA EnterStep ==
  ASSUME IInv, NEW w \in Posts, Enter(w)
  PROVE  IInv'
<1> DEFINE whole == Kind(w) = "album" /\ (Target(w) \in Uploads \/ ~scenario.rewritten)
<1>1. work[w].pc = "gate" /\ Admitted(Target(w)) /\ work[w].pc \in Live
  BY DEF Enter, At, Live
<1>2. UNCHANGED <<scenario, rules, seen, again, running, album, switching, copies, mapping, traces, extra, bounds>>
  BY DEF Enter, given, stored, history
<1>3. DOMAIN work = Posts /\ work[w] \in Task /\ WorkAt(w) /\ Members(w) \subseteq Posts /\ Mine(w) = Members(w)
  BY <1>1, LiveWorker DEF WorkerInv
<1>4. work' = [work EXCEPT ![w].pc = IF whole THEN "group" ELSE "each",
                           ![w].each = IF whole THEN <<>> ELSE work[w].group,
                           ![w].account = Target(w) \in Saved]
  BY DEF Enter
<1> HIDE DEF whole
<1>5. /\ work'[w].pc = (IF whole THEN "group" ELSE "each") /\ work'[w].pc \in Sending
      /\ work'[w].each = (IF whole THEN <<>> ELSE work[w].group)
      /\ work'[w].plan = work[w].plan /\ work'[w].at = work[w].at /\ work'[w].group = work[w].group
      /\ work'[w] \in Task
  <2>1. <<>> \in Seq(Posts) /\ {"group", "each"} \subseteq Labels /\ {"group", "each"} \subseteq Sending
    BY DEF Labels, Sending
  <2>2. (Target(w) \in Saved) \in BOOLEAN
    OBVIOUS
  <2> QED BY <1>3, <1>4, <2>1, <2>2 DEF Task
<1>6. Beside(w)
  BY <1>3, <1>4 DEF Beside
<1>7. Remaining(w) = Members(w) /\ Remaining(w)' = Members(w)
  BY <1>1, <1>5 DEF Remaining, Members
<1>8. Grows(w, {})
  BY <1>2, GrowsTraces DEF IInv, CountInv
<1>9. \A p \in Members(w) : FreshNext(Target(w), p)
  BY <1>1, <1>7, <1>8, OtherTargets
<1>10. work'[w].pc \in {"each", "saveEach"} =>
         /\ work'[w].each # <<>> /\ IsInjective(work'[w].each) /\ ToSet(work'[w].each) \subseteq Members(w)
  BY <1>1, <1>3, <1>5 DEF WorkAt, Members
<1>11. work'[w].pc \in {"group", "save"} => Kind(w) = "album"
  BY <1>5 DEF whole
<1>12. AnswerAt(w)'
  BY <1>5 DEF AnswerAt
<1>13. GateInv'
  <2>1. ~Holding(w) /\ (Holding(w)' <=> Target(w) \in Saved)
    BY <1>1, <1>5 DEF Holding, Target, Sending
  <2>2. CASE Target(w) \in Saved
    <3>1. ~switching /\ operations' = operations + 1
      BY <1>1, <2>2 DEF Admitted, Enter
    <3> QED BY <1>2, <1>6, <2>1, <2>2, <3>1, GateEntered
  <2>3. CASE Target(w) \notin Saved
    <3>1. UNCHANGED gate
      BY <1>2, <2>3 DEF Enter, gate
    <3>2. Holding(w)' = Holding(w)
      BY <2>1, <2>3 DEF Holding
    <3> QED BY <1>6, <3>1, <3>2, GateStays
  <2> QED BY <2>2, <2>3
<1>14. Fits(w)
  BY <1>1, <1>2, <1>5, <1>6, <1>7, <1>8, <1>9, <1>10, <1>11, <1>12, <1>13, StayFits
<1>15. MapInv' /\ BoundsInv'
  BY <1>2, MapStays, NoCount
<1> QED BY <1>2, <1>6, <1>8, <1>14, <1>15, StepFits DEF given, album

\* zip pairs every post with its own copy when nothing was left out.
LEMMA PairedAnswer ==
  ASSUME NEW S \in SUBSET Posts, NEW R \in SUBSET S
  PROVE  /\ Paired(Ascending(S), Ascending(R)) \in Seq(Posts \X Posts)
         /\ R = S => \A i \in DOMAIN Paired(Ascending(S), Ascending(R)) :
                        Paired(Ascending(S), Ascending(R))[i][1] = Paired(Ascending(S), Ascending(R))[i][2]
<1> DEFINE s == Ascending(S)
           r == Ascending(R)
<1>1. LastPost \in Nat /\ Posts = 1..LastPost
  BY RealtimeAssumption DEF RealtimeAssumption, Posts
<1>2. s \in Seq(S) /\ Len(s) = Cardinality(S) /\ Cardinality(S) \in Nat
  BY <1>1, Ascends
<1>3. r \in Seq(R) /\ Len(r) = Cardinality(R) /\ Cardinality(R) \in Nat
  BY <1>1, Ascends
<1>4. Cardinality(R) <= Cardinality(S)
  <2>1. IsFiniteSet(Posts)
    BY <1>1, FS_Interval
  <2>2. IsFiniteSet(S)
    BY <2>1, FS_Subset
  <2> QED BY <2>2, FS_Subset
<1>5. R = S => r = s
  OBVIOUS
<1> HIDE DEF s, r
<1>6. \A i \in 1..Len(r) : s[i] \in Posts /\ r[i] \in Posts
  BY <1>2, <1>3, <1>4
<1>7. Paired(s, r) = [i \in 1..Len(r) |-> <<s[i], r[i]>>]
  BY <1>3 DEF Paired
<1>8. Paired(s, r) \in Seq(Posts \X Posts)
  BY <1>3, <1>6, <1>7
<1>9. R = S => \A i \in DOMAIN Paired(s, r) : Paired(s, r)[i][1] = Paired(s, r)[i][2]
  BY <1>5, <1>7
<1> QED BY <1>8, <1>9 DEF s, r

LEMMA GroupAnsweredStep ==
  ASSUME IInv, NEW w \in Posts, GroupAnswered(w)
  PROVE  IInv'
<1>1. work[w].pc = "group" /\ work[w].pc \in Live /\ work[w].pc \in Sending
  BY DEF GroupAnswered, At, Live, Sending
<1>2. PICK out \in SUBSET Members(w) :
        /\ copies' = Added(copies, Target(w), Members(w) \ out)
        /\ traces' = Noted({Target(w)}, out, "left out")
        /\ work' = [work EXCEPT ![w].pc = "save",
                                ![w].answer = Paired(work[w].group, Ascending(Members(w) \ out))]
  BY DEF GroupAnswered, Omitted
<1> DEFINE sent == Members(w) \ out
           answer == Paired(work[w].group, Ascending(sent))
<1>3. UNCHANGED <<scenario, rules, seen, again, running, album, gate, mapping, extra, bounds>>
  BY DEF GroupAnswered, given
<1>4. /\ DOMAIN work = Posts /\ work[w] \in Task /\ WorkAt(w) /\ FreshAt(w) /\ Members(w) \subseteq Posts
      /\ Mine(w) = Members(w) /\ Target(w) \in Rules
  BY <1>1, LiveWorker DEF WorkerInv
<1>5. Kind(w) = "album" /\ work[w].group = Ascending(Members(w))
  BY <1>1, <1>4 DEF WorkAt
<1>6. /\ answer \in Seq(Posts \X Posts)
      /\ out = {} => \A i \in DOMAIN answer : answer[i][1] = answer[i][2]
  <2>1. sent \in SUBSET Members(w) /\ (out = {} => sent = Members(w))
    OBVIOUS
  <2> HIDE DEF sent
  <2>2. /\ Paired(Ascending(Members(w)), Ascending(sent)) \in Seq(Posts \X Posts)
        /\ sent = Members(w) => \A i \in DOMAIN Paired(Ascending(Members(w)), Ascending(sent)) :
             Paired(Ascending(Members(w)), Ascending(sent))[i][1]
               = Paired(Ascending(Members(w)), Ascending(sent))[i][2]
    BY <1>4, <2>1, PairedAnswer
  <2>3. answer = Paired(Ascending(Members(w)), Ascending(sent))
    BY <1>5
  <2> HIDE DEF answer
  <2> QED BY <2>1, <2>2, <2>3
<1> HIDE DEF answer
<1>7. /\ traces \subseteq traces' /\ traces' \subseteq Rules \X Posts \X Reasons
      /\ \A p \in out : SettledNext(Target(w), p) /\ <<Target(w), p, "left out">> \in traces'
  BY <1>1, <1>2, NoteHere DEF Reasons
<1>8. Grows(w, sent) /\ \A p \in sent : copies'[Target(w)][p] > 0
  <2>1. \A p \in sent : Fresh(Target(w), p)
    BY <1>1, <1>4 DEF FreshAt, Remaining
  <2> QED BY <1>2, <1>3, <1>4, <1>7, <2>1, GrowsCopies
<1>9. /\ work'[w].pc = "save" /\ work'[w].answer = answer /\ work'[w].plan = work[w].plan
      /\ work'[w].at = work[w].at /\ work'[w].group = work[w].group /\ work'[w] \in Task
  <2>1. "save" \in Labels
    BY DEF Labels, Sending
  <2> QED BY <1>2, <1>4, <1>6, <2>1 DEF Task, answer
<1>10. Beside(w)
  BY <1>2, <1>4 DEF Beside
<1>11. Remaining(w)' = {} /\ Target(w)' = Target(w) /\ Holding(w)' = Holding(w)
  BY <1>1, <1>9 DEF Remaining, Target, Holding, Sending
<1>12. \A p \in Members(w) : SettledNext(Target(w), p)
  BY <1>7, <1>8 DEF SettledNext
<1>13. AnswerAt(w)'
  <2>1. CASE out = {}
    BY <1>6, <1>9, <2>1 DEF AnswerAt
  <2>2. CASE out # {}
    <3>1. PICK q \in out : TRUE
      BY <2>2
    <3>2. <<Target(w), q, "left out">> \in traces' /\ q \in Posts
      BY <1>4, <1>7, <3>1
    <3> QED BY <1>11, <3>2 DEF AnswerAt, LeftOut
  <2> QED BY <2>1, <2>2
<1>14. GateInv'
  BY <1>3, <1>10, <1>11, GateStays
<1>15. Fits(w)
  <2>1. work'[w].pc \in Sending /\ work'[w].pc \notin {"each", "saveEach"}
    BY <1>9 DEF Sending
  <2> QED BY <1>1, <1>3, <1>5, <1>8, <1>9, <1>10, <1>11, <1>12, <1>13, <1>14, <2>1, StayFits
<1>16. MapInv' /\ BoundsInv'
  BY <1>3, <1>7, MapStays, NoCount
<1>17. sent \in SUBSET Mine(w)
  BY <1>4
<1> QED BY <1>3, <1>8, <1>10, <1>15, <1>16, <1>17, StepFits DEF given, album

LEMMA NetworkErrorStep ==
  ASSUME IInv, NEW w \in Posts, NetworkError(w)
  PROVE  IInv'
<1>1. work[w].pc \in {"group", "each"} /\ work[w].pc \in Live /\ work[w].pc \in Sending
  BY DEF NetworkError, At, Live, Sending
<1>2. PICK C \in SUBSET InFlight(w) :
        copies' = Added(copies, Target(w), C) /\ extra' = Added(extra, Target(w), C)
  BY OutcomesInFlight DEF NetworkError, SentInVain
<1>3. UNCHANGED <<scenario, rules, seen, again, running, mapping>> /\ Trouble
  BY DEF NetworkError, given
<1>4. /\ DOMAIN work = Posts /\ work[w] \in Task /\ WorkAt(w) /\ SettledAt(w) /\ Members(w) \subseteq Posts
      /\ Target(w) \in Rules /\ InFlight(w) \subseteq Members(w)
      /\ traces \subseteq Rules \X Posts \X Reasons
  BY <1>1, LiveWorker, InFlightFresh DEF WorkerInv
<1>5. BoundsInv'
  BY <1>3, SomeTrouble
<1>6. ASSUME traces \subseteq traces', traces' \subseteq Rules \X Posts \X Reasons
      PROVE  Grows(w, {}) /\ MapInv'
  BY <1>2, <1>3, <1>4, <1>6, GrowsBoth, MapStays
<1>7. CASE work[w].tries < NetRetries
  <2>1. work' = [work EXCEPT ![w].tries = work[w].tries + 1] /\ UNCHANGED <<album, gate, traces>>
    BY <1>7 DEF NetworkError
  <2>2. Grows(w, {}) /\ MapInv'
    BY <1>4, <1>6, <2>1
  <2>3. /\ work'[w].pc = work[w].pc /\ work'[w].each = work[w].each /\ work'[w].plan = work[w].plan
        /\ work'[w].at = work[w].at /\ work'[w].group = work[w].group /\ work'[w] \in Task
    <3>1. work[w].tries \in 0..NetRetries /\ NetRetries \in Nat
      BY <1>4, RealtimeAssumption DEF Task, RealtimeAssumption
    <3>2. work[w].tries + 1 \in 0..NetRetries
      BY <1>7, <3>1
    <3> QED BY <1>4, <2>1, <3>2 DEF Task
  <2>4. Beside(w)
    BY <1>4, <2>1 DEF Beside
  <2>5. Remaining(w)' = Remaining(w) /\ Target(w)' = Target(w) /\ Holding(w)' = Holding(w)
    BY <2>3 DEF Remaining, Members, Target, Holding
  <2>6. /\ \A p \in Members(w) \ Remaining(w) : SettledNext(Target(w), p)
        /\ \A p \in Remaining(w) : FreshNext(Target(w), p)
    BY <1>1, <2>2, OtherTargets
  <2>7. AnswerAt(w)'
    BY <1>1, <2>3 DEF AnswerAt
  <2>8. GateInv'
    BY <2>1, <2>4, <2>5, GateStays
  <2>9. Fits(w)
    <3>1. /\ work'[w].pc \in {"group", "save"} => Kind(w) = "album"
          /\ work'[w].pc \in {"each", "saveEach"} =>
               /\ work'[w].each # <<>> /\ IsInjective(work'[w].each)
               /\ ToSet(work'[w].each) \subseteq Members(w)
      BY <1>4, <2>3 DEF WorkAt
    <3>2. work'[w].pc \in Sending
      BY <1>1, <2>3
    <3> QED BY <1>1, <1>3, <2>1, <2>2, <2>3, <2>4, <2>5, <2>6, <2>7, <2>8, <3>1, <3>2, StayFits
  <2> QED BY <1>3, <1>5, <2>1, <2>2, <2>4, <2>9, StepFits DEF given, album
<1>8. CASE ~(work[w].tries < NetRetries) /\ work[w].pc = "group"
  <2>1. FallBack(w) /\ UNCHANGED traces
    BY <1>8 DEF NetworkError
  <2>2. Grows(w, {}) /\ MapInv'
    BY <1>4, <1>6, <2>1
  <2>3. \A p \in Members(w) : FreshNext(Target(w), p)
    BY <1>1, <1>8, <2>2, OtherTargets DEF Remaining
  <2>4. Fits(w) /\ Beside(w) /\ UNCHANGED cache
    BY <1>3, <1>8, <2>1, <2>2, <2>3, FallBackFits
  <2> QED BY <1>3, <1>5, <2>2, <2>4, StepFits DEF given
<1>9. CASE ~(work[w].tries < NetRetries) /\ work[w].pc = "each"
  <2>1. NextItem(w) /\ traces' = Noted({Target(w)}, InFlight(w), "error")
    BY <1>9 DEF NetworkError
  <2>2. /\ traces \subseteq traces' /\ traces' \subseteq Rules \X Posts \X Reasons
        /\ \A p \in InFlight(w) : SettledNext(Target(w), p)
    BY <1>1, <1>4, <2>1, NoteHere DEF Reasons
  <2>3. Grows(w, {}) /\ MapInv'
    BY <1>6, <2>2
  <2>4. SettledNext(Target(w), Head(work[w].each))
    BY <1>9, <2>2 DEF InFlight
  <2>5. Fits(w) /\ Beside(w) /\ UNCHANGED cache
    BY <1>3, <1>9, <2>1, <2>3, <2>4, NextItemFits
  <2> QED BY <1>3, <1>5, <2>3, <2>5, StepFits DEF given
<1> QED BY <1>1, <1>7, <1>8, <1>9

\* The account or another bot sends what may have been sent.
LEMMA UploadAgainStep ==
  ASSUME IInv, NEW w \in Posts, UploadAgain(w)
  PROVE  IInv'
<1>1. work[w].pc \in {"group", "each"} /\ work[w].pc \in Live /\ work[w].pc \in Sending
  BY DEF UploadAgain, Uploading, At, Live, Sending
<1>2. PICK a \in BOOLEAN, C \in Outcomes(w) :
        /\ copies' = Added(copies, Target(w), C) /\ extra' = Added(extra, Target(w), C)
        /\ work' = [work EXCEPT ![w].account = a, ![w].tries = 0]
  BY DEF UploadAgain, SentInVain
<1>3. UNCHANGED <<scenario, rules, seen, again, running, album, gate, mapping, traces>> /\ Count("trouble")
  BY DEF UploadAgain, given
<1>4. /\ DOMAIN work = Posts /\ work[w] \in Task /\ WorkAt(w) /\ Members(w) \subseteq Posts
      /\ Target(w) \in Rules /\ InFlight(w) \subseteq Members(w)
      /\ traces \subseteq Rules \X Posts \X Reasons
  BY <1>1, LiveWorker, InFlightFresh DEF WorkerInv
<1>5. Grows(w, {})
  <2>1. C \in SUBSET Posts
    BY <1>4, OutcomesInFlight
  <2> QED BY <1>2, <1>3, <1>4, <2>1, GrowsBoth
<1>6. /\ work'[w].pc = work[w].pc /\ work'[w].each = work[w].each /\ work'[w].plan = work[w].plan
      /\ work'[w].at = work[w].at /\ work'[w].group = work[w].group /\ work'[w] \in Task
  <2>1. 0 \in 0..NetRetries
    BY RealtimeAssumption DEF RealtimeAssumption
  <2> QED BY <1>2, <1>4, <2>1 DEF Task
<1>7. Beside(w)
  BY <1>2, <1>4 DEF Beside
<1>8. Remaining(w)' = Remaining(w) /\ Target(w)' = Target(w) /\ Holding(w)' = Holding(w)
  BY <1>6 DEF Remaining, Members, Target, Holding
<1>9. /\ \A p \in Members(w) \ Remaining(w) : SettledNext(Target(w), p)
      /\ \A p \in Remaining(w) : FreshNext(Target(w), p)
  BY <1>1, <1>5, OtherTargets
<1>10. AnswerAt(w)'
  BY <1>1, <1>6 DEF AnswerAt
<1>11. GateInv'
  BY <1>3, <1>7, <1>8, GateStays
<1>12. Fits(w)
  <2>1. /\ work'[w].pc \in {"group", "save"} => Kind(w) = "album"
        /\ work'[w].pc \in {"each", "saveEach"} =>
             /\ work'[w].each # <<>> /\ IsInjective(work'[w].each)
             /\ ToSet(work'[w].each) \subseteq Members(w)
    BY <1>4, <1>6 DEF WorkAt
  <2>2. work'[w].pc \in Sending
    BY <1>1, <1>6
  <2> QED BY <1>1, <1>3, <1>5, <1>6, <1>7, <1>8, <1>9, <1>10, <1>11, <2>1, <2>2, StayFits
<1>13. MapInv' /\ BoundsInv'
  BY <1>3, MapStays, SomeCount DEF Limited
<1> QED BY <1>3, <1>5, <1>7, <1>12, <1>13, StepFits DEF given, album

LEMMA GroupFailsStep ==
  ASSUME IInv, NEW w \in Posts, GroupFails(w)
  PROVE  IInv'
<1>1. work[w].pc = "group" /\ work[w].pc \in Live
  BY DEF GroupFails, At, Live, Sending
<1>2. UNCHANGED <<scenario, rules, seen, again, running, mapping, traces>> /\ FallBack(w)
  BY DEF GroupFails, given
<1>3. Target(w) \in Rules /\ InFlight(w) \subseteq Posts
  BY <1>1, LiveWorker, InFlightFresh
<1>4. traces \subseteq traces' /\ traces' \subseteq Rules \X Posts \X Reasons
  BY <1>2 DEF IInv, CountInv
<1>5. Grows(w, {}) /\ BoundsInv'
  <2>1. CASE UNCHANGED <<bounds, copies, extra>>
    BY <1>2, <1>4, <2>1, GrowsTraces, NoCount
  <2>2. CASE Trouble /\ \E C \in Outcomes(w) : SentInVain(w, C)
    <3>1. PICK C \in SUBSET Posts :
            copies' = Added(copies, Target(w), C) /\ extra' = Added(extra, Target(w), C)
      BY <1>3, <2>2, OutcomesInFlight DEF SentInVain
    <3> QED BY <1>2, <1>3, <1>4, <2>2, <3>1, GrowsBoth, SomeTrouble
  <2> QED BY <2>1, <2>2 DEF GroupFails
<1>6. \A p \in Members(w) : FreshNext(Target(w), p)
  BY <1>1, <1>5, OtherTargets DEF Remaining
<1>7. Fits(w) /\ Beside(w) /\ UNCHANGED cache
  BY <1>1, <1>2, <1>5, <1>6, FallBackFits
<1>8. MapInv'
  BY <1>2, <1>4, MapStays
<1> QED BY <1>2, <1>5, <1>7, <1>8, StepFits DEF given

LEMMA NothingDownloadedStep ==
  ASSUME IInv, NEW w \in Posts, NothingDownloaded(w)
  PROVE  IInv'
<1>1. work[w].pc \in Live /\ work[w].pc \in Sending
  BY DEF NothingDownloaded, Uploading, At, Live, Sending
<1>2. /\ UNCHANGED <<scenario, rules, seen, again, running, copies, mapping, extra>> /\ Trouble /\ NextTarget(w)
      /\ traces' = Noted({Target(w)}, Members(w), "empty")
  BY DEF NothingDownloaded, given, stored
<1>3. /\ traces \subseteq traces' /\ traces' \subseteq Rules \X Posts \X Reasons
      /\ \A p \in Members(w) : SettledNext(Target(w), p)
  BY <1>1, <1>2, NoteHere DEF Reasons
<1>4. Grows(w, {})
  BY <1>2, <1>3, GrowsTraces
<1>5. Fits(w) /\ Beside(w) /\ UNCHANGED cache
  BY <1>1, <1>2, <1>3, <1>4, NextTargetFits
<1>6. MapInv' /\ BoundsInv'
  BY <1>2, <1>3, MapStays, SomeTrouble
<1> QED BY <1>2, <1>4, <1>5, <1>6, StepFits DEF given

LEMMA GroupSavedStep ==
  ASSUME IInv, NEW w \in Posts, GroupSaved(w)
  PROVE  IInv'
<1>1. work[w].pc = "save" /\ work[w].pc \in Live /\ work[w].pc \in Sending
  BY DEF GroupSaved, At, Live, Sending
<1>2. UNCHANGED <<scenario, rules, seen, again, running, copies, mapping, traces, extra, bounds>> /\ NextTarget(w)
  BY DEF GroupSaved, given, stored, history
<1>3. Grows(w, {})
  BY <1>2, GrowsTraces DEF IInv, CountInv
<1>4. \A p \in Members(w) : SettledNext(Target(w), p)
  BY <1>1, <1>3, OtherTargets DEF Remaining
<1>5. Fits(w) /\ Beside(w) /\ UNCHANGED cache
  BY <1>1, <1>2, <1>3, <1>4, NextTargetFits
<1>6. MapInv' /\ BoundsInv'
  BY <1>2, MapStays, NoCount
<1> QED BY <1>2, <1>3, <1>5, <1>6, StepFits DEF given

LEMMA SaveFailsStep ==
  ASSUME IInv, NEW w \in Posts, SaveFails(w)
  PROVE  IInv'
<1>1. work[w].pc = "save" /\ work[w].pc \in Live
  BY DEF SaveFails, At, Live, Sending
<1>2. /\ UNCHANGED <<scenario, rules, seen, again, running, copies, mapping, traces>> /\ Trouble /\ FallBack(w)
      /\ extra' = Added(extra, Target(w), Members(w))
  BY DEF SaveFails, given, stored
<1>3. Grows(w, {}) /\ \A p \in Members(w) : FreshNext(Target(w), p)
  <2>1. Target(w) \in Rules /\ Members(w) \subseteq Posts
    BY <1>1, LiveWorker
  <2>2. /\ extra' \in [Rules -> [Posts -> Nat]]
        /\ \A r \in Rules, p \in Posts :
             extra'[r][p] = IF r = Target(w) /\ p \in Members(w) THEN extra[r][p] + 1 ELSE extra[r][p]
    BY <1>2, <2>1, AddedType DEF IInv, CountInv
  <2>3. \A p \in Members(w) : copies[Target(w)][p] <= 1 + extra[Target(w)][p]
                             /\ extra[Target(w)][p] \in Nat
    BY <2>1, CountsType
  <2>4. \A p \in Members(w) : FreshNext(Target(w), p)
    BY <1>2, <2>1, <2>2, <2>3 DEF FreshNext
  <2> QED BY <1>2, <2>1, <2>4, GrowsExtra
<1>4. Fits(w) /\ Beside(w) /\ UNCHANGED cache
  BY <1>1, <1>2, <1>3, FallBackFits
<1>5. MapInv' /\ BoundsInv'
  BY <1>2, MapStays, SomeTrouble
<1> QED BY <1>2, <1>3, <1>4, <1>5, StepFits DEF given

\* A mapping that is written first is the post's own unless one was left out.
LEMMA MappedFits ==
  ASSUME IInv, NEW t \in Rules, NEW p \in Posts, NEW c \in Posts, c # p => LeftOut(t),
         mapping' = Mapped(t, p, c), traces \subseteq traces'
  PROVE  MapInv'
<1>1. mapping \in [Rules -> [Posts -> Posts \union {None}]] /\ MappingExplained
  BY DEF IInv, MapInv
<1>2. /\ mapping' \in [Rules -> [Posts -> Posts \union {None}]]
      /\ \A r \in Rules, q \in Posts :
           mapping'[r][q] = mapping[r][q] \/ (r = t /\ q = p /\ mapping'[r][q] = c)
  BY <1>1 DEF Mapped
<1>3. ASSUME NEW r \in Rules, NEW q \in Posts, mapping'[r][q] \notin {None, q}
      PROVE  \E o \in Posts : <<r, o, "left out">> \in traces'
  <2>1. CASE mapping'[r][q] = mapping[r][q]
    BY <1>1, <1>3, <2>1 DEF MappingExplained
  <2>2. CASE r = t /\ q = p /\ mapping'[r][q] = c
    BY <1>3, <2>2 DEF LeftOut
  <2> QED BY <1>2, <2>1, <2>2
<1> QED BY <1>2, <1>3 DEF MapInv, MappingExplained

LEMMA SaveMemberStep ==
  ASSUME IInv, NEW w \in Posts, SaveMember(w)
  PROVE  IInv'
<1> DEFINE answer == work[w].answer
<1>1. work[w].pc = "save" /\ work[w].pc \in Live /\ work[w].pc \in Sending /\ answer # <<>>
  BY DEF SaveMember, At, Live, Sending
<1>2. /\ UNCHANGED <<scenario, rules, seen, again, running, album, gate, copies, traces, extra, bounds>>
      /\ mapping' = Mapped(Target(w), Message(Head(answer)[1]), Message(Head(answer)[2]))
      /\ work' = [work EXCEPT ![w].answer = Tail(answer)]
  BY DEF SaveMember, given, history
<1>3. /\ DOMAIN work = Posts /\ work[w] \in Task /\ WorkAt(w) /\ AnswerAt(w) /\ Target(w) \in Rules
      /\ Mine(w) = Members(w)
  BY <1>1, LiveWorker DEF WorkerInv
<1>4. answer \in Seq(Posts \X Posts) /\ \A i \in DOMAIN answer : answer[i][1] # answer[i][2] => LeftOut(Target(w))
  BY <1>1, <1>3 DEF Task, AnswerAt
<1> HIDE DEF answer
<1>5. /\ Tail(answer) \in Seq(Posts \X Posts) /\ Len(Tail(answer)) = Len(answer) - 1 /\ Len(answer) \in Nat
      /\ \A i \in 1..Len(Tail(answer)) : Tail(answer)[i] = answer[i + 1]
      /\ Head(answer) = answer[1] /\ Head(answer) \in Posts \X Posts /\ 1 \in DOMAIN answer
  BY <1>1, <1>4, HeadTailProperties
<1>6. /\ work'[w].pc = "save" /\ work'[w].answer = Tail(answer) /\ work'[w].plan = work[w].plan
      /\ work'[w].at = work[w].at /\ work'[w].group = work[w].group /\ work'[w] \in Task
  BY <1>1, <1>2, <1>3, <1>5 DEF Task
<1>7. Beside(w)
  BY <1>2, <1>3 DEF Beside
<1>8. Remaining(w)' = {} /\ Remaining(w) = {} /\ Target(w)' = Target(w) /\ Holding(w)' = Holding(w)
  BY <1>1, <1>6 DEF Remaining, Target, Holding
<1>9. Grows(w, {})
  BY <1>2, GrowsTraces DEF IInv, CountInv
<1>10. \A p \in Members(w) : SettledNext(Target(w), p)
  BY <1>1, <1>8, <1>9, OtherTargets
<1>11. AnswerAt(w)'
  <2>1. \A i \in DOMAIN Tail(answer) : i + 1 \in DOMAIN answer /\ Tail(answer)[i] = answer[i + 1]
    BY <1>4, <1>5
  <2>2. LeftOut(Target(w)) => LeftOut(Target(w))'
    BY <1>2, <1>8 DEF LeftOut
  <2>3. \A i \in DOMAIN Tail(answer) : Tail(answer)[i][1] # Tail(answer)[i][2] => LeftOut(Target(w))'
    BY <1>4, <2>1, <2>2
  <2> QED BY <1>6, <2>3 DEF AnswerAt
<1>12. GateInv'
  BY <1>2, <1>7, <1>8, GateStays
<1>13. Fits(w)
  <2>1. Kind(w) = "album"
    BY <1>1, <1>3 DEF WorkAt
  <2>2. work'[w].pc \in Sending /\ work'[w].pc \notin {"each", "saveEach"}
    BY <1>6 DEF Sending
  <2> QED BY <1>1, <1>2, <1>6, <1>7, <1>8, <1>9, <1>10, <1>11, <1>12, <2>1, <2>2, StayFits
<1>14. MapInv'
  <2>1. Head(answer)[2] # Head(answer)[1] => LeftOut(Target(w))
    BY <1>4, <1>5
  <2>2. Message(Head(answer)[2]) # Message(Head(answer)[1]) => LeftOut(Target(w))
    BY <2>1
  <2>3. Message(Head(answer)[1]) \in Posts /\ Message(Head(answer)[2]) \in Posts
    BY <1>5, MessageType
  <2> QED BY <1>2, <1>3, <2>2, <2>3, MappedFits
<1>15. BoundsInv'
  BY <1>2, NoCount
<1> QED BY <1>2, <1>7, <1>9, <1>13, <1>14, <1>15, StepFits DEF given, album

LEMMA ItemAnsweredStep ==
  ASSUME IInv, NEW w \in Posts, ItemAnswered(w)
  PROVE  IInv'
<1> DEFINE each == work[w].each
           C == {Head(each)}
<1>1. work[w].pc = "each" /\ work[w].pc \in Live /\ work[w].pc \in Sending
  BY DEF ItemAnswered, At, Live, Sending
<1>2. /\ UNCHANGED <<scenario, rules, seen, again, running, album, gate, mapping, traces, extra, bounds>>
      /\ copies' = Added(copies, Target(w), C) /\ work' = [work EXCEPT ![w].pc = "saveEach"]
  BY <1>1 DEF ItemAnswered, given, history, InFlight
<1>3. /\ DOMAIN work = Posts /\ work[w] \in Task /\ WorkAt(w) /\ Target(w) \in Rules
      /\ Members(w) \subseteq Posts /\ Mine(w) = Members(w)
  BY <1>1, LiveWorker DEF WorkerInv
<1>4. each \in Seq(Posts) /\ each # <<>> /\ IsInjective(each) /\ ToSet(each) \subseteq Members(w)
  BY <1>1, <1>3 DEF WorkAt, Task
<1>5. C \subseteq Members(w) /\ \A p \in C : Fresh(Target(w), p)
  BY <1>1, InFlightFresh DEF InFlight
<1>6. Grows(w, C) /\ \A p \in C : copies'[Target(w)][p] > 0
  <2>1. traces \subseteq traces' /\ traces' \subseteq Rules \X Posts \X Reasons
    BY <1>2 DEF IInv, CountInv
  <2>2. C \in SUBSET Posts
    BY <1>3, <1>5
  <2> HIDE DEF C
  <2> QED BY <1>2, <1>3, <1>5, <2>1, <2>2, GrowsCopies
<1>7. ToSet(Tail(each)) = ToSet(each) \ C
  BY <1>4, HeadAndTail
<1>8. /\ work'[w].pc = "saveEach" /\ work'[w].each = each /\ work'[w].plan = work[w].plan
      /\ work'[w].at = work[w].at /\ work'[w].group = work[w].group /\ work'[w] \in Task
  BY <1>2, <1>3 DEF Task, Labels, Sending
<1>9. Beside(w)
  BY <1>2, <1>3 DEF Beside
<1>10. Remaining(w)' = ToSet(Tail(each)) /\ Remaining(w) = ToSet(each) /\ Target(w)' = Target(w)
       /\ Holding(w)' = Holding(w)
  BY <1>1, <1>8 DEF Remaining, Target, Holding, Sending
<1> HIDE DEF each, C
<1>11. /\ \A p \in Members(w) \ Remaining(w) : SettledNext(Target(w), p)
       /\ \A p \in Remaining(w) \ C : FreshNext(Target(w), p)
  BY <1>1, <1>6, OtherTargets
<1>12. /\ \A p \in Members(w) \ Remaining(w)' : SettledNext(Target(w), p)
       /\ \A p \in Remaining(w)' : FreshNext(Target(w), p)
  BY <1>6, <1>7, <1>10, <1>11 DEF SettledNext
<1>13. AnswerAt(w)'
  BY <1>8 DEF AnswerAt
<1>14. GateInv'
  BY <1>2, <1>9, <1>10, GateStays
<1>15. Fits(w)
  <2>1. work'[w].pc \in Sending /\ work'[w].pc \notin {"group", "save"}
    BY <1>8 DEF Sending
  <2> QED BY <1>1, <1>2, <1>4, <1>6, <1>8, <1>9, <1>12, <1>13, <1>14, <2>1, StayFits
<1>16. MapInv' /\ BoundsInv'
  BY <1>2, MapStays, NoCount
<1>17. C \in SUBSET Mine(w)
  BY <1>3, <1>5
<1> QED BY <1>2, <1>6, <1>9, <1>15, <1>16, <1>17, StepFits DEF given, album

LEMMA SaveItemStep ==
  ASSUME IInv, NEW w \in Posts, SaveItem(w)
  PROVE  IInv'
<1>1. work[w].pc = "saveEach" /\ work[w].pc \in Live
  BY DEF SaveItem, At, Live, Sending
<1>2. /\ UNCHANGED <<scenario, rules, seen, again, running, copies, traces, extra, bounds>> /\ NextItem(w)
      /\ mapping' = Mapped(Target(w), Message(Head(work[w].each)), Message(Head(work[w].each)))
  BY DEF SaveItem, given, history
<1>3. WorkAt(w) /\ Target(w) \in Rules
  BY <1>1, LiveWorker DEF WorkerInv
<1>4. /\ work[w].each \in Seq(Posts) /\ work[w].each # <<>> /\ IsInjective(work[w].each)
      /\ ToSet(work[w].each) \subseteq Members(w)
  BY <1>1, <1>3 DEF WorkAt, Task
<1>5. /\ Head(work[w].each) \in Posts /\ Head(work[w].each) \in ToSet(work[w].each)
      /\ ToSet(Tail(work[w].each)) = ToSet(work[w].each) \ {Head(work[w].each)}
  BY <1>4, HeadAndTail
<1>6. Grows(w, {})
  BY <1>2, GrowsTraces DEF IInv, CountInv
<1>7. SettledNext(Target(w), Head(work[w].each))
  <2>1. Head(work[w].each) \in Members(w) \ Remaining(w)
    BY <1>1, <1>4, <1>5 DEF Remaining
  <2> QED BY <1>1, <1>6, <2>1, OtherTargets
<1>8. Fits(w) /\ Beside(w) /\ UNCHANGED cache
  BY <1>1, <1>2, <1>6, <1>7, NextItemFits
<1>9. MapInv' /\ BoundsInv'
  BY <1>2, <1>3, <1>5, MessageType, MappedFits, NoCount
<1> QED BY <1>2, <1>6, <1>8, <1>9, StepFits DEF given

LEMMA ItemFailsStep ==
  ASSUME IInv, NEW w \in Posts, ItemFails(w)
  PROVE  IInv'
<1>1. work[w].pc \in {"each", "saveEach"} /\ work[w].pc \in Live
  BY DEF ItemFails, At, Live, Sending
<1>2. /\ UNCHANGED <<scenario, rules, seen, again, running, mapping, extra>> /\ NextItem(w)
      /\ traces' = Noted({Target(w)}, {Head(work[w].each)}, "error")
      /\ Trouble \/ UNCHANGED bounds
  BY DEF ItemFails, given
<1>3. WorkAt(w) /\ Target(w) \in Rules /\ Mine(w) = Members(w) /\ Members(w) \subseteq Posts
  BY <1>1, LiveWorker DEF WorkerInv
<1>4. /\ work[w].each \in Seq(Posts) /\ work[w].each # <<>> /\ IsInjective(work[w].each)
      /\ ToSet(work[w].each) \subseteq Members(w)
  BY <1>1, <1>3 DEF WorkAt, Task
<1>5. {Head(work[w].each)} \in SUBSET Members(w)
  BY <1>4, HeadAndTail
<1>6. /\ traces \subseteq traces' /\ traces' \subseteq Rules \X Posts \X Reasons
      /\ \A p \in {Head(work[w].each)} : SettledNext(Target(w), p)
  BY <1>1, <1>2, <1>5, NoteHere DEF Reasons
<1>7. PICK C \in SUBSET {Head(work[w].each)} : Grows(w, C)
  <2>1. CASE UNCHANGED copies
    <3>1. Grows(w, {})
      BY <1>2, <1>6, <2>1, GrowsTraces
    <3> QED BY <3>1
  <2>2. CASE work[w].pc = "each" /\ \E C \in Outcomes(w) : copies' = Added(copies, Target(w), C)
    <3>1. PICK C \in SUBSET InFlight(w) : copies' = Added(copies, Target(w), C)
      BY <2>2, OutcomesInFlight
    <3>2. C \in SUBSET {Head(work[w].each)}
      BY <2>2, <3>1 DEF InFlight
    <3>3. C \in SUBSET Posts /\ \A p \in C : Fresh(Target(w), p)
      BY <1>1, <1>3, <3>1, InFlightFresh
    <3>4. Grows(w, C)
      BY <1>2, <1>3, <1>6, <3>1, <3>3, GrowsCopies
    <3> QED BY <3>2, <3>4
  <2> QED BY <2>1, <2>2 DEF ItemFails, At
<1>8. Fits(w) /\ Beside(w) /\ UNCHANGED cache
  BY <1>1, <1>2, <1>6, <1>7, NextItemFits
<1>9. MapInv' /\ BoundsInv'
  BY <1>2, <1>6, MapStays, NoCount, SomeTrouble
<1>10. C \in SUBSET Mine(w)
  BY <1>3, <1>5, <1>7
<1> QED BY <1>2, <1>7, <1>8, <1>9, <1>10, StepFits DEF given
-----------------------------------------------------------------------------
(* Arrival, and the cache.                                                  *)

\* Nothing but the album and who holds which post has changed.
LEMMA StoredStays ==
  ASSUME IInv, UNCHANGED <<scenario, rules, copies, mapping, traces, extra, bounds>>,
         seen' \subseteq Posts, again' \subseteq Posts, running' \in BOOLEAN,
         Waiting' \subseteq Waiting
  PROVE  GivenInv' /\ CountInv' /\ MapInv' /\ BoundsInv'
<1>1. CountInv'
  BY DEF IInv, CountInv, CopiesExplained, Fresh
<1> QED BY <1>1, MapStays, NoCount DEF IInv, GivenInv

LEMMA OthersStay ==
  ASSUME IInv, NEW w \in Posts, Beside(w), UNCHANGED <<scenario, copies, traces, extra>>,
         NEW v \in Posts, v # w
  PROVE  WorkerInv(v)' /\ Mine(v)' = Mine(v)
<1>1. work'[v] = work[v] /\ scenario' = scenario
  BY DEF Beside
<1>2. Mine(v)' = Mine(v) /\ Members(v)' = Members(v) /\ Remaining(v)' = Remaining(v) /\ Target(v)' = Target(v)
      /\ Kind(v)' = Kind(v)
  BY <1>1 DEF Mine, Members, Remaining, Target, Kind
<1>3. WorkerInv(v)
  BY DEF IInv
<1>4. WorkAt(v)'
  BY <1>1, <1>2, <1>3 DEF WorkerInv, WorkAt
<1>5. FreshAt(v)'
  BY <1>1, <1>2, <1>3 DEF WorkerInv, FreshAt, Fresh
<1>6. SettledAt(v)'
  BY <1>1, <1>2, <1>3 DEF WorkerInv, SettledAt, Settled
<1>7. AnswerAt(v)'
  BY <1>1, <1>2, <1>3 DEF WorkerInv, AnswerAt, LeftOut
<1> QED BY <1>2, <1>4, <1>5, <1>6, <1>7 DEF WorkerInv

LEMMA IdleType ==
  Idle \in Task
<1>1. <<>> \in Seq(Rules) /\ <<>> \in Seq(Posts) /\ <<>> \in Seq(Posts \X Posts)
  OBVIOUS
<1>2. 0 \in 0..NetRetries /\ "none" \in Labels
  BY RealtimeAssumption DEF RealtimeAssumption, Labels
<1> QED BY <1>1, <1>2 DEF Idle, Task

LEMMA ReceiveStep ==
  ASSUME IInv, NEW w \in Posts, Receive(w)
  PROVE  IInv'
<1> DEFINE label == IF rules = {} \/ Fate(w) = "off" THEN "done" ELSE "reading"
           task  == [Idle EXCEPT !.pc = label, !.plan = Planned]
<1>1. /\ work[w].pc = "none" /\ w \notin seen /\ seen' = seen \union {w}
      /\ UNCHANGED <<scenario, rules, again, running, album, gate, copies, mapping, traces, extra, bounds>>
      /\ work' = [work EXCEPT ![w] = task]
  BY DEF Receive, stored, history
<1>2. rules \subseteq Rules /\ DOMAIN work = Posts
  BY DEF IInv, GivenInv
<1>3. Planned \in Seq(Rules) /\ IsInjective(Planned) /\ (rules # {} => 1 \in DOMAIN Planned)
  BY <1>2, PlannedWorks
<1>4. /\ work'[w] = task /\ task.pc = label /\ task.plan = Planned /\ task.at = 1 /\ task.group = <<>>
      /\ task \in Task
  <2>1. /\ Idle.pc = "none" /\ Idle.plan = <<>> /\ Idle.at = 1 /\ Idle.group = <<>> /\ Idle.each = <<>>
        /\ Idle.answer = <<>> /\ Idle.tries = 0 /\ Idle.account = FALSE
    BY DEF Idle
  <2>2. Idle \in Task
    BY IdleType
  <2>3. label \in Labels
    BY DEF Labels
  <2> HIDE DEF label
  <2>4. task.pc = label /\ task.plan = Planned /\ task.at = 1 /\ task.group = <<>> /\ task \in Task
    BY <1>3, <2>1, <2>2, <2>3 DEF Task
  <2> HIDE DEF task
  <2> QED BY <1>1, <1>2, <2>4
<1>5. label \in {"done", "reading"} /\ (label = "reading" => rules # {})
  OBVIOUS
<1> HIDE DEF label, task
<1>6. Beside(w)
  BY <1>1, <1>2 DEF Beside
<1>7. Members(w)' = {} /\ Mine(w) = {} /\ Mine(w)' \subseteq {w}
  BY <1>1, <1>4, <1>5, NoElements DEF Members, Mine, Live, Sending
<1>8. ~Holding(w) /\ ~Holding(w)'
  BY <1>1, <1>4, <1>5 DEF Holding, Sending
<1>9. WorkAt(w)' /\ SettledAt(w)' /\ AnswerAt(w)'
  BY <1>3, <1>4, <1>5, <1>7, NoElements DEF WorkAt, SettledAt, AnswerAt, Live, Sending
<1>10. FreshAt(w)'
  <2>1. \A t \in Rules : Fresh(t, w)
    BY <1>1 DEF IInv, CountInv, Waiting
  <2> QED BY <1>1, <1>4, <1>5, <2>1 DEF FreshAt, Fresh, Live, Sending
<1>11. \A v \in Posts \ {w} : WorkerInv(v)' /\ Mine(v)' = Mine(v)
  BY <1>1, <1>6, OthersStay
<1>12. Waiting' \subseteq Waiting /\ seen' \subseteq Posts /\ again' \subseteq Posts /\ running' \in BOOLEAN
  BY <1>1 DEF Waiting, album, IInv, GivenInv
<1>13. GivenInv' /\ CountInv' /\ MapInv' /\ BoundsInv'
  BY <1>1, <1>12, StoredStays
<1>14. Apart'
  <2>1. \A v \in Posts : w \notin Mine(v)
    BY <1>1 DEF IInv, Apart
  <2>2. w \notin ToSet(cache) /\ cache' = cache
    BY <1>1 DEF IInv, Apart, album
  <2> QED BY <1>1, <1>7, <1>11, <2>1, <2>2 DEF IInv, Apart
<1>15. GateInv'
  <2>1. Holding(w)' = Holding(w)
    BY <1>8 DEF Holding
  <2> QED BY <1>1, <1>6, <2>1, GateStays
<1>16. AlbumInv'
  <2>1. \A v \in Posts : At(v, "sleep")' = At(v, "sleep")
    BY <1>1, <1>4, <1>5, <1>6 DEF At, Beside, album
  <2>2. {v \in Posts : At(v, "sleep")}' = {v \in Posts : At(v, "sleep")}
    BY <2>1
  <2>3. \A v \in Posts : work[v].pc \in {"sleep"} \union Live => work'[v] = work[v]
    BY <1>1, <1>6 DEF Beside, Live, Sending
  <2> QED BY <1>1, <2>2, <2>3 DEF IInv, AlbumInv, TimerCovers, album
<1> QED BY <1>1, <1>6, <1>9, <1>10, <1>11, <1>13, <1>14, <1>15, <1>16 DEF IInv, WorkerInv, Beside

\* The post moves into the cache, and its task takes the place of the timer.
LEMMA QueueStep ==
  ASSUME IInv, NEW w \in Posts, Queue(w)
  PROVE  IInv'
<1>1. /\ work[w].pc = "reading" /\ w \notin cancelled
      /\ UNCHANGED <<scenario, rules, seen, again, running, gate, copies, mapping, traces, extra, bounds>>
      /\ cache' = Append(cache, w) /\ timer' = w /\ stranded' = FALSE
      /\ cancelled' = cancelled \union (IF timer = None THEN {} ELSE {timer})
      /\ work' = [work EXCEPT ![w].pc = "sleep"]
  BY DEF Queue, At, StopTimer, given, stored, history
<1>2. DOMAIN work = Posts /\ WorkerInv(w) /\ work[w] \in Task
  BY DEF IInv, WorkerInv, WorkAt
<1>3. /\ work'[w].pc = "sleep" /\ work'[w].plan = work[w].plan /\ work'[w].at = work[w].at
      /\ work'[w].group = work[w].group /\ work'[w] \in Task
  BY <1>1, <1>2 DEF Task, Labels
<1>4. Beside(w)
  BY <1>1, <1>2 DEF Beside
<1>5. Members(w)' = Members(w) /\ Mine(w) = {w} /\ Mine(w)' = {} /\ ~Holding(w) /\ ~Holding(w)'
  BY <1>1, <1>3 DEF Members, Mine, Live, Sending, Holding
<1>6. WorkerInv(w)'
  BY <1>1, <1>2, <1>3 DEF WorkerInv, WorkAt, FreshAt, SettledAt, AnswerAt, Live, Sending
<1>7. \A v \in Posts \ {w} : WorkerInv(v)' /\ Mine(v)' = Mine(v)
  BY <1>1, <1>4, OthersStay
<1>8. cache \in Seq(Posts) /\ cancelled \subseteq Posts /\ timer \in Posts \union {None} /\ TimerCovers
  BY DEF IInv, AlbumInv
<1>9. cache' \in Seq(Posts) /\ cache' # <<>> /\ ToSet(cache') = ToSet(cache) \union {w}
  BY <1>1, <1>8, Appended
<1>10. GivenInv'
  BY <1>1 DEF IInv, GivenInv
<1>11. CountInv' /\ MapInv' /\ BoundsInv'
  <2>1. Waiting' = Waiting \union {w}
    BY <1>1, <1>9 DEF Waiting
  <2>2. \A t \in Rules, p \in Waiting : Fresh(t, p)
    BY DEF IInv, CountInv
  <2>3. \A t \in Rules : Fresh(t, w)
    BY <1>1, <1>2 DEF WorkerInv, FreshAt
  <2>4. \A t \in Rules, p \in Waiting' : Fresh(t, p)'
    BY <1>1, <2>1, <2>2, <2>3 DEF Fresh
  <2> QED BY <1>1, <2>4, MapStays, NoCount DEF IInv, CountInv, CopiesExplained
<1>12. Apart'
  BY <1>1, <1>5, <1>7, <1>9 DEF IInv, Apart
<1>13. GateInv'
  <2>1. Holding(w)' = Holding(w)
    BY <1>5 DEF Holding
  <2> QED BY <1>1, <1>4, <2>1, GateStays
<1>14. AlbumInv'
  <2>1. w # None /\ timer' # None
    BY <1>1 DEF Posts, None
  <2>2. timer # w
    BY <1>1, <2>1 DEF IInv, AlbumInv, Live, Sending
  <2>3. At(w, "sleep")'
    BY <1>1, <1>3, <2>2 DEF At
  <2>4. \A v \in Posts \ {w} : ~At(v, "sleep")'
    <3> SUFFICES ASSUME NEW v \in Posts, v # w, At(v, "sleep")'
                 PROVE  FALSE
      OBVIOUS
    <3>1. At(v, "sleep") /\ v # timer
      BY <1>1, <1>4, <2>1 DEF At, Beside, Posts, None
    <3>2. v \in {u \in Posts : At(u, "sleep")}
      BY <3>1
    <3> QED BY <1>8, <3>1, <3>2 DEF TimerCovers
  <2>5. {v \in Posts : At(v, "sleep")}' = {w}
    BY <2>3, <2>4
  <2>6. TimerCovers'
    BY <1>1, <1>9, <2>1, <2>5 DEF TimerCovers
  <2>7. \A v \in cancelled' : v \in Posts /\ work'[v].pc \in {"sleep"} \union Live
    <3>1. \A v \in cancelled' : v \in Posts /\ work[v].pc \in {"sleep"} \union Live
      BY <1>1, <1>8 DEF IInv, AlbumInv
    <3> QED BY <1>1, <1>4, <3>1 DEF Beside, Live, Sending
  <2> QED BY <1>1, <1>3, <1>9, <2>6, <2>7 DEF AlbumInv
<1> QED BY <1>4, <1>6, <1>7, <1>10, <1>11, <1>12, <1>13, <1>14 DEF IInv, Beside

\* Only the registered task can find an album, and it takes all of it.
LEMMA FireStep ==
  ASSUME IInv, NEW w \in Posts, Fire(w)
  PROVE  IInv'
<1> DEFINE dropped == Taken = <<>> \/ \E p \in ToSet(cache) : Fate(p) = "blocked"
<1>1. /\ work[w].pc = "sleep" /\ w \notin cancelled
      /\ UNCHANGED <<scenario, rules, seen, again, running, cancelled, stranded, gate, copies, mapping, traces, extra, bounds>>
      /\ cache' = <<>>
      /\ work' = [work EXCEPT ![w].pc = IF dropped THEN "done" ELSE "gate",
                              ![w].group = IF dropped THEN work[w].group ELSE Taken]
      /\ timer' = IF dropped THEN Unregistered(w) ELSE timer
  <2>1. DOMAIN work = Posts /\ work[w] \in Task
    BY DEF IInv, WorkerInv, WorkAt
  <2>2. [work EXCEPT ![w].pc = "done"] = [work EXCEPT ![w].pc = "done", ![w].group = work[w].group]
    BY <2>1 DEF Task
  <2> QED BY <2>1, <2>2 DEF Fire, At, EmptiedCache, given, stored, history
<1>2. DOMAIN work = Posts /\ WorkerInv(w) /\ work[w] \in Task
  BY DEF IInv, WorkerInv, WorkAt
<1>3. cache \in Seq(Posts) /\ TimerCovers /\ timer \in Posts \union {None}
  BY DEF IInv, AlbumInv
<1>4. w = timer /\ cache # <<>> /\ timer # None /\ \A v \in Posts : At(v, "sleep") => v = w
  BY <1>1, <1>3 DEF TimerCovers, At
<1>5. /\ Taken \in Seq(Posts) /\ ToSet(Taken) = ToSet(cache) /\ IsInjective(Taken)
      /\ ToSet(cache) \subseteq Posts
  <2>1. ToSet(cache) \in SUBSET (1..LastPost) /\ LastPost \in Nat
    BY <1>3, RealtimeAssumption DEF RealtimeAssumption, ToSet, Posts
  <2>2. /\ Ascending(ToSet(cache)) \in Seq(ToSet(cache)) /\ ToSet(Ascending(ToSet(cache))) = ToSet(cache)
        /\ IsInjective(Ascending(ToSet(cache)))
    BY <2>1, Ascends
  <2>3. Taken \in Seq(ToSet(cache)) /\ ToSet(cache) \subseteq Posts
    BY <2>1, <2>2 DEF Taken, Posts
  <2>4. Taken \in Seq(Posts)
    BY <2>3, SeqMonotonic
  <2> QED BY <2>2, <2>3, <2>4 DEF Taken
<1> HIDE DEF dropped
<1>6. /\ work'[w].pc = (IF dropped THEN "done" ELSE "gate") /\ work'[w].plan = work[w].plan
      /\ work'[w].at = work[w].at /\ work'[w].group = (IF dropped THEN work[w].group ELSE Taken)
      /\ work'[w] \in Task
  <2>1. {"done", "gate"} \subseteq Labels
    BY DEF Labels
  <2> QED BY <1>1, <1>2, <1>5, <2>1 DEF Task
<1>7. Beside(w)
  BY <1>1, <1>2 DEF Beside
<1>8. Mine(w) = {} /\ Mine(w)' \subseteq ToSet(cache) /\ ~Holding(w) /\ ~Holding(w)'
  BY <1>1, <1>5, <1>6 DEF Members, Mine, Live, Sending, Holding
<1>9. WorkerInv(w)'
  <2>1. work[w].at = 1 /\ work[w].group = <<>> /\ work[w].at \in DOMAIN work[w].plan
        /\ IsInjective(work[w].plan) /\ DOMAIN work[w].plan \subseteq Nat \ {0}
    <3>1. work[w].plan \in Seq(Rules)
      BY <1>2 DEF Task
    <3>2. DOMAIN work[w].plan \subseteq Nat \ {0}
      BY <3>1
    <3> QED BY <1>1, <1>2, <3>2 DEF WorkerInv, WorkAt
  <2>2. CASE dropped
    <3>1. Members(w)' = {}
      BY <1>6, <2>1, <2>2, NoElements DEF Members
    <3> QED BY <1>6, <2>1, <2>2, <3>1, NoElements
            DEF WorkerInv, WorkAt, FreshAt, SettledAt, AnswerAt, Live, Sending
  <2>3. CASE ~dropped
    <3>1. work'[w].pc = "gate" /\ work'[w].group = Taken /\ Members(w)' = ToSet(cache)
          /\ Taken = Ascending(ToSet(cache)) /\ Taken # <<>>
      BY <1>5, <1>6, <2>3 DEF Members, Taken, dropped
    <3>2. WorkAt(w)'
      BY <1>5, <1>6, <2>1, <3>1 DEF WorkAt, Live, Sending
    <3>3. \A t \in Rules, p \in ToSet(cache) : Fresh(t, p)
      BY DEF IInv, CountInv, Waiting
    <3>4. Target(w) \in Rules /\ (\A i \in DOMAIN work[w].plan : work[w].plan[i] \in Rules)
          /\ Target(w)' = Target(w)
      BY <1>1, <1>6, TargetType DEF Target
    <3>5. FreshAt(w)'
      BY <1>1, <1>6, <3>1, <3>3, <3>4 DEF FreshAt, Fresh, Remaining, Live, Sending
    <3>6. SettledAt(w)'
      <4>1. Remaining(w)' = Members(w)' /\ \A i \in DOMAIN work[w].plan : ~(i < 1)
        BY <2>1, <3>1 DEF Remaining, Members
      <4> QED BY <1>6, <2>1, <3>1, <4>1 DEF SettledAt
    <3> QED BY <3>1, <3>2, <3>5, <3>6 DEF WorkerInv, AnswerAt
  <2> QED BY <2>2, <2>3
<1>10. \A v \in Posts \ {w} : WorkerInv(v)' /\ Mine(v)' = Mine(v)
  BY <1>1, <1>7, OthersStay
<1>11. GivenInv' /\ CountInv' /\ MapInv' /\ BoundsInv'
  <2>1. Waiting' \subseteq Waiting
    BY <1>1, NoElements DEF Waiting
  <2> QED BY <1>1, <2>1, StoredStays DEF IInv, GivenInv
<1>12. Apart'
  <2>1. ToSet(cache') = {}
    BY <1>1, NoElements
  <2> QED BY <1>1, <1>8, <1>10, <2>1 DEF IInv, Apart
<1>13. GateInv'
  <2>1. Holding(w)' = Holding(w)
    BY <1>8 DEF Holding
  <2> QED BY <1>1, <1>7, <2>1, GateStays
<1>14. AlbumInv'
  <2>1. \A v \in Posts : ~At(v, "sleep")'
    <3>1. ~At(w, "sleep")'
      BY <1>6 DEF At
    <3>2. \A v \in Posts \ {w} : At(v, "sleep")' = At(v, "sleep")
      BY <1>1, <1>7 DEF At, Beside
    <3> QED BY <1>4, <3>1, <3>2
  <2>2. TimerCovers'
    BY <1>1, <2>1 DEF TimerCovers
  <2>3. timer' \in Posts \union {None} /\ (timer' # None => work'[timer'].pc \in {"sleep"} \union Live)
    BY <1>1, <1>3, <1>4, <1>6 DEF Unregistered, Live, None
  <2>4. \A v \in cancelled' : work'[v].pc \in {"sleep"} \union Live
    BY <1>1, <1>7 DEF IInv, AlbumInv, Beside
  <2>5. cache' \in Seq(Posts) /\ cancelled' \subseteq Posts /\ stranded' \in BOOLEAN
    BY <1>1 DEF IInv, AlbumInv
  <2> QED BY <2>2, <2>3, <2>4, <2>5 DEF AlbumInv
<1> QED BY <1>7, <1>9, <1>10, <1>11, <1>12, <1>13, <1>14 DEF IInv, Beside
-----------------------------------------------------------------------------
(* The surroundings.                                                        *)

LEMMA RepeatsSent ==
  ASSUME IInv, SentAgain
  PROVE  again' \subseteq Posts
<1>1. Repeats \subseteq Posts
  BY DEF Repeats
<1> QED BY <1>1 DEF SentAgain, IInv, GivenInv

\* Rules, the switch and a stop that waits for the workers to end concern none.
LEMMA AroundStep ==
  ASSUME IInv, \/ \E t \in Rules : ChangeRule(t)
               \/ BeginSwitch \/ EndSwitch \/ Shutdown \/ StartAgain
  PROVE  IInv'
<1>1. UNCHANGED <<scenario, seen, cache, timer, cancelled, work, operations, stored, history>>
  BY DEF ChangeRule, BeginSwitch, EndSwitch, Shutdown, StartAgain, given, gate, album
<1>2. BoundsInv'
  BY SomeCount, NoCount DEF ChangeRule, BeginSwitch, EndSwitch, Shutdown, StartAgain, Limited, given
<1>3. rules' \subseteq Rules /\ again' \subseteq Posts /\ running' \in BOOLEAN
  BY RepeatsSent DEF IInv, GivenInv, ChangeRule, BeginSwitch, EndSwitch, Shutdown, StartAgain, given
<1>4. GateInv'
  <2>1. Holders' = Holders
    BY <1>1 DEF Holders, Holding, Target
  <2>2. operations = Cardinality(Holders) /\ operations \in Nat /\ switching \in BOOLEAN
        /\ (switching => operations = 0)
    BY DEF IInv, GateInv, GateHeld, Holders
  <2>3. switching' \in BOOLEAN /\ (switching' => operations = 0)
    <3>1. CASE \E t \in Rules : ChangeRule(t)
      BY <2>2, <3>1 DEF ChangeRule, gate
    <3>2. CASE BeginSwitch
      BY <2>2, <3>2 DEF BeginSwitch
    <3>3. CASE EndSwitch
      BY <2>2, <3>3 DEF EndSwitch
    <3>4. CASE Shutdown \/ StartAgain
      BY <2>2, <3>4 DEF Shutdown, StartAgain, gate
    <3> QED BY <3>1, <3>2, <3>3, <3>4
  <2> QED BY <1>1, <2>1, <2>2, <2>3 DEF GateInv, GateHeld, Holders
<1>5. \A v \in Posts : WorkerInv(v)' /\ Mine(v)' = Mine(v)
  <2> SUFFICES ASSUME NEW v \in Posts
               PROVE  WorkerInv(v)' /\ Mine(v)' = Mine(v)
    OBVIOUS
  <2>1. WorkerInv(v)
    BY DEF IInv
  <2>2. /\ Mine(v)' = Mine(v) /\ Members(v)' = Members(v) /\ Remaining(v)' = Remaining(v)
        /\ Target(v)' = Target(v) /\ Kind(v)' = Kind(v)
    BY <1>1 DEF Mine, Members, Remaining, Target, Kind
  <2>3. WorkAt(v)'
    BY <1>1, <2>1, <2>2 DEF WorkerInv, WorkAt
  <2>4. FreshAt(v)'
    BY <1>1, <2>1, <2>2 DEF WorkerInv, FreshAt, Fresh, stored, history
  <2>5. SettledAt(v)'
    BY <1>1, <2>1, <2>2 DEF WorkerInv, SettledAt, Settled, stored, history
  <2>6. AnswerAt(v)'
    BY <1>1, <2>1, <2>2 DEF WorkerInv, AnswerAt, LeftOut, history
  <2> QED BY <2>2, <2>3, <2>4, <2>5, <2>6 DEF WorkerInv
<1>6. AlbumInv'
  <2>1. {v \in Posts : At(v, "sleep")}' = {v \in Posts : At(v, "sleep")}
    BY <1>1 DEF At
  <2>2. stranded' \in BOOLEAN
    BY DEF IInv, AlbumInv, ChangeRule, BeginSwitch, EndSwitch, Shutdown, StartAgain, given, album
  <2>3. cache # <<>> /\ running' => timer # None \/ stranded'
    BY DEF IInv, AlbumInv, TimerCovers, ChangeRule, BeginSwitch, EndSwitch, Shutdown, StartAgain, given, album
  <2> QED BY <1>1, <2>1, <2>2, <2>3 DEF IInv, AlbumInv, TimerCovers
<1>7. Apart'
  BY <1>1, <1>5 DEF IInv, Apart
<1>8. CountInv' /\ MapInv'
  BY <1>1 DEF IInv, CountInv, MapInv, CopiesExplained, MappingExplained, Fresh, Waiting, stored, history
<1> QED BY <1>1, <1>2, <1>3, <1>4, <1>5, <1>6, <1>7, <1>8 DEF IInv, GivenInv

\* After a restart nothing is under way.
LEMMA IdleWorkers ==
  ASSUME \A v \in Posts : work[v] = Idle
  PROVE  /\ \A v \in Posts : WorkerInv(v) /\ Mine(v) = {} /\ ~Holding(v) /\ ~At(v, "sleep")
         /\ IsFiniteSet(Holders) /\ Cardinality(Holders) = 0
<1>1. Idle.pc = "none" /\ Idle.plan = <<>> /\ Idle.at = 1 /\ Idle.group = <<>>
  BY DEF Idle
<1>2. \A v \in Posts : WorkerInv(v) /\ Mine(v) = {} /\ ~Holding(v) /\ ~At(v, "sleep")
  BY <1>1, IdleType, NoElements
     DEF WorkerInv, WorkAt, FreshAt, SettledAt, AnswerAt, Mine, Holding, At, Live, Sending
<1>3. Holders = {}
  BY <1>2 DEF Holders
<1> QED BY <1>2, <1>3, FS_EmptySet

LEMMA RestartStep ==
  ASSUME IInv, Restart
  PROVE  IInv'
<1>1. /\ cache' = <<>> /\ timer' = None /\ cancelled' = {} /\ stranded' = FALSE /\ running' = TRUE
      /\ work' = [p \in Posts |-> Idle] /\ operations' = 0 /\ switching' = FALSE
      /\ UNCHANGED <<scenario, rules, seen, copies, mapping, traces, extra>> /\ Count("restarts")
  BY DEF Restart, stored, history
<1>2. /\ \A v \in Posts : WorkerInv(v)' /\ Mine(v)' = {} /\ ~At(v, "sleep")'
      /\ Cardinality(Holders') = 0
  <2>1. \A v \in Posts : work'[v] = Idle
    BY <1>1
  <2>2. Idle.pc = "none" /\ Idle.plan = <<>> /\ Idle.at = 1 /\ Idle.group = <<>>
    BY DEF Idle
  <2>3. \A v \in Posts : WorkerInv(v)' /\ Mine(v)' = {} /\ ~Holding(v)' /\ ~At(v, "sleep")'
    BY <2>1, <2>2, IdleType, NoElements
       DEF WorkerInv, WorkAt, FreshAt, SettledAt, AnswerAt, Mine, Holding, At, Live, Sending
  <2>4. Holders' = {}
    BY <2>3 DEF Holders
  <2> QED BY <2>3, <2>4, FS_EmptySet
<1>3. GivenInv'
  BY <1>1, RepeatsSent DEF IInv, GivenInv, Restart
<1>4. AlbumInv'
  <2>1. TimerCovers'
    BY <1>1, <1>2 DEF TimerCovers
  <2>2. stranded' \in BOOLEAN
    BY <1>1
  <2>3. cache' \in Seq(Posts) /\ timer' = None /\ cancelled' = {}
    BY <1>1
  <2> QED BY <2>1, <2>2, <2>3 DEF AlbumInv
<1>5. GateInv'
  BY <1>1, <1>2 DEF GateInv, GateHeld, Holders
<1>6. CountInv'
  <2>1. Waiting' \subseteq Waiting
    BY <1>1, NoElements DEF Waiting
  <2> QED BY <1>1, <2>1 DEF IInv, CountInv, CopiesExplained, Fresh
<1>7. MapInv' /\ BoundsInv'
  BY <1>1, MapStays, SomeCount DEF Limited
<1>8. Apart'
  BY <1>1, <1>2, NoElements DEF Apart
<1>9. work' = [v \in Posts |-> work'[v]]
  BY <1>1
<1> QED BY <1>2, <1>3, <1>4, <1>5, <1>6, <1>7, <1>8, <1>9 DEF IInv

LEMMA StartsRight ==
  Init => IInv
<1> SUFFICES ASSUME Init
             PROVE  IInv
  OBVIOUS
<1>1. \A v \in Posts : work[v] = Idle
  BY DEF Init
<1>2. /\ \A v \in Posts : WorkerInv(v) /\ Mine(v) = {} /\ ~At(v, "sleep")
      /\ Cardinality(Holders) = 0
  BY <1>1, IdleWorkers
<1>3. \A b \in Limited : scenario.limits[b] \in Nat
  BY RealtimeAssumption DEF RealtimeAssumption, Init
<1>4. GivenInv /\ BoundsInv
  <2>1. scenario \in Scenarios /\ scenario.enabled \subseteq Rules
    BY RealtimeAssumption DEF RealtimeAssumption, Init
  <2> QED BY <1>3, <2>1 DEF Init, GivenInv, BoundsInv
<1>5. AlbumInv /\ Apart
  <2>1. cache = <<>> /\ cache \in Seq(Posts) /\ timer = None /\ cancelled = {} /\ seen = {}
    BY DEF Init
  <2>2. stranded \in BOOLEAN
    BY DEF Init
  <2>3. TimerCovers
    BY <1>2, <2>1 DEF TimerCovers
  <2>4. Apart
    BY <1>2, <2>1, NoElements DEF Apart
  <2> QED BY <2>1, <2>2, <2>3, <2>4 DEF AlbumInv
<1>6. GateInv
  BY <1>2 DEF Init, GateInv, GateHeld, Holders
<1>7. CountInv /\ MapInv
  <2>1. \A t \in Rules, p \in Posts : copies[t][p] = 0 /\ extra[t][p] = 0 /\ mapping[t][p] = None
    BY DEF Init
  <2>2. Waiting \subseteq Posts
    BY NoElements DEF Init, Waiting
  <2>3. copies \in [Rules -> [Posts -> Nat]] /\ extra \in [Rules -> [Posts -> Nat]]
        /\ mapping \in [Rules -> [Posts -> Posts \union {None}]] /\ traces = {}
    BY DEF Init
  <2> QED BY <2>1, <2>2, <2>3 DEF CountInv, MapInv, CopiesExplained, MappingExplained, Fresh
<1>8. work = [v \in Posts |-> work[v]]
  BY DEF Init
<1> QED BY <1>2, <1>4, <1>5, <1>6, <1>7, <1>8 DEF IInv
-----------------------------------------------------------------------------
(* The theorems.                                                            *)

LEMMA WorkerStep ==
  ASSUME IInv, NEW w \in Posts, Worker(w)
  PROVE  IInv'
BY QueueStep, HandleStep, FireStep, InterruptedStep, RefusedStep, EnterStep, GroupAnsweredStep,
   NetworkErrorStep, GroupFailsStep, UploadAgainStep, NothingDownloadedStep, SaveMemberStep, GroupSavedStep,
   SaveFailsStep, ItemAnsweredStep, SaveItemStep, ItemFailsStep DEF Worker

LEMMA Inductive ==
  IInv /\ [Next]_vars => IInv'
<1> SUFFICES ASSUME IInv, [Next]_vars
             PROVE  IInv'
  OBVIOUS
<1>1. CASE \E p \in Posts : Receive(p) \/ Worker(p)
  BY <1>1, ReceiveStep, WorkerStep
<1>2. CASE \/ \E t \in Rules : ChangeRule(t)
           \/ BeginSwitch \/ EndSwitch \/ Shutdown \/ StartAgain
  BY <1>2, AroundStep
<1>3. CASE Restart
  BY <1>3, RestartStep
<1>4. CASE UNCHANGED vars
  <2>1. /\ UNCHANGED <<scenario, rules, seen, again, running, cache, timer, cancelled, stranded, work, operations, switching, copies,
                       mapping, traces, extra, bounds>>
    BY <1>4 DEF vars, album, gate, stored, history, given
  <2>2. \A v \in Posts : WorkerInv(v)' /\ Mine(v)' = Mine(v)
    <3> SUFFICES ASSUME NEW v \in Posts
                 PROVE  WorkerInv(v)' /\ Mine(v)' = Mine(v)
      OBVIOUS
    <3>1. WorkerInv(v)
      BY DEF IInv
    <3>2. /\ Mine(v)' = Mine(v) /\ Members(v)' = Members(v) /\ Remaining(v)' = Remaining(v)
          /\ Target(v)' = Target(v) /\ Kind(v)' = Kind(v)
      BY <2>1 DEF Mine, Members, Remaining, Target, Kind
    <3>3. WorkAt(v)' /\ AnswerAt(v)'
      BY <2>1, <3>1, <3>2 DEF WorkerInv, WorkAt, AnswerAt, LeftOut
    <3>4. FreshAt(v)' /\ SettledAt(v)'
      BY <2>1, <3>1, <3>2 DEF WorkerInv, FreshAt, SettledAt, Fresh, Settled
    <3> QED BY <3>2, <3>3, <3>4 DEF WorkerInv
  <2>3. GivenInv' /\ CountInv' /\ MapInv' /\ BoundsInv'
    BY <2>1, StoredStays DEF IInv, GivenInv, Waiting
  <2>4. AlbumInv'
    BY <2>1 DEF IInv, AlbumInv, TimerCovers, At
  <2>5. GateInv'
    <3>1. Holders' = Holders
      BY <2>1 DEF Holders, Holding, Target
    <3> QED BY <2>1, <3>1 DEF IInv, GateInv, GateHeld, Holders
  <2> QED BY <2>1, <2>2, <2>3, <2>4, <2>5 DEF IInv, Apart
<1> QED BY <1>1, <1>2, <1>3, <1>4 DEF Next

LEMMA Consistent ==
  IInv => CacheConsistent
<1> SUFFICES ASSUME IInv
             PROVE  CacheConsistent
  OBVIOUS
<1>1. work \in [Posts -> Task]
  BY DEF IInv, WorkerInv, WorkAt
<1>2. \A b \in Limited : bounds[b] \in 0..scenario.limits[b]
  <2>1. \A b \in Limited : scenario.limits[b] \in Nat
    BY RealtimeAssumption DEF RealtimeAssumption, IInv, GivenInv
  <2> QED BY <2>1 DEF IInv, BoundsInv
<1>3. TypeOK
  BY <1>1, <1>2 DEF TypeOK, IInv, GivenInv, AlbumInv, GateInv, CountInv, MapInv, Task
<1> QED BY <1>3 DEF CacheConsistent, IInv, AlbumInv, GateInv

LEMMA Holds ==
  Spec => []IInv
<1> QED BY StartsRight, Inductive, PTL DEF Spec

\* Types hold, an album that waits in a running process has exactly one timer
\* unless a restart in place left it over, and the gate counts those inside it:
\* whatever the order of posts, timers, cancellations, account switches, stops
\* and restarts.
THEOREM CacheCorrect ==
  Spec => []CacheConsistent
<1> QED BY Holds, Consistent, PTL

\* A second copy of a post and a mapping to a foreign copy have one of the
\* reasons named, for any albums, targets and failures.
THEOREM ExplainedCorrect ==
  Spec => []Explained
<1>1. IInv => Explained
  BY DEF IInv, Explained, CountInv, MapInv
<1> QED BY <1>1, Holds, PTL

\* A worker that is done has copied its posts to all its targets, or the loss
\* has a trace.
THEOREM LossCorrect ==
  Spec => []LossExplained
<1>1. IInv => LossExplained
  <2> SUFFICES ASSUME IInv, NEW w \in Posts, work[w].pc = "done",
                      NEW i \in DOMAIN work[w].plan, NEW p \in Members(w)
               PROVE  Settled(work[w].plan[i], p)
    BY DEF LossExplained, Settled
  <2>1. SettledAt(w)
    BY DEF IInv, WorkerInv
  <2> QED BY <2>1 DEF SettledAt
<1> QED BY <1>1, Holds, PTL
=============================================================================
