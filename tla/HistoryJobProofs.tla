-------------------------- MODULE HistoryJobProofs --------------------------
(***************************************************************************)
(* Proofs about HistoryJob: the session and its flags, then what a job     *)
(* reads: the groups a batch falls into, the order they are handed on in,  *)
(* the counters, and the album kept back between two batches.              *)
(***************************************************************************)
EXTENDS HistoryJob, FiniteSetTheorems, WellFoundedInduction, TLAPS

Session == SessionExclusive /\ StopScoped

\* The part of TypeOK the session rests on.
SessionTypes ==
  /\ {isSyncing, stopRequested, serving} \subseteq BOOLEAN
  /\ pc \in [Requests -> Active \union {"new", "done"}]
  /\ restarts \in Nat

\* The server that does not serve is being restarted.
Restarting == ~serving => restarts > 0

IInv == SessionTypes /\ Session /\ Restarting

USE DEF flags, reading, told, history, bounds
-----------------------------------------------------------------------------
(* What a step does to the session.                                         *)

\* A step of the job leaves the flags alone and the job alive.
Stays(r) ==
  /\ pc[r] \in Active
  /\ \E l \in Active : Goto(r, l)
  /\ UNCHANGED <<isSyncing, serving, restarts>>
  /\ stopRequested' \in {stopRequested, FALSE}

\* A step that ends the job gives the session back.
Leaves(r) == pc[r] \in Active /\ Release(r) /\ UNCHANGED <<serving, restarts>>

LEMMA StaysInv ==
  ASSUME IInv, NEW r \in Requests, Stays(r)
  PROVE  IInv'
<1>1. PICK l \in Active : pc' = [pc EXCEPT ![r] = l]
  BY DEF Stays, Goto
<1>2. \A s \in Requests : pc'[s] \in Active <=> pc[s] \in Active
  BY <1>1 DEF IInv, SessionTypes, Stays
<1>3. SessionTypes'
  BY <1>1 DEF IInv, SessionTypes, Stays
<1>4. SessionExclusive'
  BY <1>2 DEF IInv, Session, SessionExclusive, Stays
<1>5. StopScoped'
  <2>1. stopRequested' => stopRequested
    BY DEF Stays
  <2> QED BY <2>1 DEF IInv, Session, StopScoped, Stays
<1>6. Restarting'
  BY DEF IInv, Restarting, Stays
<1> QED BY <1>3, <1>4, <1>5, <1>6 DEF IInv, Session

LEMMA LeavesInv ==
  ASSUME IInv, NEW r \in Requests, Leaves(r)
  PROVE  IInv'
<1>1. pc' = [pc EXCEPT ![r] = "done"] /\ isSyncing' = FALSE /\ stopRequested' = FALSE
  BY DEF Leaves, Release, Goto
<1>2. \A s \in Requests : pc'[s] \notin Active
  BY <1>1 DEF IInv, SessionTypes, Session, SessionExclusive, Leaves, Active
<1>3. SessionTypes'
  BY <1>1 DEF IInv, SessionTypes, Leaves
<1>4. SessionExclusive'
  BY <1>1, <1>2 DEF SessionExclusive
<1>5. StopScoped' /\ Restarting'
  BY <1>1 DEF IInv, StopScoped, Restarting, Leaves
<1> QED BY <1>3, <1>4, <1>5 DEF IInv, Session

\* Every step of a job is of one of the two kinds.
LEMMA JobSteps ==
  ASSUME NEW r \in Requests, Job(r)
  PROVE  Stays(r) \/ Leaves(r)
<1>1. CASE Invalid(r)
  BY <1>1 DEF Invalid, Leaves, Active
<1>2. CASE Validated(r)
  BY <1>2 DEF Validated, Stays, Active
<1>3. CASE Begin(r)
  BY <1>3 DEF Begin, Stays, Leaves, Active
<1>4. CASE Setup(r)
  BY <1>4 DEF Setup, EndJob, Stays, Active
<1>5. CASE LogEnd(r)
  BY <1>5 DEF LogEnd, Leaves, Active
<1>6. CASE ReadNext(r)
  BY <1>6 DEF ReadNext, EndJob, Stays, Active
<1>7. CASE Fetched(r)
  <2>1. pc[r] = "fetch" /\ (Goto(r, "logging") \/ Goto(r, "emit"))
    BY <1>7 DEF Fetched, EndJob
  <2>2. UNCHANGED <<flags, serving, restarts>>
    BY <1>7 DEF Fetched
  <2> QED BY <2>1, <2>2 DEF Stays, Active
<1>8. CASE FetchFails(r)
  BY <1>8 DEF FetchFails, EndJob, Stays, Active
<1>9. CASE NetworkGone(r)
  BY <1>9 DEF NetworkGone, EndJob, Stays, Active
<1>10. CASE Emit(r)
  BY <1>10 DEF Emit, EndJob, Stays, Active
<1>11. CASE Delivered(r)
  <2>1. pc[r] = "deliver" /\ Goto(r, "emit")
    BY <1>11 DEF Delivered
  <2>2. UNCHANGED <<flags, serving, restarts>>
    BY <1>11 DEF Delivered
  <2> QED BY <2>1, <2>2 DEF Stays, Active
<1>12. CASE DeliverRaises(r)
  BY <1>12 DEF DeliverRaises, EndJob, Stays, Active
<1> QED BY <1>1, <1>2, <1>3, <1>4, <1>5, <1>6, <1>7, <1>8, <1>9, <1>10, <1>11, <1>12 DEF Job
-----------------------------------------------------------------------------
(* The other steps.                                                         *)

\* A request claims the session only when nobody has it.
LEMMA ReserveInv ==
  ASSUME IInv, NEW r \in Requests, Reserve(r)
  PROVE  IInv'
<1>1. pc[r] = "new" /\ pc[r] \notin Active /\ UNCHANGED <<serving, restarts>>
  BY DEF Reserve, Active
<1>2. CASE Busy
  <2>1. pc' = [pc EXCEPT ![r] = "done"] /\ UNCHANGED flags
    BY <1>2 DEF Reserve, Goto
  <2>2. \A s \in Requests : pc'[s] \in Active <=> pc[s] \in Active
    BY <1>1, <2>1 DEF IInv, SessionTypes, Active
  <2>3. SessionTypes'
    BY <1>1, <2>1 DEF IInv, SessionTypes
  <2>4. SessionExclusive'
    BY <2>1, <2>2 DEF IInv, Session, SessionExclusive
  <2> QED BY <1>1, <2>1, <2>3, <2>4 DEF IInv, Session, StopScoped, Restarting
<1>3. CASE ~Busy
  <2>1. pc' = [pc EXCEPT ![r] = "validating"] /\ isSyncing' = TRUE /\ stopRequested' = FALSE
    BY <1>3 DEF Reserve, Goto
  <2>2. \A s \in Requests : pc[s] \notin Active
    BY <1>3 DEF IInv, Session, SessionExclusive, Busy
  <2>3. \A s \in Requests : pc'[s] \in Active <=> s = r
    BY <2>1, <2>2 DEF IInv, SessionTypes, Active
  <2>4. SessionTypes'
    BY <1>1, <2>1 DEF IInv, SessionTypes, Active
  <2>5. SessionExclusive'
    BY <2>1, <2>3 DEF SessionExclusive
  <2> QED BY <1>1, <2>1, <2>4, <2>5 DEF IInv, Session, StopScoped, Restarting
<1> QED BY <1>2, <1>3

LEMMA ServerInv ==
  ASSUME IInv, RequestStop \/ Shutdown \/ Restart \/ UNCHANGED vars
  PROVE  IInv'
<1>1. CASE RequestStop
  BY <1>1 DEF IInv, SessionTypes, Session, SessionExclusive, StopScoped, Restarting, RequestStop
<1>2. CASE Shutdown
  <2>1. serving' = FALSE /\ restarts' \in Nat /\ restarts' > 0
    BY <1>2 DEF IInv, SessionTypes, Shutdown
  <2>2. UNCHANGED <<flags, pc>>
    BY <1>2 DEF Shutdown
  <2>3. SessionTypes'
    BY <2>1, <2>2 DEF IInv, SessionTypes
  <2>4. Session' /\ Restarting'
    BY <2>1, <2>2 DEF IInv, Session, SessionExclusive, StopScoped, Restarting
  <2> QED BY <2>3, <2>4 DEF IInv
<1>3. CASE Restart
  BY <1>3 DEF IInv, SessionTypes, Session, SessionExclusive, StopScoped, Restarting, Restart
<1>4. CASE UNCHANGED vars
  BY <1>4 DEF IInv, SessionTypes, Session, SessionExclusive, StopScoped, Restarting, vars
<1> QED BY <1>1, <1>2, <1>3, <1>4

LEMMA Invariant == Spec => []IInv
<1>1. Init => IInv
  <2> SUFFICES ASSUME Init
               PROVE  IInv
    OBVIOUS
  <2>1. SessionTypes
    BY DEF Init, SessionTypes
  <2>2. \A r \in Requests : pc[r] \notin Active
    BY DEF Init, Active
  <2>3. Session /\ Restarting
    BY <2>2 DEF Init, Session, SessionExclusive, StopScoped, Restarting
  <2> QED BY <2>1, <2>3 DEF IInv
<1>2. IInv /\ [Next]_vars => IInv'
  BY ReserveInv, JobSteps, StaysInv, LeavesInv, ServerInv DEF Next
<1> QED BY <1>1, <1>2, PTL DEF Spec
-----------------------------------------------------------------------------
(* Numbers in order.                                                        *)

LEMMA LeastNatural ==
  ASSUME NEW S \in SUBSET Nat, S # {}
  PROVE  \E x \in S : \A y \in S : x <= y
<1>1. PICK x \in S : \A y \in S : ~(<<y, x>> \in OpToRel(<, Nat))
  BY NatLessThanWellFounded, WFMin
<1>2. \A y \in Nat : y < x => <<y, x>> \in OpToRel(<, Nat)
  BY DEF OpToRel
<1>3. \A y \in S : y \in Nat /\ ~(y < x)
  BY <1>1, <1>2, Zenon
<1>4. \A y \in S : x <= y
  BY <1>3
<1> QED BY <1>4

LEMMA GreatestIn ==
  ASSUME NEW n \in Nat, NEW S \in SUBSET (1..n), S # {}
  PROVE  \E x \in S : \A y \in S : y <= x
<1> DEFINE D == {n - x : x \in S}
<1>1. D \in SUBSET Nat
  <2>1. \A x \in S : x \in Int /\ n - x \in Nat
    OBVIOUS
  <2> QED BY <2>1
<1>2. D # {}
  OBVIOUS
<1> HIDE DEF D
<1>3. PICK d \in D : \A e \in D : d <= e
  BY <1>1, <1>2, LeastNatural
<1>4. PICK x \in S : d = n - x
  BY <1>3 DEF D
<1>5. \A y \in S : n - x <= n - y
  BY <1>3, <1>4 DEF D
<1>6. \A y \in S : y <= x
  BY <1>5
<1> QED BY <1>6

Sorted(s) == \A i, j \in DOMAIN s : i < j => s[i] < s[j]

\* A finite set of numbers can be sorted: a smallest set that could not would
\* have a greatest member, and the rest of it could.
LEMMA Sortable ==
  ASSUME NEW n \in Nat, NEW S \in SUBSET (1..n)
  PROVE  \E s \in [1..Cardinality(S) -> S] : Sorted(s)
<1> DEFINE Can(T) == \E s \in [1..Cardinality(T) -> T] : Sorted(s)
           Bad    == {k \in Nat : \E T \in SUBSET (1..n) : Cardinality(T) = k /\ ~Can(T)}
<1>1. \A T \in SUBSET (1..n) : IsFiniteSet(T) /\ Cardinality(T) \in Nat
  <2>1. IsFiniteSet(1..n)
    BY FS_Interval
  <2>2. \A T \in SUBSET (1..n) : IsFiniteSet(T)
    BY <2>1, FS_Subset
  <2> QED BY <2>2, FS_CardinalityType
<1>2. SUFFICES ASSUME Bad # {}
               PROVE  FALSE
  BY <1>1
<1> HIDE DEF Bad
<1>3. PICK k \in Bad : \A l \in Bad : k <= l
  <2>1. Bad \in SUBSET Nat
    BY DEF Bad
  <2> QED BY <1>2, <2>1, LeastNatural
<1>4. PICK T \in SUBSET (1..n) : Cardinality(T) = k /\ ~Can(T)
  BY <1>3 DEF Bad
<1>5. k \in Nat
  BY <1>3 DEF Bad
<1>6. T # {}
  <2>1. ASSUME T = {}
        PROVE  FALSE
    <3>1. Cardinality(T) = 0
      BY <2>1, FS_EmptySet
    <3>2. [i \in 1..0 |-> 0] \in [1..Cardinality(T) -> T] /\ Sorted([i \in 1..0 |-> 0])
      BY <3>1 DEF Sorted
    <3> QED BY <1>4, <3>2
  <2> QED BY <2>1
<1>7. PICK x \in T : \A y \in T : y <= x
  BY <1>6, GreatestIn
<1> DEFINE R == T \ {x}
<1>8. Cardinality(R) = k - 1 /\ R \in SUBSET (1..n)
  BY <1>1, <1>4, <1>7, FS_RemoveElement
<1>9. k - 1 \in Nat
  BY <1>1, <1>8
<1>10. Can(R)
  <2>1. k - 1 \notin Bad
    BY <1>3, <1>5
  <2> QED BY <1>8, <1>9, <2>1 DEF Bad
<1>11. PICK r \in [1..(k - 1) -> R] : Sorted(r)
  BY <1>8, <1>10
<1> DEFINE s == [i \in 1..k |-> IF i = k THEN x ELSE r[i]]
<1>12. \A i \in 1..k : i # k => i \in 1..(k - 1)
  BY <1>5
<1>13. \A i \in 1..(k - 1) : r[i] \in T /\ r[i] < x
  <2>1. \A y \in R : y \in T /\ y < x
    BY <1>7
  <2> QED BY <1>11, <2>1
<1>14. s \in [1..k -> T]
  BY <1>12, <1>13, <1>7
<1>15. Sorted(s)
  <2> SUFFICES ASSUME NEW i \in 1..k, NEW j \in 1..k, i < j
               PROVE  s[i] < s[j]
    BY DEF Sorted
  <2>1. i \in 1..(k - 1)
    BY <1>5
  <2>2. CASE j = k
    BY <1>5, <1>13, <2>1, <2>2
  <2>3. CASE j # k
    <3>1. j \in 1..(k - 1)
      BY <1>12, <2>3
    <3>2. r[i] < r[j]
      BY <1>11, <2>1, <3>1 DEF Sorted
    <3> QED BY <1>5, <2>1, <2>3, <3>1, <3>2
  <2> QED BY <2>2, <2>3
<1> QED BY <1>4, <1>14, <1>15

LEMMA Ascends ==
  ASSUME NEW n \in Nat, NEW S \in SUBSET (1..n)
  PROVE  /\ Ascending(S) \in Seq(S) /\ Len(Ascending(S)) = Cardinality(S)
         /\ IsFiniteSet(S) /\ Cardinality(S) \in Nat
         /\ Sorted(Ascending(S)) /\ ToSet(Ascending(S)) = S
<1> DEFINE s == Ascending(S)
           k == Cardinality(S)
<1>1. IsFiniteSet(S) /\ k \in Nat
  <2>1. IsFiniteSet(1..n)
    BY FS_Interval
  <2>2. IsFiniteSet(S)
    BY <2>1, FS_Subset
  <2> QED BY <2>2, FS_CardinalityType
<1>2. s \in [1..k -> S] /\ Sorted(s)
  BY Sortable DEF Ascending, Sorted
<1> HIDE DEF s, k
<1>3. s \in Seq(S) /\ Len(s) = k /\ DOMAIN s = 1..k
  BY <1>1, <1>2
<1>4. \A i, j \in 1..k : s[i] = s[j] => i = j
  <2> SUFFICES ASSUME NEW i \in 1..k, NEW j \in 1..k, s[i] = s[j]
               PROVE  i = j
    OBVIOUS
  <2>1. s[i] \in 1..n /\ s[j] \in 1..n
    BY <1>2
  <2>2. ~(i < j) /\ ~(j < i)
    BY <1>2, <2>1, <1>3 DEF Sorted
  <2> QED BY <1>1, <2>2
<1>5. ToSet(s) = S
  <2>1. s \in Injection(1..k, S)
    BY <1>2, <1>4 DEF Injection, IsInjective
  <2>2. Cardinality(1..k) = k
    BY <1>1, FS_Interval
  <2>3. s \in Surjection(1..k, S)
    BY <1>1, <2>1, <2>2, FS_Injection DEF k
  <2>4. \A x \in S : \E i \in 1..k : s[i] = x
    BY <2>3 DEF Surjection
  <2> QED BY <1>2, <1>3, <2>4 DEF ToSet
<1> QED BY <1>1, <1>2, <1>3, <1>5 DEF s, k

\* A sorted sequence has as many members as places.
LEMMA SortedSize ==
  ASSUME NEW n \in Nat, NEW s \in Seq(1..n), Sorted(s)
  PROVE  /\ ToSet(s) \in SUBSET (1..n) /\ IsFiniteSet(ToSet(s))
         /\ Cardinality(ToSet(s)) = Len(s)
<1> DEFINE k == Len(s)
<1>1. /\ k \in Nat /\ k = Len(s) /\ DOMAIN s = 1..k
      /\ \A i \in 1..k : s[i] \in 1..n
  OBVIOUS
<1> HIDE DEF k
<1>2. \A i, j \in 1..k : s[i] = s[j] => i = j
  <2> SUFFICES ASSUME NEW i \in 1..k, NEW j \in 1..k, s[i] = s[j]
               PROVE  i = j
    OBVIOUS
  <2>1. ~(i < j) /\ ~(j < i)
    BY <1>1 DEF Sorted
  <2> QED BY <1>1, <2>1
<1>3. s \in Bijection(1..k, ToSet(s))
  <2>1. s = [i \in 1..k |-> s[i]]
    BY <1>1
  <2>2. s \in [1..k -> ToSet(s)]
    BY <1>1, <2>1 DEF ToSet
  <2>3. \A x \in ToSet(s) : \E i \in 1..k : s[i] = x
    BY <1>1 DEF ToSet
  <2> QED BY <1>2, <2>2, <2>3 DEF Bijection, Injection, Surjection, IsInjective
<1>4. IsFiniteSet(1..k) /\ Cardinality(1..k) = k
  <2>1. k \in Nat
    BY <1>1
  <2>2. Cardinality(1..k) = k
    BY <2>1, FS_Interval
  <2> QED BY <2>1, <2>2, FS_Interval
<1>5. Cardinality(ToSet(s)) = k /\ IsFiniteSet(ToSet(s))
  BY <1>3, <1>4, FS_Bijection DEF ExistsBijection
<1> QED BY <1>1, <1>5 DEF ToSet
-----------------------------------------------------------------------------
(* Groups.                                                                  *)

\* Where the groups of s begin, and where they end.
Firsts(s)  == Ascending(Begins(s))
End(s, g)  == IF g = Len(Firsts(s)) THEN Len(s) ELSE Firsts(s)[g + 1] - 1

LEMMA FirstsOf ==
  ASSUME NEW s \in Seq(Ids)
  PROVE  /\ Firsts(s) \in Seq(DOMAIN s) /\ Sorted(Firsts(s)) /\ ToSet(Firsts(s)) = Begins(s)
         /\ \A g \in DOMAIN Firsts(s) : Firsts(s)[g] \in Begins(s) /\ Firsts(s)[g] \in 1..Len(s)
         /\ Len(Firsts(s)) \in Nat /\ DOMAIN Firsts(s) = 1..Len(Firsts(s))
<1>1. Begins(s) \in SUBSET (1..Len(s)) /\ Len(s) \in Nat /\ DOMAIN s = 1..Len(s)
  BY DEF Begins
<1>2. Firsts(s) \in Seq(Begins(s)) /\ Sorted(Firsts(s)) /\ ToSet(Firsts(s)) = Begins(s)
  BY <1>1, Ascends DEF Firsts
<1> HIDE DEF Firsts
<1>3. Len(Firsts(s)) \in Nat /\ DOMAIN Firsts(s) = 1..Len(Firsts(s))
  BY <1>2
<1>4. \A g \in DOMAIN Firsts(s) : Firsts(s)[g] \in Begins(s)
  BY <1>2
<1>5. Firsts(s) \in Seq(DOMAIN s)
  BY <1>1, <1>2, <1>3, <1>4
<1> QED BY <1>1, <1>2, <1>3, <1>4, <1>5

\* Group g holds what s holds from its begin to its end.
LEMMA GroupAt ==
  ASSUME NEW s \in Seq(Ids), NEW g \in DOMAIN Firsts(s)
  PROVE  /\ GroupMessages(s)[g] \in Seq(Ids)
         /\ Firsts(s)[g] \in 1..Len(s) /\ End(s, g) \in 1..Len(s) /\ Firsts(s)[g] <= End(s, g)
         /\ Len(GroupMessages(s)[g]) = End(s, g) - Firsts(s)[g] + 1
         /\ \A k \in DOMAIN GroupMessages(s)[g] :
              /\ Firsts(s)[g] + k - 1 \in Firsts(s)[g] .. End(s, g)
              /\ GroupMessages(s)[g][k] = s[Firsts(s)[g] + k - 1]
<1> DEFINE a == Firsts(s)[g]
           b == End(s, g)
<1>1. /\ a \in 1..Len(s) /\ Len(s) \in Nat /\ Sorted(Firsts(s))
      /\ g \in 1..Len(Firsts(s)) /\ DOMAIN Firsts(s) = 1..Len(Firsts(s)) /\ Len(Firsts(s)) \in Nat
  BY FirstsOf
<1>2. b \in 1..Len(s) /\ a <= b
  <2>1. CASE g = Len(Firsts(s))
    BY <1>1, <2>1 DEF End
  <2>2. CASE g # Len(Firsts(s))
    <3>1. g + 1 \in DOMAIN Firsts(s) /\ g < g + 1
      BY <1>1, <2>2
    <3>2. Firsts(s)[g + 1] \in 1..Len(s) /\ a < Firsts(s)[g + 1]
      BY <1>1, <3>1, FirstsOf DEF Sorted
    <3>3. b = Firsts(s)[g + 1] - 1
      BY <2>2 DEF End
    <3> HIDE DEF a, b
    <3> QED BY <1>1, <3>2, <3>3
  <2> QED BY <2>1, <2>2
<1>3. GroupMessages(s)[g] = SubSeq(s, a, b)
  BY DEF GroupMessages, Firsts, End
<1> HIDE DEF a, b
<1>4. /\ SubSeq(s, a, b) \in Seq(Ids) /\ Len(SubSeq(s, a, b)) = b - a + 1
      /\ \A k \in 1 .. b - a + 1 : SubSeq(s, a, b)[k] = s[a + k - 1]
  BY <1>1, <1>2
<1>5. DOMAIN SubSeq(s, a, b) = 1 .. b - a + 1
  BY <1>4
<1>6. \A k \in 1 .. b - a + 1 : a + k - 1 \in a .. b
  BY <1>1, <1>2
<1> QED BY <1>1, <1>2, <1>3, <1>4, <1>5, <1>6 DEF a, b

\* A place of s that is not a begin belongs to the album of the one before.
LEMMA SameAlbum ==
  ASSUME NEW s \in Seq(Ids), NEW a \in 1..Len(s), NEW b \in 1..Len(s),
         \A i \in a + 1 .. b : i \notin Begins(s)
  PROVE  \A i \in a .. b : Album(s[i]) = Album(s[a])
<1> DEFINE Bad == {i \in a .. b : Album(s[i]) # Album(s[a])}
<1>1. SUFFICES ASSUME Bad # {}
               PROVE  FALSE
  OBVIOUS
<1>2. Bad \in SUBSET Nat /\ a \in Nat /\ b \in Nat /\ Len(s) \in Nat /\ DOMAIN s = 1..Len(s)
  OBVIOUS
<1>3. PICK i \in Bad : \A j \in Bad : i <= j
  BY <1>1, <1>2, LeastNatural
<1>4. i \in a + 1 .. b /\ i - 1 \in a .. b /\ i \in DOMAIN s
  BY <1>2, <1>3
<1>5. Album(s[i]) = Album(s[i - 1])
  BY <1>4 DEF Begins
<1>6. i - 1 \in Bad
  BY <1>3, <1>4, <1>5
<1> QED BY <1>2, <1>3, <1>4, <1>6

LEMMA BetweenFirsts ==
  ASSUME NEW s \in Seq(Ids), NEW g \in DOMAIN Firsts(s), NEW i \in Firsts(s)[g] + 1 .. End(s, g)
  PROVE  i \notin Begins(s)
<1>1. /\ Sorted(Firsts(s)) /\ ToSet(Firsts(s)) = Begins(s)
      /\ \A h \in DOMAIN Firsts(s) : Firsts(s)[h] \in 1..Len(s)
      /\ DOMAIN Firsts(s) = 1..Len(Firsts(s)) /\ Len(Firsts(s)) \in Nat
  BY FirstsOf
<1>2. SUFFICES ASSUME NEW h \in DOMAIN Firsts(s), Firsts(s)[h] = i
               PROVE  FALSE
  BY <1>1 DEF ToSet
<1>3. Firsts(s)[g] < i /\ i <= End(s, g) /\ Firsts(s)[g] \in Nat /\ i \in Nat
  BY <1>1
<1>4. g \in Nat /\ h \in Nat /\ 1 <= g /\ g <= Len(Firsts(s)) /\ h <= Len(Firsts(s))
  BY <1>1
<1>5. g < h
  <2>1. CASE h = g
    BY <1>2, <1>3, <2>1
  <2>2. CASE h < g
    <3>1. Firsts(s)[h] < Firsts(s)[g]
      BY <1>1, <2>2 DEF Sorted
    <3> QED BY <1>2, <1>3, <3>1
  <2> QED BY <1>4, <2>1, <2>2
<1>6. g + 1 \in DOMAIN Firsts(s) /\ g # Len(Firsts(s))
  <2>1. PICK n \in Nat : n = Len(Firsts(s)) /\ DOMAIN Firsts(s) = 1..n
    BY <1>1
  <2>2. g \in 1..n /\ h \in 1..n
    BY <2>1
  <2>3. g + 1 \in 1..n /\ g # n
    BY <2>2, <1>5
  <2> QED BY <2>1, <2>3
<1>7. End(s, g) = Firsts(s)[g + 1] - 1 /\ Firsts(s)[g + 1] \in Nat
  BY <1>1, <1>6 DEF End
<1>8. Firsts(s)[g + 1] <= Firsts(s)[h]
  <2>1. CASE h = g + 1
    BY <1>2, <1>3, <2>1
  <2>2. CASE g + 1 < h
    <3>1. Firsts(s)[g + 1] < Firsts(s)[h]
      BY <1>1, <1>6, <2>2 DEF Sorted
    <3> QED BY <1>2, <1>3, <1>7, <3>1
  <2> QED BY <1>4, <1>5, <2>1, <2>2
<1> QED BY <1>2, <1>3, <1>7, <1>8

\* Every place of s is in a group.
LEMMA PlaceInGroup ==
  ASSUME NEW s \in Seq(Ids), NEW i \in DOMAIN s
  PROVE  \E g \in DOMAIN Firsts(s) : i \in Firsts(s)[g] .. End(s, g)
<1>1. /\ Sorted(Firsts(s)) /\ ToSet(Firsts(s)) = Begins(s)
      /\ \A h \in DOMAIN Firsts(s) : Firsts(s)[h] \in 1..Len(s)
      /\ DOMAIN Firsts(s) = 1..Len(Firsts(s)) /\ Len(Firsts(s)) \in Nat
      /\ DOMAIN s = 1..Len(s) /\ Len(s) \in Nat /\ i \in 1..Len(s)
  BY FirstsOf
<1> DEFINE before == {g \in DOMAIN Firsts(s) : Firsts(s)[g] <= i}
<1>2. before # {}
  <2>1. 1 \in Begins(s)
    BY <1>1 DEF Begins
  <2>2. PICK g \in DOMAIN Firsts(s) : Firsts(s)[g] = 1
    BY <1>1, <2>1 DEF ToSet
  <2> QED BY <1>1, <2>2
<1>3. before \in SUBSET (1..Len(Firsts(s)))
  BY <1>1
<1>4. PICK g \in before : \A h \in before : h <= g
  BY <1>1, <1>2, <1>3, GreatestIn
<1>5. g \in DOMAIN Firsts(s) /\ g \in Nat /\ 1 <= g /\ g <= Len(Firsts(s)) /\ Firsts(s)[g] <= i
  BY <1>1, <1>4
<1>6. i <= End(s, g) /\ End(s, g) \in Nat
  <2>1. CASE g = Len(Firsts(s))
    BY <1>1, <2>1 DEF End
  <2>2. CASE g # Len(Firsts(s))
    <3>1. g + 1 \in DOMAIN Firsts(s)
      <4>1. PICK n \in Nat : n = Len(Firsts(s)) /\ DOMAIN Firsts(s) = 1..n
        BY <1>1
      <4>2. g \in 1..n /\ g # n
        BY <4>1, <1>5, <2>2
      <4>3. g + 1 \in 1..n
        BY <4>2
      <4> QED BY <4>1, <4>3
    <3>2. ~(Firsts(s)[g + 1] <= i)
      BY <1>4, <1>5, <3>1
    <3>3. Firsts(s)[g + 1] \in 1..Len(s) /\ End(s, g) = Firsts(s)[g + 1] - 1
      BY <1>1, <2>2, <3>1 DEF End
    <3> QED BY <1>1, <3>2, <3>3
  <2> QED BY <2>1, <2>2
<1>7. Firsts(s)[g] \in Nat
  BY <1>1, <1>5
<1> QED BY <1>1, <1>5, <1>6, <1>7

\* The groups of a sorted sequence keep its messages and their order; a group is
\* of one album, and the next one is not of it.
Grouped(s, gs) ==
  /\ gs \in Seq(Seq(Ids)) /\ \A g \in DOMAIN gs : gs[g] # <<>>
  /\ InOrder(gs) /\ Members(gs) = ToSet(s)
  /\ \A g \in DOMAIN gs : \A k \in DOMAIN gs[g] : Album(gs[g][k]) = Album(gs[g][1])
  /\ \A g, h \in DOMAIN gs : h = g + 1 /\ Album(gs[g][1]) # 0 => Album(gs[h][1]) # Album(gs[g][1])

LEMMA Grouping ==
  ASSUME NEW s \in Seq(Ids), Sorted(s)
  PROVE  Grouped(s, GroupMessages(s))
<1> DEFINE gs == GroupMessages(s)
<1>1. /\ Sorted(Firsts(s)) /\ ToSet(Firsts(s)) = Begins(s)
      /\ \A h \in DOMAIN Firsts(s) : Firsts(s)[h] \in 1..Len(s) /\ Firsts(s)[h] \in Begins(s)
      /\ DOMAIN Firsts(s) = 1..Len(Firsts(s)) /\ Len(Firsts(s)) \in Nat
      /\ DOMAIN s = 1..Len(s) /\ Len(s) \in Nat
  BY FirstsOf
<1>2. DOMAIN gs = DOMAIN Firsts(s) /\ gs = [g \in 1..Len(Firsts(s)) |-> gs[g]]
  BY <1>1 DEF GroupMessages, Firsts
<1> HIDE DEF gs
<1>3. ASSUME NEW g \in DOMAIN gs
      PROVE  /\ gs[g] \in Seq(Ids) /\ Firsts(s)[g] \in 1..Len(s) /\ End(s, g) \in 1..Len(s)
             /\ Firsts(s)[g] <= End(s, g) /\ Len(gs[g]) = End(s, g) - Firsts(s)[g] + 1
             /\ \A k \in DOMAIN gs[g] : /\ Firsts(s)[g] + k - 1 \in Firsts(s)[g] .. End(s, g)
                                        /\ gs[g][k] = s[Firsts(s)[g] + k - 1]
  BY <1>2, GroupAt DEF gs
<1>4. gs \in Seq(Seq(Ids))
  BY <1>1, <1>2, <1>3
<1>5. ASSUME NEW g \in DOMAIN gs
      PROVE  gs[g] # <<>> /\ 1 \in DOMAIN gs[g] /\ DOMAIN gs[g] = 1..Len(gs[g])
  BY <1>3
<1>6. \A g \in DOMAIN gs : \A k \in DOMAIN gs[g] : Album(gs[g][k]) = Album(gs[g][1])
  <2> SUFFICES ASSUME NEW g \in DOMAIN gs, NEW k \in DOMAIN gs[g]
               PROVE  Album(gs[g][k]) = Album(gs[g][1])
    OBVIOUS
  <2> DEFINE a == Firsts(s)[g]
             b == End(s, g)
  <2>1. a \in 1..Len(s) /\ b \in 1..Len(s) /\ a + k - 1 \in a .. b /\ a + 1 - 1 = a
    BY <1>3
  <2>2. gs[g][k] = s[a + k - 1] /\ gs[g][1] = s[a]
    BY <1>3, <1>5, <2>1
  <2>3. \A i \in a + 1 .. b : i \notin Begins(s)
    BY <1>2, BetweenFirsts
  <2> HIDE DEF a, b
  <2>4. \A i \in a .. b : Album(s[i]) = Album(s[a])
    BY <2>1, <2>3, SameAlbum
  <2> QED BY <2>1, <2>2, <2>4
<1>7. ASSUME NEW g \in DOMAIN gs, NEW h \in DOMAIN gs, g < h
      PROVE  End(s, g) < Firsts(s)[h]
  <2>1. g \in Nat /\ h \in Nat /\ 1 <= g /\ h <= Len(Firsts(s)) /\ Len(Firsts(s)) \in Nat
        /\ DOMAIN Firsts(s) = 1..Len(Firsts(s))
    BY <1>1, <1>2
  <2>2. g # Len(Firsts(s)) /\ g + 1 \in DOMAIN Firsts(s)
    BY <1>7, <2>1
  <2>3. End(s, g) = Firsts(s)[g + 1] - 1 /\ Firsts(s)[g + 1] \in Nat /\ Firsts(s)[h] \in Nat
    BY <1>1, <1>2, <2>2 DEF End
  <2>4. Firsts(s)[g + 1] <= Firsts(s)[h]
    <3>1. CASE h = g + 1
      BY <3>1, <2>3
    <3>2. CASE g + 1 < h
      <4>1. Firsts(s)[g + 1] < Firsts(s)[h]
        BY <1>1, <1>2, <2>2, <3>2 DEF Sorted
      <4> QED BY <4>1, <2>3
    <3> QED BY <1>7, <2>1, <3>1, <3>2
  <2> QED BY <2>3, <2>4
<1>8. InOrder(gs)
  <2> SUFFICES ASSUME NEW g \in DOMAIN gs, NEW h \in DOMAIN gs, NEW k \in DOMAIN gs[g],
                      NEW l \in DOMAIN gs[h], g < h \/ (g = h /\ k < l)
               PROVE  gs[g][k] < gs[h][l]
    BY DEF InOrder
  <2> DEFINE i == Firsts(s)[g] + k - 1
             j == Firsts(s)[h] + l - 1
  <2>1. /\ gs[g][k] = s[i] /\ i \in Firsts(s)[g] .. End(s, g)
        /\ gs[h][l] = s[j] /\ j \in Firsts(s)[h] .. End(s, h)
    BY <1>3
  <2>2. /\ Firsts(s)[g] \in 1..Len(s) /\ End(s, g) \in 1..Len(s)
        /\ Firsts(s)[h] \in 1..Len(s) /\ End(s, h) \in 1..Len(s)
    BY <1>3
  <2>3. i < j
    <3>1. CASE g < h
      <4>1. End(s, g) < Firsts(s)[h]
        BY <1>7, <3>1
      <4> HIDE DEF i, j
      <4> QED BY <2>1, <2>2, <4>1
    <3>2. CASE g = h /\ k < l
      <4>1. k \in Nat /\ l \in Nat
        BY <1>5
      <4> QED BY <2>2, <3>2, <4>1
    <3> QED BY <3>1, <3>2
  <2> HIDE DEF i, j
  <2>4. i \in DOMAIN s /\ j \in DOMAIN s
    BY <1>1, <2>1, <2>2
  <2> QED BY <2>1, <2>3, <2>4 DEF Sorted
<1>9. Members(gs) = ToSet(s)
  <2>1. ASSUME NEW g \in DOMAIN gs, NEW k \in DOMAIN gs[g]
        PROVE  gs[g][k] \in ToSet(s)
    <3>1. gs[g][k] = s[Firsts(s)[g] + k - 1] /\ Firsts(s)[g] + k - 1 \in 1..Len(s)
      BY <1>3
    <3> QED BY <1>1, <3>1 DEF ToSet
  <2>2. ASSUME NEW i \in DOMAIN s
        PROVE  s[i] \in Members(gs)
    <3>1. PICK g \in DOMAIN Firsts(s) : i \in Firsts(s)[g] .. End(s, g)
      BY PlaceInGroup
    <3>2. g \in DOMAIN gs
      BY <1>2
    <3> DEFINE k == i - Firsts(s)[g] + 1
    <3>3. Firsts(s)[g] \in Nat /\ End(s, g) \in Nat /\ i \in Nat
      BY <1>1, <1>3, <3>2
    <3>4. k \in 1..Len(gs[g]) /\ Firsts(s)[g] + k - 1 = i
      BY <1>3, <3>1, <3>2, <3>3
    <3> HIDE DEF k
    <3>5. k \in DOMAIN gs[g] /\ gs[g][k] = s[i]
      BY <1>3, <1>5, <3>2, <3>4
    <3> QED BY <3>2, <3>5 DEF Members, ToSet
  <2> QED BY <2>1, <2>2 DEF Members, ToSet
<1>10. ASSUME NEW g \in DOMAIN gs, NEW h \in DOMAIN gs, h = g + 1, Album(gs[g][1]) # 0
       PROVE  Album(gs[h][1]) # Album(gs[g][1])
  <2>1. g \in Nat /\ 1 <= g /\ h <= Len(Firsts(s)) /\ Len(Firsts(s)) \in Nat
    BY <1>1, <1>2
  <2>2. End(s, g) = Firsts(s)[h] - 1
    BY <1>10, <2>1 DEF End
  <2>3. /\ Firsts(s)[g] \in 1..Len(s) /\ End(s, g) \in 1..Len(s) /\ Firsts(s)[g] <= End(s, g)
        /\ Firsts(s)[h] \in 1..Len(s) /\ Firsts(s)[h] \in Begins(s)
    BY <1>1, <1>2, <1>3
  <2> DEFINE k == End(s, g) - Firsts(s)[g] + 1
             j == Firsts(s)[h]
  <2>4. k \in DOMAIN gs[g] /\ gs[g][k] = s[j - 1]
    <3>1. Firsts(s)[g] + k - 1 = j - 1
      BY <2>2, <2>3
    <3>2. k \in 1..Len(gs[g])
      BY <1>3, <2>3
    <3> HIDE DEF k, j
    <3>3. k \in DOMAIN gs[g]
      BY <1>5, <3>2
    <3>4. gs[g][k] = s[Firsts(s)[g] + k - 1]
      BY <1>3, <3>3
    <3> QED BY <3>1, <3>3, <3>4
  <2>5. gs[h][1] = s[j]
    <3>1. j + 1 - 1 = j
      BY <2>3
    <3> QED BY <1>3, <1>5, <3>1
  <2>6. j # 1
    BY <2>2, <2>3
  <2> HIDE DEF k, j
  <2>7. Album(s[j]) = 0 \/ Album(s[j]) # Album(s[j - 1])
    BY <2>3, <2>6 DEF Begins, j
  <2> QED BY <1>6, <1>10, <2>4, <2>5, <2>7
<1> QED BY <1>4, <1>5, <1>6, <1>8, <1>9, <1>10 DEF Grouped, gs

Before(S, T) == \A x \in S, y \in T : x < y

\* The first group and the others, the last group and the others.
LEMMA HeadTail ==
  ASSUME NEW gs \in Seq(Seq(Ids)), InOrder(gs), gs # <<>>
  PROVE  /\ Head(gs) \in Seq(Ids) /\ Sorted(Head(gs))
         /\ Tail(gs) \in Seq(Seq(Ids)) /\ InOrder(Tail(gs))
         /\ Members(gs) = ToSet(Head(gs)) \union Members(Tail(gs))
         /\ Before(ToSet(Head(gs)), Members(Tail(gs)))
         /\ \A g \in DOMAIN Tail(gs) : \E h \in DOMAIN gs : Tail(gs)[g] = gs[h]
         /\ \E h \in DOMAIN gs : Head(gs) = gs[h]
<1>1. /\ Len(gs) \in Nat /\ DOMAIN gs = 1..Len(gs) /\ Len(gs) # 0
      /\ \A g \in 1..Len(gs) : gs[g] \in Seq(Ids)
  OBVIOUS
<1>2. /\ Head(gs) = gs[1] /\ Tail(gs) \in Seq(Seq(Ids)) /\ 1 \in DOMAIN gs
      /\ DOMAIN Tail(gs) = 1 .. Len(gs) - 1
      /\ \A g \in 1 .. Len(gs) - 1 : Tail(gs)[g] = gs[g + 1]
  BY <1>1
<1> DEFINE t == Tail(gs)
<1> HIDE DEF t
<1>3. \A g \in DOMAIN t : g + 1 \in DOMAIN gs /\ t[g] = gs[g + 1] /\ 1 < g + 1 /\ g \in Nat
  BY <1>1, <1>2 DEF t
<1>4. Sorted(Head(gs))
  BY <1>2 DEF InOrder, Sorted
<1>5. InOrder(t)
  <2> SUFFICES ASSUME NEW i \in DOMAIN t, NEW j \in DOMAIN t, NEW k \in DOMAIN t[i], NEW l \in DOMAIN t[j],
                      i < j \/ (i = j /\ k < l)
               PROVE  t[i][k] < t[j][l]
    BY DEF InOrder
  <2>1. i + 1 < j + 1 \/ (i + 1 = j + 1 /\ k < l)
    BY <1>3
  <2> QED BY <1>3, <2>1 DEF InOrder
<1>6. Members(gs) = ToSet(Head(gs)) \union Members(t)
  <2>1. ASSUME NEW g \in DOMAIN gs
        PROVE  g = 1 \/ (g - 1 \in DOMAIN t /\ t[g - 1] = gs[g])
    <3>1. CASE g # 1
      <4>1. g - 1 \in 1 .. Len(gs) - 1 /\ (g - 1) + 1 = g
        BY <1>1, <3>1
      <4> QED BY <1>2, <4>1 DEF t
    <3> QED BY <3>1
  <2>2. Members(gs) \subseteq ToSet(gs[1]) \union Members(t)
    BY <2>1 DEF Members
  <2>3. Members(t) \subseteq Members(gs)
    BY <1>3 DEF Members
  <2>4. ToSet(gs[1]) \subseteq Members(gs)
    BY <1>2 DEF Members
  <2> QED BY <1>2, <2>2, <2>3, <2>4
<1>7. Before(ToSet(Head(gs)), Members(t))
  <2> SUFFICES ASSUME NEW k \in DOMAIN gs[1], NEW g \in DOMAIN t, NEW l \in DOMAIN t[g]
               PROVE  gs[1][k] < t[g][l]
    BY <1>2 DEF Before, Members, ToSet
  <2> QED BY <1>2, <1>3 DEF InOrder
<1> QED BY <1>2, <1>1, <1>3, <1>4, <1>5, <1>6, <1>7 DEF t

LEMMA FrontLast ==
  ASSUME NEW gs \in Seq(Seq(Ids)), InOrder(gs), gs # <<>>
  PROVE  /\ Last(gs) \in Seq(Ids) /\ Sorted(Last(gs)) /\ Last(gs) = gs[Len(gs)]
         /\ Front(gs) \in Seq(Seq(Ids)) /\ InOrder(Front(gs))
         /\ Members(gs) = Members(Front(gs)) \union ToSet(Last(gs))
         /\ Before(Members(Front(gs)), ToSet(Last(gs)))
         /\ \A g \in DOMAIN Front(gs) : g \in DOMAIN gs /\ g + 1 \in DOMAIN gs /\ Front(gs)[g] = gs[g]
<1>1. /\ Len(gs) \in Nat /\ DOMAIN gs = 1..Len(gs) /\ Len(gs) # 0
      /\ \A g \in 1..Len(gs) : gs[g] \in Seq(Ids)
  OBVIOUS
<1>2. /\ Last(gs) = gs[Len(gs)] /\ Len(gs) \in DOMAIN gs /\ Front(gs) \in Seq(Seq(Ids))
      /\ DOMAIN Front(gs) = 1 .. Len(gs) - 1
      /\ \A g \in 1 .. Len(gs) - 1 : Front(gs)[g] = gs[g]
  BY <1>1 DEF Last, Front
<1> DEFINE f == Front(gs)
           n == Len(gs)
<1> HIDE DEF f
<1>3. \A g \in DOMAIN f : g \in DOMAIN gs /\ f[g] = gs[g] /\ g < n /\ g + 1 \in DOMAIN gs
  BY <1>1, <1>2 DEF f
<1> HIDE DEF n
<1>4. Sorted(gs[n])
  BY <1>2 DEF InOrder, Sorted, n
<1>5. InOrder(f)
  BY <1>3 DEF InOrder
<1>6. Members(gs) = Members(f) \union ToSet(gs[n])
  <2>1. ASSUME NEW g \in DOMAIN gs
        PROVE  g = n \/ (g \in DOMAIN f /\ f[g] = gs[g])
    BY <1>1, <1>2 DEF f, n
  <2>2. n \in DOMAIN gs
    BY <1>2 DEF n
  <2> QED BY <1>3, <2>1, <2>2 DEF Members
<1>7. Before(Members(f), ToSet(gs[n]))
  <2> SUFFICES ASSUME NEW g \in DOMAIN f, NEW l \in DOMAIN f[g], NEW k \in DOMAIN gs[n]
               PROVE  f[g][l] < gs[n][k]
    BY DEF Before, Members, ToSet
  <2>1. n \in DOMAIN gs
    BY <1>2 DEF n
  <2> QED BY <1>3, <2>1 DEF InOrder
<1> QED BY <1>1, <1>2, <1>3, <1>4, <1>5, <1>6, <1>7 DEF f, n

\* Numbers that come after those of a sorted sequence.
LEMMA Joined ==
  ASSUME NEW s \in Seq(Ids), NEW t \in Seq(Ids), Sorted(s), Sorted(t), Before(ToSet(s), ToSet(t))
  PROVE  /\ s \o t \in Seq(Ids) /\ Sorted(s \o t) /\ ToSet(s \o t) = ToSet(s) \union ToSet(t)
         /\ Len(s \o t) = Len(s) + Len(t)
<1>1. /\ Len(s) \in Nat /\ Len(t) \in Nat /\ DOMAIN s = 1..Len(s) /\ DOMAIN t = 1..Len(t)
      /\ s \o t \in Seq(Ids) /\ Len(s \o t) = Len(s) + Len(t)
      /\ DOMAIN (s \o t) = 1 .. Len(s) + Len(t)
      /\ \A i \in 1 .. Len(s) + Len(t) :
           (s \o t)[i] = IF i <= Len(s) THEN s[i] ELSE t[i - Len(s)]
  OBVIOUS
<1> DEFINE q == s \o t
           n == Len(s)
<1> HIDE DEF q, n
<1>2. \A i \in DOMAIN q : (i <= n /\ i \in DOMAIN s /\ q[i] = s[i])
                            \/ (i > n /\ i - n \in DOMAIN t /\ q[i] = t[i - n])
  BY <1>1 DEF q, n
<1>3. Sorted(q)
  <2> SUFFICES ASSUME NEW i \in DOMAIN q, NEW j \in DOMAIN q, i < j
               PROVE  q[i] < q[j]
    BY DEF Sorted
  <2>1. i \in Nat /\ j \in Nat /\ n \in Nat
    BY <1>1 DEF q, n
  <2>2. CASE j <= n
    BY <1>2, <2>1, <2>2 DEF Sorted
  <2>3. CASE i > n
    <3>1. i - n < j - n
      BY <2>1
    <3> QED BY <1>2, <2>1, <2>3, <3>1 DEF Sorted
  <2>4. CASE i <= n /\ j > n
    <3>1. q[i] \in ToSet(s) /\ q[j] \in ToSet(t)
      BY <1>2, <2>1, <2>4 DEF ToSet
    <3> QED BY <3>1 DEF Before
  <2> QED BY <2>1, <2>2, <2>3, <2>4
<1>4. ToSet(q) = ToSet(s) \union ToSet(t)
  <2>1. ASSUME NEW i \in DOMAIN s
        PROVE  i \in DOMAIN q /\ q[i] = s[i]
    BY <1>1 DEF q
  <2>2. ASSUME NEW i \in DOMAIN t
        PROVE  n + i \in DOMAIN q /\ q[n + i] = t[i]
    <3>1. i \in Nat /\ n + i \in 1 .. Len(s) + Len(t) /\ (n + i) - Len(s) = i /\ ~(n + i <= Len(s))
      BY <1>1 DEF n
    <3> QED BY <1>1, <3>1 DEF q
  <2> QED BY <1>2, <2>1, <2>2 DEF ToSet
<1> QED BY <1>1, <1>3, <1>4 DEF q

\* Sets of ids.
LEMMA IdSets ==
  /\ EndId \in Nat /\ ChunkSize \in Nat \ {0} /\ Ids = 1..EndId
  /\ \A S \in SUBSET Ids : IsFiniteSet(S) /\ Cardinality(S) \in Nat
  /\ \A S, T \in SUBSET Ids : S \intersect T = {}
       => Cardinality(S \union T) = Cardinality(S) + Cardinality(T)
<1>1. EndId \in Nat /\ ChunkSize \in Nat \ {0} /\ Ids = 1..EndId
  BY HistoryAssumption DEF HistoryAssumption, Ids
<1>2. IsFiniteSet(Ids)
  BY <1>1, FS_Interval
<1>3. \A S \in SUBSET Ids : IsFiniteSet(S)
  BY <1>2, FS_Subset
<1>4. \A S \in SUBSET Ids : Cardinality(S) \in Nat
  BY <1>3, FS_CardinalityType
<1>5. ASSUME NEW S \in SUBSET Ids, NEW T \in SUBSET Ids, S \intersect T = {}
      PROVE  Cardinality(S \union T) = Cardinality(S) + Cardinality(T)
  <2>1. Cardinality(S \union T) = Cardinality(S) + Cardinality(T) - Cardinality(S \intersect T)
    BY <1>3, FS_Union
  <2>2. Cardinality(S \intersect T) = 0
    BY <1>5, FS_EmptySet
  <2> QED BY <1>4, <2>1, <2>2
<1> QED BY <1>1, <1>3, <1>4, <1>5

LEMMA Apart ==
  ASSUME NEW S \in SUBSET Ids, NEW T \in SUBSET Ids, Before(S, T)
  PROVE  S \intersect T = {}
BY IdSets DEF Before

LEMMA MembersType ==
  ASSUME NEW gs \in Seq(Seq(Ids))
  PROVE  Members(gs) \in SUBSET Ids
BY DEF Members, ToSet

LEMMA BatchIs ==
  ASSUME NEW c \in Nat \ {0}
  PROVE  Batch(c) = {m \in Ids : c <= m /\ m < c + ChunkSize}
<1>1. EndId \in Nat /\ ChunkSize \in Nat \ {0} /\ Ids = 1..EndId
  BY IdSets
<1> QED BY <1>1 DEF Batch
-----------------------------------------------------------------------------
(* What a job that reads has handed on, still holds and has counted.        *)

Running == {"setup", "read", "fetch", "emit", "deliver"}

DataTypes ==
  /\ source \in Sources /\ raised \in BOOLEAN
  /\ chunk \in Nat \ {0}
  /\ held \in Seq(Ids) /\ groups \in Seq(Seq(Ids)) /\ passed \in Seq(Seq(Ids))
  /\ outcome \in [Counters -> Nat]
  /\ result \in {"none", "completed", "partial_failed", "failed", "stopped"}
  /\ failedChunks \subseteq Ids /\ lost \subseteq Ids
  /\ stops \in Nat /\ failures \in Nat

\* The messages that have been looked at, and those of them that were read.
Below     == {m \in Ids : m < chunk}
Failed    == UNION {Batch(c) : c \in failedChunks}
ReadBelow == {m \in Below : source[m].state # "gone"} \ (lost \union Failed)

\* Groups that are still to be handed on.
Waiting(l) == IF l = "deliver" THEN Tail(groups) ELSE groups

Sum(o) == o["sent"] + o["skipped"] + o["failed"] + o["unmapped"]

Places(l) ==
  /\ l = "fetch" => chunk <= EndId
  /\ l \in {"setup", "read", "fetch"} => groups = <<>>
  /\ l = "deliver" => groups # <<>>
  /\ chunk > EndId => held = <<>>
  /\ lost \subseteq Below /\ \A c \in failedChunks : c + ChunkSize <= chunk
  /\ outcome["batches"] = 0 => failedChunks = {}

\* What was handed on comes before what waits, and that before the album that is
\* kept back.
Ordered(l) ==
  /\ InOrder(groups) /\ Sorted(held) /\ InOrder(passed)
  /\ \A g \in DOMAIN groups : groups[g] # <<>>
  /\ Before(Members(groups), ToSet(held))
  /\ Before(Members(passed), Members(Waiting(l)) \union ToSet(held))
  /\ Members(passed) \union Members(groups) \union ToSet(held) \subseteq Below
  /\ l = "deliver" => ToSet(Head(groups)) \subseteq Members(passed)

\* Nothing that is selected gets lost on the way, unless a batch could not be read.
Handed ==
  failedChunks = {} =>
    Members(passed) \union Members(groups) \union ToSet(held) = Selected(Below) \ lost

\* What is counted and what is still to be counted is what was read.
Counted ==
  \/ stopRequested
  \/ Sum(outcome) + Cardinality(Members(groups)) + Len(held) = Cardinality(ReadBelow)

Run(l) == result = "none" /\ Places(l) /\ Ordered(l) /\ Handed /\ Counted

Ended == Accounted /\ CompletedTells

ReadInv == DataTypes /\ Ended /\ \A r \in Requests, l \in Running : pc[r] = l => Run(l)

LEMMA Alone ==
  ASSUME IInv, NEW r \in Requests, pc[r] \in Active
  PROVE  \A s \in Requests : s # r => pc[s] \notin Active
BY DEF IInv, Session, SessionExclusive

\* A step of the one job.
LEMMA RunStep ==
  ASSUME IInv, NEW r \in Requests, pc[r] \in Active, NEW l, Goto(r, l), DataTypes',
         l \in Running => Run(l)', l \notin Running => Ended'
  PROVE  ReadInv'
<1>1. pc' = [pc EXCEPT ![r] = l]
  BY DEF Goto
<1>2. ASSUME NEW s \in Requests, NEW k \in Running, pc'[s] = k
      PROVE  Run(k)'
  <2>1. CASE s = r
    <3>1. k = l
      BY <1>1, <1>2, <2>1 DEF IInv, SessionTypes
    <3> QED BY <1>2, <3>1
  <2>2. CASE s # r
    <3>1. pc[s] = k
      BY <1>1, <1>2, <2>2 DEF IInv, SessionTypes
    <3>2. k \in Active
      BY DEF Running, Active
    <3> QED BY <2>2, <3>1, <3>2, Alone
  <2> QED BY <2>1, <2>2
<1>3. Ended'
  <2>1. CASE l \in Running
    BY <2>1 DEF Run, Ended, Accounted, CompletedTells
  <2> QED BY <2>1
<1> QED BY <1>2, <1>3 DEF ReadInv

\* A step of someone else, or of a job that does not read.
LEMMA SameData ==
  ASSUME ReadInv, UNCHANGED <<source, reading, told, history>>, {stops', failures'} \subseteq Nat,
         \A r \in Requests : pc'[r] \in Running => pc[r] = pc'[r],
         stopRequested => stopRequested' \/ \A r \in Requests : pc'[r] \notin Running
  PROVE  ReadInv'
<1>1. DataTypes'
  BY DEF ReadInv, DataTypes
<1>2. Ended'
  BY DEF ReadInv, Ended, Accounted, CompletedTells, InOrder, Members, Read, Selected, Batch, Ids
<1>3. ASSUME NEW r \in Requests, NEW l \in Running, pc'[r] = l
      PROVE  Run(l)'
  <2>1. Run(l)
    BY <1>3 DEF ReadInv
  <2>2. Places(l)' /\ Ordered(l)' /\ Handed'
    <3>1. /\ UNCHANGED <<Below, Waiting(l), Members(passed), Members(groups), ToSet(held)>>
          /\ UNCHANGED <<Selected(Below), InOrder(groups), InOrder(passed), Sorted(held)>>
      BY DEF Below, Waiting, Members, Selected, InOrder, Sorted
    <3>2. Places(l)'
      BY <2>1, <3>1 DEF Run, Places
    <3>3. Ordered(l)'
      <4>1. UNCHANGED <<Before(Members(groups), ToSet(held)),
                        Before(Members(passed), Members(Waiting(l)) \union ToSet(held))>>
        BY <3>1 DEF Before, Members, Waiting
      <4> QED BY <2>1, <3>1, <4>1 DEF Run, Ordered
    <3>4. Handed'
      BY <2>1, <3>1 DEF Run, Handed
    <3> QED BY <3>2, <3>3, <3>4
  <2>3. Counted'
    <3>1. stopRequested => stopRequested'
      BY <1>3
    <3>2. UNCHANGED <<Sum(outcome), Members(groups), Len(held), ReadBelow>>
      BY DEF Sum, Members, ReadBelow, Below, Failed, Batch
    <3> QED BY <2>1, <3>1, <3>2 DEF Run, Counted
  <2> QED BY <2>1, <2>2, <2>3 DEF Run
<1> QED BY <1>1, <1>2, <1>3 DEF ReadInv

LEMMA RecordSum ==
  ASSUME NEW o \in [Counters -> Nat], NEW res \in Results, NEW n \in Nat
  PROVE  /\ Record(o, res, n) \in [Counters -> Nat]
         /\ Sum(Record(o, res, n)) = Sum(o) + n
         /\ Record(o, res, n)["batches"] = o["batches"]
<1>1. Counter(res) \in {"sent", "skipped", "failed", "unmapped"}
  BY DEF Counter, Results
<1>2. \A c \in Counters : o[c] \in Nat
  OBVIOUS
<1>3. Record(o, res, n) = [o EXCEPT ![Counter(res)] = o[Counter(res)] + n]
  BY DEF Record
<1>4. o[Counter(res)] + n \in Nat
  BY <1>1, <1>2 DEF Counters
<1>5. Record(o, res, n) \in [Counters -> Nat]
  BY <1>3, <1>4
<1>6. \A c \in Counters : Record(o, res, n)[c] = IF c = Counter(res) THEN o[c] + n ELSE o[c]
  BY <1>3
<1> QED BY <1>1, <1>2, <1>5, <1>6 DEF Sum, Counters
-----------------------------------------------------------------------------
(* The steps of a job, and what it has read.                                *)

LEMMA StatusType ==
  ASSUME NEW o, NEW error, NEW stopped
  PROVE  /\ Status(o, error, stopped) \in {"completed", "partial_failed", "failed", "stopped"}
         /\ stopped => Status(o, error, stopped) = "stopped"
         /\ error => Status(o, error, stopped) # "completed"
BY DEF Status

\* A job that is stopped or raises says nothing of completion.
LEMMA CutShort ==
  ASSUME IInv, ReadInv, NEW r \in Requests, pc[r] \in Active,
         NEW o \in [Counters -> Nat], NEW error \in BOOLEAN, EndJob(r, o, error),
         error \/ stopRequested, UNCHANGED <<source, passed>>,
         failedChunks' \subseteq Ids, lost' \subseteq Ids, {stops', failures'} \subseteq Nat
  PROVE  ReadInv'
<1>1. /\ Goto(r, "logging") /\ outcome' = o /\ raised' = error
      /\ result' = Status(o, error, stopRequested)
      /\ groups' = <<>> /\ held' = <<>> /\ UNCHANGED chunk
  BY DEF EndJob
<1>2. DataTypes'
  BY <1>1, StatusType DEF ReadInv, DataTypes
<1>3. Ended'
  BY <1>1, StatusType DEF Ended, Accounted, CompletedTells
<1> QED BY <1>1, <1>2, <1>3, RunStep DEF Running

LEMMA BeginRead ==
  ASSUME IInv, ReadInv, NEW r \in Requests, Begin(r)
  PROVE  ReadInv'
<1>1. /\ pc[r] = "queued" /\ outcome' = NoCounts /\ raised' = FALSE
      /\ passed' = <<>> /\ failedChunks' = {} /\ lost' = {} /\ UNCHANGED <<source, bounds>>
  BY DEF Begin
<1>2. NoCounts \in [Counters -> Nat] /\ Sum(NoCounts) = 0
  BY DEF NoCounts, Sum, Counters
<1>5. /\ <<>> \in Seq(Ids) /\ <<>> \in Seq(Seq(Ids)) /\ FALSE \in BOOLEAN
      /\ {stops', failures'} \subseteq Nat /\ source' \in Sources
  BY <1>1 DEF ReadInv, DataTypes
<1>3. CASE StoppedEarly
  <2>1. Goto(r, "done") /\ result' = "stopped" /\ UNCHANGED reading
    BY <1>3 DEF Begin, Release
  <2>2. DataTypes'
    BY <1>1, <1>2, <1>5, <2>1 DEF ReadInv, DataTypes
  <2>3. Ended'
    BY <2>1 DEF Ended, Accounted, CompletedTells
  <2> QED BY <1>1, <2>1, <2>2, <2>3, RunStep DEF Running, Active
<1>4. CASE ~StoppedEarly
  <2>1. /\ Goto(r, "setup") /\ result' = "none"
        /\ chunk' = 1 /\ held' = <<>> /\ groups' = <<>>
    BY <1>4 DEF Begin
  <2>2. DataTypes'
    <3>1. chunk' \in Nat \ {0} /\ result' \in {"none"}
      BY <2>1
    <3>2. held' \in Seq(Ids) /\ groups' \in Seq(Seq(Ids)) /\ passed' \in Seq(Seq(Ids))
      BY <1>1, <1>5, <2>1
    <3>3. /\ outcome' \in [Counters -> Nat] /\ raised' \in BOOLEAN
          /\ failedChunks' \subseteq Ids /\ lost' \subseteq Ids
      BY <1>1, <1>2
    <3> QED BY <1>5, <3>1, <3>2, <3>3 DEF DataTypes
  <2>3. Below' = {} /\ Members(passed)' = {} /\ Members(groups)' = {} /\ ToSet(held)' = {}
    <3>1. \A m \in Ids : ~(m < 1)
      BY IdSets
    <3> QED BY <1>1, <2>1, <3>1 DEF Below, Members, ToSet
  <2>4. Places("setup")'
    BY <1>1, <2>1 DEF Places
  <2>5. Ordered("setup")'
    BY <1>1, <2>1, <2>3 DEF Ordered, InOrder, Sorted, Before
  <2>6. Handed'
    BY <2>3 DEF Handed, Selected
  <2>7. Counted'
    <3>1. ReadBelow' = {}
      BY <2>3 DEF ReadBelow
    <3>2. Len(held') = 0 /\ Cardinality({}) = 0
      BY <2>1, FS_EmptySet
    <3> QED BY <1>1, <1>2, <2>3, <3>1, <3>2 DEF Counted
  <2>8. Run("setup")'
    BY <2>1, <2>4, <2>5, <2>6, <2>7 DEF Run
  <2> QED BY <1>1, <2>1, <2>2, <2>8, RunStep DEF Running, Active
<1> QED BY <1>3, <1>4

\* What is read stays as it is when a job goes to another label of the same kind.
LEMMA Moves ==
  ASSUME IInv, ReadInv, NEW r \in Requests, NEW k \in Running \ {"deliver"},
         NEW l \in Running \ {"deliver"}, pc[r] = k, Goto(r, l),
         UNCHANGED <<source, reading, told, history, stopRequested>>, {stops', failures'} \subseteq Nat,
         l = "fetch" => chunk <= EndId, l \in {"setup", "read", "fetch"} => groups = <<>>
  PROVE  ReadInv'
<1>1. DataTypes'
  BY DEF ReadInv, DataTypes
<1>2. Run(k)
  BY DEF ReadInv
<1>3. /\ UNCHANGED <<Below, Members(passed), Members(groups), ToSet(held), ReadBelow, Sum(outcome)>>
      /\ UNCHANGED <<Selected(Below), InOrder(groups), InOrder(passed), Sorted(held)>>
      /\ Waiting(l)' = groups /\ Waiting(k) = groups
  BY DEF Below, Waiting, Members, Selected, InOrder, Sorted, ReadBelow, Failed, Batch, Sum
<1>4. Places(l)'
  BY <1>2, <1>3 DEF Run, Places
<1>5. Ordered(l)'
  <2>1. /\ UNCHANGED Before(Members(groups), ToSet(held))
        /\ Before(Members(passed), Members(Waiting(l)) \union ToSet(held))'
             = Before(Members(passed), Members(Waiting(k)) \union ToSet(held))
    BY <1>3 DEF Before, Members, Waiting
  <2> QED BY <1>2, <1>3, <2>1 DEF Run, Ordered
<1>6. Handed' /\ Counted'
  BY <1>2, <1>3 DEF Run, Handed, Counted
<1>7. Run(l)'
  BY <1>2, <1>4, <1>5, <1>6 DEF Run
<1>8. k \in Active
  BY DEF Running, Active
<1> QED BY <1>1, <1>7, <1>8, RunStep

LEMMA SetupRead ==
  ASSUME IInv, ReadInv, NEW r \in Requests, Setup(r)
  PROVE  ReadInv'
<1>1. /\ pc[r] = "setup" /\ "setup" \in Running /\ "setup" \in Active
      /\ UNCHANGED <<source, flags, history, bounds>>
  BY DEF Setup, Running, Active
<1>2. CASE Goto(r, "read") /\ UNCHANGED <<reading, told>>
  <2>1. groups = <<>>
    BY <1>1 DEF ReadInv, Run, Places
  <2>2. {stops', failures'} \subseteq Nat
    BY <1>1 DEF ReadInv, DataTypes
  <2> QED BY <1>1, <1>2, <2>1, <2>2, Moves DEF Running
<1>3. CASE EndJob(r, outcome, TRUE)
  <2>1. /\ outcome \in [Counters -> Nat] /\ TRUE \in BOOLEAN /\ UNCHANGED <<source, passed>>
        /\ failedChunks' \subseteq Ids /\ lost' \subseteq Ids /\ {stops', failures'} \subseteq Nat
    BY <1>1 DEF ReadInv, DataTypes
  <2> QED BY <1>1, <1>3, <2>1, CutShort
<1> QED BY <1>2, <1>3 DEF Setup

\* A job that comes to the end of the range has counted all it read.
LEMMA ReadNextRead ==
  ASSUME IInv, ReadInv, NEW r \in Requests, ReadNext(r)
  PROVE  ReadInv'
<1>1. /\ pc[r] = "read" /\ "read" \in Running /\ "read" \in Active
      /\ UNCHANGED <<source, flags, history, bounds>>
  BY DEF ReadNext, Running, Active
<1>2. Run("read") /\ groups = <<>>
  BY <1>1 DEF ReadInv, Run, Places
<1>3. /\ outcome \in [Counters -> Nat] /\ UNCHANGED <<source, passed>> /\ chunk \in Nat
      /\ failedChunks' \subseteq Ids /\ lost' \subseteq Ids /\ {stops', failures'} \subseteq Nat
  BY <1>1 DEF ReadInv, DataTypes
<1>4. CASE stopRequested
  <2>1. EndJob(r, outcome, FALSE)
    BY <1>4 DEF ReadNext
  <2> QED BY <1>1, <1>3, <1>4, <2>1, CutShort
<1>5. CASE ~stopRequested /\ chunk > EndId
  <2>1. /\ Goto(r, "logging") /\ outcome' = outcome /\ raised' = FALSE
        /\ result' = Status(outcome, FALSE, stopRequested)
        /\ groups' = <<>> /\ held' = <<>> /\ UNCHANGED chunk
    BY <1>5 DEF ReadNext, EndJob
  <2>2. held = <<>> /\ Members(groups) = {} /\ ToSet(held) = {}
    BY <1>2, <1>5 DEF Run, Places, Members, ToSet
  <2>3. Below = Ids /\ ReadBelow = Read
    <3>1. Below = Ids
      BY <1>3, <1>5, IdSets DEF Below
    <3> QED BY <3>1 DEF ReadBelow, Read, Failed
  <2>4. UNCHANGED <<Read, Members(passed), Selected(Ids), InOrder(passed)>>
    BY <1>1 DEF Read, Members, Selected, InOrder, Batch, Ids
  <2>5. Accounted'
    <3>1. Sum(outcome) + 0 + 0 = Cardinality(Read)
      <4>1. Len(held) = 0 /\ Cardinality({}) = 0
        BY <2>2, FS_EmptySet
      <4> QED BY <1>2, <1>5, <2>2, <2>3, <4>1 DEF Run, Counted
    <3>2. Sum(outcome) \in Nat
      BY <1>3 DEF Sum, Counters
    <3>3. Sum(outcome) = Cardinality(Read)
      BY <3>1, <3>2
    <3> QED BY <2>1, <2>4, <3>3 DEF Accounted, Sum
  <2>6. CompletedTells'
    <3> SUFFICES ASSUME result' = "completed"
                 PROVE  InOrder(passed) /\ Members(passed) = Selected(Ids) \ lost
      BY <1>1, <2>4 DEF CompletedTells
    <3>1. ~(outcome["failed"] + outcome["batches"] + outcome["unmapped"] > 0)
      BY <2>1 DEF Status
    <3>2. \A c \in {"failed", "batches", "unmapped"} : outcome[c] \in Nat
      BY <1>3 DEF Counters
    <3>3. outcome["batches"] = 0
      BY <3>1, <3>2
    <3>4. failedChunks = {}
      BY <1>2, <3>3 DEF Run, Places
    <3> QED BY <1>2, <2>2, <2>3, <3>4 DEF Run, Handed, Ordered
  <2>7. DataTypes'
    <3>1. <<>> \in Seq(Ids) /\ <<>> \in Seq(Seq(Ids)) /\ FALSE \in BOOLEAN
      OBVIOUS
    <3>2. result' \in {"completed", "partial_failed", "failed", "stopped"}
      BY <2>1, StatusType
    <3>3. /\ source' \in Sources /\ chunk' \in Nat \ {0} /\ passed' \in Seq(Seq(Ids))
          /\ outcome' \in [Counters -> Nat]
      BY <1>1, <2>1 DEF ReadInv, DataTypes
    <3> QED BY <1>3, <2>1, <3>1, <3>2, <3>3 DEF DataTypes
  <2> QED BY <1>1, <2>1, <2>5, <2>6, <2>7, RunStep DEF Ended, Running
<1>6. CASE ~stopRequested /\ ~(chunk > EndId)
  <2>1. Goto(r, "fetch") /\ UNCHANGED <<reading, told>>
    BY <1>6 DEF ReadNext
  <2>2. chunk <= EndId
    BY <1>3, <1>6, IdSets
  <2> QED BY <1>1, <1>2, <1>3, <2>1, <2>2, Moves DEF Running
<1> QED BY <1>4, <1>5, <1>6

LEMMA AppendGroup ==
  ASSUME NEW gs \in Seq(Seq(Ids)), NEW s \in Seq(Ids), InOrder(gs), Sorted(s),
         Before(Members(gs), ToSet(s))
  PROVE  /\ Append(gs, s) \in Seq(Seq(Ids)) /\ InOrder(Append(gs, s))
         /\ Members(Append(gs, s)) = Members(gs) \union ToSet(s)
         /\ \A g \in DOMAIN Append(gs, s) : \/ g \in DOMAIN gs /\ Append(gs, s)[g] = gs[g]
                                            \/ Append(gs, s)[g] = s
<1> DEFINE q == Append(gs, s)
           n == Len(gs)
<1>1. /\ q \in Seq(Seq(Ids)) /\ n \in Nat /\ DOMAIN gs = 1..n /\ DOMAIN q = 1 .. n + 1
      /\ \A g \in 1..n : q[g] = gs[g]
      /\ q[n + 1] = s
  OBVIOUS
<1> HIDE DEF q, n
<1>2. \A g \in DOMAIN q : (g \in DOMAIN gs /\ q[g] = gs[g] /\ g <= n) \/ (g = n + 1 /\ q[g] = s)
  BY <1>1
<1>3. InOrder(q)
  <2> SUFFICES ASSUME NEW i \in DOMAIN q, NEW j \in DOMAIN q, NEW k \in DOMAIN q[i], NEW l \in DOMAIN q[j],
                      i < j \/ (i = j /\ k < l)
               PROVE  q[i][k] < q[j][l]
    BY DEF InOrder
  <2>1. CASE i \in DOMAIN gs /\ q[i] = gs[i] /\ j \in DOMAIN gs /\ q[j] = gs[j]
    BY <2>1 DEF InOrder
  <2>2. CASE i \in DOMAIN gs /\ q[i] = gs[i] /\ q[j] = s
    BY <2>2 DEF Before, Members, ToSet
  <2>3. CASE i = n + 1 /\ q[i] = s
    <3>1. j = i
      BY <1>1, <1>2, <2>3
    <3> QED BY <1>1, <2>3, <3>1 DEF Sorted
  <2> QED BY <1>2, <2>1, <2>2, <2>3
<1>4. Members(q) = Members(gs) \union ToSet(s)
  <2>1. n + 1 \in DOMAIN q /\ \A g \in DOMAIN gs : g \in DOMAIN q
    BY <1>1
  <2>2. Members(q) \subseteq Members(gs) \union ToSet(s)
    BY <1>2 DEF Members
  <2>3. Members(gs) \subseteq Members(q)
    BY <1>1, <2>1 DEF Members
  <2>4. ToSet(s) \subseteq Members(q)
    BY <1>1, <2>1 DEF Members
  <2> QED BY <2>2, <2>3, <2>4
<1> QED BY <1>1, <1>2, <1>3, <1>4 DEF q

LEMMA EmitRead ==
  ASSUME IInv, ReadInv, NEW r \in Requests, Emit(r)
  PROVE  ReadInv'
<1>1. /\ pc[r] = "emit" /\ "emit" \in Running /\ "emit" \in Active
      /\ UNCHANGED <<source, flags, failedChunks, lost, bounds>>
  BY DEF Emit, Running, Active
<1>2. Run("emit") /\ DataTypes
  BY <1>1 DEF ReadInv
<1>3. /\ outcome \in [Counters -> Nat] /\ FALSE \in BOOLEAN
      /\ failedChunks' \subseteq Ids /\ lost' \subseteq Ids /\ {stops', failures'} \subseteq Nat
  BY <1>1, <1>2 DEF DataTypes
<1>4. CASE groups = <<>>
  <2>1. Goto(r, "read") /\ UNCHANGED <<reading, told, passed>>
    BY <1>4 DEF Emit
  <2> QED BY <1>1, <1>3, <1>4, <2>1, Moves DEF Running
<1>5. CASE groups # <<>> /\ stopRequested
  <2>1. EndJob(r, outcome, FALSE) /\ UNCHANGED passed
    BY <1>5 DEF Emit
  <2> QED BY <1>1, <1>3, <1>5, <2>1, CutShort
<1>6. CASE groups # <<>> /\ ~stopRequested
  <2>1. Goto(r, "deliver") /\ passed' = Append(passed, Head(groups)) /\ UNCHANGED <<reading, told>>
    BY <1>6 DEF Emit
  <2>2. groups \in Seq(Seq(Ids)) /\ passed \in Seq(Seq(Ids)) /\ InOrder(groups) /\ InOrder(passed)
    BY <1>2 DEF DataTypes, Run, Ordered
  <2>3. /\ Head(groups) \in Seq(Ids) /\ Sorted(Head(groups))
        /\ Members(groups) = ToSet(Head(groups)) \union Members(Tail(groups))
        /\ Before(ToSet(Head(groups)), Members(Tail(groups)))
    BY <1>6, <2>2, HeadTail
  <2>4. /\ Before(Members(passed), Members(groups) \union ToSet(held))
        /\ Before(Members(groups), ToSet(held))
        /\ Members(passed) \union Members(groups) \union ToSet(held) \subseteq Below
    BY <1>2 DEF Run, Ordered, Waiting
  <2>5. /\ passed' \in Seq(Seq(Ids)) /\ InOrder(passed')
        /\ Members(passed') = Members(passed) \union ToSet(Head(groups))
    <3>1. Before(Members(passed), ToSet(Head(groups)))
      BY <2>3, <2>4 DEF Before
    <3> QED BY <2>1, <2>2, <2>3, <3>1, AppendGroup
  <2>6. DataTypes'
    BY <1>1, <1>2, <2>1, <2>5 DEF DataTypes
  <2>7. UNCHANGED <<Below, Members(groups), ToSet(held), ReadBelow, Sum(outcome), Selected(Below)>>
    BY <1>1, <2>1 DEF Below, Members, Selected, ReadBelow, Failed, Batch, Sum
  <2>8. Places("deliver")'
    BY <1>1, <1>2, <1>6, <2>1, <2>7 DEF Run, Places
  <2>9. Ordered("deliver")'
    <3>1. InOrder(groups)' /\ Sorted(held)' /\ InOrder(passed)' /\ \A g \in DOMAIN groups' : groups'[g] # <<>>
      BY <1>2, <2>1, <2>5 DEF Run, Ordered, InOrder, Sorted
    <3>2. Before(Members(groups), ToSet(held))'
      BY <2>1, <2>4 DEF Before, Members
    <3>3. Before(Members(passed), Members(Waiting("deliver")) \union ToSet(held))'
      <4>1. Members(Waiting("deliver"))' = Members(Tail(groups))
        BY <2>1 DEF Waiting, Members
      <4>2. Before(Members(passed'), Members(Tail(groups)) \union ToSet(held))
        BY <2>3, <2>4, <2>5 DEF Before
      <4> QED BY <2>1, <4>1, <4>2 DEF Before, Members
    <3>4. (Members(passed) \union Members(groups) \union ToSet(held) \subseteq Below)'
      BY <2>3, <2>4, <2>5, <2>7 DEF Members
    <3>5. ToSet(Head(groups))' \subseteq Members(passed)'
      BY <2>1, <2>5 DEF Members
    <3> QED BY <3>1, <3>2, <3>3, <3>4, <3>5 DEF Ordered
  <2>10. Handed'
    <3>1. Members(passed)' = Members(passed) \union ToSet(Head(groups))
      BY <2>5 DEF Members
    <3> QED BY <1>1, <1>2, <2>3, <2>7, <3>1 DEF Run, Handed
  <2>11. Counted'
    BY <1>1, <1>2, <2>1, <2>7 DEF Run, Counted
  <2>12. Run("deliver")'
    BY <1>2, <2>1, <2>8, <2>9, <2>10, <2>11 DEF Run
  <2> QED BY <1>1, <2>1, <2>6, <2>12, RunStep DEF Running
<1> QED BY <1>4, <1>5, <1>6

\* The group that was handed on is counted message by message.
LEMMA DeliveredRead ==
  ASSUME IInv, ReadInv, NEW r \in Requests, Delivered(r)
  PROVE  ReadInv'
<1> DEFINE size == Len(Head(groups))
<1>1. /\ pc[r] = "deliver" /\ "deliver" \in Running /\ "deliver" \in Active
      /\ Goto(r, "emit") /\ groups' = Tail(groups)
      /\ UNCHANGED <<source, flags, chunk, held, result, raised, history, bounds>>
  BY DEF Delivered, Running, Active
<1>2. Run("deliver") /\ DataTypes /\ groups # <<>>
  BY <1>1 DEF ReadInv, Run, Places
<1>3. groups \in Seq(Seq(Ids)) /\ InOrder(groups) /\ outcome \in [Counters -> Nat]
  BY <1>2 DEF DataTypes, Run, Ordered
<1>4. /\ Head(groups) \in Seq(Ids) /\ Sorted(Head(groups))
      /\ Tail(groups) \in Seq(Seq(Ids)) /\ InOrder(Tail(groups))
      /\ Members(groups) = ToSet(Head(groups)) \union Members(Tail(groups))
      /\ Before(ToSet(Head(groups)), Members(Tail(groups)))
      /\ \A g \in DOMAIN Tail(groups) : \E h \in DOMAIN groups : Tail(groups)[g] = groups[h]
  BY <1>2, <1>3, HeadTail
<1>5. PICK known \in (IF size = 1 THEN {0} ELSE 0..size), res \in Results :
        outcome' = IF res = "failed" /\ stopRequested THEN Record(outcome, "skipped", known)
                   ELSE Record(Record(outcome, "skipped", known), res, size - known)
  BY DEF Delivered
<1>6. size \in Nat /\ known \in Nat /\ size - known \in Nat /\ "skipped" \in Results
  BY <1>4, <1>5 DEF Results
<1> DEFINE counted == Record(outcome, "skipped", known)
<1>7. /\ counted \in [Counters -> Nat] /\ Sum(counted) = Sum(outcome) + known
      /\ counted["batches"] = outcome["batches"]
  BY <1>3, <1>6, RecordSum
<1>8. outcome' = IF res = "failed" /\ stopRequested THEN counted ELSE Record(counted, res, size - known)
  BY <1>5
<1> HIDE DEF size, counted
<1>9. /\ Record(counted, res, size - known) \in [Counters -> Nat]
      /\ Sum(Record(counted, res, size - known)) = Sum(counted) + (size - known)
      /\ Record(counted, res, size - known)["batches"] = counted["batches"]
  BY <1>6, <1>7, RecordSum
<1>10. Sum(outcome) \in Nat
  BY <1>3 DEF Sum, Counters
<1>11. /\ outcome' \in [Counters -> Nat] /\ outcome'["batches"] = outcome["batches"]
       /\ stopRequested \/ Sum(outcome') = Sum(outcome) + size
  <2>1. CASE res = "failed" /\ stopRequested
    BY <1>7, <1>8, <2>1
  <2>2. CASE ~(res = "failed" /\ stopRequested)
    BY <1>6, <1>7, <1>8, <1>9, <1>10, <2>2
  <2> QED BY <2>1, <2>2
<1>12. DataTypes'
  BY <1>1, <1>2, <1>4, <1>11 DEF DataTypes
<1>13. UNCHANGED <<Below, Members(passed), ToSet(held), ReadBelow, Selected(Below)>>
  BY <1>1 DEF Below, Members, Selected, ReadBelow, Failed, Batch
<1>14. Places("emit")'
  BY <1>1, <1>2, <1>11, <1>13 DEF Run, Places
<1>15. Members(groups)' = Members(Tail(groups))
  BY <1>1 DEF Members
<1>16. Ordered("emit")'
  <2>1. InOrder(groups)' /\ Sorted(held)' /\ InOrder(passed)'
    BY <1>1, <1>2, <1>4 DEF Run, Ordered, InOrder, Sorted
  <2>2. \A g \in DOMAIN groups' : groups'[g] # <<>>
    BY <1>1, <1>2, <1>4 DEF Run, Ordered
  <2>3. Before(Members(groups'), ToSet(held'))
    BY <1>1, <1>2, <1>4 DEF Run, Ordered, Before
  <2>4. Before(Members(passed'), Members(Waiting("emit")') \union ToSet(held'))
    BY <1>1, <1>2 DEF Run, Ordered, Waiting, Before
  <2>5. Members(passed') \union Members(groups') \union ToSet(held') \subseteq Below'
    BY <1>1, <1>2, <1>4, <1>13 DEF Run, Ordered
  <2>6. /\ Before(Members(groups'), ToSet(held')) = Before(Members(groups), ToSet(held))'
        /\ Before(Members(passed'), Members(Waiting("emit")') \union ToSet(held'))
             = Before(Members(passed), Members(Waiting("emit")) \union ToSet(held))'
        /\ Members(passed') = Members(passed)' /\ Members(groups') = Members(groups)'
    BY DEF Before, Members
  <2> QED BY <2>1, <2>2, <2>3, <2>4, <2>5, <2>6 DEF Ordered
<1>17. Handed'
  BY <1>1, <1>2, <1>4, <1>13, <1>15 DEF Run, Handed, Ordered
<1>18. Counted'
  <2>1. Cardinality(Members(groups)) = size + Cardinality(Members(Tail(groups)))
    <3>1. ToSet(Head(groups)) \in SUBSET Ids /\ Members(Tail(groups)) \in SUBSET Ids
      BY <1>4, MembersType DEF ToSet
    <3>2. ToSet(Head(groups)) \intersect Members(Tail(groups)) = {}
      BY <1>4, <3>1, Apart
    <3>3. Cardinality(ToSet(Head(groups))) = size
      BY <1>4, IdSets, SortedSize DEF size
    <3> QED BY <1>4, <3>1, <3>2, <3>3, IdSets
  <2>2. Cardinality(Members(Tail(groups))) \in Nat /\ Len(held) \in Nat
    BY <1>2, <1>4, MembersType, IdSets DEF DataTypes
  <2>3. CASE stopRequested
    BY <1>1, <2>3 DEF Counted
  <2>4. CASE ~stopRequested
    <3>1. Sum(outcome) + Cardinality(Members(groups)) + Len(held) = Cardinality(ReadBelow)
      BY <1>2, <2>4 DEF Run, Counted
    <3>2. Sum(outcome') + Cardinality(Members(Tail(groups))) + Len(held) = Cardinality(ReadBelow)
      BY <1>6, <1>10, <1>11, <2>1, <2>2, <2>4, <3>1
    <3>3. Sum(outcome)' = Sum(outcome')
      BY DEF Sum
    <3> QED BY <1>1, <1>13, <1>15, <3>2, <3>3 DEF Counted
  <2> QED BY <2>3, <2>4
<1>19. Run("emit")'
  BY <1>1, <1>2, <1>14, <1>16, <1>17, <1>18 DEF Run
<1>20. "emit" \in Running
  BY DEF Running
<1> QED BY <1>1, <1>12, <1>19, <1>20, RunStep

\* A batch that cannot be read is passed over with all it holds.
LEMMA FetchFailsRead ==
  ASSUME IInv, ReadInv, NEW r \in Requests, FetchFails(r)
  PROVE  ReadInv'
<1>1. /\ pc[r] = "fetch" /\ "fetch" \in Running /\ "fetch" \in Active /\ Fail
      /\ UNCHANGED <<source, flags, passed, lost, stops>>
  BY DEF FetchFails, Running, Active
<1>2. Run("fetch") /\ DataTypes /\ groups = <<>> /\ chunk <= EndId
  BY <1>1 DEF ReadInv, Run, Places
<1>3. /\ outcome \in [Counters -> Nat] /\ {stops', failures'} \subseteq Nat
      /\ UNCHANGED <<source, passed>> /\ lost' \subseteq Ids
      /\ held \in Seq(Ids) /\ Len(held) \in Nat /\ chunk \in Nat \ {0} /\ chunk \in Ids
      /\ TRUE \in BOOLEAN /\ FALSE \in BOOLEAN /\ failedChunks \subseteq Ids
  BY <1>1, <1>2, IdSets DEF DataTypes, Fail
<1>4. CASE stopRequested
  <2>1. EndJob(r, outcome, FALSE) /\ UNCHANGED failedChunks
    BY <1>4 DEF FetchFails
  <2>2. failedChunks' \subseteq Ids
    BY <1>3, <2>1
  <2> QED BY <1>1, <1>3, <1>4, <2>1, <2>2, CutShort
<1> DEFINE o == [outcome EXCEPT !["batches"] = @ + 1]
<1>5. o \in [Counters -> Nat] /\ Sum(o) = Sum(outcome) /\ o["batches"] = outcome["batches"] + 1
  BY <1>3 DEF Counters, Sum
<1>6. Dropped = Record(o, "failed", Len(held)) /\ "failed" \in Results
  BY DEF Dropped, Results
<1> HIDE DEF o
<1>7. /\ Dropped \in [Counters -> Nat] /\ Sum(Dropped) = Sum(outcome) + Len(held)
      /\ Dropped["batches"] = outcome["batches"] + 1
  BY <1>3, <1>5, <1>6, RecordSum
<1>8. CASE ~stopRequested
  <2>1. /\ failedChunks' = failedChunks \union {chunk}
        /\ \/ EndJob(r, Dropped, TRUE)
           \/ /\ Goto(r, "read") /\ outcome' = Dropped /\ held' = <<>>
              /\ chunk' = chunk + ChunkSize /\ UNCHANGED <<groups, result, raised>>
    BY <1>8 DEF FetchFails
  <2>2. failedChunks' \subseteq Ids
    BY <1>3, <2>1
  <2>3. CASE EndJob(r, Dropped, TRUE)
    BY <1>1, <1>3, <1>7, <2>2, <2>3, CutShort
  <2>4. CASE /\ Goto(r, "read") /\ outcome' = Dropped /\ held' = <<>>
             /\ chunk' = chunk + ChunkSize /\ UNCHANGED <<groups, result, raised>>
    <3>1. /\ chunk' \in Nat \ {0} /\ EndId \in Nat /\ ChunkSize \in Nat \ {0} /\ Ids \in SUBSET Nat
          /\ groups' = <<>> /\ <<>> \in Seq(Ids) /\ <<>> \in Seq(Seq(Ids))
      BY <1>2, <1>3, <2>4, IdSets
    <3>2. DataTypes'
      <4>1. chunk' \in Nat \ {0} /\ held' \in Seq(Ids) /\ groups' \in Seq(Seq(Ids))
        BY <2>4, <3>1
      <4>2. passed' \in Seq(Seq(Ids)) /\ source' \in Sources /\ raised' \in BOOLEAN
        BY <1>1, <1>2, <2>4 DEF DataTypes
      <4>3. result' \in {"none", "completed", "partial_failed", "failed", "stopped"}
        BY <1>2, <2>4 DEF DataTypes
      <4> QED BY <1>3, <1>7, <2>2, <2>4, <4>1, <4>2, <4>3 DEF DataTypes
    <3>3. Members(passed)' = Members(passed) /\ Members(groups)' = {} /\ ToSet(held)' = {}
          /\ Members(Waiting("read"))' = {} /\ Members(groups) = {}
      BY <1>1, <1>2, <2>4, <3>1 DEF Members, ToSet, Waiting
    <3>4. Below' = Below \union Batch(chunk)
      <4>1. Below' = {m \in Ids : m < chunk + ChunkSize}
        BY <2>4 DEF Below, Ids
      <4>2. \A m \in Ids : m < chunk + ChunkSize <=> m < chunk \/ (chunk <= m /\ m < chunk + ChunkSize)
        BY <1>3, <3>1
      <4> QED BY <1>3, <4>1, <4>2, BatchIs DEF Below
    <3>5. ReadBelow' = ReadBelow
      <4>1. Failed' = Failed \union Batch(chunk)
        BY <2>1 DEF Failed, Batch
      <4>2. \A m \in Batch(chunk) : ~(m < chunk)
        <5>1. \A m \in Ids : chunk <= m => ~(m < chunk)
          BY <1>3, <3>1
        <5> QED BY <1>3, <5>1, BatchIs
      <4>3. \A m \in Below : m < chunk
        BY DEF Below
      <4>4. ReadBelow' = {m \in Below' : source[m].state # "gone"} \ (lost \union Failed')
        BY <1>1 DEF ReadBelow
      <4> QED BY <3>4, <4>1, <4>2, <4>3, <4>4 DEF ReadBelow
    <3>6. Places("read")'
      <4>1. \A c \in failedChunks' : c + ChunkSize <= chunk'
        BY <1>2, <1>3, <2>1, <2>4, <3>1 DEF Run, Places
      <4>2. lost' \subseteq Below'
        BY <1>1, <1>2, <3>4 DEF Run, Places
      <4>3. outcome'["batches"] # 0
        BY <1>3, <1>7, <2>4 DEF Counters
      <4> QED BY <2>4, <3>1, <4>1, <4>2, <4>3 DEF Places
    <3>7. Ordered("read")'
      <4>1. InOrder(groups)' /\ Sorted(held)' /\ \A g \in DOMAIN groups' : groups'[g] # <<>>
        BY <2>4, <3>1 DEF InOrder, Sorted
      <4>2. InOrder(passed)'
        BY <1>1, <1>2 DEF Run, Ordered, InOrder
      <4>3. Members(passed) \subseteq Below
        BY <1>2 DEF Run, Ordered
      <4>4. /\ Before(Members(groups), ToSet(held))'
            /\ Before(Members(passed), Members(Waiting("read")) \union ToSet(held))'
        BY <3>3 DEF Before
      <4> QED BY <3>3, <3>4, <4>1, <4>2, <4>3, <4>4 DEF Ordered
    <3>8. Handed'
      BY <2>1 DEF Handed
    <3>9. Counted'
      <4>1. Sum(outcome) + Cardinality({}) + Len(held) = Cardinality(ReadBelow)
        BY <1>2, <1>8, <3>3 DEF Run, Counted
      <4>2. Cardinality({}) = 0 /\ Len(<<>>) = 0 /\ Sum(outcome) \in Nat
        BY <1>3, FS_EmptySet DEF Sum, Counters
      <4>3. Sum(outcome)' = Sum(outcome) + Len(held)
        BY <1>7, <2>4 DEF Sum
      <4>4. Sum(outcome)' + 0 + 0 = Cardinality(ReadBelow)
        BY <1>3, <4>1, <4>2, <4>3
      <4> QED BY <2>4, <3>3, <3>5, <4>2, <4>4 DEF Counted
    <3>10. Run("read")'
      BY <1>2, <2>4, <3>6, <3>7, <3>8, <3>9 DEF Run
    <3> QED BY <1>1, <2>4, <3>2, <3>10, RunStep DEF Running
  <2> QED BY <2>1, <2>3, <2>4
<1> QED BY <1>4, <1>8

\* The groups of a batch, whether the last one is kept back or not.
LEMMA HeldBack ==
  ASSUME NEW s \in Seq(Ids), Sorted(s), NEW hold \in BOOLEAN, hold => GroupMessages(s) # <<>>,
         NEW h, h = IF hold THEN Last(GroupMessages(s)) ELSE <<>>,
         NEW gs, gs = IF hold THEN Front(GroupMessages(s)) ELSE GroupMessages(s)
  PROVE  /\ h \in Seq(Ids) /\ gs \in Seq(Seq(Ids)) /\ Sorted(h) /\ InOrder(gs)
         /\ \A g \in DOMAIN gs : gs[g] # <<>>
         /\ Before(Members(gs), ToSet(h)) /\ Members(gs) \union ToSet(h) = ToSet(s)
         /\ Cardinality(Members(gs)) + Len(h) = Len(s)
<1> DEFINE done == GroupMessages(s)
<1>1. /\ done \in Seq(Seq(Ids)) /\ InOrder(done) /\ Members(done) = ToSet(s)
      /\ \A g \in DOMAIN done : done[g] # <<>>
  BY Grouping DEF Grouped
<1> HIDE DEF done
<1>2. /\ h \in Seq(Ids) /\ gs \in Seq(Seq(Ids)) /\ Sorted(h) /\ InOrder(gs)
      /\ \A g \in DOMAIN gs : gs[g] # <<>>
      /\ Before(Members(gs), ToSet(h)) /\ Members(gs) \union ToSet(h) = ToSet(s)
  <2>1. CASE hold
    <3>1. h = Last(done) /\ gs = Front(done) /\ done # <<>>
      BY <2>1 DEF done
    <3> QED BY <1>1, <3>1, FrontLast
  <2>2. CASE ~hold
    <3>1. h = <<>> /\ gs = done /\ <<>> \in Seq(Ids)
      BY <2>2 DEF done
    <3>2. ToSet(h) = {} /\ Sorted(h)
      BY <3>1 DEF ToSet, Sorted
    <3> QED BY <1>1, <3>1, <3>2 DEF Before
  <2> QED BY <2>1, <2>2
<1>3. Cardinality(Members(gs)) + Len(h) = Len(s)
  <2>1. /\ Members(gs) \in SUBSET Ids /\ ToSet(h) \in SUBSET Ids
        /\ Cardinality(ToSet(h)) = Len(h) /\ Cardinality(ToSet(s)) = Len(s)
    BY <1>2, MembersType, IdSets, SortedSize
  <2>2. Members(gs) \intersect ToSet(h) = {}
    BY <1>2, <2>1, Apart
  <2>3. Cardinality(Members(gs) \union ToSet(h)) = Cardinality(Members(gs)) + Cardinality(ToSet(h))
    BY <2>1, <2>2, IdSets
  <2> QED BY <1>2, <2>1, <2>3
<1> QED BY <1>2, <1>3

LEMMA SeqOfMore ==
  ASSUME NEW T, NEW S \in SUBSET T, NEW t \in Seq(S)
  PROVE  t \in Seq(T)
OBVIOUS

\* What is read of a batch follows the album kept back.
OfBatch(failing)  == Selected(Batch(chunk) \ failing)
Followed(failing) == held \o Ascending(OfBatch(failing))

LEMMA BatchFollows ==
  ASSUME DataTypes, Run("fetch"), NEW failing \in SUBSET Batch(chunk)
  PROVE  /\ Before(Below, Batch(chunk)) /\ OfBatch(failing) \in SUBSET Ids
         /\ OfBatch(failing) \subseteq Batch(chunk) /\ Cardinality(OfBatch(failing)) \in Nat
         /\ Followed(failing) \in Seq(Ids) /\ Sorted(Followed(failing))
         /\ ToSet(Followed(failing)) = ToSet(held) \union OfBatch(failing)
         /\ Len(Followed(failing)) = Len(held) + Cardinality(OfBatch(failing))
<1> DEFINE S == OfBatch(failing)
           s == Followed(failing)
<1>1. /\ chunk \in Nat \ {0} /\ held \in Seq(Ids) /\ Sorted(held) /\ ToSet(held) \subseteq Below
      /\ EndId \in Nat /\ ChunkSize \in Nat \ {0} /\ Ids = 1..EndId
      /\ Batch(chunk) = {m \in Ids : chunk <= m /\ m < chunk + ChunkSize}
  BY IdSets, BatchIs DEF DataTypes, Run, Ordered
<1>2. S \subseteq Batch(chunk) /\ S \in SUBSET Ids /\ S \in SUBSET (1..EndId)
  BY <1>1 DEF Selected, OfBatch
<1> HIDE DEF S
<1>3. Before(Below, Batch(chunk))
  <2>1. \A x, y \in Ids : x < chunk /\ chunk <= y => x < y
    BY <1>1
  <2> QED BY <1>1, <2>1 DEF Below, Before
<1> DEFINE t == Ascending(S)
<1>4. t \in Seq(S) /\ Len(t) = Cardinality(S) /\ Sorted(t) /\ ToSet(t) = S /\ Cardinality(S) \in Nat
  BY <1>1, <1>2, Ascends
<1> HIDE DEF t
<1>5. t \in Seq(Ids)
  BY <1>2, <1>4, SeqOfMore
<1>6. Before(ToSet(held), ToSet(t))
  BY <1>1, <1>2, <1>3, <1>4 DEF Before
<1>7. held \o t \in Seq(Ids) /\ Sorted(held \o t) /\ ToSet(held \o t) = ToSet(held) \union ToSet(t)
      /\ Len(held \o t) = Len(held) + Len(t)
  BY <1>1, <1>4, <1>5, <1>6, Joined
<1>8. s = held \o t
  BY DEF Followed, S, t
<1> HIDE DEF s
<1>9. s \in Seq(Ids) /\ Sorted(s) /\ ToSet(s) = ToSet(held) \union S /\ Len(s) = Len(held) + Cardinality(S)
  BY <1>4, <1>7, <1>8
<1> QED BY <1>2, <1>3, <1>4, <1>9 DEF S, s

\* A batch that was read, less the messages that failed alone.
LEMMA FetchedRead ==
  ASSUME IInv, ReadInv, NEW r \in Requests, Fetched(r)
  PROVE  ReadInv'
<1>1. /\ pc[r] = "fetch" /\ "fetch" \in Running /\ "fetch" \in Active
      /\ UNCHANGED <<source, flags, passed, failedChunks, bounds>>
  BY DEF Fetched, Running, Active
<1>2. Run("fetch") /\ DataTypes /\ groups = <<>> /\ chunk <= EndId
  BY <1>1 DEF ReadInv, Run, Places
<1>3. /\ outcome \in [Counters -> Nat] /\ {stops', failures'} \subseteq Nat
      /\ UNCHANGED <<source, passed>> /\ failedChunks' \subseteq Ids /\ lost \subseteq Ids
      /\ held \in Seq(Ids) /\ chunk \in Nat \ {0} /\ FALSE \in BOOLEAN
  BY <1>1, <1>2 DEF DataTypes
<1>4. CASE stopRequested
  <2>1. EndJob(r, outcome, FALSE) /\ UNCHANGED lost
    BY <1>4 DEF Fetched
  <2> QED BY <1>1, <1>3, <1>4, <2>1, CutShort
<1>5. CASE ~stopRequested
  <2>1. PICK failing \in SUBSET (Selected(Batch(chunk)) \union Left(Batch(chunk))) :
               LET read == Batch(chunk) \ failing
                   done == GroupMessages(held \o Ascending(Selected(read))) IN
               /\ lost'    = lost \union failing
               /\ outcome' = ReadCounts(read)
               /\ held'    = IF HoldsLast(done) THEN Last(done) ELSE <<>>
               /\ groups'  = IF HoldsLast(done) THEN Front(done) ELSE done
               /\ chunk'   = chunk + ChunkSize
               /\ Goto(r, "emit") /\ UNCHANGED <<result, raised>>
    BY <1>5 DEF Fetched
  <2> DEFINE B    == Batch(chunk)
             read == B \ failing
             S    == OfBatch(failing)
             L    == Left(read)
             s    == Followed(failing)
             done == GroupMessages(s)
  <2>2. /\ lost' = lost \union failing /\ outcome' = Record(outcome, "skipped", Cardinality(L))
        /\ held'   = IF HoldsLast(done) THEN Last(done) ELSE <<>>
        /\ groups' = IF HoldsLast(done) THEN Front(done) ELSE done
        /\ chunk' = chunk + ChunkSize
        /\ Goto(r, "emit") /\ UNCHANGED <<result, raised>>
    BY <2>1 DEF ReadCounts, OfBatch, Followed
  <2>3. /\ B = {m \in Ids : chunk <= m /\ m < chunk + ChunkSize} /\ failing \subseteq B
        /\ EndId \in Nat /\ ChunkSize \in Nat \ {0} /\ Ids = 1..EndId
    BY <1>3, IdSets, BatchIs DEF Selected, Left
  <2>4. S \in SUBSET Ids /\ L \in SUBSET Ids /\ S \subseteq B /\ L \subseteq B /\ S \intersect L = {}
        /\ S = {m \in read : source[m].state = "on"} /\ L = {m \in read : source[m].state = "off"}
    BY <2>3 DEF OfBatch, Selected, Left
  <2>5. /\ Before(Below, B) /\ Cardinality(S) \in Nat /\ Cardinality(L) \in Nat
        /\ s \in Seq(Ids) /\ Sorted(s) /\ ToSet(s) = ToSet(held) \union S
        /\ Len(s) = Len(held) + Cardinality(S)
    <3>1. failing \in SUBSET Batch(chunk) /\ Cardinality(L) \in Nat
      BY <2>3, <2>4, IdSets
    <3> QED BY <1>2, <3>1, BatchFollows
  <2> HIDE DEF B, S, L, s
  <2>6. Below \in SUBSET Ids /\ B \in SUBSET Ids /\ Below' = Below \union B
    <3>1. Below' = {m \in Ids : m < chunk + ChunkSize}
      BY <2>2 DEF Below, Ids
    <3>2. \A m \in Ids : m < chunk + ChunkSize <=> m < chunk \/ (chunk <= m /\ m < chunk + ChunkSize)
      BY <1>3, <2>3
    <3> QED BY <2>3, <3>1, <3>2 DEF Below
  <2>7. Below \intersect B = {}
    BY <2>5, <2>6, Apart
  <2>8. /\ Members(groups) = {} /\ Members(Waiting("fetch")) = {}
        /\ Sorted(held) /\ Before(Members(passed), ToSet(held)) /\ InOrder(passed)
        /\ ToSet(held) \subseteq Below /\ Members(passed) \subseteq Below
    <3>1. Members(groups) = {} /\ Members(Waiting("fetch")) = {}
      BY <1>2 DEF Members, Waiting
    <3> QED BY <1>2, <3>1 DEF Run, Ordered
  <2>10. /\ held' \in Seq(Ids) /\ groups' \in Seq(Seq(Ids)) /\ Sorted(held') /\ InOrder(groups')
         /\ \A g \in DOMAIN groups' : groups'[g] # <<>>
         /\ Before(Members(groups'), ToSet(held'))
         /\ Members(groups') \union ToSet(held') = ToSet(held) \union S
         /\ Cardinality(Members(groups')) + Len(held') = Len(held) + Cardinality(S)
    <3>1. HoldsLast(done) \in BOOLEAN /\ (HoldsLast(done) => done # <<>>)
      BY DEF HoldsLast
    <3>2. PICK hold \in BOOLEAN : hold = HoldsLast(done)
      BY <3>1
    <3>3. /\ held'   = IF hold THEN Last(done) ELSE <<>>
          /\ groups' = IF hold THEN Front(done) ELSE done
      BY <2>2, <3>2
    <3>4. hold => done # <<>>
      BY <3>1, <3>2
    <3> QED BY <2>5, <3>3, <3>4, HeldBack
  <2>11. chunk' \in Nat \ {0} /\ (chunk' > EndId => held' = <<>>)
    <3>1. chunk + ChunkSize - 1 < EndId => ~(chunk + ChunkSize > EndId)
      BY <1>3, <2>3
    <3> QED BY <1>3, <2>2, <2>3, <3>1 DEF HoldsLast
  <2>12. UNCHANGED <<Members(passed), Failed, InOrder(passed)>> /\ Members(groups') = Members(groups)'
         /\ Waiting("emit")' = groups'
    BY <1>1 DEF Members, Failed, Batch, Waiting, InOrder
  <2>13. /\ outcome' \in [Counters -> Nat] /\ Sum(outcome)' = Sum(outcome) + Cardinality(L)
         /\ outcome'["batches"] = outcome["batches"] /\ Sum(outcome) \in Nat
    <3>1. "skipped" \in Results
      BY DEF Results
    <3>2. /\ Record(outcome, "skipped", Cardinality(L)) \in [Counters -> Nat]
          /\ Sum(Record(outcome, "skipped", Cardinality(L))) = Sum(outcome) + Cardinality(L)
          /\ Record(outcome, "skipped", Cardinality(L))["batches"] = outcome["batches"]
      BY <1>3, <2>5, <3>1, RecordSum
    <3>3. Sum(outcome') = Sum(outcome)' /\ Sum(outcome) \in Nat
      BY <1>3 DEF Sum, Counters
    <3> QED BY <2>2, <3>2, <3>3
  <2>14. DataTypes'
    <3>1. /\ source' \in Sources /\ raised' \in BOOLEAN /\ passed' \in Seq(Seq(Ids))
          /\ result' \in {"none", "completed", "partial_failed", "failed", "stopped"}
      BY <1>1, <1>2, <2>2 DEF DataTypes
    <3>2. lost' \subseteq Ids
      BY <1>3, <2>2, <2>3
    <3> QED BY <1>3, <2>10, <2>11, <2>13, <3>1, <3>2 DEF DataTypes
  <2>15. Places("emit")'
    <3>1. lost' \subseteq Below'
      BY <1>2, <2>2, <2>3, <2>6 DEF Run, Places
    <3>2. \A c \in failedChunks' : c + ChunkSize <= chunk'
      <4>1. \A c \in failedChunks : c \in Nat /\ c + ChunkSize <= chunk
        BY <1>1, <1>2, <1>3, <2>3 DEF Run, Places
      <4>2. chunk <= chunk + ChunkSize
        BY <1>3, <2>3
      <4> QED BY <1>1, <1>3, <2>2, <2>3, <4>1, <4>2
    <3>3. outcome'["batches"] = 0 => failedChunks' = {}
      BY <1>1, <1>2, <2>13 DEF Run, Places
    <3> QED BY <2>11, <3>1, <3>2, <3>3 DEF Places
  <2>16. Ordered("emit")'
    <3>1. Before(Members(passed), ToSet(held) \union S)
      BY <2>4, <2>5, <2>8 DEF Before
    <3>2. Before(Members(passed), Members(Waiting("emit")) \union ToSet(held))'
      <4>1. Before(Members(passed), Members(groups') \union ToSet(held'))
        BY <2>10, <3>1
      <4>2. Before(Members(passed), Members(groups) \union ToSet(held))'
        BY <2>12, <4>1 DEF Before
      <4> QED BY <4>2 DEF Waiting
    <3>3. Before(Members(groups), ToSet(held))'
      BY <2>10, <2>12 DEF Before
    <3>4. (Members(passed) \union Members(groups) \union ToSet(held) \subseteq Below)'
      BY <2>4, <2>6, <2>8, <2>10, <2>12
    <3>5. InOrder(groups)' /\ Sorted(held)' /\ InOrder(passed)'
      BY <2>8, <2>10, <2>12 DEF InOrder, Sorted
    <3> QED BY <2>10, <3>2, <3>3, <3>4, <3>5 DEF Ordered
  <2>17. Handed'
    <3> SUFFICES ASSUME failedChunks' = {}
                 PROVE  (Members(passed) \union Members(groups) \union ToSet(held) = Selected(Below) \ lost)'
      BY DEF Handed
    <3>1. Members(passed) \union ToSet(held) = Selected(Below) \ lost /\ lost \subseteq Below
      BY <1>1, <1>2, <2>8 DEF Run, Handed, Places
    <3>2. Selected(Below)' = {m \in Below' : source[m].state = "on"}
      BY <1>1 DEF Selected
    <3>3. Selected(Below)' \ lost' = (Selected(Below) \ lost) \union S
      BY <2>2, <2>3, <2>4, <2>6, <2>7, <3>1, <3>2 DEF Selected
    <3> QED BY <2>10, <2>12, <3>1, <3>3
  <2>18. Counted'
    <3>1. ReadBelow' = ReadBelow \union (S \union L)
      <4>1. \A m \in Ids : source[m].state \in {"on", "off", "gone"}
        BY <1>2, HistoryAssumption DEF DataTypes, HistoryAssumption
      <4>2. Failed \intersect B = {}
        <5>1. ASSUME NEW c \in failedChunks, NEW m \in Batch(c), m \in B
              PROVE  FALSE
          <6>1. c \in Nat \ {0} /\ c + ChunkSize <= chunk
            BY <1>1, <1>2, <1>3, <2>3 DEF Run, Places
          <6>2. m \in Ids /\ m < c + ChunkSize /\ chunk <= m
            BY <2>3, <5>1, <6>1, BatchIs
          <6> QED BY <1>3, <2>3, <6>1, <6>2
        <5> QED BY <5>1 DEF Failed
      <4>3. ReadBelow' = {m \in Below' : source[m].state # "gone"} \ (lost' \union Failed)
        BY <1>1, <2>12 DEF ReadBelow
      <4>4. lost \subseteq Below
        BY <1>2 DEF Run, Places
      <4>5. {m \in B : source[m].state # "gone"} \ failing = S \union L
        BY <2>3, <2>4, <4>1
      <4> QED BY <2>2, <2>3, <2>6, <2>7, <4>2, <4>3, <4>4, <4>5 DEF ReadBelow
    <3>2. Cardinality(S \union L) = Cardinality(S) + Cardinality(L)
      BY <2>4, IdSets
    <3>3. Cardinality(ReadBelow \union (S \union L)) = Cardinality(ReadBelow) + Cardinality(S \union L)
      <4>1. ReadBelow \in SUBSET Ids /\ S \union L \in SUBSET Ids
        BY <2>4 DEF ReadBelow, Below
      <4>2. ReadBelow \intersect (S \union L) = {}
        BY <2>4, <2>7 DEF ReadBelow
      <4> QED BY <4>1, <4>2, IdSets
    <3>4. Sum(outcome) + Len(held) = Cardinality(ReadBelow) /\ Len(held) \in Nat
      <4>1. Sum(outcome) + Cardinality({}) + Len(held) = Cardinality(ReadBelow)
        BY <1>2, <1>5, <2>8 DEF Run, Counted
      <4>2. Cardinality({}) = 0 /\ Len(held) \in Nat
        BY <1>3, FS_EmptySet
      <4> QED BY <2>13, <4>1, <4>2
    <3>5. Cardinality(Members(groups)') \in Nat /\ Len(held') \in Nat
      BY <2>10, <2>12, MembersType, IdSets
    <3>6. Sum(outcome)' + Cardinality(Members(groups)') + Len(held') = Cardinality(ReadBelow')
      <4>1. Cardinality(Members(groups)') + Len(held') = Len(held) + Cardinality(S)
        BY <2>10, <2>12
      <4>2. Cardinality(ReadBelow') = Cardinality(ReadBelow) + (Cardinality(S) + Cardinality(L))
        BY <3>1, <3>2, <3>3
      <4> DEFINE a == Sum(outcome)
                 x == Sum(outcome)'
                 b == Cardinality(L)
                 c == Len(held)
                 d == Cardinality(S)
                 e == Cardinality(Members(groups)')
                 f == Len(held')
                 y == Cardinality(ReadBelow')
                 z == Cardinality(ReadBelow)
      <4>3. a \in Nat /\ b \in Nat /\ c \in Nat /\ d \in Nat /\ e \in Nat /\ f \in Nat
        BY <2>5, <2>13, <3>4, <3>5
      <4>4. x = a + b /\ a + c = z /\ e + f = c + d /\ y = z + (d + b)
        BY <2>13, <3>4, <4>1, <4>2
      <4> HIDE DEF a, b, c, d, e, f, x, y, z
      <4>5. x + e + f = y
        BY <4>3, <4>4
      <4> QED BY <4>5 DEF x, e, f, y
    <3> QED BY <3>6 DEF Counted
  <2>19. Run("emit")'
    BY <1>2, <2>2, <2>15, <2>16, <2>17, <2>18 DEF Run
  <2> QED BY <1>1, <2>2, <2>14, <2>19, RunStep DEF Running
<1> QED BY <1>4, <1>5

LEMMA RaisedRead ==
  ASSUME IInv, ReadInv, NEW r \in Requests, NetworkGone(r) \/ DeliverRaises(r)
  PROVE  ReadInv'
<1>1. /\ pc[r] \in Active /\ EndJob(r, outcome, TRUE) /\ TRUE \in BOOLEAN
      /\ UNCHANGED <<source, flags, history, bounds>>
  BY DEF NetworkGone, DeliverRaises, Active
<1>2. /\ outcome \in [Counters -> Nat] /\ UNCHANGED <<source, passed>>
      /\ failedChunks' \subseteq Ids /\ lost' \subseteq Ids /\ {stops', failures'} \subseteq Nat
  BY <1>1 DEF ReadInv, DataTypes
<1> QED BY <1>1, <1>2, CutShort

\* Steps that read nothing. The log entry that cannot be written takes the
\* counters with it.
LEMMA IdleRead ==
  ASSUME IInv, ReadInv,
         \/ RequestStop \/ Shutdown \/ Restart \/ UNCHANGED vars
         \/ \E r \in Requests : Reserve(r) \/ Invalid(r) \/ Validated(r) \/ LogEnd(r)
  PROVE  ReadInv'
<1>1. CASE RequestStop \/ Shutdown \/ Restart \/ UNCHANGED vars
  <2>1. /\ UNCHANGED <<source, pc, reading, told, history>> /\ (stopRequested => stopRequested')
        /\ {stops', failures'} \subseteq Nat
    BY <1>1 DEF RequestStop, Shutdown, Restart, vars, ReadInv, DataTypes
  <2> QED BY <2>1, SameData
<1>2. ASSUME NEW r \in Requests, Reserve(r) \/ Invalid(r) \/ Validated(r)
      PROVE  ReadInv'
  <2>1. /\ UNCHANGED <<source, reading, told, history, bounds>>
        /\ \E l \in {"done", "validating", "queued"} : pc' = [pc EXCEPT ![r] = l]
        /\ pc[r] \in {"new", "validating"}
    BY <1>2 DEF Reserve, Invalid, Validated, Release, Goto
  <2>2. \A s \in Requests : pc'[s] \in Running => pc[s] = pc'[s]
    BY <2>1 DEF IInv, SessionTypes, Running
  <2>3. stopRequested => stopRequested' \/ \A s \in Requests : pc'[s] \notin Running
    <3>1. CASE pc[r] = "validating"
      <4>1. \A s \in Requests : pc'[s] \notin Running
        BY <2>1, <2>2, <3>1, Alone DEF IInv, SessionTypes, Running, Active
      <4> QED BY <4>1
    <3>2. CASE pc[r] = "new"
      <4>1. Reserve(r)
        BY <1>2, <3>2 DEF Invalid, Validated
      <4>2. CASE isSyncing
        BY <4>1, <4>2 DEF Reserve, Busy
      <4>3. CASE ~isSyncing
        <5>1. \A s \in Requests : pc[s] \notin Active
          BY <4>3 DEF IInv, Session, SessionExclusive
        <5> QED BY <2>2, <5>1 DEF Running, Active
      <4> QED BY <4>2, <4>3
    <3> QED BY <2>1, <3>1, <3>2
  <2>4. {stops', failures'} \subseteq Nat
    BY <2>1 DEF ReadInv, DataTypes
  <2> QED BY <2>1, <2>2, <2>3, <2>4, SameData
<1>3. ASSUME NEW r \in Requests, LogEnd(r)
      PROVE  ReadInv'
  <2>1. /\ pc[r] \in Active /\ Goto(r, "done")
        /\ UNCHANGED <<source, reading, history, stops>> /\ failures' \in Nat
    BY <1>3 DEF LogEnd, Release, Fail, Active, ReadInv, DataTypes
  <2>2. CASE UNCHANGED told
    <3>1. DataTypes'
      BY <2>1, <2>2 DEF ReadInv, DataTypes
    <3>2. Ended'
      BY <2>1, <2>2 DEF ReadInv, Ended, Accounted, CompletedTells, InOrder, Members, Read, Selected,
         Batch, Ids
    <3> QED BY <2>1, <3>1, <3>2, RunStep DEF Running
  <2>3. CASE outcome' = NoCounts /\ raised' = TRUE /\ result' = "failed"
    <3>1. NoCounts \in [Counters -> Nat]
      BY DEF NoCounts
    <3>2. DataTypes'
      BY <2>1, <2>3, <3>1 DEF ReadInv, DataTypes
    <3>3. Ended'
      BY <2>3 DEF Ended, Accounted, CompletedTells
    <3> QED BY <2>1, <3>2, <3>3, RunStep DEF Running
  <2> QED BY <1>3, <2>2, <2>3 DEF LogEnd
<1> QED BY <1>1, <1>2, <1>3
LEMMA Reads == Spec => [](IInv /\ ReadInv)
<1>1. Init => ReadInv
  <2> SUFFICES ASSUME Init
               PROVE  ReadInv
    OBVIOUS
  <2>1. /\ <<>> \in Seq(Ids) /\ <<>> \in Seq(Seq(Ids)) /\ FALSE \in BOOLEAN
        /\ NoCounts \in [Counters -> Nat]
    BY DEF NoCounts
  <2>2. DataTypes
    <3>1. /\ held \in Seq(Ids) /\ groups \in Seq(Seq(Ids)) /\ passed \in Seq(Seq(Ids))
          /\ outcome \in [Counters -> Nat] /\ raised \in BOOLEAN
      BY <2>1 DEF Init
    <3> QED BY <3>1 DEF Init, DataTypes
  <2>3. Ended
    BY DEF Init, Ended, Accounted, CompletedTells
  <2>4. \A r \in Requests : pc[r] \notin Running
    BY DEF Init, Running
  <2> QED BY <2>2, <2>3, <2>4 DEF ReadInv
<1>2. ASSUME IInv, ReadInv, [Next]_vars
      PROVE  ReadInv'
  <2>1. ASSUME NEW r \in Requests, Job(r)
        PROVE  ReadInv'
    BY <1>2, <2>1, BeginRead, SetupRead, ReadNextRead, FetchedRead, FetchFailsRead, RaisedRead,
       EmitRead, DeliveredRead, IdleRead DEF Job
  <2>2. ASSUME NEW r \in Requests, Reserve(r)
        PROVE  ReadInv'
    BY <1>2, <2>2, IdleRead
  <2> QED BY <1>2, <2>1, <2>2, IdleRead DEF Next
<1> QED BY <1>1, <1>2, Invariant, PTL DEF Spec
-----------------------------------------------------------------------------
(* Albums that a batch cuts.                                                *)

\* The selected messages of an album follow one another.
AlbumsTogether ==
  \A src \in Sources : \A a, b, c \in Ids :
    a < b /\ b < c /\ src[a].album # 0 /\ src[c].album = src[a].album /\ src[b].state = "on"
      => src[b].album = src[a].album

\* Nothing of the album of G is still to come.
Known(G) ==
  \A m \in Selected(Ids) \ lost : Album(m) # 0 /\ Album(m) = Album(G[1]) => m <= Last(G)

\* What was looked at comes before the album that is kept back.
Behind ==
  /\ ToSet(held) \subseteq Selected(Ids)
  /\ \A m \in Selected(Below) \ lost, h \in ToSet(held) : m \in ToSet(held) \/ m < h

Cut == (\A g \in DOMAIN groups : Known(groups[g])) /\ Behind

TailInv == TailRead /\ \A r \in Requests : pc[r] \in Running => Cut

LEMMA LastOf ==
  ASSUME NEW G \in Seq(Ids), G # <<>>
  PROVE  Last(G) = G[Len(G)] /\ Len(G) \in DOMAIN G /\ 1 \in DOMAIN G
BY DEF Last

LEMMA MemberIs ==
  ASSUME NEW gs
  PROVE  \A x : x \in Members(gs) <=> \E g \in DOMAIN gs : \E k \in DOMAIN gs[g] : gs[g][k] = x
BY DEF Members, ToSet

\* A message of the album of a group comes no later than its end: the next group
\* would stand between the two.
LEMMA GroupEnds ==
  ASSUME AlbumsTogether, source \in Sources, NEW s \in Seq(Ids), NEW gs, Grouped(s, gs),
         ToSet(s) \subseteq Selected(Ids), NEW g \in DOMAIN gs, NEW m \in Ids,
         Album(m) # 0, Album(m) = Album(gs[g][1]),
         m \in ToSet(s) \/ \A x \in ToSet(s) : x < m,
         g + 1 \in DOMAIN gs \/ m \in ToSet(s)
  PROVE  m <= Last(gs[g])
<1>1. /\ gs \in Seq(Seq(Ids)) /\ InOrder(gs) /\ Members(gs) = ToSet(s) /\ gs[g] # <<>>
      /\ gs[g] \in Seq(Ids) /\ DOMAIN gs = 1..Len(gs) /\ Len(gs) \in Nat
  BY DEF Grouped
<1> DEFINE n == Len(gs[g])
           a == gs[g][n]
<1>2. n \in DOMAIN gs[g] /\ 1 \in DOMAIN gs[g] /\ Last(gs[g]) = a /\ a \in Ids /\ a \in ToSet(s)
  <2>1. n \in DOMAIN gs[g] /\ 1 \in DOMAIN gs[g] /\ Last(gs[g]) = a /\ a \in Ids
    BY <1>1, LastOf
  <2>2. \A k \in DOMAIN gs[g] : gs[g][k] \in Members(gs)
    BY MemberIs
  <2> QED BY <1>1, <2>1, <2>2
<1>3. Album(a) = Album(m)
  BY <1>2 DEF Grouped
<1>4. \A k \in DOMAIN gs[g] : k < n \/ k = n
  BY <1>1
<1> HIDE DEF n, a
<1>5. Ids \subseteq Nat
  BY IdSets
<1>6. SUFFICES ASSUME a < m
               PROVE  FALSE
  BY <1>2, <1>5
<1>7. ASSUME m \in ToSet(s)
      PROVE  \E h \in DOMAIN gs : h > g /\ \E k \in DOMAIN gs[h] : gs[h][k] = m
  <2>1. PICK h \in DOMAIN gs : \E k \in DOMAIN gs[h] : gs[h][k] = m
    BY <1>1, <1>7, MemberIs
  <2>2. PICK k \in DOMAIN gs[h] : gs[h][k] = m
    BY <2>1
  <2>3. ~(h < g)
    <3>1. h < g => gs[h][k] < a
      BY <1>1, <1>2, <2>2 DEF InOrder, a
    <3> QED BY <1>2, <1>5, <1>6, <2>2, <3>1
  <2>4. h # g
    <3>1. ASSUME h = g
          PROVE  m <= a
      <4>1. k \in DOMAIN gs[g] /\ gs[g][k] = m
        BY <2>2, <3>1
      <4>2. CASE k < n
        <5>1. gs[g][k] < gs[g][n]
          BY <1>1, <1>2, <4>1, <4>2 DEF InOrder
        <5>2. m < a
          BY <4>1, <5>1 DEF a
        <5> QED BY <1>2, <1>5, <5>2
      <4>3. CASE k = n
        BY <1>2, <1>5, <4>1, <4>3 DEF a
      <4> QED BY <1>4, <4>1, <4>2, <4>3
    <3> QED BY <1>2, <1>5, <1>6, <3>1
  <2>5. h \in Nat /\ g \in Nat
    BY <1>1
  <2> QED BY <2>1, <2>3, <2>4, <2>5
<1>8. g + 1 \in DOMAIN gs
  <2>1. CASE m \in ToSet(s)
    <3>1. PICK h \in DOMAIN gs : h > g
      BY <1>7, <2>1
    <3> QED BY <1>1, <3>1
  <2> QED BY <2>1
<1> DEFINE b == gs[g + 1][1]
<1>9. /\ b \in ToSet(s) /\ b \in Ids /\ 1 \in DOMAIN gs[g + 1] /\ gs[g + 1] \in Seq(Ids)
      /\ Album(b) # Album(m)
  <2>1. gs[g + 1] \in Seq(Ids) /\ gs[g + 1] # <<>>
    BY <1>1, <1>8 DEF Grouped
  <2>2. 1 \in DOMAIN gs[g + 1] /\ b \in Ids
    BY <2>1
  <2>3. b \in ToSet(s)
    <3>1. \A k \in DOMAIN gs[g + 1] : gs[g + 1][k] \in Members(gs)
      BY <1>8, MemberIs
    <3> QED BY <1>1, <2>2, <3>1
  <2>4. Album(b) # Album(m)
    BY <1>8 DEF Grouped
  <2> QED BY <2>1, <2>2, <2>3, <2>4
<1>10. a < b
  <2>1. g < g + 1
    BY <1>1
  <2> QED BY <1>1, <1>2, <1>8, <1>9, <2>1 DEF InOrder, a
<1>11. b < m
  <2>1. CASE m \in ToSet(s)
    <3>1. PICK h \in DOMAIN gs : h > g /\ \E k \in DOMAIN gs[h] : gs[h][k] = m
      BY <1>7, <2>1
    <3>2. PICK k \in DOMAIN gs[h] : gs[h][k] = m
      BY <3>1
    <3>3. g + 1 < h \/ g + 1 = h
      BY <1>1, <3>1
    <3>4. gs[h] \in Seq(Ids)
      BY <1>1
    <3>5. k = 1 \/ 1 < k
      BY <3>2, <3>4
    <3>6. b < m \/ b = m
      BY <1>1, <1>8, <1>9, <3>2, <3>3, <3>5 DEF InOrder
    <3> QED BY <1>9, <3>6
  <2>2. CASE m \notin ToSet(s)
    BY <1>9, <2>2
  <2> QED BY <2>1, <2>2
<1> HIDE DEF b
<1>12. source[b].state = "on"
  BY <1>9 DEF Selected
<1> QED BY <1>2, <1>3, <1>9, <1>10, <1>11, <1>12 DEF AlbumsTogether, Album

\* A step that leaves what is read alone, or drops it.
LEMMA TailSame ==
  ASSUME TailInv, UNCHANGED <<source, passed, lost>>,
         \/ groups' = <<>> /\ held' = <<>>
         \/ UNCHANGED reading /\ \A r \in Requests : pc'[r] \in Running => \E q \in Requests : pc[q] \in Running
  PROVE  TailInv'
<1>1. UNCHANGED <<Selected(Ids), TailRead>> /\ \A G : Known(G) <=> Known(G)'
  BY DEF Selected, Ids, TailRead, Known, Album
<1>2. CASE groups' = <<>> /\ held' = <<>>
  <2>1. Cut'
    BY <1>2 DEF Cut, Behind, ToSet
  <2> QED BY <1>1, <2>1 DEF TailInv
<1>3. CASE UNCHANGED reading /\ \A r \in Requests : pc'[r] \in Running => \E q \in Requests : pc[q] \in Running
  <2>1. UNCHANGED Selected(Below)
    BY <1>3 DEF Selected, Below, Ids
  <2>2. Cut => Cut'
    <3>1. UNCHANGED Behind
      BY <1>1, <1>3, <2>1 DEF Behind, ToSet
    <3>2. (\A g \in DOMAIN groups : Known(groups[g])) => (\A g \in DOMAIN groups : Known(groups[g]))'
      BY <1>3 DEF Known, Selected, Ids, Album
    <3> QED BY <3>1, <3>2 DEF Cut
  <2> QED BY <1>1, <1>3, <2>2 DEF TailInv
<1> QED BY <1>2, <1>3

LEMMA FetchedTail ==
  ASSUME AlbumsTogether, IInv, ReadInv, TailInv, NEW r \in Requests, Fetched(r)
  PROVE  TailInv'
<1>1. /\ pc[r] = "fetch" /\ "fetch" \in Running
      /\ UNCHANGED <<source, flags, passed, failedChunks, bounds>>
  BY DEF Fetched, Running
<1>2. Run("fetch") /\ DataTypes /\ groups = <<>> /\ chunk <= EndId /\ Cut
  BY <1>1 DEF ReadInv, Run, Places, TailInv
<1>3. CASE stopRequested
  <2>1. groups' = <<>> /\ held' = <<>> /\ UNCHANGED lost
    BY <1>3 DEF Fetched, EndJob
  <2> QED BY <1>1, <2>1, TailSame
<1>4. CASE ~stopRequested
  <2>1. PICK failing \in SUBSET (Selected(Batch(chunk)) \union Left(Batch(chunk))) :
               LET read == Batch(chunk) \ failing
                   done == GroupMessages(held \o Ascending(Selected(read))) IN
               /\ lost'    = lost \union failing
               /\ held'    = IF HoldsLast(done) THEN Last(done) ELSE <<>>
               /\ groups'  = IF HoldsLast(done) THEN Front(done) ELSE done
               /\ chunk'   = chunk + ChunkSize
    BY <1>4 DEF Fetched
  <2> DEFINE B    == Batch(chunk)
             S    == OfBatch(failing)
             s    == Followed(failing)
             done == GroupMessages(s)
  <2>2. /\ lost' = lost \union failing /\ chunk' = chunk + ChunkSize
        /\ held'   = IF HoldsLast(done) THEN Last(done) ELSE <<>>
        /\ groups' = IF HoldsLast(done) THEN Front(done) ELSE done
    BY <2>1 DEF Followed, OfBatch
  <2>3. /\ chunk \in Nat \ {0} /\ failing \in SUBSET B
        /\ B = {m \in Ids : chunk <= m /\ m < chunk + ChunkSize}
        /\ EndId \in Nat /\ ChunkSize \in Nat \ {0} /\ Ids = 1..EndId
    BY <1>2, IdSets, BatchIs DEF DataTypes, Selected, Left
  <2>4. /\ Before(Below, B) /\ S \subseteq B /\ S \in SUBSET Ids
        /\ s \in Seq(Ids) /\ Sorted(s) /\ ToSet(s) = ToSet(held) \union S
    BY <1>2, <2>3, BatchFollows
  <2>5. S = {m \in B \ failing : source[m].state = "on"}
    BY DEF OfBatch, Selected
  <2> HIDE DEF B, S, s
  <2>6. Grouped(s, done)
    BY <2>4, Grouping
  <2> HIDE DEF done
  <2>7. /\ done \in Seq(Seq(Ids)) /\ InOrder(done) /\ Members(done) = ToSet(s)
        /\ DOMAIN done = 1..Len(done) /\ Len(done) \in Nat
    BY <2>6 DEF Grouped
  <2>8. /\ ToSet(held) \subseteq Selected(Ids) /\ ToSet(held) \subseteq Below
        /\ \A m \in Selected(Below) \ lost, h \in ToSet(held) : m \in ToSet(held) \/ m < h
    BY <1>2 DEF Cut, Behind, Run, Ordered
  <2>9. ToSet(s) \subseteq Selected(Ids) /\ ToSet(s) \subseteq Below \union B
    BY <2>4, <2>5, <2>8 DEF Selected
  <2>10. ASSUME NEW m \in Selected(Ids) \ lost', NEW x \in ToSet(s), m < chunk + ChunkSize
         PROVE  m \in ToSet(s) \/ m < x
    <3>1. m \in Ids /\ source[m].state = "on" /\ m \notin lost /\ m \notin failing
      BY <2>2 DEF Selected
    <3>2. CASE m < chunk
      <4>1. m \in Selected(Below) \ lost /\ m \in Below
        BY <3>1, <3>2 DEF Selected, Below
      <4> QED BY <2>4, <2>8, <4>1 DEF Before
    <3>3. CASE ~(m < chunk)
      <4>1. m \in B
        BY <2>3, <2>10, <3>1, <3>3
      <4> QED BY <2>4, <2>5, <3>1, <4>1
    <3> QED BY <3>2, <3>3
  <2>11. ASSUME NEW x \in ToSet(s)
         PROVE  x \in Ids /\ x < chunk + ChunkSize
    <3>1. x \in Ids /\ (x < chunk \/ x < chunk + ChunkSize)
      BY <2>3, <2>9 DEF Below
    <3> QED BY <2>3, <3>1
  <2>12. source \in Sources
    BY <1>2 DEF DataTypes
  <2>13. ASSUME NEW g \in DOMAIN done, g + 1 \in DOMAIN done \/ ~HoldsLast(done),
                NEW m \in Selected(Ids) \ lost', Album(m) # 0, Album(m) = Album(done[g][1])
         PROVE  m <= Last(done[g])
    <3>1. m \in Ids /\ done[g] \in Seq(Ids) /\ done[g] # <<>>
      BY <2>6, <2>7 DEF Selected, Grouped
    <3>2. CASE m \in ToSet(s)
      BY <2>4, <2>6, <2>9, <2>12, <2>13, <3>1, <3>2, GroupEnds
    <3>3. CASE m \notin ToSet(s) /\ m < chunk + ChunkSize
      <4>1. Last(done[g]) \in Members(done) /\ Last(done[g]) \in Ids
        BY <3>1, LastOf, MemberIs
      <4>2. m < Last(done[g])
        BY <2>7, <2>10, <3>3, <4>1
      <4> QED BY <2>3, <3>1, <4>1, <4>2
    <3>4. CASE m \notin ToSet(s) /\ ~(m < chunk + ChunkSize)
      <4>1. \A x \in ToSet(s) : x < m
        BY <2>3, <2>11, <3>1, <3>4
      <4>2. g + 1 \in DOMAIN done
        <5>1. SUFFICES ASSUME ~HoldsLast(done), g + 1 \notin DOMAIN done
                       PROVE  FALSE
          BY <2>13
        <5>2. g = Len(done) /\ done # <<>>
          BY <2>7, <5>1
        <5>3. chunk + ChunkSize - 1 < EndId
          BY <2>3, <3>1, <3>4
        <5>4. Last(done) = done[g]
          BY <5>2 DEF Last
        <5> QED BY <2>13, <5>1, <5>2, <5>3, <5>4 DEF HoldsLast
      <4> QED BY <2>4, <2>6, <2>9, <2>12, <2>13, <3>1, <4>1, <4>2, GroupEnds
    <3> QED BY <3>2, <3>3, <3>4
  <2>14. HoldsLast(done) => done # <<>>
    BY DEF HoldsLast
  <2>15. \A g \in DOMAIN groups' :
           /\ g \in DOMAIN done /\ groups'[g] = done[g]
           /\ g + 1 \in DOMAIN done \/ ~HoldsLast(done)
    <3>1. CASE HoldsLast(done)
      <4>1. groups' = Front(done)
        BY <2>2, <3>1
      <4> QED BY <2>7, <2>14, <3>1, <4>1, FrontLast
    <3>2. CASE ~HoldsLast(done)
      BY <2>2, <3>2
    <3> QED BY <3>1, <3>2
  <2>16. \A g \in DOMAIN groups' : \A m \in Selected(Ids) \ lost' :
           Album(m) # 0 /\ Album(m) = Album(groups'[g][1]) => m <= Last(groups'[g])
    BY <2>13, <2>15
  <2>17. /\ ToSet(held') \subseteq ToSet(s)
         /\ \A m \in ToSet(s), h \in ToSet(held') : m \in ToSet(held') \/ m < h
    <3>1. CASE HoldsLast(done)
      <4>1. held' = Last(done)
        BY <2>2, <3>1
      <4>2. Members(done) = Members(Front(done)) \union ToSet(Last(done))
            /\ Before(Members(Front(done)), ToSet(Last(done)))
        BY <2>7, <2>14, <3>1, FrontLast
      <4> QED BY <2>7, <4>1, <4>2 DEF Before
    <3>2. CASE ~HoldsLast(done)
      <4>1. held' = <<>>
        BY <2>2, <3>2
      <4>2. ToSet(held') = {}
        BY <4>1 DEF ToSet
      <4> QED BY <4>2
    <3> QED BY <3>1, <3>2
  <2>18. Cut'
    <3>1. (\A g \in DOMAIN groups : Known(groups[g]))'
      BY <1>1, <2>16 DEF Known, Selected, Album, Ids
    <3>2. Selected(Ids)' = Selected(Ids)
          /\ \A m \in Selected(Below)' : m \in Selected(Ids) /\ m < chunk + ChunkSize
      BY <1>1, <2>2 DEF Selected, Below, Ids
    <3>3. \A m \in Selected(Below)' \ lost', h \in ToSet(held') : m \in ToSet(held') \/ m < h
      BY <2>10, <2>17, <3>2
    <3>4. Behind'
      BY <2>9, <2>17, <3>2, <3>3 DEF Behind, ToSet
    <3> QED BY <3>1, <3>4 DEF Cut
  <2>19. TailRead'
    <3>1. /\ UNCHANGED Selected(Ids) /\ lost \subseteq lost' /\ UNCHANGED passed
          /\ \A m : UNCHANGED Album(m)
      BY <1>1, <2>2 DEF Selected, Ids, Album
    <3> QED BY <1>1, <2>2, <3>1 DEF TailInv, TailRead, Album
  <2> QED BY <2>18, <2>19 DEF TailInv
<1> QED BY <1>3, <1>4

LEMMA EmitTail ==
  ASSUME IInv, ReadInv, TailInv, NEW r \in Requests, Emit(r)
  PROVE  TailInv'
<1>1. pc[r] = "emit" /\ "emit" \in Running /\ UNCHANGED <<source, flags, failedChunks, lost, bounds>>
  BY DEF Emit, Running
<1>2. CASE groups = <<>>
  <2>1. UNCHANGED <<reading, passed>>
    BY <1>2 DEF Emit
  <2> QED BY <1>1, <2>1, TailSame
<1>3. CASE groups # <<>> /\ stopRequested
  <2>1. groups' = <<>> /\ held' = <<>> /\ UNCHANGED passed
    BY <1>3 DEF Emit, EndJob
  <2> QED BY <1>1, <2>1, TailSame
<1>4. CASE groups # <<>> /\ ~stopRequested
  <2>1. passed' = Append(passed, Head(groups)) /\ UNCHANGED reading
    BY <1>4 DEF Emit
  <2>2. /\ groups \in Seq(Seq(Ids)) /\ passed \in Seq(Seq(Ids)) /\ InOrder(groups)
        /\ Cut /\ \A i \in DOMAIN passed : Known(passed[i])
    BY <1>1 DEF ReadInv, DataTypes, Run, Ordered, TailInv, TailRead, Known
  <2>3. Known(Head(groups))
    <3>1. \E h \in DOMAIN groups : Head(groups) = groups[h]
      BY <1>4, <2>2, HeadTail
    <3> QED BY <2>2, <3>1 DEF Cut
  <2>4. \A i \in DOMAIN passed' : (i \in DOMAIN passed /\ passed'[i] = passed[i]) \/ passed'[i] = Head(groups)
    BY <2>1, <2>2
  <2>5. \A i \in DOMAIN passed' : Known(passed'[i])
    BY <2>2, <2>3, <2>4
  <2>6. TailRead'
    BY <1>1, <2>5 DEF TailRead, Known, Selected, Album, Ids
  <2>7. Cut'
    <3>1. UNCHANGED <<Selected(Below), Selected(Ids), ToSet(held)>>
      BY <1>1, <2>1 DEF Selected, Below, Ids, ToSet
    <3>2. Behind'
      BY <1>1, <2>1, <2>2, <3>1 DEF Cut, Behind
    <3>3. (\A g \in DOMAIN groups : Known(groups[g]))'
      BY <1>1, <2>1, <2>2 DEF Cut, Known, Selected, Album, Ids
    <3> QED BY <3>2, <3>3 DEF Cut
  <2> QED BY <2>6, <2>7 DEF TailInv
<1> QED BY <1>2, <1>3, <1>4

LEMMA DeliveredTail ==
  ASSUME IInv, ReadInv, TailInv, NEW r \in Requests, Delivered(r)
  PROVE  TailInv'
<1>1. /\ pc[r] = "deliver" /\ "deliver" \in Running /\ groups' = Tail(groups)
      /\ UNCHANGED <<source, flags, chunk, held, history>>
  BY DEF Delivered, Running
<1>2. groups \in Seq(Seq(Ids)) /\ InOrder(groups) /\ groups # <<>> /\ Cut
  BY <1>1 DEF ReadInv, DataTypes, Run, Ordered, Places, TailInv
<1>3. \A g \in DOMAIN groups' : Known(groups'[g])
  <2>1. \A g \in DOMAIN groups' : \E h \in DOMAIN groups : groups'[g] = groups[h]
    BY <1>1, <1>2, HeadTail
  <2> QED BY <1>2, <2>1 DEF Cut
<1>4. UNCHANGED <<Selected(Below), Selected(Ids), ToSet(held)>>
  BY <1>1 DEF Selected, Below, Ids, ToSet
<1>5. Behind'
  BY <1>1, <1>2, <1>4 DEF Cut, Behind
<1>6. (\A g \in DOMAIN groups : Known(groups[g]))'
  BY <1>1, <1>3 DEF Known, Selected, Album, Ids
<1>7. TailRead'
  BY <1>1 DEF TailInv, TailRead, Selected, Album, Ids
<1> QED BY <1>5, <1>6, <1>7 DEF Cut, TailInv

\* The other steps of a job keep what is read, or drop it.
LEMMA OtherTail ==
  ASSUME IInv, ReadInv, TailInv, NEW r \in Requests,
         \/ Setup(r) \/ ReadNext(r) \/ FetchFails(r) \/ NetworkGone(r) \/ DeliverRaises(r)
         \/ Reserve(r) \/ Invalid(r) \/ Validated(r) \/ LogEnd(r)
  PROVE  TailInv'
<1>1. CASE Setup(r) \/ ReadNext(r) \/ NetworkGone(r) \/ DeliverRaises(r)
  <2>1. /\ pc[r] \in Running /\ UNCHANGED <<source, passed, lost>>
        /\ UNCHANGED reading \/ (groups' = <<>> /\ held' = <<>>)
    BY <1>1 DEF Setup, ReadNext, NetworkGone, DeliverRaises, EndJob, Running
  <2> QED BY <2>1, TailSame
<1>2. CASE FetchFails(r)
  <2>1. groups = <<>>
    <3>1. pc[r] = "fetch" /\ "fetch" \in Running
      BY <1>2 DEF FetchFails, Running
    <3> QED BY <3>1 DEF ReadInv, Run, Places
  <2>2. UNCHANGED <<source, passed, lost>> /\ groups' = <<>> /\ held' = <<>>
    BY <1>2, <2>1 DEF FetchFails, EndJob
  <2> QED BY <2>2, TailSame
<1>3. CASE Reserve(r) \/ Invalid(r) \/ Validated(r) \/ LogEnd(r)
  <2>1. /\ UNCHANGED <<source, reading, history>>
        /\ \E l \in {"done", "validating", "queued"} : pc' = [pc EXCEPT ![r] = l]
    BY <1>3 DEF Reserve, Invalid, Validated, LogEnd, Release, Goto
  <2>2. \A s \in Requests : pc'[s] \in Running => pc[s] \in Running
    BY <2>1 DEF IInv, SessionTypes, Running
  <2> QED BY <2>1, <2>2, TailSame
<1> QED BY <1>1, <1>2, <1>3

LEMMA BeginTail ==
  ASSUME IInv, TailInv, NEW r \in Requests, Begin(r)
  PROVE  TailInv'
<1>1. pc[r] = "queued" /\ "queued" \in Active /\ passed' = <<>>
  BY DEF Begin, Active
<1>2. TailRead'
  BY <1>1 DEF TailRead
<1>3. CASE StoppedEarly
  <2>1. pc' = [pc EXCEPT ![r] = "done"]
    BY <1>3 DEF Begin, Release, Goto
  <2>2. \A s \in Requests : pc'[s] \notin Running
    BY <1>1, <2>1, Alone DEF IInv, SessionTypes, Running, Active
  <2> QED BY <1>2, <2>2 DEF TailInv
<1>4. CASE ~StoppedEarly
  <2>1. held' = <<>> /\ groups' = <<>>
    BY <1>4 DEF Begin
  <2>2. Cut'
    BY <2>1 DEF Cut, Behind, ToSet
  <2> QED BY <1>2, <2>2 DEF TailInv
<1> QED BY <1>3, <1>4

-----------------------------------------------------------------------------
(* The theorems.                                                            *)

\* The values have their types, at most one history job is alive, is_syncing is up
\* exactly as long, and the stop flag is up for a job or after a restart in place, for
\* any number of requests and any source (main.py, runtime/state.py).
THEOREM SessionCorrect == Spec => []SessionConsistent
<1>1. IInv /\ ReadInv => SessionConsistent
  <2> SUFFICES ASSUME IInv, ReadInv
               PROVE  SessionConsistent
    OBVIOUS
  <2>1. /\ source \in Sources /\ {isSyncing, stopRequested, serving, raised} \subseteq BOOLEAN
        /\ pc \in [Requests -> Active \union {"new", "done"}] /\ chunk \in Nat
    BY DEF IInv, SessionTypes, ReadInv, DataTypes
  <2>2. /\ held \in Seq(Ids) /\ groups \in Seq(Seq(Ids)) /\ passed \in Seq(Seq(Ids))
        /\ outcome \in [Counters -> Nat]
        /\ result \in {"none", "completed", "partial_failed", "failed", "stopped"}
    BY DEF ReadInv, DataTypes
  <2>3. /\ failedChunks \subseteq Ids /\ lost \subseteq Ids
        /\ stops \in Nat /\ failures \in Nat /\ restarts \in Nat
    BY DEF IInv, SessionTypes, ReadInv, DataTypes
  <2>4. TypeOK
    BY <2>1, <2>2, <2>3 DEF TypeOK
  <2> QED BY <2>4 DEF SessionConsistent, IInv, Session
<1> QED BY <1>1, Reads, PTL

\* Every message a job read is in exactly one of the counters it reports, however the
\* range is cut into batches and albums (clone/process.py, runtime/result.py).
THEOREM AccountedCorrect == Spec => []Accounted
<1>1. ReadInv => Accounted
  BY DEF ReadInv, Ended
<1> QED BY <1>1, Reads, PTL

\* A job that reports completion handed on the selected messages of the range it could
\* read, each once and in order, for any range, batch size and layout of albums.
THEOREM CompletionCorrect == Spec => []CompletedTells
<1>1. ReadInv => CompletedTells
  BY DEF ReadInv, Ended
<1> QED BY <1>1, Reads, PTL

\* An album is handed on only when its later members have been read too, in whatever
\* batch they are, when the selected members of an album follow one another
\* (clone/process.py, the album kept back at the end of a batch).
THEOREM TailCorrect ==
  ASSUME AlbumsTogether
  PROVE  Spec => []TailRead
<1>1. Init => TailInv
  <2> SUFFICES ASSUME Init
               PROVE  TailInv
    OBVIOUS
  <2>1. \A r \in Requests : pc[r] \notin Running
    BY DEF Init, Running
  <2>2. TailRead
    BY DEF Init, TailRead
  <2> QED BY <2>1, <2>2 DEF TailInv
<1>2. ASSUME IInv, ReadInv, TailInv, [Next]_vars
      PROVE  TailInv'
  <2>1. ASSUME NEW r \in Requests, Reserve(r) \/ Job(r)
        PROVE  TailInv'
    BY <1>2, <2>1, BeginTail, FetchedTail, EmitTail, DeliveredTail, OtherTail DEF Job
  <2>2. CASE RequestStop \/ Shutdown \/ Restart \/ UNCHANGED vars
    <3>1. UNCHANGED <<source, passed, lost, reading, pc>>
      BY <2>2 DEF RequestStop, Shutdown, Restart, vars
    <3> QED BY <1>2, <3>1, TailSame
  <2> QED BY <1>2, <2>1, <2>2 DEF Next
<1>3. TailInv => TailRead
  BY DEF TailInv
<1> QED BY <1>1, <1>2, <1>3, Reads, PTL DEF Spec

\* A stop the server has accepted falls only with the job it is for, which then
\* reports that it was stopped.
THEOREM StopCorrect == Spec => StopNotForgotten
<1> DEFINE Obeyed ==
      stopRequested /\ ~stopRequested'
          /\ (\E r \in Requests : pc[r] \in Active \ {"validating", "logging"})
        => result' = "stopped"
<1>1. ASSUME IInv, Next
      PROVE  Obeyed
  <2> SUFFICES ASSUME stopRequested, ~stopRequested', NEW r \in Requests,
                      pc[r] \in Active \ {"validating", "logging"}
               PROVE  result' = "stopped"
    OBVIOUS
  <2>1. isSyncing /\ \A s \in Requests : pc[s] \in Active => s = r
    BY <1>1 DEF IInv, Session, SessionExclusive
  <2>2. ASSUME NEW s \in Requests, Reserve(s)
        PROVE  FALSE
    BY <2>1, <2>2 DEF Reserve, Busy
  <2>3. ASSUME NEW s \in Requests, Job(s)
        PROVE  result' = "stopped"
    <3>1. s = r
      BY <2>1, <2>3, JobSteps DEF Stays, Leaves
    <3>2. CASE Begin(s)
      BY <3>2 DEF Begin, StoppedEarly
    <3>3. CASE ~Begin(s)
      <4>1. pc[s] \notin {"validating", "logging"}
        BY <3>1
      <4>2. UNCHANGED stopRequested
        BY <2>3, <3>3, <4>1 DEF Job, Invalid, Validated, Setup, LogEnd, ReadNext, Fetched,
           FetchFails, NetworkGone, Emit, Delivered, DeliverRaises
      <4> QED BY <4>2
    <3> QED BY <3>2, <3>3
  <2>4. ~(RequestStop \/ Shutdown \/ Restart)
    BY DEF RequestStop, Shutdown, Restart
  <2> QED BY <1>1, <2>2, <2>3, <2>4 DEF Next
<1>2. IInv /\ [Next]_vars => [Obeyed]_vars
  BY <1>1
<1> QED BY <1>2, Invariant, PTL DEF Spec, StopNotForgotten
=============================================================================
