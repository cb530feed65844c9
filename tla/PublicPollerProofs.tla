------------------------- MODULE PublicPollerProofs -------------------------
(***************************************************************************)
(* Proofs about PublicPoller: types, that cursors cover only what has been  *)
(* dealt with, that nothing from before a starting point is sent, and that  *)
(* no cursor goes back.  They rest on what a pass knows of its targets.     *)
(***************************************************************************)
EXTENDS PublicPoller, WellFoundedInduction, TLAPS

-----------------------------------------------------------------------------
(* Smallest and largest members.                                            *)

LEMMA LeastNatural ==
  ASSUME NEW S \in SUBSET Nat, S # {}
  PROVE  \E x \in S : \A y \in S : x <= y
<1>1. PICK x \in S : \A y \in S : ~(<<y, x>> \in OpToRel(<, Nat))
  BY NatLessThanWellFounded, WFMin
<1>2. \A y \in Nat : y < x => <<y, x>> \in OpToRel(<, Nat)
  BY DEF OpToRel
<1>3. \A y \in S : y \in Nat /\ ~(y < x)
  BY <1>1, <1>2, Zenon
<1>4. \A y \in S : x <= y
  BY <1>3
<1> QED BY <1>4

LEMMA SmallestIn ==
  ASSUME NEW S \in SUBSET Int, S # {}, NEW b \in Int, \A x \in S : b <= x
  PROVE  Smallest(S) \in S /\ \A y \in S : Smallest(S) <= y
<1> DEFINE D == {x - b : x \in S}
<1>1. D \in SUBSET Nat
  <2>1. \A x \in S : x \in Int /\ x - b \in Nat
    OBVIOUS
  <2> QED BY <2>1
<1>2. D # {}
  <2>1. PICK x \in S : TRUE
    OBVIOUS
  <2>2. x - b \in D
    BY <2>1
  <2> QED BY <2>2
<1> HIDE DEF D
<1>3. PICK d \in D : \A e \in D : d <= e
  BY <1>1, <1>2, LeastNatural
<1>4. PICK x \in S : d = x - b
  BY <1>3 DEF D
<1>5. \A y \in S : x - b <= y - b
  BY <1>3, <1>4 DEF D
<1>6. \A y \in S : x <= y
  BY <1>5
<1> QED BY <1>6 DEF Smallest

LEMMA LargestIn ==
  ASSUME NEW S \in SUBSET Int, S # {}, NEW b \in Int, \A x \in S : x <= b
  PROVE  Largest(S) \in S /\ \A y \in S : Largest(S) >= y
<1> DEFINE D == {b - x : x \in S}
<1>1. D \in SUBSET Nat
  <2>1. \A x \in S : x \in Int /\ b - x \in Nat
    OBVIOUS
  <2> QED BY <2>1
<1>2. D # {}
  <2>1. PICK x \in S : TRUE
    OBVIOUS
  <2>2. b - x \in D
    BY <2>1
  <2> QED BY <2>2
<1> HIDE DEF D
<1>3. PICK d \in D : \A e \in D : d <= e
  BY <1>1, <1>2, LeastNatural
<1>4. PICK x \in S : d = b - x
  BY <1>3 DEF D
<1>5. \A y \in S : b - x <= b - y
  BY <1>3, <1>4 DEF D
<1>6. \A y \in S : x >= y
  BY <1>5
<1> QED BY <1>6 DEF Largest

-----------------------------------------------------------------------------
(* The inductive invariant.                                                 *)

AtGroup == pc \in {"target", "enabled", "sending", "moving"}

\* The owner whose cursor the pass has read for a target.
PassOwner(t) == IF t = Saved THEN owner ELSE 0

\* Where the pass is. While it holds the gate, its client and its cursors are
\* those of the account.
PassInv ==
  /\ pc \in {"idle", "listing"} => group = {}
  /\ AtGroup => lo <= hi
  /\ pc \in {"enabled", "sending", "moving"} => Current \notin paused
  /\ Held => OwnPass /\ ~switching
  /\ pc = "sending" => NewToTarget
  /\ pc = "moving" => MessageGroup \subseteq handled[Current][Receiver]

\* A rule starts where its cursor is or before, and its cursor passes only what
\* was handled, whether it is there or deleted; a rule that is being added has a
\* target and a starting point.
RuleInv ==
  /\ \A t \in Targets, o \in Owners :
       /\ start[t][o] <= cursor[t][o]
       /\ start[t][o] + 1 .. cursor[t][o] \subseteq handled[t][o]
  /\ adding # NotAdding => adding.target \in Targets /\ adding.from \in 0..MaxMsg

\* What a pass knows of a target: up to the cursor it has read all was handled,
\* and beyond it whatever the pass has come across, unless the rule was paused.
Known(t) ==
  LET done == handled[t][PassOwner(t)]  from == start[t][PassOwner(t)] IN
  /\ from + 1 .. seen[t] \subseteq done
  /\ t \in renewed \/ from <= seen[t]
  /\ t \notin paused =>
       /\ \A m \in Msgs : seen[t] < m /\ m < lo => m \in done
       /\ AtGroup /\ t \notin waiting => \A m \in MessageGroup : seen[t] < m => m \in done

IInv == TypeOK /\ PassInv /\ RuleInv /\ \A t \in group : Known(t)

-----------------------------------------------------------------------------
(* What a pass works with.                                                  *)

LEMMA CurrentWaiting ==
  ASSUME TypeOK, waiting # {}
  PROVE  Current \in waiting /\ Current \in group /\ Current \in Targets
<1>1. waiting \subseteq Targets /\ waiting \subseteq group
  BY DEF TypeOK
<1>2. waiting \in SUBSET Int /\ \A t \in waiting : -1 <= t
  BY <1>1, PollerAssumption DEF PollerAssumption, Saved
<1>3. Current \in waiting
  BY <1>2, SmallestIn DEF Current
<1> QED BY <1>1, <1>3

\* A message group is an interval that begins at lo.
LEMMA GroupIsInterval ==
  ASSUME TypeOK, lo <= hi
  PROVE  /\ Largest(MessageGroup) \in lo..hi
         /\ \A m \in Int : m \in MessageGroup <=> lo <= m /\ m <= Largest(MessageGroup)
         /\ MessageGroup \subseteq Msgs
<1>1. lo \in Nat \ {0} /\ hi \in Nat /\ hi <= MaxMsg /\ MaxMsg \in Nat
  BY PollerAssumption DEF TypeOK, PollerAssumption
<1>2. \A m \in MessageGroup : m \in Int /\ lo <= m /\ m <= hi
  BY <1>1 DEF MessageGroup
<1>3. lo \in MessageGroup
  BY <1>1 DEF MessageGroup
<1>4. Largest(MessageGroup) \in MessageGroup /\ \A m \in MessageGroup : Largest(MessageGroup) >= m
  <2>1. MessageGroup \in SUBSET Int /\ MessageGroup # {} /\ \A m \in MessageGroup : m <= hi
    BY <1>2, <1>3
  <2>2. hi \in Int
    BY <1>1
  <2> HIDE DEF MessageGroup
  <2> QED BY <2>1, <2>2, LargestIn
<1>5. \A m \in MessageGroup : \A k \in lo..m : k \in MessageGroup
  BY <1>1 DEF MessageGroup
<1>6. Largest(MessageGroup) \in Int /\ lo <= Largest(MessageGroup) /\ Largest(MessageGroup) <= hi
  BY <1>2, <1>4
<1>7. ASSUME NEW m \in Int
      PROVE  m \in MessageGroup <=> lo <= m /\ m <= Largest(MessageGroup)
  <2>1. CASE lo <= m /\ m <= Largest(MessageGroup)
    <3>1. m \in lo..Largest(MessageGroup)
      BY <2>1, <1>1, <1>6
    <3> QED BY <3>1, <2>1, <1>5, <1>4
  <2>2. CASE ~(lo <= m /\ m <= Largest(MessageGroup))
    BY <2>2, <1>2, <1>4, <1>6
  <2> QED BY <2>1, <2>2
<1>8. MessageGroup \subseteq Msgs
  BY <1>1, <1>2 DEF Msgs
<1>9. Largest(MessageGroup) \in lo..hi
  BY <1>1, <1>6
<1> QED BY <1>7, <1>8, <1>9

\* The pass starts behind every target it has read.
LEMMA FirstNewFirst ==
  ASSUME TypeOK, NEW S \in SUBSET Targets, S # {}
  PROVE  /\ FirstNew(S) \in 1..MaxMsg + 1
         /\ \A t \in S : FirstNew(S) <= cursor[t][OwnerId(t)] + 1
<1> DEFINE C == {cursor[t][OwnerId(t)] : t \in S}
<1>1. MaxMsg \in Nat
  BY PollerAssumption DEF PollerAssumption
<1>2. \A t \in S : cursor[t][OwnerId(t)] \in 0..MaxMsg
  BY DEF TypeOK, OwnerId, Owners
<1>3. C \in SUBSET Int /\ C # {} /\ \A c \in C : 0 <= c /\ c <= MaxMsg
  <2>1. \A t \in S : /\ cursor[t][OwnerId(t)] \in Int
                    /\ 0 <= cursor[t][OwnerId(t)] /\ cursor[t][OwnerId(t)] <= MaxMsg
    BY <1>1, <1>2
  <2>2. C # {}
    <3>1. PICK t \in S : TRUE
      OBVIOUS
    <3>2. cursor[t][OwnerId(t)] \in C
      BY <3>1
    <3> QED BY <3>2
  <2> QED BY <2>1, <2>2
<1>4. \A t \in S : cursor[t][OwnerId(t)] \in C
  OBVIOUS
<1>5. FirstNew(S) = Smallest(C) + 1
  BY DEF FirstNew
<1>6. Smallest(C) \in C /\ \A c \in C : Smallest(C) <= c
  <2>1. 0 \in Int
    OBVIOUS
  <2> HIDE DEF C
  <2> QED BY <1>3, <2>1, SmallestIn
<1> HIDE DEF C
<1>7. Smallest(C) \in Int /\ 0 <= Smallest(C) /\ Smallest(C) <= MaxMsg
  BY <1>3, <1>6
<1>8. FirstNew(S) \in 1..MaxMsg + 1
  BY <1>1, <1>5, <1>7
<1>9. \A t \in S : FirstNew(S) <= cursor[t][OwnerId(t)] + 1
  BY <1>1, <1>2, <1>4, <1>5, <1>6, <1>7
<1> QED BY <1>8, <1>9
USE DEF rules, login, job, pass, work, since, history, bounds

-----------------------------------------------------------------------------
(* Steps that end the pass, and steps beside the poller.                    *)

LEMMA Constants ==
  /\ MaxMsg \in Nat /\ MaxChanges \in Nat /\ MaxFailures \in Nat
  /\ 0 \in Owners /\ \A t \in Targets : OwnerId(t) \in {account, 0}
BY PollerAssumption DEF PollerAssumption, Owners, OwnerId

\* A pass that ends forgets everything; only the types and the rules are left.
LEMMA EndPassInv ==
  ASSUME IInv, EndPass, UNCHANGED <<rules, history>>, adding' \in {adding, NotAdding},
         {account', client'} \subseteq Owners, {switching', syncing', stopRequested'} \subseteq BOOLEAN,
         changes' \in 0..MaxChanges, failures' \in 0..MaxFailures
  PROVE  IInv'
<1>1. TypeOK'
  <2>1. adding' \in [target : Targets \union {0}, from : -1..MaxMsg]
    BY Constants DEF IInv, TypeOK, NotAdding
  <2>2. /\ pc' = "idle" /\ group' = {} /\ waiting' = {} /\ paused' = {} /\ renewed' = {}
        /\ lo' = 1 /\ hi' = 0 /\ user' = 0 /\ owner' = 0 /\ stale' = FALSE
        /\ seen' = [t \in Targets |-> 0]
    BY DEF EndPass
  <2>3. /\ lo' \in 1..MaxMsg + 1 /\ hi' \in 0..MaxMsg /\ seen' \in [Targets -> 0..MaxMsg]
        /\ {user', owner'} \subseteq Owners
    BY <2>2, Constants
  <2>4. /\ latest' \in 0..MaxMsg
        /\ rule' \in [Targets -> {"absent", "enabled", "paused"}]
        /\ cursor' \in [Targets -> [Owners -> 0..MaxMsg]]
        /\ start'  \in [Targets -> [Owners -> 0..MaxMsg]]
        /\ handled' \in [Targets -> [Owners -> SUBSET Msgs]]
    BY DEF IInv, TypeOK
  <2> QED BY <2>1, <2>2, <2>3, <2>4 DEF TypeOK
<1>2. PassInv'
  BY DEF EndPass, PassInv, AtGroup, Held
<1>3. RuleInv'
  <2>1. \A t \in Targets, o \in Owners : start'[t][o] = start[t][o] /\ cursor'[t][o] = cursor[t][o]
    OBVIOUS
  <2> QED BY <2>1 DEF IInv, RuleInv
<1>4. group' = {}
  BY DEF EndPass
<1> QED BY <1>1, <1>2, <1>3, <1>4 DEF IInv

\* Whoever is not the poller leaves the pass alone, and the account while the
\* pass holds the gate.
LEMMA OutsideInv ==
  ASSUME IInv, UNCHANGED <<cursor, start, history, pc, pass, renewed, work>>,
         Held => UNCHANGED <<account, switching>>,
         latest' \in 0..MaxMsg, rule' \in [Targets -> {"absent", "enabled", "paused"}],
         {account', client'} \subseteq Owners, {switching', syncing', stopRequested', stale'} \subseteq BOOLEAN,
         adding' \in {adding, NotAdding} \union [target : Targets, from : 0..MaxMsg],
         changes' \in 0..MaxChanges, failures' \in 0..MaxFailures
  PROVE  IInv'
<1>1. adding' \in [target : Targets \union {0}, from : -1..MaxMsg]
  BY Constants DEF IInv, TypeOK, NotAdding
<1>2. TypeOK'
  BY <1>1 DEF IInv, TypeOK
<1>3. MessageGroup' = MessageGroup /\ Current' = Current /\ Receiver' = Receiver
  BY DEF MessageGroup, Current, Receiver
<1>4. NewToTarget' = NewToTarget /\ Held' = Held
  BY <1>3 DEF NewToTarget, Held
<1>5. PassInv'
  BY <1>3, <1>4 DEF IInv, PassInv, AtGroup, OwnPass
<1>6. RuleInv'
  BY DEF IInv, RuleInv
<1>7. \A t \in group' : Known(t)'
  BY <1>3 DEF IInv, Known, PassOwner, AtGroup
<1> QED BY <1>2, <1>5, <1>6, <1>7 DEF IInv

LEMMA PostInv ==
  ASSUME IInv, Post
  PROVE  IInv'
BY OutsideInv, Constants DEF IInv, TypeOK, Post

LEMMA ToggleInv ==
  ASSUME IInv, NEW t \in Targets, Toggle(t)
  PROVE  IInv'
BY OutsideInv, Constants DEF IInv, TypeOK, Toggle, Change

LEMMA DeleteInv ==
  ASSUME IInv, NEW t \in Targets, Delete(t)
  PROVE  IInv'
BY OutsideInv, Constants DEF IInv, TypeOK, Delete, Change

LEMMA BeginAddInv ==
  ASSUME IInv, NEW t \in Targets, BeginAdd(t)
  PROVE  IInv'
<1>1. adding' \in [target : Targets, from : 0..MaxMsg]
  BY Constants DEF IInv, TypeOK, BeginAdd
<1> QED BY <1>1, OutsideInv, Constants DEF IInv, TypeOK, BeginAdd, Change

LEMMA StartSyncInv ==
  ASSUME IInv, StartSync
  PROVE  IInv'
<1>1. /\ syncing' = TRUE /\ stopRequested' = FALSE /\ Change
      /\ UNCHANGED <<rules, login, stale, renewed, pc, pass, work, adding, history, failures>>
  BY DEF StartSync
<1>2. changes' \in 0..MaxChanges
  BY <1>1, Constants DEF IInv, TypeOK, Change
<1> QED BY <1>1, <1>2, OutsideInv DEF IInv, TypeOK

LEMMA RequestStopInv ==
  ASSUME IInv, RequestStop
  PROVE  IInv'
<1>1. stopRequested' \in BOOLEAN /\ syncing' \in BOOLEAN /\ changes' \in 0..MaxChanges
  BY Constants DEF IInv, TypeOK, RequestStop, Change
<1>2. UNCHANGED <<rules, login, stale, renewed, pc, pass, work, adding, history, failures>>
  BY DEF RequestStop
<1> QED BY <1>1, <1>2, OutsideInv DEF IInv, TypeOK

LEMMA EndSyncInv ==
  ASSUME IInv, EndSync
  PROVE  IInv'
BY OutsideInv, Constants DEF IInv, TypeOK, EndSync

\* A switch begins only while nobody holds the gate.
LEMMA BeginSwitchInv ==
  ASSUME IInv, BeginSwitch
  PROVE  IInv'
<1>1. stale' \in BOOLEAN /\ switching' \in BOOLEAN /\ {account', client'} \subseteq Owners
  BY Constants DEF BeginSwitch
<1>2. ~Held /\ UNCHANGED <<rules, job, pc, renewed, pass, work, adding, history, failures>>
  BY DEF BeginSwitch, SwitchAllowed
<1>3. changes' \in 0..MaxChanges
  BY Constants DEF IInv, TypeOK, BeginSwitch, Change
<1> QED BY <1>1, <1>2, <1>3, OutsideInv DEF IInv, TypeOK

\* The later steps of a switch find switching set, or no account: nobody holds
\* the gate.
LEMMA LoginInv ==
  ASSUME IInv, Login
  PROVE  IInv'
<1> PICK a \in Accounts : Bind(a) \/ Restore(a)
  BY DEF Login
<1>1. a \in Owners
  BY DEF Owners
<1>2. ~Held
  BY DEF IInv, PassInv, Bind, Restore, OwnPass
<1> QED BY <1>1, <1>2, OutsideInv, Constants DEF IInv, TypeOK, Bind, Restore

LEMMA PublishInv ==
  ASSUME IInv, Publish
  PROVE  IInv'
<1>1. ~Held
  BY DEF IInv, PassInv, Publish
<1> QED BY <1>1, OutsideInv, Constants DEF IInv, TypeOK, Publish

LEMMA EndSwitchInv ==
  ASSUME IInv, EndSwitch
  PROVE  IInv'
<1>1. ~Held
  BY DEF IInv, PassInv, EndSwitch
<1> QED BY <1>1, OutsideInv, Constants DEF IInv, TypeOK, EndSwitch

LEMMA DownInv ==
  ASSUME IInv, Crash \/ RestartInPlace
  PROVE  IInv'
<1>1. Down /\ stopRequested' \in BOOLEAN
  BY DEF Crash, RestartInPlace
<1>2. changes' \in 0..MaxChanges /\ {account', client'} \subseteq Owners
  BY <1>1, Constants DEF IInv, TypeOK, Down, Change
<1>3. /\ EndPass /\ UNCHANGED <<rules, history, failures>>
      /\ switching' = FALSE /\ syncing' = FALSE /\ adding' = NotAdding
  BY <1>1 DEF Down
<1> QED BY <1>1, <1>2, <1>3, EndPassInv DEF IInv, TypeOK

\* A rule is stored: it starts where its cursor is, and a pass that has read an
\* older cursor of it presumes the messages in between.
LEMMA FinishAddInv ==
  ASSUME IInv, FinishAdd
  PROVE  IInv'
<1> DEFINE t == adding.target
           o == OwnerId(t)
<1>1. CASE t = Saved /\ account = 0
  BY <1>1, OutsideInv, Constants DEF IInv, TypeOK, FinishAdd
<1>2. CASE ~(t = Saved /\ account = 0)
  <2>1. /\ t \in Targets /\ o \in Owners /\ adding.from \in 0..MaxMsg /\ adding' = NotAdding
        /\ o = IF t = Saved THEN account ELSE 0
    BY Constants DEF IInv, TypeOK, RuleInv, FinishAdd, OwnerId
  <2>2. /\ rule'   = [rule EXCEPT ![t] = "enabled"]
        /\ cursor' = [cursor EXCEPT ![t][o] = adding.from]
        /\ start'  = [start EXCEPT ![t][o] = adding.from]
        /\ renewed' = IF pc \in {"idle", "listing"} THEN renewed ELSE renewed \union {t}
        /\ handled' = [handled EXCEPT ![t][o] = @ \union Presumed(t)]
    BY <1>2 DEF FinishAdd
  <2>3. UNCHANGED <<login, job, pc, pass, stale, work, latest, bounds>>
    BY DEF FinishAdd
  <2>4. Presumed(t) \subseteq Msgs
    <3>1. \A s \in 0..MaxMsg : adding.from + 1 .. s \subseteq Msgs
      BY <2>1, Constants DEF Msgs
    <3> QED BY <2>1, <3>1 DEF IInv, TypeOK, Presumed
  <2> HIDE DEF t, o
  <2>5. \A u \in Targets, p \in Owners :
          /\ handled'[u][p] =
               IF u = t /\ p = o THEN handled[u][p] \union Presumed(t) ELSE handled[u][p]
          /\ start'[u][p] = IF u = t /\ p = o THEN adding.from ELSE start[u][p]
          /\ cursor'[u][p] = IF u = t /\ p = o THEN adding.from ELSE cursor[u][p]
    BY <2>1, <2>2 DEF IInv, TypeOK
  <2>6. TypeOK'
    <3>1. /\ rule' \in [Targets -> {"absent", "enabled", "paused"}]
          /\ cursor' \in [Targets -> [Owners -> 0..MaxMsg]]
          /\ start'  \in [Targets -> [Owners -> 0..MaxMsg]]
      BY <2>1, <2>2 DEF IInv, TypeOK
    <3>2. handled' \in [Targets -> [Owners -> SUBSET Msgs]]
      BY <2>1, <2>2, <2>4 DEF IInv, TypeOK
    <3>3. adding' \in [target : Targets \union {0}, from : -1..MaxMsg]
      BY <2>1, Constants DEF NotAdding
    <3>4. renewed' \subseteq Targets
      BY <2>1, <2>2 DEF IInv, TypeOK
    <3> QED BY <3>1, <3>2, <3>3, <3>4, <2>3 DEF IInv, TypeOK
  <2>7. MessageGroup' = MessageGroup /\ Current' = Current /\ Receiver' = Receiver
    BY <2>3 DEF MessageGroup, Current, Receiver
  <2>8. NewToTarget' = NewToTarget /\ Held' = Held
    BY <2>3, <2>7 DEF NewToTarget, Held
  <2>9. \A u \in Targets, p \in Owners : handled[u][p] \subseteq handled'[u][p]
    BY <2>5
  <2>10. PassInv'
    <3>1. pc = "moving" => MessageGroup \subseteq handled'[Current][Receiver]
      <4> SUFFICES ASSUME pc = "moving"
                   PROVE  MessageGroup \subseteq handled'[Current][Receiver]
        OBVIOUS
      <4>1. Current \in Targets /\ Receiver \in Owners
        BY CurrentWaiting, Constants DEF IInv, TypeOK, Receiver
      <4> QED BY <4>1, <2>9 DEF IInv, PassInv
    <3> QED BY <3>1, <2>3, <2>7, <2>8 DEF IInv, PassInv, AtGroup, OwnPass
  <2>11. RuleInv'
    <3>1. \A u \in Targets, p \in Owners :
            /\ start'[u][p] <= cursor'[u][p]
            /\ start'[u][p] + 1 .. cursor'[u][p] \subseteq handled'[u][p]
      <4> SUFFICES ASSUME NEW u \in Targets, NEW p \in Owners
                   PROVE  /\ start'[u][p] <= cursor'[u][p]
                          /\ start'[u][p] + 1 .. cursor'[u][p] \subseteq handled'[u][p]
        OBVIOUS
      <4>1. CASE u = t /\ p = o
        <5>1. start'[u][p] = adding.from /\ cursor'[u][p] = adding.from
          BY <4>1, <2>5
        <5>2. adding.from \in Int
          BY <2>1, Constants
        <5>3. adding.from + 1 .. adding.from = {}
          BY <5>2
        <5> QED BY <5>1, <5>2, <5>3
      <4>2. CASE ~(u = t /\ p = o)
        BY <4>2, <2>5 DEF IInv, RuleInv
      <4> QED BY <4>1, <4>2
    <3> QED BY <3>1, <2>1 DEF RuleInv
  <2>12. ASSUME NEW u \in group
         PROVE  Known(u)'
    <3>1. u \in Targets /\ PassOwner(u) \in Owners /\ PassOwner(u)' = PassOwner(u) /\ Known(u)
      BY <2>3, Constants DEF IInv, TypeOK, PassOwner
    <3>2. /\ seen'[u] = seen[u] /\ lo' = lo /\ waiting' = waiting
          /\ paused' = paused /\ AtGroup' = AtGroup
      BY <2>3 DEF AtGroup
    <3>3. CASE u = t /\ PassOwner(u) = o
      <4>1. start'[u][o] = adding.from /\ handled'[u][o] = handled[u][o] \union Presumed(t)
        BY <3>1, <3>3, <2>5
      <4>2. adding.from + 1 .. seen[u] \subseteq handled'[u][o]
        BY <4>1, <3>3 DEF Presumed
      <4>3. u \in renewed'
        BY <3>3, <2>2 DEF IInv, PassInv
      <4>4. handled[u][o] \subseteq handled'[u][o]
        BY <4>1
      <4> QED BY <4>1, <4>2, <4>3, <4>4, <3>1, <3>2, <3>3, <2>7 DEF Known
    <3>4. CASE ~(u = t /\ PassOwner(u) = o)
      <4>1. /\ start'[u][PassOwner(u)] = start[u][PassOwner(u)]
            /\ handled'[u][PassOwner(u)] = handled[u][PassOwner(u)]
        BY <3>1, <3>4, <2>5
      <4>2. u \in renewed => u \in renewed'
        BY <2>2
      <4> QED BY <4>1, <4>2, <3>1, <3>2, <2>7 DEF Known
    <3> QED BY <3>3, <3>4
  <2> QED BY <2>3, <2>6, <2>10, <2>11, <2>12 DEF IInv
<1> QED BY <1>1, <1>2

-----------------------------------------------------------------------------
(* Steps of the poller.                                                     *)

LEMMA TakeClientInv ==
  ASSUME IInv, TakeClient
  PROVE  IInv'
<1>1. TypeOK'
  BY DEF IInv, TypeOK, TakeClient
<1>2. PassInv'
  BY DEF IInv, PassInv, TakeClient, AtGroup, Held
<1>3. RuleInv'
  BY DEF IInv, RuleInv, TakeClient
<1>4. group' = {}
  BY DEF IInv, PassInv, TakeClient
<1> QED BY <1>1, <1>2, <1>3, <1>4 DEF IInv

\* The cursors are read under the present account, and the pass begins behind
\* all of them: nothing is between a cursor and the first message of the pass.
LEMMA ListInv ==
  ASSUME IInv, List
  PROVE  IInv'
<1> DEFINE S == {t \in Targets : rule[t] = "enabled"}
<1>1. CASE S = {}
  BY <1>1, EndPassInv DEF IInv, TypeOK, List
<1>2. CASE S # {}
  <2>1. /\ group' = S /\ seen' = [t \in Targets |-> cursor[t][OwnerId(t)]]
        /\ owner' = account /\ lo' = FirstNew(S) /\ pc = "listing" /\ pc' = "loading"
        /\ UNCHANGED <<rules, login, job, adding, history, bounds>>
        /\ UNCHANGED <<user, hi, since, waiting, paused>>
    BY <1>2 DEF List
  <2>2. S \subseteq Targets
    OBVIOUS
  <2> HIDE DEF S
  <2>3. \A t \in Targets : seen'[t] = cursor[t][PassOwner(t)'] /\ PassOwner(t)' \in Owners
    BY <2>1, Constants DEF PassOwner, OwnerId, IInv, TypeOK
  <2>4. FirstNew(S) \in 1..MaxMsg + 1 /\ \A t \in S : FirstNew(S) <= cursor[t][OwnerId(t)] + 1
    BY <1>2, <2>2, FirstNewFirst DEF IInv
  <2>5. group = {} /\ waiting = {} /\ paused = {}
    BY <2>1 DEF IInv, TypeOK, PassInv
  <2>6. seen' \in [Targets -> 0..MaxMsg]
    <3>1. \A t \in Targets : cursor[t][OwnerId(t)] \in 0..MaxMsg
      BY DEF IInv, TypeOK, OwnerId, Owners
    <3> QED BY <3>1, <2>1
  <2>7. TypeOK'
    BY <2>1, <2>2, <2>4, <2>5, <2>6 DEF IInv, TypeOK
  <2>8. PassInv'
    BY <2>1 DEF PassInv, AtGroup, Held
  <2>9. RuleInv'
    BY <2>1 DEF IInv, RuleInv
  <2>10. ASSUME NEW t \in S
         PROVE  Known(t)'
    <3>1. t \in Targets /\ PassOwner(t)' \in Owners /\ seen'[t] = cursor[t][PassOwner(t)']
      BY <2>2, <2>3
    <3>2. lo' <= seen'[t] + 1
      BY <2>1, <2>2, <2>4
    <3>3. /\ start'[t][PassOwner(t)'] <= seen'[t]
          /\ start'[t][PassOwner(t)'] + 1 .. seen'[t] \subseteq handled'[t][PassOwner(t)']
      BY <3>1, <2>1 DEF IInv, RuleInv
    <3>4. \A m \in Msgs : ~(seen'[t] < m /\ m < lo')
      <4>1. seen'[t] \in Int /\ lo' \in Int
        BY <2>7, <3>1, Constants DEF TypeOK
      <4> QED BY <4>1, <3>2 DEF Msgs
    <3> QED BY <3>3, <3>4, <2>1 DEF Known, AtGroup
  <2> QED BY <2>1, <2>7, <2>8, <2>9, <2>10 DEF IInv
<1> QED BY <1>1, <1>2

LEMMA LoadInv ==
  ASSUME IInv, Load
  PROVE  IInv'
<1>1. CASE EndPass
  BY <1>1, EndPassInv DEF IInv, TypeOK, Load
<1>2. CASE ~EndPass
  <2>1. TypeOK'
    BY <1>2 DEF IInv, TypeOK, Load
  <2>2. PassInv'
    BY <1>2 DEF IInv, PassInv, Load, AtGroup, Held
  <2>3. RuleInv'
    BY <1>2 DEF IInv, RuleInv, Load
  <2>4. \A t \in group' : Known(t)'
    BY <1>2 DEF IInv, Known, PassOwner, Load, AtGroup
  <2> QED BY <2>1, <2>2, <2>3, <2>4 DEF IInv
<1> QED BY <1>1, <1>2

LEMMA FailInv ==
  ASSUME IInv, LoadFails \/ SendFails \/ MoveFails
  PROVE  IInv'
<1>1. EndPass /\ failures' \in 0..MaxFailures
  BY Constants DEF IInv, TypeOK, LoadFails, SendFails, MoveFails, Fail
<1>2. UNCHANGED <<rules, login, job, adding, history, changes>>
  BY DEF LoadFails, SendFails, MoveFails
<1> QED BY <1>1, <1>2, EndPassInv DEF IInv, TypeOK

LEMMA NextGroupInv ==
  ASSUME IInv, NextGroup
  PROVE  IInv'
<1>1. CASE EndPass
  BY <1>1, EndPassInv DEF IInv, TypeOK, NextGroup
<1>2. CASE ~EndPass
  <2>1. TypeOK'
    BY <1>2 DEF IInv, TypeOK, NextGroup
  <2>2. PassInv'
    <3>1. lo \in Int /\ hi \in Int
      BY Constants DEF IInv, TypeOK
    <3> QED BY <1>2, <3>1 DEF IInv, PassInv, NextGroup, AtGroup, Held
  <2>3. RuleInv'
    BY <1>2 DEF IInv, RuleInv, NextGroup
  <2>4. \A t \in group' : Known(t)'
    BY <1>2 DEF IInv, Known, PassOwner, NextGroup, AtGroup
  <2> QED BY <2>1, <2>2, <2>3, <2>4 DEF IInv
<1> QED BY <1>1, <1>2

\* Nobody waits any more: the messages of the group are behind every target.
LEMMA GroupDoneInv ==
  ASSUME IInv, GroupDone
  PROVE  IInv'
<1>1. TypeOK /\ PassInv /\ AtGroup /\ lo <= hi
  BY DEF IInv, PassInv, GroupDone, AtGroup
<1>2. /\ Largest(MessageGroup) \in lo..hi
      /\ \A m \in Int : m \in MessageGroup <=> lo <= m /\ m <= Largest(MessageGroup)
  BY <1>1, GroupIsInterval
<1>3. lo' = Largest(MessageGroup) + 1 /\ lo \in Int /\ hi \in 0..MaxMsg /\ 1 <= lo
  BY <1>1, Constants DEF GroupDone, TypeOK
<1>4. lo' \in 1..MaxMsg + 1
  BY <1>2, <1>3, Constants
<1>5. TypeOK'
  BY <1>1, <1>4 DEF TypeOK, GroupDone
<1>6. PassInv'
  BY <1>1 DEF PassInv, GroupDone, AtGroup, Held
<1>7. RuleInv'
  BY DEF IInv, RuleInv, GroupDone
<1>8. ASSUME NEW t \in group
      PROVE  Known(t)'
  <2>1. Known(t) /\ t \in Targets /\ waiting = {} /\ PassOwner(t)' = PassOwner(t)
    BY <1>1 DEF IInv, TypeOK, GroupDone, PassOwner
  <2>2. UNCHANGED <<start, handled, seen, renewed, paused>> /\ ~AtGroup'
    BY DEF GroupDone, AtGroup
  <2>3. t \notin paused => \A m \in Msgs : seen[t] < m /\ m < lo' => m \in handled[t][PassOwner(t)]
    <3> SUFFICES ASSUME t \notin paused, NEW m \in Msgs, seen[t] < m, m < lo'
                 PROVE  m \in handled[t][PassOwner(t)]
      OBVIOUS
    <3>1. m \in Int
      BY DEF Msgs
    <3>2. m < lo \/ m \in MessageGroup
      BY <3>1, <1>2, <1>3
    <3> QED BY <3>2, <2>1, <1>1 DEF Known
  <2> QED BY <2>1, <2>2, <2>3 DEF Known
<1> QED BY <1>5, <1>6, <1>7, <1>8 DEF IInv, GroupDone

\* The pass goes on to the next target: of what it knows only what it knows of
\* the present one can change.
LEMMA SkipInv ==
  ASSUME IInv, Skip, pc \in {"target", "enabled", "moving"}, waiting # {},
         UNCHANGED <<latest, rule, start, login, job, adding, history, bounds>>,
         cursor' \in [Targets -> [Owners -> 0..MaxMsg]], RuleInv',
         paused' = paused \/ paused' = paused \union {Current},
         Current \notin paused' =>
           \A m \in MessageGroup : seen[Current] < m => m \in handled[Current][PassOwner(Current)]
  PROVE  IInv'
<1>1. TypeOK /\ Current \in group /\ Current \in Targets
  BY CurrentWaiting DEF IInv
<1>2. paused' \subseteq group /\ waiting' = waiting \ {Current} /\ pc' = "target"
  BY <1>1 DEF TypeOK, Skip
<1>3. UNCHANGED <<pass, since, lo>>
  BY DEF Skip
<1>4. TypeOK'
  BY <1>1, <1>2, <1>3 DEF TypeOK
<1>5. PassInv'
  BY <1>2, <1>3 DEF IInv, PassInv, AtGroup, Held
<1>6. MessageGroup' = MessageGroup
  BY <1>3 DEF MessageGroup
<1>7. ASSUME NEW t \in group
      PROVE  Known(t)'
  <2>1. Known(t) /\ PassOwner(t)' = PassOwner(t) /\ AtGroup
    BY <1>3 DEF IInv, PassOwner, AtGroup
  <2>2. CASE t = Current
    BY <2>1, <2>2, <1>2, <1>3, <1>6 DEF Known
  <2>3. CASE t # Current
    <3>1. t \in paused' <=> t \in paused
      BY <2>3
    <3>2. t \in waiting' <=> t \in waiting
      BY <2>3, <1>2
    <3> QED BY <2>1, <3>1, <3>2, <1>3, <1>6 DEF Known
  <2> QED BY <2>2, <2>3
<1> QED BY <1>3, <1>4, <1>5, <1>7 DEF IInv

LEMMA SkipPausedInv ==
  ASSUME IInv, SkipPaused
  PROVE  IInv'
<1>1. RuleInv'
  BY DEF IInv, RuleInv, SkipPaused
<1> QED BY <1>1, SkipInv DEF IInv, TypeOK, SkipPaused

\* Saved Messages are admitted under the account of the pass, behind the gate.
LEMMA AdmitInv ==
  ASSUME IInv, Admit
  PROVE  IInv'
<1>1. TypeOK'
  BY DEF IInv, TypeOK, Admit
<1>2. MessageGroup' = MessageGroup /\ Current' = Current
  BY DEF MessageGroup, Current, Admit
<1>3. PassInv'
  BY <1>2 DEF IInv, PassInv, Admit, AtGroup, Held, OwnPass
<1>4. RuleInv'
  BY DEF IInv, RuleInv, Admit
<1>5. \A t \in group' : Known(t)'
  BY <1>2 DEF IInv, Known, PassOwner, Admit, AtGroup
<1> QED BY <1>1, <1>3, <1>4, <1>5 DEF IInv

\* A target that is paused sits out; one whose cursor is beyond the group has
\* nothing to get; any other is sent to.
LEMMA CheckEnabledInv ==
  ASSUME IInv, CheckEnabled
  PROVE  IInv'
<1>1. TypeOK /\ PassInv /\ waiting # {} /\ pc = "enabled" /\ lo <= hi
  BY DEF IInv, TypeOK, PassInv, CheckEnabled, AtGroup
<1>2. UNCHANGED <<rules, login, job, adding, handled, bounds>>
  BY DEF CheckEnabled
<1>3. RuleInv'
  BY <1>2 DEF IInv, RuleInv
<1>4. Current \in Targets /\ seen[Current] \in Int
  BY <1>1, CurrentWaiting, Constants DEF TypeOK
<1>5. CASE rule[Current] # "enabled" /\ paused' = PausedWithCurrent /\ Skip
  BY <1>1, <1>2, <1>3, <1>5, SkipInv DEF TypeOK, PausedWithCurrent
<1>6. CASE ~NewToTarget /\ Skip /\ UNCHANGED paused
  <2>1. /\ Largest(MessageGroup) \in lo..hi
        /\ \A m \in Int : m \in MessageGroup <=> lo <= m /\ m <= Largest(MessageGroup)
        /\ MessageGroup \subseteq Msgs
    BY <1>1, GroupIsInterval
  <2>2. \A m \in MessageGroup : ~(seen[Current] < m)
    <3>1. \A m \in MessageGroup : m \in Int
      BY <2>1 DEF Msgs
    <3>2. Largest(MessageGroup) \in Int /\ ~(Largest(MessageGroup) > seen[Current])
      BY <2>1, <1>6, <1>1, Constants DEF NewToTarget, TypeOK
    <3> QED BY <3>1, <3>2, <2>1, <1>4
  <2> QED BY <1>1, <1>2, <1>3, <1>6, <2>2, SkipInv DEF TypeOK
<1>7. CASE NewToTarget /\ pc' = "sending" /\ UNCHANGED <<pass, since, work>>
  <2>1. TypeOK'
    BY <1>1, <1>2, <1>7 DEF TypeOK
  <2>2. MessageGroup' = MessageGroup /\ Current' = Current
    BY <1>7 DEF MessageGroup, Current
  <2>3. PassInv'
    BY <1>1, <1>2, <1>7, <2>2 DEF PassInv, AtGroup, Held, OwnPass, NewToTarget
  <2>4. \A t \in group' : Known(t)'
    BY <1>1, <1>2, <1>7, <2>2 DEF IInv, Known, PassOwner, AtGroup
  <2> QED BY <2>1, <2>3, <2>4, <1>3 DEF IInv
<1> QED BY <1>5, <1>6, <1>7 DEF CheckEnabled

LEMMA RefuseInv ==
  ASSUME IInv, Refuse
  PROVE  IInv'
BY EndPassInv DEF IInv, TypeOK, Refuse

\* While the pass holds the gate its messages go to the account they are read for.
LEMMA ReceiverIsOwner ==
  ASSUME IInv, pc \in {"enabled", "sending", "moving"}
  PROVE  /\ Current \in group /\ Current \in Targets /\ Receiver \in Owners
         /\ Receiver = PassOwner(Current) /\ Receiver = OwnerId(Current)
<1>1. waiting # {} /\ TypeOK
  BY DEF IInv, TypeOK
<1>2. Current \in group /\ Current \in Targets
  BY <1>1, CurrentWaiting
<1>3. Current = Saved => OwnPass
  BY DEF IInv, PassInv, Held
<1> QED BY <1>1, <1>2, <1>3, Constants DEF TypeOK, OwnPass, Receiver, PassOwner, OwnerId

LEMMA ProcessedInv ==
  ASSUME IInv, Processed
  PROVE  IInv'
<1>1. TypeOK /\ PassInv /\ waiting # {} /\ pc = "sending" /\ pc' = "moving" /\ lo <= hi
  BY DEF IInv, TypeOK, PassInv, Processed, AtGroup
<1>2. Current \in Targets /\ Receiver \in Owners
  BY <1>1, ReceiverIsOwner
<1>3. MessageGroup \subseteq Msgs
  BY <1>1, GroupIsInterval
<1>4. UNCHANGED <<rules, login, job, pass, since, work, adding, bounds>>
  BY DEF Processed
<1>5. handled' = [handled EXCEPT ![Current][Receiver] = @ \union MessageGroup]
  BY DEF Processed
<1>6. handled' \in [Targets -> [Owners -> SUBSET Msgs]]
  BY <1>1, <1>2, <1>3, <1>5 DEF TypeOK
<1>7. \A u \in Targets, p \in Owners : handled[u][p] \subseteq handled'[u][p]
  BY <1>1, <1>2, <1>5 DEF TypeOK
<1>8. MessageGroup \subseteq handled'[Current][Receiver]
  BY <1>1, <1>2, <1>5 DEF TypeOK
<1>9. TypeOK'
  BY <1>1, <1>4, <1>6 DEF TypeOK
<1>10. MessageGroup' = MessageGroup /\ Current' = Current /\ Receiver' = Receiver
  BY <1>4 DEF MessageGroup, Current, Receiver
<1>11. PassInv'
  BY <1>1, <1>4, <1>8, <1>10 DEF PassInv, AtGroup, Held, OwnPass
<1>12. RuleInv'
  <2>1. \A u \in Targets, p \in Owners :
          /\ start[u][p] <= cursor[u][p]
          /\ start[u][p] + 1 .. cursor[u][p] \subseteq handled'[u][p]
    BY <1>7 DEF IInv, RuleInv
  <2> QED BY <2>1, <1>4 DEF IInv, RuleInv
<1>13. ASSUME NEW t \in group
       PROVE  Known(t)'
  <2>1. Known(t) /\ t \in Targets /\ PassOwner(t) \in Owners /\ PassOwner(t)' = PassOwner(t)
    BY <1>1, <1>4, Constants DEF IInv, TypeOK, PassOwner
  <2>2. handled[t][PassOwner(t)] \subseteq handled'[t][PassOwner(t)]
    BY <2>1, <1>7
  <2> QED BY <2>1, <2>2, <1>1, <1>4, <1>10 DEF Known, AtGroup
<1> QED BY <1>4, <1>9, <1>11, <1>12, <1>13 DEF IInv

\* The cursor goes over what the pass knows: what was handled up to where it
\* was read, what the pass has come across since, and the group.
LEMMA MoveInv ==
  ASSUME IInv, Move
  PROVE  IInv'
<1> DEFINE c == Current
           o == OwnerId(Current)
           m == Largest(MessageGroup)
<1>1. TypeOK /\ PassInv /\ waiting # {} /\ pc = "moving" /\ lo <= hi
  BY DEF IInv, TypeOK, PassInv, Move, AtGroup
<1>2. /\ c \in group /\ c \in Targets /\ o \in Owners
      /\ Receiver = o /\ PassOwner(c) = o
  BY <1>1, ReceiverIsOwner
<1>3. /\ m \in lo..hi
      /\ \A k \in Int : k \in MessageGroup <=> lo <= k /\ k <= m
      /\ MessageGroup \subseteq Msgs
  BY <1>1, GroupIsInterval
<1>4. /\ UNCHANGED <<latest, rule, start, login, job, paused, adding, history, bounds>>
      /\ cursor' = Moved(m) /\ Skip
  BY DEF Move
<1>5. m \in 0..MaxMsg /\ lo \in Int
  BY <1>1, <1>3, Constants DEF TypeOK
<1>6. cursor' = cursor \/ (cursor[c][o] < m /\ cursor' = [cursor EXCEPT ![c][o] = m])
  BY <1>4 DEF Moved
<1>7. c \notin paused /\ Known(c) /\ MessageGroup \subseteq handled[c][o]
  BY <1>1, <1>2 DEF IInv, PassInv
<1> HIDE DEF m, c, o
<1>8. \A k \in MessageGroup : seen[c] < k => k \in handled[c][o]
  BY <1>7
<1>9. start[c][o] + 1 .. m \subseteq handled[c][o]
  <2> SUFFICES ASSUME NEW k \in start[c][o] + 1 .. m
               PROVE  k \in handled[c][o]
    OBVIOUS
  <2>1. start[c][o] \in 0..MaxMsg /\ seen[c] \in 0..MaxMsg
    BY <1>1, <1>2 DEF TypeOK
  <2>2. k \in Msgs /\ k \in Int /\ start[c][o] + 1 <= k /\ k <= m
    BY <2>1, <1>5, Constants DEF Msgs
  <2>3. CASE k <= seen[c]
    <3>1. k \in start[c][o] + 1 .. seen[c]
      BY <2>1, <2>2, <2>3
    <3> QED BY <3>1, <1>2, <1>7 DEF Known
  <2>4. CASE seen[c] < k /\ k < lo
    BY <2>2, <2>4, <1>2, <1>7 DEF Known
  <2>5. CASE lo <= k
    BY <2>2, <2>5, <1>3, <1>7
  <2> QED BY <2>1, <2>2, <2>3, <2>4, <2>5, <1>5
<1>10. cursor' \in [Targets -> [Owners -> 0..MaxMsg]]
  <2>1. cursor \in [Targets -> [Owners -> 0..MaxMsg]]
    BY <1>1 DEF TypeOK
  <2>2. [cursor EXCEPT ![c][o] = m] \in [Targets -> [Owners -> 0..MaxMsg]]
    BY <2>1, <1>2, <1>5
  <2> QED BY <2>1, <2>2, <1>6
<1>11. RuleInv'
  <2>1. ASSUME NEW u \in Targets, NEW p \in Owners
        PROVE  /\ start[u][p] <= cursor'[u][p]
               /\ start[u][p] + 1 .. cursor'[u][p] \subseteq handled[u][p]
    <3>1. start[u][p] \in 0..MaxMsg /\ cursor[u][p] \in 0..MaxMsg /\ start[u][p] <= cursor[u][p]
      BY <1>1 DEF IInv, RuleInv, TypeOK
    <3>2. CASE cursor'[u][p] = cursor[u][p]
      BY <3>2 DEF IInv, RuleInv
    <3>3. CASE cursor'[u][p] # cursor[u][p]
      <4>1. u = c /\ p = o /\ cursor[c][o] < m /\ cursor'[u][p] = m
        BY <3>3, <1>1, <1>2, <1>6 DEF TypeOK
      <4> QED BY <4>1, <3>1, <1>5, <1>9, Constants
    <3> QED BY <3>2, <3>3
  <2> QED BY <2>1, <1>4 DEF IInv, RuleInv
<1> USE DEF c, o
<1> QED BY <1>1, <1>2, <1>4, <1>8, <1>10, <1>11, SkipInv
-----------------------------------------------------------------------------
(* The theorems.                                                            *)

LEMMA InitInv == Init => IInv
<1> SUFFICES ASSUME Init
             PROVE  IInv
  OBVIOUS
<1>1. TypeOK
  <2>1. adding \in [target : Targets \union {0}, from : -1..MaxMsg]
    BY Constants DEF Init, NotAdding
  <2>2. /\ cursor \in [Targets -> [Owners -> 0..MaxMsg]]
        /\ start \in [Targets -> [Owners -> 0..MaxMsg]]
        /\ seen \in [Targets -> 0..MaxMsg]
    BY Constants DEF Init
  <2>3. /\ handled \in [Targets -> [Owners -> SUBSET Msgs]]
        /\ rule \in [Targets -> {"absent", "enabled", "paused"}]
    BY DEF Init
  <2>4. /\ latest \in 0..MaxMsg /\ lo \in 1..MaxMsg + 1 /\ hi \in 0..MaxMsg
        /\ changes \in 0..MaxChanges /\ failures \in 0..MaxFailures
        /\ {account, client, user, owner} \subseteq Owners
    BY Constants DEF Init
  <2>5. pc = "idle" /\ {switching, syncing, stopRequested, stale} \subseteq BOOLEAN
        /\ group = {} /\ renewed = {} /\ waiting = {} /\ paused = {}
    BY DEF Init
  <2> QED BY <2>1, <2>2, <2>3, <2>4, <2>5 DEF TypeOK
<1>2. PassInv
  BY DEF Init, PassInv, AtGroup, Held
<1>3. RuleInv
  BY DEF Init, RuleInv
<1>4. group = {}
  BY DEF Init
<1> QED BY <1>1, <1>2, <1>3, <1>4 DEF IInv

LEMMA StutterInv ==
  ASSUME IInv, UNCHANGED vars
  PROVE  IInv'
BY OutsideInv DEF IInv, TypeOK, vars

LEMMA NextInv ==
  ASSUME IInv, [Next]_vars
  PROVE  IInv'
<1>1. CASE Poll
  <2>1. CASE LoadFails \/ SendFails \/ MoveFails
    BY <2>1, FailInv
  <2>2. CASE ~(LoadFails \/ SendFails \/ MoveFails)
    BY <1>1, <2>2, TakeClientInv, ListInv, LoadInv, NextGroupInv, GroupDoneInv, SkipPausedInv,
       AdmitInv, RefuseInv, CheckEnabledInv, ProcessedInv, MoveInv DEF Poll
  <2> QED BY <2>1, <2>2
<1>2. CASE Post
  BY <1>2, PostInv
<1>3. CASE \E t \in Targets : Toggle(t) \/ Delete(t) \/ BeginAdd(t)
  BY <1>3, ToggleInv, DeleteInv, BeginAddInv
<1>4. CASE FinishAdd \/ StartSync \/ RequestStop \/ EndSync
  BY <1>4, FinishAddInv, StartSyncInv, RequestStopInv, EndSyncInv
<1>5. CASE BeginSwitch \/ Login \/ Publish \/ EndSwitch \/ Crash \/ RestartInPlace
  BY <1>5, BeginSwitchInv, LoginInv, PublishInv, EndSwitchInv, DownInv
<1>6. CASE UNCHANGED vars
  BY <1>6, StutterInv
<1> QED BY <1>1, <1>2, <1>3, <1>4, <1>5, <1>6 DEF Next

LEMMA Invariant == Spec => []IInv
<1>1. Init => IInv
  BY InitInv
<1>2. IInv /\ [Next]_vars => IInv'
  BY NextInv
<1> QED BY <1>1, <1>2, PTL DEF Spec

\* Every reachable state of the poller is well typed, for any targets, accounts,
\* albums and bounds (public_poller.py).
THEOREM TypeCorrect == Spec => []TypeOK
<1>1. IInv => TypeOK
  BY DEF IInv
<1> QED BY <1>1, Invariant, PTL

\* No cursor of a rule passes a message that was not dealt with for its target
\* and account, whatever is paused, interrupted, switched, added or crashes.
THEOREM CursorCorrect == Spec => []CursorCovers
<1>1. IInv => CursorCovers
  BY DEF IInv, RuleInv, CursorCovers
<1> QED BY <1>1, Invariant, PTL

\* Nothing from before the starting point of a rule is sent, unless the rule was
\* added during the pass.
THEOREM StartCorrect == Spec => []StartRespected
<1>1. ASSUME IInv, pc = "sending", BeforeStart
      PROVE  Current \in renewed
  <2>1. /\ Current \in group /\ Current \in Targets /\ Receiver \in Owners
        /\ Receiver = PassOwner(Current)
    BY <1>1, ReceiverIsOwner
  <2>2. TypeOK /\ lo <= hi /\ Known(Current) /\ NewToTarget
    BY <1>1, <2>1 DEF IInv, PassInv, AtGroup
  <2>3. /\ Largest(MessageGroup) \in lo..hi
        /\ \A k \in Int : k \in MessageGroup <=> lo <= k /\ k <= Largest(MessageGroup)
    BY <2>2, GroupIsInterval
  <2>4. /\ lo \in Int /\ hi \in Int /\ start[Current][Receiver] \in Int /\ seen[Current] \in Int
    BY <2>1, <2>2, Constants DEF TypeOK
  <2>5. Largest(MessageGroup) \in MessageGroup /\ Largest(MessageGroup) \in Int
    BY <2>3, <2>4
  <2>6. Largest(MessageGroup) <= start[Current][Receiver]
    BY <1>1, <2>4, <2>5 DEF BeforeStart
  <2>7. seen[Current] < start[Current][Receiver]
    BY <2>2, <2>4, <2>5, <2>6 DEF NewToTarget
  <2> QED BY <2>1, <2>2, <2>4, <2>7 DEF Known
<1>2. IInv => StartRespected
  BY <1>1 DEF StartRespected
<1> QED BY <1>2, Invariant, PTL

\* A cursor goes back only when a rule is stored with its own starting point.
THEOREM CursorStepCorrect == Spec => CursorNeverBack
<1> DEFINE A == \A t \in Targets : \A o \in Owners :
                  cursor'[t][o] < cursor[t][o] => adding.target = t /\ adding' = NotAdding
<1>1. ASSUME IInv, Next
      PROVE  A
  <2> SUFFICES ASSUME NEW t \in Targets, NEW o \in Owners, cursor'[t][o] < cursor[t][o]
               PROVE  adding.target = t /\ adding' = NotAdding
    OBVIOUS
  <2>1. TypeOK /\ cursor[t][o] \in Int
    BY <1>1, Constants DEF IInv, TypeOK
  <2>2. ~(cursor'[t][o] = cursor[t][o])
    BY <2>1
  <2>3. CASE FinishAdd
    BY <2>1, <2>2, <2>3 DEF FinishAdd, TypeOK
  <2>4. CASE Move
    <3>1. cursor' = Moved(Largest(MessageGroup))
      BY <2>4 DEF Move
    <3>2. /\ cursor[Current][OwnerId(Current)] < Largest(MessageGroup)
          /\ cursor' = [cursor EXCEPT ![Current][OwnerId(Current)] = Largest(MessageGroup)]
      BY <3>1, <2>2 DEF Moved
    <3>3. t = Current /\ o = OwnerId(Current) /\ cursor'[t][o] = Largest(MessageGroup)
      BY <3>2, <2>1, <2>2 DEF TypeOK
    <3>4. Largest(MessageGroup) \in Int
      <4>1. lo <= hi /\ lo \in Int /\ hi \in Int
        BY <1>1, <2>4, Constants DEF IInv, PassInv, TypeOK, Move, AtGroup
      <4> QED BY <4>1, <2>1, GroupIsInterval
    <3> QED BY <3>2, <3>3, <3>4, <2>1
  <2>5. CASE ~FinishAdd /\ ~Move
    <3>1. UNCHANGED cursor
      BY <1>1, <2>5 DEF Next, Poll, Login, TakeClient, List, Load, LoadFails, NextGroup, GroupDone,
         SkipPaused, Admit, Refuse, CheckEnabled, Processed, SendFails, MoveFails, Post, Toggle,
         Delete, BeginAdd, StartSync, RequestStop, EndSync, BeginSwitch, Bind, Restore, Publish,
         EndSwitch, Crash, RestartInPlace, Down
    <3> QED BY <3>1, <2>2
  <2> QED BY <2>3, <2>4, <2>5
<1>2. IInv /\ [Next]_vars => [A]_vars
  BY <1>1
<1> QED BY <1>2, Invariant, PTL DEF Spec, CursorNeverBack
=============================================================================
