-------------------------- MODULE UploadPoolProofs --------------------------
(***************************************************************************)
(* Proofs about UploadPool: types, that only refused bots are out, that no  *)
(* bot over its budget is chosen, that no pause is cut short, and that a    *)
(* bot that is ready is neither passed over for a whole turn nor slept on - *)
(* for any number of bots, any uploaders, files and settings.               *)
(***************************************************************************)
EXTENDS UploadPool, WellFoundedInduction, TLAPS

Bot     == [age : 0 .. Longest, bytes : Nat, cool : Nat, disabled : BOOLEAN]
Setting == [threshold : Nat, window : 1 .. Longest]
Client  == [bot : Bots, old : BOOLEAN]
Labels  == {"idle", "select", "sleep", "upload", "held", "account"}

\* Where the uploaders are. The job uploads only while it has rounds left, and
\* a post has none.
UploaderInv ==
  /\ pc \in [Uploaders -> Labels]
  /\ size \in [Uploaders -> Sizes \union {0}]
  /\ using \in [Uploaders -> Client]
  /\ tries \in [Uploaders -> 0 .. Rounds] /\ sleep \in [Uploaders -> Nat]
  /\ answered \in [Uploaders -> BOOLEAN]
  /\ \A u \in Uploaders : /\ pc[u] \in {"upload", "held"} => tries[u] < Rounds
                          /\ u # Job => tries[u] = 0

\* What the bots have counted: at least what was really uploaded. Only refused
\* bots are out.
BotInv ==
  /\ bots \in [Bots -> Bot] /\ rr \in Bots
  /\ sent \in [Bots -> Nat]
  /\ \A i \in Bots : sent[i] <= bots[i].bytes
  /\ OutIsRefused

FlagInv == {polling, local} \subseteq BOOLEAN /\ fallback \in BOOLEAN /\ kind \in {"history", "import"}

\* The setting, and those of the sleepers.
LimitInv == limit \in Limits /\ believes \in [Uploaders -> Limits \union {NoLimit}]

IInv == UploaderInv /\ BotInv /\ FlagInv /\ LimitInv

\* How many bots are looked at before j, when the next one is chosen.
Distance(j) == IF j >= rr THEN j - rr ELSE j - rr + N

\* A bot is passed over by those before it only, and so comes nearer its turn
\* each time.
TurnInv ==
  /\ passed \in [Bots -> Nat]
  /\ \A j \in Bots : passed[j] + Distance(j) < N

\* By the setting l the bot b is not ready for the next t ticks.
Held(b, t, l) ==
  \/ b.disabled \/ b.cool >= t
  \/ l.threshold > 0 /\ b.bytes >= l.threshold /\ b.age + t <= l.window

\* No window in use is shorter than that of l.
Longer(l) == \A w \in InUse : l.window <= w

\* Until less than a second is left to sleep every bot is held back.
Sleeping(u) == pc[u] = "sleep" /\ ~outdated[u] /\ sleep[u] >= Second

SleepInv ==
  /\ outdated \in [Uploaders -> BOOLEAN]
  /\ \A u \in Uploaders :
       Sleeping(u) => /\ Longer(believes[u])
                      /\ \A i \in Bots : Held(bots[i], sleep[u] - Second + 1, believes[u])

ServiceInv == TurnInv /\ SleepInv

\* What a step may do to uploads and pauses.
NoneBegins == \A u \in Uploaders : pc'[u] = "upload" => pc[u] \in {"upload", "held"}

BeginsInBudget ==
  \A u \in Uploaders :
    pc[u] \in {"select", "sleep"} /\ pc'[u] = "upload" /\ Reads(u).threshold > 0
      => sent'[using'[u].bot] < Reads(u).threshold

NoneCut == \A i \in Bots : bots'[i].cool >= bots[i].cool

USE DEF pool, settings, uploaders, history
-----------------------------------------------------------------------------
(* Arithmetic.                                                              *)

LEMMA Constants ==
  /\ N \in Nat \ {0} /\ Second \in Nat \ {0} /\ Longest \in Nat \ {0} /\ Cooldown \in Nat \ {0}
  /\ Rounds \in Nat \ {0}
  /\ Limits \subseteq Setting /\ NoLimit \in Setting
  /\ Sizes \subseteq Nat /\ RetryAfter \subseteq Nat
  /\ Bots \subseteq Nat /\ 0 \in Bots /\ NoBot \in Client
BY PoolAssumption DEF PoolAssumption, Bots, NoBot, NoLimit, Setting, Client

LEMMA Settings ==
  ASSUME LimitInv
  PROVE  /\ limit \in Setting /\ \A u \in Uploaders : Reads(u) \in Setting
         /\ \A u \in Uploaders : believes[u] \in Setting
BY Constants DEF LimitInv, Reads

LEMMA Remainder ==
  ASSUME NEW x \in Nat
  PROVE  x % N \in Bots
BY Constants DEF Bots

LEMMA LeastIn ==
  ASSUME NEW S \in SUBSET Nat, S # {}
  PROVE  Least(S) \in S /\ \A y \in S : Least(S) <= y
<1>1. PICK x \in S : \A y \in S : ~(<<y, x>> \in OpToRel(<, Nat))
  BY NatLessThanWellFounded, WFMin
<1>2. \A y \in Nat : y < x => <<y, x>> \in OpToRel(<, Nat)
  BY DEF OpToRel
<1>3. \A y \in S : y \in Nat /\ ~(y < x)
  BY <1>1, <1>2, Zenon
<1>4. \A y \in S : x <= y
  BY <1>3
<1> QED BY <1>4 DEF Least

LEMMA Times ==
  ASSUME NEW t \in Nat, NEW n \in Nat
  PROVE  t * n \in Nat
OBVIOUS

LEMMA WholeSecondsType ==
  ASSUME NEW t \in Nat
  PROVE  WholeSeconds(t) \in Nat
<1>1. t \div Second \in Nat
  BY Constants
<1>2. (t \div Second) * Second \in Nat
  BY <1>1, Constants, Times
<1> QED BY <1>2, Constants DEF WholeSeconds, Larger
-----------------------------------------------------------------------------
(* One bot.                                                                 *)

LEMMA FreshBot ==
  ASSUME NEW b \in Bot, NEW l \in Setting
  PROVE  /\ Fresh(b, l) \in Bot /\ Fresh(b, l).age \in 0 .. l.window - 1
         /\ Fresh(b, l).cool = b.cool /\ Fresh(b, l).disabled = b.disabled
         /\ Due(b, l) => Fresh(b, l).bytes = 0
         /\ ~Due(b, l) => Fresh(b, l) = b
<1>1. b.age \in 0 .. Longest /\ l.window \in 1 .. Longest
  BY DEF Bot, Setting
<1>2. CASE Due(b, l)
  <2>1. Fresh(b, l) = [b EXCEPT !.age = 0, !.bytes = 0]
    BY <1>2 DEF Fresh, Restarted
  <2>2. Fresh(b, l) = [age |-> 0, bytes |-> 0, cool |-> b.cool, disabled |-> b.disabled]
    BY <2>1 DEF Bot
  <2>3. b.cool \in Nat /\ b.disabled \in BOOLEAN /\ 0 \in 0 .. Longest /\ 0 \in 0 .. l.window - 1
    BY <1>1, Constants DEF Bot
  <2> QED BY <1>2, <2>2, <2>3 DEF Bot
<1>3. CASE ~Due(b, l)
  <2>1. Fresh(b, l) = b
    BY <1>3 DEF Fresh
  <2>2. b.age \in 0 .. l.window - 1
    BY <1>1, <1>3, Constants DEF Due
  <2> QED BY <1>3, <2>1, <2>2
<1> QED BY <1>2, <1>3

LEMMA PausedBot ==
  ASSUME NEW b \in Bot, NEW t \in Nat
  PROVE  /\ Paused(b, t) \in Bot /\ Paused(b, t).cool >= b.cool
         /\ Paused(b, t).age = b.age /\ Paused(b, t).bytes = b.bytes
         /\ Paused(b, t).disabled = b.disabled
<1>1. Larger(b.cool, t) \in Nat /\ Larger(b.cool, t) >= b.cool
  BY DEF Larger, Bot
<1> QED BY <1>1 DEF Paused, Bot

LEMMA NotedBot ==
  ASSUME NEW b \in Bot, NEW s \in Nat, limit \in Setting
  PROVE  /\ Noted(b, s) \in Bot /\ Noted(b, s).cool >= b.cool
         /\ Noted(b, s).age = Fresh(b, limit).age
         /\ Noted(b, s).bytes = Fresh(b, limit).bytes + s
         /\ Noted(b, s).disabled = b.disabled
<1> DEFINE f       == Fresh(b, limit)
           counted == [f EXCEPT !.bytes = @ + s]
           t       == Larger(Cooldown, limit.window - counted.age)
<1>1. f \in Bot /\ f.age \in 0 .. limit.window - 1 /\ f.cool = b.cool /\ f.disabled = b.disabled
  BY FreshBot
<1>2. /\ counted \in Bot /\ counted.age = f.age /\ counted.cool = b.cool
      /\ counted.bytes = f.bytes + s /\ counted.disabled = b.disabled
  <2> HIDE DEF f
  <2> QED BY <1>1 DEF Bot
<1>3. t \in Nat
  <2>1. limit.window \in Nat
    BY Constants DEF Setting
  <2> HIDE DEF f, counted
  <2> QED BY <1>1, <1>2, <2>1, Constants DEF Larger
<1>4. Noted(b, s) = IF Reaches(b, s) THEN Paused(counted, t) ELSE counted
  BY DEF Noted
<1> HIDE DEF counted, t
<1>5. CASE Reaches(b, s)
  <2> DEFINE p == Paused(counted, t)
  <2>1. /\ p \in Bot /\ p.cool >= counted.cool /\ p.age = counted.age
        /\ p.bytes = counted.bytes /\ p.disabled = counted.disabled
    BY <1>2, <1>3, PausedBot
  <2>2. Noted(b, s) = p
    BY <1>4, <1>5
  <2> HIDE DEF p
  <2> QED BY <1>2, <2>1, <2>2
<1>6. CASE ~Reaches(b, s)
  <2>1. b.cool \in Nat
    BY DEF Bot
  <2> QED BY <1>2, <1>4, <1>6, <2>1
<1> QED BY <1>5, <1>6
-----------------------------------------------------------------------------
(* The pool.                                                                *)

LEMMA SameBots ==
  ASSUME BotInv, UNCHANGED <<bots, rr, sent>>, revoked \subseteq revoked'
  PROVE  BotInv' /\ NoneCut
<1>1. \A i \in Bots : bots[i].cool \in Nat
  BY DEF BotInv, Bot
<1> QED BY <1>1 DEF BotInv, OutIsRefused, NoneCut

\* Windows that are looked at start again, no more; what was sent in them is
\* forgotten with what was counted.
LEMMA LookAtInv ==
  ASSUME BotInv, NEW K, NEW l \in Setting, LookAt(K, l), UNCHANGED revoked, rr' \in Bots
  PROVE  BotInv' /\ NoneCut
<1>1. /\ bots' = [i \in Bots |-> IF i \in Looked(K, l) THEN Fresh(bots[i], l) ELSE bots[i]]
      /\ sent' = [i \in Bots |-> IF i \in Looked(K, l) /\ Due(bots[i], l) THEN 0 ELSE sent[i]]
  BY DEF LookAt
<1>2. ASSUME NEW i \in Bots
      PROVE  /\ bots'[i] \in Bot /\ bots'[i].cool = bots[i].cool
             /\ bots'[i].disabled = bots[i].disabled
             /\ sent'[i] \in Nat /\ sent'[i] <= bots'[i].bytes
  <2>1. bots[i] \in Bot /\ sent[i] \in Nat /\ sent[i] <= bots[i].bytes
    BY DEF BotInv
  <2>2. CASE i \notin Looked(K, l)
    BY <1>1, <2>1, <2>2
  <2>3. CASE i \in Looked(K, l)
    <3>1. bots'[i] = Fresh(bots[i], l) /\ sent'[i] = IF Due(bots[i], l) THEN 0 ELSE sent[i]
      BY <1>1, <2>3
    <3> QED BY <2>1, <3>1, FreshBot
  <2> QED BY <2>2, <2>3
<1>3. bots' \in [Bots -> Bot] /\ sent' \in [Bots -> Nat]
  <2>1. bots' = [i \in Bots |-> bots'[i]] /\ sent' = [i \in Bots |-> sent'[i]]
    BY <1>1
  <2> QED BY <1>2, <2>1
<1>4. \A i \in Bots : bots[i].cool \in Nat
  BY DEF BotInv, Bot
<1> QED BY <1>2, <1>3, <1>4 DEF BotInv, OutIsRefused, NoneCut

\* One bot is changed: it must have counted what it sent.
LEMMA ChangedInv ==
  ASSUME BotInv, UNCHANGED rr, NEW j \in Bots, NEW b \in Bot, NEW n \in Nat,
         bots' = [bots EXCEPT ![j] = b], sent' = [sent EXCEPT ![j] = n],
         b.cool >= bots[j].cool, n <= b.bytes, revoked \subseteq revoked',
         b.disabled => bots[j].disabled \/ \E o \in BOOLEAN : [bot |-> j, old |-> o] \in revoked'
  PROVE  BotInv' /\ NoneCut
<1>1. bots' \in [Bots -> Bot] /\ sent' \in [Bots -> Nat]
  BY DEF BotInv
<1>2. ASSUME NEW i \in Bots
      PROVE  /\ bots'[i].cool >= bots[i].cool /\ sent'[i] <= bots'[i].bytes
             /\ bots'[i].disabled => \E o \in BOOLEAN : [bot |-> i, old |-> o] \in revoked'
  <2>1. bots[i] \in Bot /\ bots[i].cool \in Nat /\ sent[i] <= bots[i].bytes
    BY DEF BotInv, Bot
  <2>2. CASE i = j
    BY <2>2 DEF BotInv, OutIsRefused
  <2>3. CASE i # j
    <3>1. bots'[i] = bots[i] /\ sent'[i] = sent[i]
      BY <2>3 DEF BotInv
    <3>2. bots[i].disabled => \E o \in BOOLEAN : [bot |-> i, old |-> o] \in revoked'
      BY DEF BotInv, OutIsRefused
    <3> QED BY <2>1, <3>1, <3>2
  <2> QED BY <2>2, <2>3
<1> QED BY <1>1, <1>2 DEF BotInv, OutIsRefused, NoneCut

\* A success is noted with at least what was really sent.
LEMMA NotedInv ==
  ASSUME UploaderInv, BotInv, LimitInv, NEW u \in Uploaders, UNCHANGED <<rr, revoked>>,
         bots' = Changed(u, Noted(bots[Found(u)], size[u])), sent' = Counted(u)
  PROVE  BotInv' /\ NoneCut
<1> DEFINE j == using[u].bot
           f == Fresh(bots[j], limit)
           b == Noted(bots[j], size[u])
           n == (IF Due(bots[j], limit) THEN 0 ELSE sent[j]) + (IF answered[u] THEN 0 ELSE size[u])
<1>1. /\ j \in Bots /\ size[u] \in Nat /\ answered[u] \in BOOLEAN
      /\ bots[j] \in Bot /\ sent[j] \in Nat /\ sent[j] <= bots[j].bytes
  <2>1. j \in Bots /\ size[u] \in Nat /\ answered[u] \in BOOLEAN
    BY Constants DEF UploaderInv, Client
  <2> HIDE DEF j
  <2> QED BY <2>1 DEF BotInv
<1>2. bots' = [bots EXCEPT ![j] = b] /\ sent' = [sent EXCEPT ![j] = n]
  BY DEF Changed, Found, Counted
<1>3. limit \in Setting
  BY Settings
<1>4. /\ b \in Bot /\ b.cool >= bots[j].cool /\ b.bytes = f.bytes + size[u]
      /\ b.disabled = bots[j].disabled
  BY <1>1, <1>3, NotedBot
<1>5. /\ f \in Bot
      /\ Due(bots[j], limit) => f.bytes = 0
      /\ ~Due(bots[j], limit) => f = bots[j]
  BY <1>1, <1>3, FreshBot
<1> HIDE DEF j, f, b
<1>6. n \in Nat /\ n <= b.bytes
  <2>1. f.bytes \in Nat
    BY <1>5 DEF Bot
  <2>2. CASE Due(bots[j], limit)
    BY <1>1, <1>4, <1>5, <2>1, <2>2
  <2>3. CASE ~Due(bots[j], limit)
    BY <1>1, <1>4, <1>5, <2>1, <2>3
  <2> QED BY <2>2, <2>3
<1> HIDE DEF n
<1> QED BY <1>1, <1>2, <1>4, <1>6, ChangedInv
-----------------------------------------------------------------------------
(* The uploaders.                                                           *)

LEMMA EndedInv ==
  ASSUME UploaderInv, NEW u \in Uploaders, Ended(u), sleep' \in [Uploaders -> Nat]
  PROVE  UploaderInv' /\ NoneBegins
<1>1. /\ pc' = [pc EXCEPT ![u] = "idle"] /\ size' = [size EXCEPT ![u] = 0]
      /\ using' = [using EXCEPT ![u] = NoBot] /\ tries' = [tries EXCEPT ![u] = 0]
      /\ answered' = [answered EXCEPT ![u] = FALSE]
  BY DEF Ended, Set
<1>2. /\ pc' \in [Uploaders -> Labels] /\ size' \in [Uploaders -> Sizes \union {0}]
      /\ answered' \in [Uploaders -> BOOLEAN]
  BY <1>1 DEF UploaderInv, Labels
<1>3. using' \in [Uploaders -> Client] /\ tries' \in [Uploaders -> 0 .. Rounds]
  <2>1. 0 \in 0 .. Rounds
    BY Constants
  <2> QED BY <1>1, <2>1, Constants DEF UploaderInv
<1>4. \A v \in Uploaders :
        /\ pc'[v] \in {"upload", "held"} => pc[v] = pc'[v] /\ tries'[v] = tries[v]
        /\ tries'[v] = tries[v] \/ tries'[v] = 0
  BY <1>1 DEF UploaderInv
<1> QED BY <1>2, <1>3, <1>4 DEF UploaderInv, NoneBegins

LEMMA GoesInv ==
  ASSUME UploaderInv, NEW u \in Uploaders, NEW l \in Labels, GoesOn(u, l),
         using' \in [Uploaders -> Client],
         sleep' \in [Uploaders -> Nat],
         NEW n \in 0 .. Rounds, tries' = [tries EXCEPT ![u] = n],
         u # Job => n = 0, l \in {"upload", "held"} => n < Rounds
  PROVE  UploaderInv' /\ (l # "upload" \/ pc[u] \in {"upload", "held"} => NoneBegins)
<1>1. pc' = [pc EXCEPT ![u] = l] /\ UNCHANGED <<size, answered>>
  BY DEF GoesOn, Set
<1>2. pc' \in [Uploaders -> Labels] /\ tries' \in [Uploaders -> 0 .. Rounds]
  BY <1>1 DEF UploaderInv
<1>3. \A v \in Uploaders : v # u => pc'[v] = pc[v] /\ tries'[v] = tries[v]
  BY <1>1 DEF UploaderInv
<1>4. pc'[u] = l /\ tries'[u] = n
  BY <1>1 DEF UploaderInv
<1>5. \A v \in Uploaders : /\ pc'[v] \in {"upload", "held"} => tries'[v] < Rounds
                           /\ v # Job => tries'[v] = 0
  BY <1>3, <1>4 DEF UploaderInv
<1>6. l # "upload" \/ pc[u] \in {"upload", "held"} => NoneBegins
  BY <1>3, <1>4 DEF NoneBegins
<1> QED BY <1>1, <1>2, <1>5, <1>6 DEF UploaderInv

LEMMA SameTries ==
  ASSUME UploaderInv, NEW u \in Uploaders
  PROVE  /\ tries[u] \in 0 .. Rounds /\ tries = [tries EXCEPT ![u] = tries[u]]
         /\ u # Job => tries[u] = 0
BY DEF UploaderInv

LEMMA HandOverInv ==
  ASSUME UploaderInv, NEW u \in Uploaders, HandOver(u), UNCHANGED sleep
  PROVE  UploaderInv' /\ NoneBegins
<1>1. /\ GoesOn(u, "account") /\ using' = [using EXCEPT ![u] = NoBot] /\ UNCHANGED tries
  BY DEF HandOver, Set
<1>2. /\ using' \in [Uploaders -> Client] /\ sleep' \in [Uploaders -> Nat]
      /\ "account" \in Labels
  BY <1>1, Constants DEF UploaderInv, Labels
<1> QED BY <1>1, <1>2, SameTries, GoesInv

LEMMA ToAccountInv ==
  ASSUME UploaderInv, NEW u \in Uploaders, ToAccount(u)
  PROVE  UploaderInv' /\ NoneBegins
BY HandOverInv, EndedInv DEF ToAccount, UploaderInv

LEMMA AbandonedInv ==
  ASSUME UploaderInv, NEW u \in Uploaders, Abandoned(u), UNCHANGED sleep
  PROVE  UploaderInv' /\ NoneBegins
BY HandOverInv, EndedInv DEF Abandoned, UploaderInv

LEMMA RefusedInv ==
  ASSUME UploaderInv, NEW u \in Uploaders, pc[u] = "upload", Refused(u), UNCHANGED sleep
  PROVE  UploaderInv' /\ NoneBegins
<1>1. CASE /\ u = Job /\ tries[u] + 1 < Rounds
           /\ GoesOn(u, "upload") /\ tries' = Set(tries, u, tries[u] + 1) /\ UNCHANGED using
  <2>1. tries' = [tries EXCEPT ![u] = tries[u] + 1]
    BY <1>1 DEF Set
  <2>2. tries[u] + 1 \in 0 .. Rounds
    BY <1>1, Constants DEF UploaderInv
  <2>3. /\ using' \in [Uploaders -> Client] /\ sleep' \in [Uploaders -> Nat]
        /\ "upload" \in Labels
    BY <1>1 DEF UploaderInv, Labels
  <2> QED BY <1>1, <2>1, <2>2, <2>3, GoesInv
<1>2. CASE Abandoned(u)
  BY <1>2, AbandonedInv
<1>3. CASE Ended(u)
  BY <1>3, EndedInv DEF UploaderInv
<1> QED BY <1>1, <1>2, <1>3 DEF Refused, HistoryJob

LEMMA ReselectInv ==
  ASSUME UploaderInv, NEW u \in Uploaders, pc[u] = "upload", Reselect(u)
  PROVE  UploaderInv' /\ NoneBegins
<1> DEFINE n == IF u = Job THEN tries[u] + 1 ELSE 0
<1>1. n \in 0 .. Rounds /\ (u # Job => n = 0)
  BY Constants DEF UploaderInv
<1>2. /\ GoesOn(u, "select") /\ tries' = [tries EXCEPT ![u] = n]
      /\ using' = [using EXCEPT ![u] = NoBot] /\ UNCHANGED sleep
  BY DEF Reselect, Set
<1>3. /\ using' \in [Uploaders -> Client] /\ sleep' \in [Uploaders -> Nat]
      /\ "select" \in Labels
  BY <1>2, Constants DEF UploaderInv, Labels
<1> HIDE DEF n
<1> QED BY <1>1, <1>2, <1>3, GoesInv
-----------------------------------------------------------------------------
(* The steps.                                                               *)

\* A step that begins no upload and cuts no pause.
Harmless == IInv' /\ NoneBegins /\ NoneCut

\* What an uploader goes by: nothing when it is awake, its setting when it sleeps.
LEMMA SameLimits ==
  ASSUME IInv, NEW u \in Uploaders, Environment,
         \/ UNCHANGED believes
         \/ Awake(u)
         \/ believes' = [believes EXCEPT ![u] = Reads(u)]
  PROVE  FlagInv' /\ LimitInv'
<1>1. FlagInv' /\ limit' \in Limits
  BY DEF IInv, FlagInv, LimitInv, Environment
<1>2. Reads(u) \in Limits \union {NoLimit}
  BY DEF IInv, LimitInv, Reads
<1>3. believes' \in [Uploaders -> Limits \union {NoLimit}]
  BY <1>2 DEF IInv, LimitInv, Awake, Set
<1> QED BY <1>1, <1>3 DEF LimitInv

LEMMA HarmlessFrom ==
  ASSUME IInv, NEW u \in Uploaders, UploaderInv' /\ NoneBegins, BotInv' /\ NoneCut, Environment,
         \/ UNCHANGED believes
         \/ Awake(u)
         \/ believes' = [believes EXCEPT ![u] = Reads(u)]
  PROVE  Harmless
BY SameLimits DEF IInv, Harmless

LEMMA AskStep ==
  ASSUME IInv, NEW u \in Uploaders, NEW s \in Sizes, Ask(u, s)
  PROVE  Harmless
<1>1. /\ pc' = [pc EXCEPT ![u] = "select"] /\ size' = [size EXCEPT ![u] = s]
      /\ kind' \in {"history", "import"}
      /\ UNCHANGED <<bots, rr, using, tries, sleep, believes, answered, revoked, sent>>
      /\ UNCHANGED <<polling, local, limit, fallback>>
  BY DEF Ask, Set, IInv, FlagInv
<1>2. pc' \in [Uploaders -> Labels] /\ size' \in [Uploaders -> Sizes \union {0}]
  BY <1>1 DEF IInv, UploaderInv, Labels
<1>3. \A v \in Uploaders : pc'[v] \in {"upload", "held"} => pc[v] = pc'[v]
  BY <1>1 DEF IInv, UploaderInv
<1>4. UploaderInv' /\ NoneBegins
  BY <1>1, <1>2, <1>3 DEF IInv, UploaderInv, NoneBegins
<1>5. FlagInv' /\ LimitInv'
  BY <1>1 DEF IInv, FlagInv, LimitInv
<1> QED BY <1>1, <1>4, <1>5, SameBots DEF IInv, Harmless

LEMMA TooLargeStep ==
  ASSUME IInv, NEW u \in Uploaders, TooLarge(u)
  PROVE  Harmless
<1>1. ToAccount(u) /\ UNCHANGED <<bots, rr, sent, revoked>> /\ Environment /\ Awake(u)
  BY DEF TooLarge, Selecting, ToAccount
<1> QED BY <1>1, ToAccountInv, SameBots, HarmlessFrom DEF IInv

\* The bot that is chosen has not used up its budget, by its own count and so
\* by what it really sent.
LEMMA ChooseStep ==
  ASSUME IInv, NEW u \in Uploaders, Choose(u)
  PROVE  IInv' /\ BeginsInBudget /\ NoneCut
<1> DEFINE l     == Reads(u)
           ready == {k \in Bots : Ready(bots[InTurn(k)], l)}
           m     == Least(ready)
           i     == InTurn(m)
<1>1. ready # {} /\ LookAt(0 .. m, l) /\ rr' = NextTurn(i) /\ Awake(u)
  BY DEF Choose
<1>2. /\ IF OutOfRounds(u) /\ ~fallback THEN Ended(u)
         ELSE IF OutOfRounds(u) THEN HandOver(u)
         ELSE /\ using' = Set(using, u, [bot |-> i, old |-> FALSE])
              /\ GoesOn(u, "upload")
              /\ UNCHANGED tries
      /\ UNCHANGED <<sleep, revoked>> /\ Environment
  BY DEF Choose, Selecting
<1>3. l \in Setting
  BY Settings DEF IInv
<1> HIDE DEF l
<1>4. m \in ready
  BY <1>1, LeastIn, Constants
<1>5. m \in Nat /\ rr \in Nat
  BY <1>4, Constants DEF IInv, BotInv
<1>6. i \in Bots /\ Ready(bots[i], l)
  <2>1. rr + m \in Nat
    <3> HIDE DEF m
    <3> QED BY <1>5
  <2> QED BY <1>4, <2>1, Remainder DEF InTurn
<1>7. i \in {InTurn(k) : k \in 0 .. m}
  <2> HIDE DEF m
  <2>1. m \in 0 .. m
    BY <1>5
  <2> QED BY <2>1
<1> HIDE DEF ready, m, i
<1>8. rr' \in Bots
  <2>1. i + 1 \in Nat
    BY <1>6, Constants
  <2> QED BY <1>1, <2>1, Remainder DEF NextTurn
<1>9. BotInv' /\ NoneCut
  BY <1>1, <1>2, <1>3, <1>8, LookAtInv DEF IInv
<1>10. l.threshold > 0 => sent'[i] < l.threshold
  <2> SUFFICES ASSUME l.threshold > 0
               PROVE  sent'[i] < l.threshold
    OBVIOUS
  <2>1. bots[i] \in Bot /\ sent[i] \in Nat /\ sent[i] <= bots[i].bytes
    BY <1>6 DEF IInv, BotInv
  <2>2. ~(Fresh(bots[i], l).bytes >= l.threshold) /\ ~bots[i].disabled
    BY <1>6 DEF Ready, Spent
  <2>3. i \in Looked(0 .. m, l)
    BY <1>6, <1>7, <2>2 DEF Looked
  <2>4. sent'[i] = IF Due(bots[i], l) THEN 0 ELSE sent[i]
    BY <1>1, <1>6, <2>3 DEF LookAt
  <2>5. CASE Due(bots[i], l)
    BY <2>4, <2>5
  <2>6. CASE ~Due(bots[i], l)
    <3>1. Fresh(bots[i], l) = bots[i]
      BY <1>3, <2>1, <2>6, FreshBot
    <3>2. bots[i].bytes \in Nat /\ l.threshold \in Nat
      BY <1>3, <2>1 DEF Bot, Setting
    <3> QED BY <2>1, <2>2, <2>4, <2>6, <3>1, <3>2
  <2> QED BY <2>5, <2>6
<1>11. FlagInv' /\ LimitInv'
  BY <1>1, <1>2, SameLimits
<1>12. ASSUME NoneBegins
       PROVE  BeginsInBudget
  BY <1>12 DEF NoneBegins, BeginsInBudget
<1>13. CASE OutOfRounds(u)
  <2>1. UploaderInv' /\ NoneBegins
    BY <1>2, <1>13, EndedInv, HandOverInv DEF IInv, UploaderInv
  <2> QED BY <1>9, <1>11, <1>12, <2>1 DEF IInv
<1>14. CASE ~OutOfRounds(u)
  <2>1. /\ using' = [using EXCEPT ![u] = [bot |-> i, old |-> FALSE]]
        /\ GoesOn(u, "upload") /\ UNCHANGED tries
    BY <1>2, <1>14 DEF Set
  <2>2. /\ using' \in [Uploaders -> Client] /\ sleep' \in [Uploaders -> Nat]
        /\ "upload" \in Labels /\ using'[u].bot = i
    BY <1>2, <1>6, <2>1 DEF IInv, UploaderInv, Labels, Client
  <2>3. tries[u] < Rounds
    BY <1>14, Constants DEF OutOfRounds, IInv, UploaderInv
  <2>4. \A v \in Uploaders : v # u => pc'[v] = pc[v]
    BY <2>1 DEF GoesOn, Set, IInv, UploaderInv
  <2>5. UploaderInv'
    BY <2>1, <2>2, <2>3, SameTries, GoesInv DEF IInv
  <2>6. BeginsInBudget
    BY <1>10, <2>2, <2>4 DEF BeginsInBudget, l
  <2> QED BY <1>9, <1>11, <2>5, <2>6 DEF IInv
<1> QED BY <1>13, <1>14

LEMMA NoneReadyBots ==
  ASSUME IInv, NEW u \in Uploaders, NoneReady(u), UNCHANGED rr
  PROVE  BotInv' /\ NoneCut /\ Environment
<1>1. LookAt(Bots, Reads(u)) /\ UNCHANGED revoked /\ Environment
  BY DEF NoneReady, Selecting
<1>2. rr' \in Bots /\ Reads(u) \in Setting
  BY Settings DEF IInv, BotInv
<1> QED BY <1>1, <1>2, LookAtInv DEF IInv

LEMMA WaitForType ==
  ASSUME BotInv, NEW l \in Setting
  PROVE  WaitFor(l) \in Nat
<1>1. \A i \in Bots : ReadyIn(bots[i], l) \in Nat
  <2> SUFFICES ASSUME NEW i \in Bots
               PROVE  ReadyIn(bots[i], l) \in Nat
    OBVIOUS
  <2>1. bots[i] \in Bot
    BY DEF BotInv
  <2>2. Fresh(bots[i], l).age \in 0 .. l.window - 1
    BY <2>1, FreshBot
  <2>3. l.window \in Nat /\ bots[i].cool \in Nat
    BY <2>1, Constants DEF Bot, Setting
  <2> QED BY <2>2, <2>3 DEF ReadyIn
<1>2. Waited(l) \in SUBSET Nat
  BY <1>1 DEF Waited
<1>3. CASE Waited(l) = {}
  <2>1. 5 * Second \in Nat
    BY Constants
  <2> QED BY <1>3, <2>1, WholeSecondsType DEF WaitFor
<1>4. CASE Waited(l) # {}
  <2>1. Least(Waited(l)) \in Nat
    BY <1>2, <1>4, LeastIn
  <2> QED BY <1>4, <2>1, WholeSecondsType DEF WaitFor
<1> QED BY <1>3, <1>4

LEMMA NoneReadyStep ==
  ASSUME IInv, NEW u \in Uploaders, AllDisabled(u) \/ NotWaiting(u) \/ FallAsleep(u)
  PROVE  Harmless
<1>1. CASE AllDisabled(u)
  <2>1. NoneReady(u) /\ Ended(u) /\ Awake(u) /\ UNCHANGED <<rr, sleep>>
    BY <1>1 DEF AllDisabled
  <2>2. UploaderInv' /\ NoneBegins
    BY <2>1, EndedInv DEF IInv, UploaderInv
  <2> QED BY <2>1, <2>2, NoneReadyBots, HarmlessFrom
<1>2. CASE NotWaiting(u)
  <2>1. NoneReady(u) /\ ToAccount(u) /\ Awake(u) /\ UNCHANGED rr
    BY <1>2 DEF NotWaiting, ToAccount
  <2>2. UploaderInv' /\ NoneBegins
    BY <2>1, ToAccountInv DEF IInv
  <2> QED BY <2>1, <2>2, NoneReadyBots, HarmlessFrom
<1>3. CASE FallAsleep(u)
  <2>1. /\ NoneReady(u) /\ GoesOn(u, "sleep")
        /\ sleep' = [sleep EXCEPT ![u] = WaitFor(Reads(u))]
        /\ believes' = [believes EXCEPT ![u] = Reads(u)]
        /\ UNCHANGED <<rr, using, tries>>
    BY <1>3 DEF FallAsleep, Set
  <2>2. WaitFor(Reads(u)) \in Nat
    BY WaitForType, Settings DEF IInv
  <2>3. /\ sleep' \in [Uploaders -> Nat] /\ "sleep" \in Labels
        /\ using' \in [Uploaders -> Client]
    BY <2>1, <2>2 DEF IInv, UploaderInv, Labels
  <2>4. UploaderInv' /\ NoneBegins
    BY <2>1, <2>3, SameTries, GoesInv DEF IInv
  <2> QED BY <2>1, <2>4, NoneReadyBots, HarmlessFrom
<1> QED BY <1>1, <1>2, <1>3

LEMMA UploadedStep ==
  ASSUME IInv, NEW u \in Uploaders, Uploaded(u) \/ UploadedUnlogged(u)
  PROVE  Harmless
<1>1. /\ bots' = Changed(u, Noted(bots[Found(u)], size[u])) /\ sent' = Counted(u)
      /\ pc[u] = "upload" /\ UNCHANGED <<rr, sleep, believes, revoked>> /\ Environment
  BY DEF Uploaded, UploadedUnlogged, InUpload
<1>2. BotInv' /\ NoneCut
  BY <1>1, NotedInv DEF IInv
<1>3. CASE Ended(u)
  <2>1. UploaderInv' /\ NoneBegins
    BY <1>1, <1>3, EndedInv DEF IInv, UploaderInv
  <2> QED BY <1>1, <1>2, <2>1, HarmlessFrom
<1>4. CASE Refused(u)
  <2>1. UploaderInv' /\ NoneBegins
    BY <1>1, <1>4, RefusedInv DEF IInv
  <2> QED BY <1>1, <1>2, <2>1, HarmlessFrom
<1>5. CASE /\ u = Job /\ tries[u] + 1 < Rounds
           /\ tries' = Set(tries, u, tries[u] + 1) /\ answered' = Set(answered, u, TRUE)
           /\ UNCHANGED <<pc, size, using>>
  <2>1. tries' = [tries EXCEPT ![u] = tries[u] + 1] /\ answered' = [answered EXCEPT ![u] = TRUE]
    BY <1>5 DEF Set
  <2>2. tries[u] + 1 \in 0 .. Rounds
    BY <1>5, Constants DEF IInv, UploaderInv
  <2>3. tries' \in [Uploaders -> 0 .. Rounds] /\ answered' \in [Uploaders -> BOOLEAN]
    BY <2>1, <2>2 DEF IInv, UploaderInv
  <2>4. \A v \in Uploaders : /\ pc[v] \in {"upload", "held"} => tries'[v] < Rounds
                             /\ v # Job => tries'[v] = 0
    <3> SUFFICES ASSUME NEW v \in Uploaders
                 PROVE  /\ pc[v] \in {"upload", "held"} => tries'[v] < Rounds
                        /\ v # Job => tries'[v] = 0
      OBVIOUS
    <3>1. CASE v = u
      BY <3>1, <1>5, <2>1 DEF IInv, UploaderInv
    <3>2. CASE v # u
      BY <3>2, <2>1 DEF IInv, UploaderInv
    <3> QED BY <3>1, <3>2
  <2>5. UploaderInv' /\ NoneBegins
    BY <1>1, <1>5, <2>3, <2>4 DEF IInv, UploaderInv, NoneBegins
  <2> QED BY <1>1, <1>2, <2>5, HarmlessFrom
<1> QED BY <1>3, <1>4, <1>5 DEF Uploaded, UploadedUnlogged, HistoryJob

LEMMA FailedStep ==
  ASSUME IInv, NEW u \in Uploaders, AnswerLost(u) \/ OtherError(u)
  PROVE  Harmless
<1>1. /\ Ended(u) \/ Refused(u) \/ Abandoned(u)
      /\ pc[u] = "upload" /\ UNCHANGED <<bots, rr, sleep, believes, revoked, sent>> /\ Environment
  BY DEF AnswerLost, OtherError, InUpload
<1>2. BotInv' /\ NoneCut
  BY <1>1, SameBots DEF IInv
<1>3. UploaderInv' /\ NoneBegins
  <2>1. sleep' \in [Uploaders -> Nat]
    BY <1>1 DEF IInv, UploaderInv
  <2> QED BY <1>1, <2>1, EndedInv, RefusedInv, AbandonedInv DEF IInv
<1> QED BY <1>1, <1>2, <1>3, HarmlessFrom

LEMMA PauseType ==
  ASSUME NEW s \in RetryAfter
  PROVE  (s + 1) * Second \in Nat
<1>1. s + 1 \in Nat /\ Second \in Nat
  BY Constants
<1> QED BY <1>1, Times

LEMMA PausedStep ==
  ASSUME IInv, NEW u \in Uploaders, NEW s \in RetryAfter, Flooded(u, s) \/ FloodedAtStop(u, s)
  PROVE  Harmless
<1> DEFINE j == using[u].bot
           b == Paused(bots[j], (s + 1) * Second)
<1>1. /\ bots' = [bots EXCEPT ![j] = b]
      /\ Reselect(u) \/ Ended(u)
      /\ pc[u] = "upload" /\ UNCHANGED <<rr, sleep, believes, revoked, sent>> /\ Environment
  BY DEF Flooded, FloodedAtStop, AskedToWait, InUpload, Changed, Found, Reselect
<1>2. UploaderInv' /\ NoneBegins
  BY <1>1, ReselectInv, EndedInv DEF IInv, UploaderInv
<1>3. j \in Bots /\ bots[j] \in Bot /\ sent[j] \in Nat /\ sent[j] <= bots[j].bytes
  <2>1. j \in Bots
    BY DEF IInv, UploaderInv, Client
  <2> HIDE DEF j
  <2> QED BY <2>1 DEF IInv, BotInv
<1>4. /\ b \in Bot /\ b.cool >= bots[j].cool /\ b.bytes = bots[j].bytes
      /\ b.disabled = bots[j].disabled
  BY <1>3, PauseType, PausedBot
<1>5. BotInv' /\ NoneCut
  <2>1. sent' = [sent EXCEPT ![j] = sent[j]] /\ sent[j] <= b.bytes
    BY <1>1, <1>3, <1>4 DEF IInv, BotInv
  <2>2. b.disabled => bots[j].disabled
    BY <1>4
  <2> HIDE DEF b, j
  <2> QED BY <1>1, <1>3, <1>4, <2>1, <2>2, ChangedInv DEF IInv
<1> QED BY <1>1, <1>2, <1>5, HarmlessFrom

\* A history job holds itself back, and the pool does not know.
LEMMA HeldStep ==
  ASSUME IInv, NEW u \in Uploaders, pc[u] \in {"upload", "held"},
         GoesOn(u, "held") \/ GoesOn(u, "upload"), sleep' \in [Uploaders -> Nat],
         UNCHANGED <<bots, rr, believes, revoked, sent, using, tries>>, Environment
  PROVE  Harmless
<1>1. BotInv' /\ NoneCut
  BY SameBots DEF IInv
<1>2. tries[u] < Rounds /\ using' \in [Uploaders -> Client] /\ {"held", "upload"} \subseteq Labels
  BY DEF IInv, UploaderInv, Labels
<1>3. UploaderInv' /\ NoneBegins
  BY <1>2, SameTries, GoesInv DEF IInv
<1> QED BY <1>1, <1>3, HarmlessFrom

LEMMA HoldBackStep ==
  ASSUME IInv, NEW u \in Uploaders, NEW s \in RetryAfter, HoldBack(u, s)
  PROVE  Harmless
<1>1. sleep' \in [Uploaders -> Nat]
  BY PauseType DEF HoldBack, Set, IInv, UploaderInv
<1> QED BY <1>1, HeldStep DEF HoldBack, AskedToWait, InUpload

LEMMA RepeatStep ==
  ASSUME IInv, NEW u \in Uploaders, Repeat(u)
  PROVE  Harmless
<1>1. sleep' \in [Uploaders -> Nat]
  BY DEF Repeat, IInv, UploaderInv
<1> QED BY <1>1, HeldStep DEF Repeat

\* The bot that is disabled is the one whose token was refused.
LEMMA UnauthorizedStep ==
  ASSUME IInv, NEW u \in Uploaders, Unauthorized(u)
  PROVE  Harmless
<1> DEFINE j == using[u].bot
           b == [bots[j] EXCEPT !.disabled = TRUE]
<1>1. /\ bots' = [bots EXCEPT ![j] = b]
      /\ revoked' = revoked \union {using[u]}
      /\ Reselect(u) /\ pc[u] = "upload" /\ UNCHANGED <<rr, believes, sent>> /\ Environment
  BY DEF Unauthorized, InUpload, Changed, Found, Reselect
<1>2. UploaderInv' /\ NoneBegins
  BY <1>1, ReselectInv DEF IInv
<1>3. /\ j \in Bots /\ bots[j] \in Bot /\ sent[j] \in Nat /\ sent[j] <= bots[j].bytes
      /\ \E o \in BOOLEAN : [bot |-> j, old |-> o] \in revoked'
  <2>1. using[u] \in Client /\ j \in Bots
    BY DEF IInv, UploaderInv, Client
  <2>2. using[u] = [bot |-> j, old |-> using[u].old] /\ using[u].old \in BOOLEAN
    BY <2>1 DEF Client
  <2>3. \E o \in BOOLEAN : [bot |-> j, old |-> o] \in revoked'
    BY <1>1, <2>2
  <2> HIDE DEF j
  <2> QED BY <2>1, <2>3 DEF IInv, BotInv
<1>4. b \in Bot /\ b.cool >= bots[j].cool /\ b.bytes = bots[j].bytes
  <2>1. b \in Bot /\ b.cool = bots[j].cool /\ b.bytes = bots[j].bytes /\ bots[j].cool \in Nat
    BY <1>3 DEF Bot
  <2> QED BY <2>1
<1>5. BotInv' /\ NoneCut
  <2>1. sent' = [sent EXCEPT ![j] = sent[j]] /\ sent[j] <= b.bytes
    BY <1>1, <1>3, <1>4 DEF IInv, BotInv
  <2>2. revoked \subseteq revoked'
    BY <1>1
  <2> HIDE DEF b, j
  <2> QED BY <1>1, <1>3, <1>4, <2>1, <2>2, ChangedInv DEF IInv
<1> QED BY <1>1, <1>2, <1>5, HarmlessFrom

LEMMA LeaveStep ==
  ASSUME IInv, NEW u \in Uploaders, Account(u) \/ GiveUp(u)
  PROVE  Harmless
<1>1. /\ Ended(u) /\ UNCHANGED <<bots, rr, sent, revoked>> /\ Environment
      /\ sleep' = sleep \/ sleep' = [sleep EXCEPT ![u] = 0]
      /\ UNCHANGED believes \/ Awake(u)
  BY DEF Account, GiveUp, Set
<1>2. sleep' \in [Uploaders -> Nat]
  BY <1>1 DEF IInv, UploaderInv
<1> QED BY <1>1, <1>2, EndedInv, SameBots, HarmlessFrom DEF IInv

\* Time makes windows older and pauses shorter, no more.
LEMMA TickStep ==
  ASSUME IInv, Tick
  PROVE  IInv' /\ NoneBegins
<1>1. /\ bots' = [i \in Bots |-> [bots[i] EXCEPT !.age = Older(@), !.cool = Less(@)]]
      /\ sleep' = [u \in Uploaders |-> Less(sleep[u])]
      /\ UNCHANGED <<rr, polling, settings, kind, pc, size, using, tries, believes, answered,
                     revoked, sent>>
  BY DEF Tick
<1>2. /\ \A t \in Nat : Less(t) \in Nat
      /\ \A t \in 0 .. Longest : Older(t) \in 0 .. Longest
  BY Constants DEF Less, Older
<1>3. sleep' \in [Uploaders -> Nat]
  BY <1>1, <1>2 DEF IInv, UploaderInv
<1>4. UploaderInv' /\ NoneBegins
  BY <1>1, <1>3 DEF IInv, UploaderInv, NoneBegins
<1>5. ASSUME NEW i \in Bots
      PROVE  /\ bots'[i] \in Bot /\ bots'[i].bytes = bots[i].bytes
             /\ bots'[i].disabled = bots[i].disabled
  <2>1. bots[i] \in Bot
    BY DEF IInv, BotInv
  <2>2. bots'[i] = [bots[i] EXCEPT !.age = Older(@), !.cool = Less(@)]
    BY <1>1
  <2>3. Older(bots[i].age) \in 0 .. Longest /\ Less(bots[i].cool) \in Nat
    BY <1>2, <2>1 DEF Bot
  <2> QED BY <2>1, <2>2, <2>3 DEF Bot
<1>6. BotInv'
  <2>1. bots' \in [Bots -> Bot]
    <3>1. bots' = [i \in Bots |-> bots'[i]]
      BY <1>1
    <3> QED BY <3>1, <1>5
  <2> QED BY <1>1, <1>5, <2>1 DEF IInv, BotInv, OutIsRefused
<1> QED BY <1>1, <1>4, <1>6 DEF IInv, FlagInv, LimitInv

LEMMA RebuildStep ==
  ASSUME IInv, Rebuild
  PROVE  IInv' /\ NoneBegins
<1>1. /\ bots' = [i \in Bots |-> NewBot] /\ rr' = 0 /\ sent' = [i \in Bots |-> 0]
      /\ using' = [u \in Uploaders |-> [using[u] EXCEPT !.old = pc[u] \in {"upload", "held"}]]
      /\ UNCHANGED <<limit, fallback, kind, pc, size, tries, sleep, believes, answered>>
      /\ polling' = TRUE /\ local' = FALSE
  BY DEF Rebuild
<1>2. using' \in [Uploaders -> Client]
  <2> SUFFICES ASSUME NEW u \in Uploaders
               PROVE  [using[u] EXCEPT !.old = pc[u] \in {"upload", "held"}] \in Client
    BY <1>1
  <2>1. using[u] \in Client
    BY DEF IInv, UploaderInv
  <2> DEFINE o == pc[u] \in {"upload", "held"}
  <2>2. o \in BOOLEAN
    OBVIOUS
  <2> HIDE DEF o
  <2>3. [using[u] EXCEPT !.old = o] \in Client
    BY <2>1, <2>2 DEF Client
  <2> QED BY <2>3 DEF o
<1>3. UploaderInv' /\ NoneBegins
  BY <1>1, <1>2 DEF IInv, UploaderInv, NoneBegins
<1>4. NewBot \in Bot /\ ~NewBot.disabled /\ 0 <= NewBot.bytes
  BY Constants DEF NewBot, Bot
<1>5. BotInv'
  BY <1>1, <1>4, Constants DEF BotInv, OutIsRefused
<1> QED BY <1>1, <1>3, <1>5 DEF IInv, FlagInv, LimitInv

LEMMA OtherStep ==
  ASSUME IInv, ChangeLimit \/ StartPolling \/ UNCHANGED vars
  PROVE  Harmless
<1>1. UNCHANGED <<bots, rr, sent, revoked, pc, size, using, tries, sleep, believes, answered>>
  BY DEF ChangeLimit, StartPolling, vars
<1>2. FlagInv' /\ LimitInv'
  BY DEF IInv, FlagInv, LimitInv, ChangeLimit, StartPolling, vars
<1>3. UploaderInv' /\ NoneBegins
  BY <1>1 DEF IInv, UploaderInv, NoneBegins
<1> QED BY <1>1, <1>2, <1>3, SameBots DEF IInv, Harmless
-----------------------------------------------------------------------------
(* Turns.                                                                   *)

LEMMA Modulo ==
  /\ \A x \in 0 .. N - 1 : x % N = x
  /\ \A x \in 0 .. N - 1 : (x + N) % N = x
BY Constants

LEMMA Around ==
  \A x, y \in 0 .. N - 1 : (IF x >= y THEN x - y ELSE x - y + N) \in 0 .. N - 1
BY Constants

LEMMA SameTurns ==
  ASSUME TurnInv, UNCHANGED <<rr, passed>>
  PROVE  TurnInv'
BY DEF TurnInv, Distance

\* The bots that are ready and not chosen are behind the one that is: they come
\* nearer by at least the one they are passed over by.
LEMMA ChooseTurn ==
  ASSUME IInv, TurnInv, NEW u \in Uploaders, Choose(u)
  PROVE  TurnInv'
<1> DEFINE l     == Reads(u)
           ready == {k \in Bots : Ready(bots[InTurn(k)], l)}
           k     == Least(ready)
           i     == InTurn(k)
<1>1. /\ ready # {} /\ rr' = (i + 1) % N
      /\ passed' = [j \in Bots |-> IF j = i \/ ~Ready(bots[j], l) THEN 0 ELSE passed[j] + 1]
  BY DEF Choose, NextTurn
<1>2. k \in ready /\ \A d \in ready : k <= d
  BY <1>1, LeastIn, Constants
<1>3. rr \in 0 .. N - 1 /\ k \in 0 .. N - 1 /\ N \in Nat \ {0}
  BY <1>2, Constants DEF IInv, BotInv, Bots
<1>4. \A d \in Bots : d \in ready <=> Ready(bots[InTurn(d)], l)
  OBVIOUS
<1> HIDE DEF ready, k, l
<1>5. i = IF rr + k < N THEN rr + k ELSE rr + k - N
  <2>1. CASE rr + k < N
    BY <1>3, <2>1, Modulo DEF InTurn
  <2>2. CASE ~(rr + k < N)
    <3>1. rr + k - N \in 0 .. N - 1 /\ (rr + k - N) + N = rr + k
      BY <1>3, <2>2
    <3>2. (rr + k) % N = rr + k - N
      BY <3>1, Modulo
    <3> QED BY <2>2, <3>2 DEF InTurn
  <2> QED BY <2>1, <2>2
<1>6. i \in 0 .. N - 1
  BY <1>3, <1>5
<1> HIDE DEF i
<1>7. rr' = IF i + 1 = N THEN 0 ELSE i + 1
  <2>1. CASE i + 1 = N
    <3>1. (0 + N) % N = 0
      BY <1>3, Modulo
    <3> QED BY <1>1, <2>1, <3>1, <1>3
  <2>2. CASE i + 1 # N
    <3>1. i + 1 \in 0 .. N - 1
      BY <1>3, <1>6, <2>2
    <3> QED BY <1>1, <2>2, <3>1, Modulo
  <2> QED BY <2>1, <2>2
<1>8. ASSUME NEW j \in Bots
      PROVE  passed'[j] \in Nat /\ passed'[j] + Distance(j)' < N
  <2>1. j \in 0 .. N - 1 /\ passed[j] \in Nat /\ passed[j] + Distance(j) < N
    BY DEF TurnInv, Bots
  <2>2. /\ Distance(j) = IF j >= rr THEN j - rr ELSE j - rr + N
        /\ Distance(j)' = IF j >= rr' THEN j - rr' ELSE j - rr' + N
    BY DEF Distance
  <2>3. CASE j = i \/ ~Ready(bots[j], l)
    <3>1. passed'[j] = 0
      BY <1>1, <2>3
    <3>2. rr' \in 0 .. N - 1
      BY <1>3, <1>6, <1>7
    <3>3. Distance(j)' \in 0 .. N - 1
      BY <2>1, <2>2, <3>2, Around
    <3> QED BY <1>3, <3>1, <3>3
  <2>4. CASE j # i /\ Ready(bots[j], l)
    <3>1. passed'[j] = passed[j] + 1
      BY <1>1, <2>4
    <3>2. Distance(j) \in 0 .. N - 1 /\ InTurn(Distance(j)) = j
      <4>1. CASE j >= rr
        <5>1. rr + (j - rr) = j
          BY <1>3, <2>1
        <5> QED BY <1>3, <2>1, <2>2, <4>1, <5>1, Modulo DEF InTurn
      <4>2. CASE ~(j >= rr)
        <5>1. rr + (j - rr + N) = j + N
          BY <1>3, <2>1
        <5> QED BY <1>3, <2>1, <2>2, <4>2, <5>1, Modulo DEF InTurn
      <4> QED BY <4>1, <4>2
    <3>3. k <= Distance(j)
      BY <1>2, <1>4, <2>4, <3>2 DEF Bots
    <3>4. Distance(j)' < Distance(j)
      <4>1. CASE j >= rr
        BY <1>3, <1>5, <1>7, <2>1, <2>2, <2>4, <3>3, <4>1
      <4>2. CASE ~(j >= rr)
        BY <1>3, <1>5, <1>7, <2>1, <2>2, <2>4, <3>3, <4>2
      <4> QED BY <4>1, <4>2
    <3>5. Distance(j)' \in Int
      BY <1>3, <1>6, <1>7, <2>1, <2>2
    <3> QED BY <1>3, <2>1, <3>1, <3>2, <3>4, <3>5
  <2> QED BY <2>3, <2>4
<1>9. passed' \in [Bots -> Nat]
  <2>1. passed' = [j \in Bots |-> passed'[j]]
    BY <1>1
  <2> QED BY <1>8, <2>1
<1> QED BY <1>8, <1>9 DEF TurnInv
-----------------------------------------------------------------------------
(* Sleepers.                                                                *)

\* A step leaves a bot held back that was, by a setting whose window is no longer
\* than any in use.
BotsHeld ==
  \A i \in Bots : \A t \in Nat \ {0} : \A l \in Setting :
    Longer(l) /\ Held(bots[i], t, l) => Held(bots'[i], t, l)

\* Uploader u is awake after the step; the others sleep as before.
Wakes(u) ==
  /\ \E a \in Labels \ {"sleep"} : pc' = [pc EXCEPT ![u] = a]
  /\ \E n \in Nat : sleep' = sleep \/ sleep' = [sleep EXCEPT ![u] = n]
  /\ outdated' = outdated \/ outdated' = [outdated EXCEPT ![u] = FALSE]
  /\ believes' = believes \/ believes' = [believes EXCEPT ![u] = NoLimit]
  /\ UNCHANGED limit

\* A window starts again by the setting m: one of l had not elapsed before.
LEMMA FreshHeld ==
  ASSUME NEW b \in Bot, NEW t \in Nat \ {0}, NEW l \in Setting, NEW m \in Setting,
         l.window <= m.window, Held(b, t, l)
  PROVE  /\ Held(Fresh(b, m), t, l)
         /\ b.disabled \/ b.cool >= t \/ Fresh(b, m) = b
<1>1. /\ Fresh(b, m).cool = b.cool /\ Fresh(b, m).disabled = b.disabled
      /\ ~Due(b, m) => Fresh(b, m) = b
  BY FreshBot
<1>2. b.age \in Nat /\ l.window \in Nat /\ m.window \in Nat
  BY Constants DEF Bot, Setting
<1>3. CASE b.disabled \/ b.cool >= t
  BY <1>1, <1>3 DEF Held
<1>4. CASE l.threshold > 0 /\ b.bytes >= l.threshold /\ b.age + t <= l.window
  <2>1. ~Due(b, m)
    BY <1>2, <1>4 DEF Due
  <2> QED BY <1>1, <2>1
<1> QED BY <1>3, <1>4 DEF Held

LEMMA NotedHeld ==
  ASSUME NEW b \in Bot, NEW s \in Nat, NEW t \in Nat \ {0}, NEW l \in Setting,
         limit \in Setting, l.window <= limit.window, Held(b, t, l)
  PROVE  Held(Noted(b, s), t, l)
<1> DEFINE c == Noted(b, s)
<1>1. /\ c \in Bot /\ c.cool >= b.cool /\ c.age = Fresh(b, limit).age
      /\ c.bytes = Fresh(b, limit).bytes + s /\ c.disabled = b.disabled
  BY NotedBot
<1> HIDE DEF c
<1>2. /\ b.cool \in Nat /\ b.bytes \in Nat /\ b.age \in Nat /\ c.cool \in Nat
      /\ l.threshold \in Nat
  BY <1>1, Constants DEF Bot, Setting
<1>3. CASE b.disabled \/ b.cool >= t
  BY <1>1, <1>2, <1>3 DEF Held, c
<1>4. CASE Fresh(b, limit) = b
  BY <1>1, <1>2, <1>4 DEF Held, c
<1> QED BY <1>3, <1>4, FreshHeld

LEMMA ReadsInUse ==
  ASSUME IInv, NEW u \in Uploaders
  PROVE  limit.window \in InUse /\ Reads(u).window \in InUse
BY DEF InUse, Reads

LEMMA SameHeld ==
  ASSUME UNCHANGED bots
  PROVE  BotsHeld
BY DEF BotsHeld

LEMMA LookAtHeld ==
  ASSUME IInv, NEW u \in Uploaders, NEW K, LookAt(K, Reads(u))
  PROVE  BotsHeld
<1> SUFFICES ASSUME NEW i \in Bots, NEW t \in Nat \ {0}, NEW l \in Setting,
                    Longer(l), Held(bots[i], t, l)
             PROVE  Held(bots'[i], t, l)
  BY DEF BotsHeld
<1>1. bots[i] \in Bot /\ Reads(u) \in Setting /\ l.window <= Reads(u).window
  BY Settings, ReadsInUse DEF IInv, BotInv, Longer
<1>2. bots'[i] = bots[i] \/ bots'[i] = Fresh(bots[i], Reads(u))
  BY DEF LookAt
<1> QED BY <1>1, <1>2, FreshHeld

LEMMA ChangedHeld ==
  ASSUME BotInv, NEW j \in Bots, NEW b, bots' = [bots EXCEPT ![j] = b],
         \A t \in Nat \ {0} : \A l \in Setting :
           Longer(l) /\ Held(bots[j], t, l) => Held(b, t, l)
  PROVE  BotsHeld
<1> SUFFICES ASSUME NEW i \in Bots, NEW t \in Nat \ {0}, NEW l \in Setting,
                    Longer(l), Held(bots[i], t, l)
             PROVE  Held(bots'[i], t, l)
  BY DEF BotsHeld
<1>1. bots'[i] = bots[i] \/ (i = j /\ bots'[i] = b)
  BY DEF BotInv
<1> QED BY <1>1

LEMMA UploadHeld ==
  ASSUME IInv, NEW u \in Uploaders,
         \/ UNCHANGED bots
         \/ bots' = Changed(u, Noted(bots[Found(u)], size[u]))
         \/ \E s \in RetryAfter : bots' = Changed(u, Paused(bots[Found(u)], (s + 1) * Second))
         \/ bots' = Changed(u, [bots[Found(u)] EXCEPT !.disabled = TRUE])
  PROVE  BotsHeld
<1> DEFINE j == using[u].bot
<1>1. j \in Bots /\ bots[j] \in Bot /\ size[u] \in Nat /\ limit \in Setting
  BY Constants, Settings DEF IInv, UploaderInv, BotInv, Client
<1>2. \A b : Changed(u, b) = [bots EXCEPT ![j] = b]
  BY DEF Changed, Found
<1>3. bots[Found(u)] = bots[j]
  BY DEF Found
<1>4. \A l \in Setting : Longer(l) => l.window <= limit.window
  BY ReadsInUse DEF Longer
<1> HIDE DEF j
<1>5. CASE UNCHANGED bots
  BY <1>5, SameHeld
<1>6. CASE bots' = Changed(u, Noted(bots[j], size[u]))
  <2>1. \A t \in Nat \ {0} : \A l \in Setting :
          Longer(l) /\ Held(bots[j], t, l) => Held(Noted(bots[j], size[u]), t, l)
    BY <1>1, <1>4, NotedHeld
  <2> QED BY <1>1, <1>2, <1>6, <2>1, ChangedHeld DEF IInv
<1>7. CASE \E s \in RetryAfter : bots' = Changed(u, Paused(bots[j], (s + 1) * Second))
  <2>1. PICK s \in RetryAfter : bots' = Changed(u, Paused(bots[j], (s + 1) * Second))
    BY <1>7
  <2> DEFINE b == Paused(bots[j], (s + 1) * Second)
  <2>2. /\ b \in Bot /\ b.cool >= bots[j].cool /\ b.age = bots[j].age
        /\ b.bytes = bots[j].bytes /\ b.disabled = bots[j].disabled
    BY <1>1, PauseType, PausedBot
  <2> HIDE DEF b
  <2>3. \A t \in Nat \ {0} : \A l \in Setting : Held(bots[j], t, l) => Held(b, t, l)
    BY <1>1, <2>2 DEF Held, Bot
  <2>4. bots' = Changed(u, b)
    BY <2>1 DEF b
  <2> QED BY <1>1, <1>2, <2>3, <2>4, ChangedHeld DEF IInv
<1>8. CASE bots' = Changed(u, [bots[j] EXCEPT !.disabled = TRUE])
  <2>1. \A t \in Nat \ {0} : \A l \in Setting : Held([bots[j] EXCEPT !.disabled = TRUE], t, l)
    BY <1>1 DEF Held, Bot
  <2> QED BY <1>1, <1>2, <1>8, <2>1, ChangedHeld DEF IInv
<1> QED BY <1>3, <1>5, <1>6, <1>7, <1>8

LEMMA EndedWakes ==
  ASSUME NEW u \in Uploaders, Ended(u) \/ (\E a \in Labels \ {"sleep"} : GoesOn(u, a)),
         \E n \in Nat : sleep' = sleep \/ sleep' = [sleep EXCEPT ![u] = n],
         UNCHANGED <<believes, outdated>> \/ Awake(u), UNCHANGED limit
  PROVE  Wakes(u)
BY DEF Wakes, Ended, GoesOn, Set, Labels, Awake

LEMMA WakeStep ==
  ASSUME IInv, SleepInv, NEW u \in Uploaders, Wakes(u), BotsHeld
  PROVE  SleepInv'
<1>1. outdated' \in [Uploaders -> BOOLEAN]
  BY DEF Wakes, SleepInv
<1>2. pc'[u] # "sleep" /\ UNCHANGED limit
  BY DEF Wakes, IInv, UploaderInv
<1>3. ASSUME NEW v \in Uploaders \ {u}
      PROVE  /\ pc'[v] = pc[v] /\ outdated'[v] = outdated[v]
             /\ sleep'[v] = sleep[v] /\ believes'[v] = believes[v]
  BY DEF Wakes, IInv, UploaderInv, LimitInv, SleepInv
<1>4. InUse' \subseteq InUse
  BY <1>2, <1>3 DEF InUse
<1>5. ASSUME NEW v \in Uploaders, Sleeping(v)'
      PROVE  Sleeping(v) /\ sleep'[v] = sleep[v] /\ believes'[v] = believes[v]
  <2>1. v \in Uploaders \ {u}
    BY <1>2, <1>5 DEF Sleeping
  <2> QED BY <1>3, <1>5, <2>1 DEF Sleeping
<1>6. ASSUME NEW v \in Uploaders, Sleeping(v)'
      PROVE  /\ Longer(believes[v])'
             /\ \A i \in Bots : Held(bots[i], sleep[v] - Second + 1, believes[v])'
  <2>1. /\ Sleeping(v) /\ sleep'[v] = sleep[v] /\ believes'[v] = believes[v]
        /\ Longer(believes[v]) /\ believes[v] \in Setting
    BY <1>5, <1>6, Settings DEF SleepInv, IInv
  <2>2. Longer(believes[v])'
    BY <1>4, <2>1 DEF Longer
  <2>3. PICK t \in Nat \ {0} : t = sleep[v] - Second + 1
    BY <2>1, Constants DEF Sleeping, IInv, UploaderInv
  <2>4. ASSUME NEW i \in Bots
        PROVE  Held(bots'[i], t, believes[v])
    <3>1. Held(bots[i], t, believes[v])
      BY <2>1, <2>3 DEF SleepInv
    <3> QED BY <2>1, <3>1 DEF BotsHeld
  <2>5. t = sleep'[v] - Second + 1
    BY <2>1, <2>3
  <2> QED BY <2>1, <2>2, <2>4, <2>5 DEF Held
<1> QED BY <1>1, <1>6 DEF SleepInv

LEMMA UploaderWakes ==
  ASSUME IInv, NEW u \in Uploaders,
         \/ \E s \in Sizes : Ask(u, s)
         \/ Upload(u) /\ ~FallAsleep(u)
         \/ GiveUp(u)
  PROVE  Wakes(u)
<1> DEFINE Calm == /\ \E n \in Nat : sleep' = sleep \/ sleep' = [sleep EXCEPT ![u] = n]
                   /\ UNCHANGED <<believes, outdated>> \/ Awake(u)
                   /\ UNCHANGED limit
           Goes == Ended(u) \/ (\E a \in Labels \ {"sleep"} : GoesOn(u, a))
<1>1. {"select", "upload", "held", "account"} \subseteq Labels \ {"sleep"}
  BY DEF Labels
<1>2. ToAccount(u) \/ Abandoned(u) \/ Refused(u) \/ Reselect(u) \/ HandOver(u) => Goes
  BY <1>1 DEF ToAccount, HandOver, Abandoned, Refused, Reselect
<1>3. CASE \E s \in Sizes : Ask(u, s)
  <2>1. /\ pc' = [pc EXCEPT ![u] = "select"]
        /\ UNCHANGED <<sleep, believes, outdated, limit>>
    BY <1>3 DEF Ask, Set
  <2> QED BY <1>1, <2>1 DEF Wakes
<1>4. CASE TooLarge(u) \/ AllDisabled(u) \/ NotWaiting(u)
  <2>1. UNCHANGED <<sleep, limit>> /\ Awake(u)
    BY <1>4 DEF TooLarge, AllDisabled, NotWaiting, NoneReady, Selecting, ToAccount, Environment
  <2>2. Goes
    BY <1>2, <1>4 DEF TooLarge, AllDisabled, NotWaiting
  <2> QED BY <2>1, <2>2, EndedWakes
<1>5. CASE Choose(u)
  <2>1. UNCHANGED <<sleep, limit>> /\ Awake(u)
    BY <1>5 DEF Choose, Selecting, Environment
  <2>2. Goes
    BY <1>1, <1>2, <1>5 DEF Choose
  <2> QED BY <2>1, <2>2, EndedWakes
<1>6. CASE /\ InUpload(u)
           /\ \/ Uploaded(u) \/ UploadedUnlogged(u) \/ AnswerLost(u) \/ OtherError(u)
              \/ (\E s \in RetryAfter : Flooded(u, s) \/ FloodedAtStop(u, s)) \/ Unauthorized(u)
  <2>1. /\ UNCHANGED <<sleep, believes, outdated, limit>> /\ pc[u] = "upload"
    BY <1>6 DEF InUpload, Environment, Uploaded, UploadedUnlogged, AnswerLost, OtherError,
       Flooded, FloodedAtStop, Unauthorized, Reselect
  <2>2. Goes \/ UNCHANGED pc
    BY <1>2, <1>6 DEF Uploaded, UploadedUnlogged, AnswerLost, OtherError, Flooded, FloodedAtStop,
       Unauthorized
  <2>3. CASE UNCHANGED pc
    <3>1. pc' = [pc EXCEPT ![u] = "upload"]
      BY <2>1, <2>3 DEF IInv, UploaderInv
    <3> QED BY <1>1, <2>1, <3>1 DEF Wakes
  <2> QED BY <2>1, <2>2, <2>3, EndedWakes
<1>7. CASE Account(u) \/ GiveUp(u)
  <2>1. /\ sleep' = sleep \/ sleep' = [sleep EXCEPT ![u] = 0]
        /\ UNCHANGED <<believes, outdated>> \/ Awake(u)
        /\ UNCHANGED limit /\ Ended(u)
    BY <1>7 DEF Account, GiveUp, Set, Environment
  <2> QED BY <2>1, EndedWakes
<1>8. CASE (\E s \in RetryAfter : HoldBack(u, s)) \/ Repeat(u)
  <2>1. /\ \E n \in Nat : sleep' = sleep \/ sleep' = [sleep EXCEPT ![u] = n]
        /\ UNCHANGED <<believes, outdated, limit>>
    BY <1>8, PauseType DEF HoldBack, Repeat, AskedToWait, InUpload, Environment, Set
  <2>2. Goes
    BY <1>1, <1>8 DEF HoldBack, Repeat
  <2> QED BY <2>1, <2>2, EndedWakes
<1>9. (\/ Uploaded(u) \/ UploadedUnlogged(u) \/ AnswerLost(u) \/ OtherError(u) \/ Unauthorized(u)
       \/ (\E s \in RetryAfter : Flooded(u, s) \/ FloodedAtStop(u, s))) => InUpload(u)
  BY DEF Uploaded, UploadedUnlogged, AnswerLost, OtherError, Flooded, FloodedAtStop, Unauthorized,
     AskedToWait
<1> QED BY <1>3, <1>4, <1>5, <1>6, <1>7, <1>8, <1>9 DEF Upload

LEMMA UploaderHeld ==
  ASSUME IInv, NEW u \in Uploaders, (\E s \in Sizes : Ask(u, s)) \/ Upload(u) \/ GiveUp(u)
  PROVE  BotsHeld
<1>1. CASE \/ (\E s \in Sizes : Ask(u, s)) \/ TooLarge(u) \/ Account(u) \/ GiveUp(u)
           \/ (\E s \in RetryAfter : HoldBack(u, s)) \/ Repeat(u)
  <2>1. UNCHANGED bots
    BY <1>1 DEF Ask, TooLarge, Account, GiveUp, HoldBack, Repeat
  <2> QED BY <2>1, SameHeld
<1>2. CASE Choose(u) \/ AllDisabled(u) \/ NotWaiting(u) \/ FallAsleep(u)
  <2>1. \E K : LookAt(K, Reads(u))
    BY <1>2 DEF Choose, AllDisabled, NotWaiting, FallAsleep, NoneReady
  <2> QED BY <2>1, LookAtHeld
<1>3. CASE \/ Uploaded(u) \/ UploadedUnlogged(u) \/ AnswerLost(u) \/ OtherError(u)
           \/ (\E s \in RetryAfter : Flooded(u, s) \/ FloodedAtStop(u, s)) \/ Unauthorized(u)
  BY <1>3, UploadHeld
  DEF Uploaded, UploadedUnlogged, AnswerLost, OtherError, Flooded, FloodedAtStop, Unauthorized
<1> QED BY <1>1, <1>2, <1>3 DEF Upload

LEMMA WithinSecond ==
  ASSUME NEW w \in Nat \ {0}, NEW m \in Nat, m <= Larger(Second, w), m >= Second
  PROVE  m - Second + 1 <= w
BY Constants DEF Larger

\* The sleep that begins ends in the second in which the first bot is ready, or
\* is of a second.
LEMMA WaitForHeld ==
  ASSUME BotInv, NEW l \in Setting, NEW i \in Bots, ~Ready(bots[i], l)
  PROVE  /\ WaitFor(l) \in Nat
         /\ WaitFor(l) >= Second => Held(bots[i], WaitFor(l) - Second + 1, l)
<1> DEFINE b == bots[i]
           w == ReadyIn(b, l)
           m == WaitFor(l)
<1>1. m \in Nat /\ b \in Bot
  BY WaitForType DEF BotInv
<1>2. CASE b.disabled
  BY <1>1, <1>2 DEF Held
<1>3. CASE ~b.disabled
  <2>1. w \in Waited(l)
    BY <1>3 DEF Waited
  <2>2. Waited(l) \in SUBSET Nat
    <3> SUFFICES ASSUME NEW j \in Bots
                 PROVE  ReadyIn(bots[j], l) \in Nat
      BY DEF Waited
    <3>1. bots[j] \in Bot
      BY DEF BotInv
    <3>2. Fresh(bots[j], l).age \in 0 .. l.window - 1
      BY <3>1, FreshBot
    <3>3. l.window \in Nat /\ bots[j].cool \in Nat
      BY <3>1, Constants DEF Bot, Setting
    <3> QED BY <3>2, <3>3 DEF ReadyIn
  <2> DEFINE x == Least(Waited(l))
  <2>3. x \in Nat /\ x <= w /\ w \in Nat
    <3> HIDE DEF w
    <3> QED BY <2>1, <2>2, LeastIn
  <2>4. m <= Larger(Second, w)
    <3>1. m = WholeSeconds(x)
      BY <2>1 DEF WaitFor
    <3> HIDE DEF w, x, m
    <3>2. (x \div Second) * Second <= x
      BY <2>3, Constants
    <3>3. (x \div Second) * Second \in Nat
      <4>1. x \div Second \in Nat
        BY <2>3, Constants
      <4> QED BY <4>1, Constants, Times
    <3> QED BY <2>3, <3>1, <3>2, <3>3, Constants DEF WholeSeconds, Larger
  <2>5. b.cool \in Nat /\ b.age \in Nat /\ l.window \in Nat /\ l.threshold \in Nat
    BY <1>1, Constants DEF Bot, Setting
  <2>6. CASE b.cool > 0
    <3>1. w = b.cool
      BY <2>6 DEF ReadyIn
    <3>2. w \in Nat \ {0}
      BY <2>5, <2>6, <3>1
    <3> HIDE DEF w, m
    <3>3. m >= Second => m - Second + 1 <= w
      BY <1>1, <2>4, <3>2, WithinSecond
    <3>4. m >= Second => b.cool >= m - Second + 1
      BY <1>1, <3>1, <3>2, <3>3, Constants
    <3> QED BY <1>1, <3>4 DEF Held, m
  <2>7. CASE ~(b.cool > 0)
    <3>1. Spent(b, l)
      BY <1>3, <2>5, <2>7 DEF Ready
    <3>2. /\ l.threshold > 0 /\ Fresh(b, l).bytes >= l.threshold
          /\ ~Due(b, l) /\ Fresh(b, l) = b
      BY <1>1, <2>5, <3>1, FreshBot DEF Spent
    <3>3. w = l.window - b.age /\ w > 0
      BY <2>5, <2>7, <3>2 DEF ReadyIn, Due
    <3>4. w \in Nat \ {0}
      BY <2>5, <3>3
    <3> HIDE DEF w, m
    <3>5. m >= Second => m - Second + 1 <= w
      BY <1>1, <2>4, <3>4, WithinSecond
    <3>6. m >= Second => b.age + (m - Second + 1) <= l.window
      BY <1>1, <2>5, <3>3, <3>5, Constants
    <3> QED BY <1>1, <3>2, <3>6 DEF Held, m
  <2> QED BY <2>6, <2>7
<1> QED BY <1>1, <1>2, <1>3

LEMMA FallAsleepStep ==
  ASSUME IInv, SleepInv, NEW u \in Uploaders, FallAsleep(u)
  PROVE  SleepInv'
<1> DEFINE l == Reads(u)
<1>1. /\ \A i \in Bots : ~Ready(bots[i], l)
      /\ LookAt(Bots, l) /\ UNCHANGED limit
      /\ pc' = [pc EXCEPT ![u] = "sleep"] /\ sleep' = [sleep EXCEPT ![u] = WaitFor(l)]
      /\ believes' = [believes EXCEPT ![u] = l]
      /\ outdated' = [outdated EXCEPT ![u] = \E w \in InUse : w < l.window]
  BY DEF FallAsleep, NoneReady, Selecting, Environment, GoesOn, Set
<1>2. BotsHeld
  BY <1>1, LookAtHeld
<1>3. l \in Setting /\ l.window \in InUse
  BY Settings, ReadsInUse DEF IInv
<1> HIDE DEF l
<1>4. pc'[u] = "sleep" /\ sleep'[u] = WaitFor(l) /\ believes'[u] = l
  BY <1>1 DEF IInv, UploaderInv, LimitInv
<1>5. \A v \in Uploaders \ {u} : /\ pc'[v] = pc[v] /\ sleep'[v] = sleep[v]
                                 /\ believes'[v] = believes[v]
                                 /\ outdated'[v] = outdated[v]
  BY <1>1 DEF IInv, UploaderInv, LimitInv, SleepInv
<1>6. InUse' \subseteq InUse
  <2> SUFFICES ASSUME NEW w \in InUse'
               PROVE  w \in InUse
    OBVIOUS
  <2>1. CASE w = limit'.window
    BY <1>1, <2>1 DEF InUse
  <2>2. ASSUME NEW v \in Uploaders, pc'[v] = "sleep", w = believes'[v].window
        PROVE  w \in InUse
    <3>1. CASE v = u
      BY <1>3, <1>4, <2>2, <3>1
    <3>2. CASE v # u
      BY <1>5, <2>2, <3>2 DEF InUse
    <3> QED BY <3>1, <3>2
  <2> QED BY <2>1, <2>2 DEF InUse
<1>7. \A w \in InUse : w \in Nat
  BY Settings, Constants DEF IInv, InUse, Setting
<1>8. ASSUME NEW v \in Uploaders, Sleeping(v)'
      PROVE  /\ Longer(believes[v])'
             /\ \A i \in Bots : Held(bots[i], sleep[v] - Second + 1, believes[v])'
  <2>1. CASE v = u
    <3>1. Longer(l)
      <4>1. ~(\E w \in InUse : w < l.window)
        BY <1>1, <1>8, <2>1 DEF Sleeping, SleepInv
      <4> QED BY <1>3, <1>7, <4>1 DEF Longer
    <3>2. Longer(believes[v])'
      BY <1>4, <1>6, <2>1, <3>1 DEF Longer
    <3>3. WaitFor(l) >= Second /\ WaitFor(l) \in Nat
      BY <1>3, <1>4, <1>8, <2>1, WaitForType DEF Sleeping, IInv
    <3>4. PICK t \in Nat \ {0} : t = WaitFor(l) - Second + 1
      BY <3>3, Constants
    <3>5. \A i \in Bots : Held(bots[i], t, l)
      BY <1>1, <1>3, <3>3, <3>4, WaitForHeld DEF IInv
    <3>6. \A i \in Bots : Held(bots'[i], t, l)
      BY <1>2, <1>3, <3>1, <3>5 DEF BotsHeld
    <3> QED BY <1>4, <2>1, <3>2, <3>4, <3>6 DEF Held
  <2>2. CASE v # u
    <3>1. /\ Sleeping(v) /\ sleep'[v] = sleep[v] /\ believes'[v] = believes[v]
          /\ Longer(believes[v]) /\ believes[v] \in Setting
      BY <1>5, <1>8, <2>2, Settings DEF Sleeping, IInv, SleepInv
    <3>2. Longer(believes[v])'
      BY <1>6, <3>1 DEF Longer
    <3>3. PICK t \in Nat \ {0} : t = sleep[v] - Second + 1
      BY <3>1, Constants DEF Sleeping, IInv, UploaderInv
    <3>4. \A i \in Bots : Held(bots[i], t, believes[v])
      BY <3>1, <3>3 DEF SleepInv
    <3>5. \A i \in Bots : Held(bots'[i], t, believes[v])
      BY <1>2, <3>1, <3>4 DEF BotsHeld
    <3> QED BY <3>1, <3>2, <3>3, <3>5 DEF Held
  <2> QED BY <2>1, <2>2
<1>9. outdated' \in [Uploaders -> BOOLEAN]
  BY <1>1 DEF SleepInv
<1> QED BY <1>8, <1>9 DEF SleepInv

\* Sleeps and pauses grow less, and windows older, together.
LEMMA TickSleep ==
  ASSUME IInv, SleepInv, Tick
  PROVE  SleepInv'
<1>1. /\ bots' = [i \in Bots |-> [bots[i] EXCEPT !.age = Older(@), !.cool = Less(@)]]
      /\ sleep' = [u \in Uploaders |-> Less(sleep[u])]
      /\ UNCHANGED <<limit, believes, pc, outdated>>
  BY DEF Tick
<1>2. InUse' = InUse
  BY <1>1 DEF InUse
<1>3. ASSUME NEW v \in Uploaders, Sleeping(v)'
      PROVE  /\ Longer(believes[v])'
             /\ \A i \in Bots : Held(bots[i], sleep[v] - Second + 1, believes[v])'
  <2>1. sleep[v] \in Nat /\ sleep'[v] = Less(sleep[v])
    BY <1>1 DEF IInv, UploaderInv
  <2>2. sleep'[v] >= Second /\ sleep[v] = sleep'[v] + 1 /\ sleep'[v] \in Nat
    BY <1>3, <2>1, Constants DEF Sleeping, Less
  <2>3. Sleeping(v)
    <3>1. sleep[v] >= Second
      BY <2>2, Constants
    <3>2. pc[v] = "sleep" /\ ~outdated[v]
      BY <1>1, <1>3 DEF Sleeping
    <3> QED BY <3>1, <3>2 DEF Sleeping
  <2> DEFINE l == believes[v]
  <2>4. l \in Setting /\ Longer(l) /\ believes'[v] = l
    BY <1>1, <2>3, Settings DEF SleepInv, IInv
  <2>5. Longer(believes[v])'
    BY <1>2, <2>4 DEF Longer
  <2>6. PICK t \in Nat \ {0} : t = sleep'[v] - Second + 1
    BY <2>2, Constants
  <2>7. \A i \in Bots : Held(bots[i], t + 1, l)
    <3>1. t + 1 = sleep[v] - Second + 1
      BY <2>2, <2>6, Constants
    <3> QED BY <2>3, <3>1 DEF SleepInv
  <2> HIDE DEF l
  <2>8. ASSUME NEW i \in Bots
        PROVE  Held(bots'[i], t, l)
    <3>1. bots[i] \in Bot
      BY DEF IInv, BotInv
    <3>2. bots'[i] = [bots[i] EXCEPT !.age = Older(@), !.cool = Less(@)]
      BY <1>1
    <3>3. /\ bots'[i].age = Older(bots[i].age) /\ bots'[i].cool = Less(bots[i].cool)
          /\ bots'[i].bytes = bots[i].bytes /\ bots'[i].disabled = bots[i].disabled
          /\ bots[i].age \in 0 .. Longest /\ bots[i].cool \in Nat
      BY <3>1, <3>2 DEF Bot
    <3>4. l.window \in 1 .. Longest /\ l.threshold \in Nat
      BY <2>4 DEF Setting
    <3>5. bots[i].cool >= t + 1 => bots'[i].cool >= t
      BY <3>3 DEF Less
    <3>6. bots[i].age + (t + 1) <= l.window => bots'[i].age + t <= l.window
      BY <3>3, <3>4, Constants DEF Older
    <3> QED BY <2>7, <3>3, <3>5, <3>6 DEF Held
  <2> QED BY <2>4, <2>5, <2>6, <2>8 DEF Held, l
<1> QED BY <1>1, <1>3 DEF SleepInv

\* Who goes by a longer window than the new one is not sure to be woken in time.
LEMMA ChangeSleep ==
  ASSUME IInv, SleepInv, ChangeLimit
  PROVE  SleepInv'
<1>1. /\ limit' \in Limits /\ UNCHANGED <<bots, pc, sleep, believes>>
      /\ outdated' = [u \in Uploaders |->
           outdated[u] \/ (pc[u] = "sleep" /\ limit'.window < believes[u].window)]
  BY DEF ChangeLimit
<1>2. limit'.window \in Nat /\ \A u \in Uploaders : believes[u].window \in Nat
  BY <1>1, Constants, Settings DEF IInv, Setting
<1>3. InUse' \subseteq InUse \union {limit'.window}
  BY <1>1 DEF InUse
<1>4. ASSUME NEW v \in Uploaders, Sleeping(v)'
      PROVE  /\ Longer(believes[v])'
             /\ \A i \in Bots : Held(bots[i], sleep[v] - Second + 1, believes[v])'
  <2>1. ~outdated'[v] /\ pc[v] = "sleep"
    BY <1>1, <1>4 DEF Sleeping
  <2>2. ~outdated[v] /\ believes[v].window <= limit'.window
    <3>1. outdated'[v] = (outdated[v] \/ (pc[v] = "sleep" /\ limit'.window < believes[v].window))
      BY <1>1
    <3>2. ~outdated[v] /\ ~(limit'.window < believes[v].window)
      BY <2>1, <3>1, Zenon
    <3> QED BY <1>2, <3>2
  <2>3. Sleeping(v)
    BY <1>1, <1>4, <2>1, <2>2 DEF Sleeping
  <2>4. /\ Longer(believes[v])
        /\ \A i \in Bots : Held(bots[i], sleep[v] - Second + 1, believes[v])
    BY <2>3 DEF SleepInv
  <2>5. Longer(believes[v])'
    BY <1>1, <1>3, <2>2, <2>4 DEF Longer
  <2> QED BY <1>1, <2>4, <2>5 DEF Held
<1> QED BY <1>1, <1>4 DEF SleepInv

LEMMA ServiceStep ==
  ASSUME IInv, ServiceInv, [Next]_vars
  PROVE  ServiceInv'
<1>1. ASSUME NEW u \in Uploaders, (\E s \in Sizes : Ask(u, s)) \/ Upload(u) \/ GiveUp(u)
      PROVE  ServiceInv'
  <2>1. TurnInv'
    <3>1. CASE Choose(u)
      BY <3>1, ChooseTurn DEF ServiceInv
    <3>2. CASE ~Choose(u)
      <4>1. UNCHANGED <<rr, passed>>
        BY <1>1, <3>2 DEF Upload, Ask, TooLarge, ToAccount, AllDisabled, NotWaiting, FallAsleep,
           Uploaded, UploadedUnlogged, AnswerLost, OtherError, AskedToWait, Flooded, HoldBack,
           FloodedAtStop, Repeat, Unauthorized, InUpload, Account, GiveUp
      <4> QED BY <4>1, SameTurns DEF ServiceInv
    <3> QED BY <3>1, <3>2
  <2>2. SleepInv'
    <3>1. CASE FallAsleep(u)
      BY <3>1, FallAsleepStep DEF ServiceInv
    <3>2. CASE ~FallAsleep(u)
      <4>1. Wakes(u)
        BY <1>1, <3>2, UploaderWakes
      <4> QED BY <1>1, <4>1, UploaderHeld, WakeStep DEF ServiceInv
    <3> QED BY <3>1, <3>2
  <2> QED BY <2>1, <2>2 DEF ServiceInv
<1>2. CASE Tick
  <2>1. UNCHANGED <<rr, passed>>
    BY <1>2 DEF Tick
  <2> QED BY <1>2, <2>1, SameTurns, TickSleep DEF ServiceInv
<1>3. CASE Rebuild
  <2>1. /\ rr' = 0 /\ passed' = [i \in Bots |-> 0] /\ UNCHANGED pc
        /\ outdated' = [u \in Uploaders |-> pc[u] = "sleep"]
    BY <1>3 DEF Rebuild
  <2>2. TurnInv'
    <3>1. ASSUME NEW j \in Bots
          PROVE  passed'[j] + Distance(j)' < N
      <4>1. passed'[j] = 0 /\ j \in 0 .. N - 1
        BY <2>1 DEF Bots
      <4>2. Distance(j)' = j
        BY <2>1, <4>1, Constants DEF Distance
      <4> QED BY <4>1, <4>2, Constants
    <3> QED BY <2>1, <3>1 DEF TurnInv
  <2>3. SleepInv'
    BY <2>1 DEF SleepInv, Sleeping
  <2> QED BY <2>2, <2>3 DEF ServiceInv
<1>4. CASE ChangeLimit
  <2>1. UNCHANGED <<rr, passed>>
    BY <1>4 DEF ChangeLimit
  <2> QED BY <1>4, <2>1, SameTurns, ChangeSleep DEF ServiceInv
<1>5. CASE StartPolling \/ UNCHANGED vars
  <2>1. UNCHANGED <<bots, rr, passed, pc, sleep, outdated, limit, believes>>
    BY <1>5 DEF StartPolling, vars
  <2>2. SleepInv'
    BY <2>1 DEF ServiceInv, SleepInv, Sleeping, Held, Longer, InUse
  <2> QED BY <2>1, <2>2, SameTurns DEF ServiceInv
<1> QED BY <1>1, <1>2, <1>3, <1>4, <1>5 DEF Next
-----------------------------------------------------------------------------
(* The theorems.                                                            *)

LEMMA InitInv == Init => IInv
<1> SUFFICES ASSUME Init
             PROVE  IInv
  OBVIOUS
<1>1. /\ 0 \in 0 .. Rounds /\ 0 < Rounds
      /\ NewBot \in Bot /\ NewBot.bytes = 0 /\ ~NewBot.disabled
  BY Constants DEF NewBot, Bot
<1>2. UploaderInv
  BY <1>1, Constants DEF Init, UploaderInv, Labels
<1>3. BotInv
  BY <1>1, Constants DEF Init, BotInv, OutIsRefused
<1>4. FlagInv /\ LimitInv
  BY PoolAssumption DEF Init, PoolAssumption, FlagInv, LimitInv
<1> QED BY <1>2, <1>3, <1>4 DEF Init, IInv

LEMMA InitService == Init => ServiceInv
<1> SUFFICES ASSUME Init
             PROVE  ServiceInv
  OBVIOUS
<1>1. rr = 0 /\ passed = [i \in Bots |-> 0]
  BY DEF Init
<1>2. ASSUME NEW j \in Bots
      PROVE  passed[j] + Distance(j) < N
  <2>1. passed[j] = 0 /\ j \in 0 .. N - 1
    BY <1>1 DEF Bots
  <2>2. Distance(j) = j
    BY <1>1, <2>1, Constants DEF Distance
  <2> QED BY <2>1, <2>2, Constants
<1>3. TurnInv
  BY <1>1, <1>2 DEF TurnInv
<1>4. SleepInv
  BY DEF Init, SleepInv, Sleeping
<1> QED BY <1>3, <1>4 DEF ServiceInv

\* What every step does: it keeps the invariant, begins uploads within the
\* budget, and cuts no pause unless it is time that passes or the pool is new.
LEMMA StepCorrect ==
  ASSUME IInv, [Next]_vars
  PROVE  IInv' /\ BeginsInBudget /\ (Tick \/ Rebuild \/ NoneCut)
<1>1. ASSUME NoneBegins
      PROVE  BeginsInBudget
  BY <1>1 DEF NoneBegins, BeginsInBudget
<1>2. ASSUME NEW u \in Uploaders, (\E s \in Sizes : Ask(u, s)) \/ Upload(u) \/ GiveUp(u)
      PROVE  IInv' /\ BeginsInBudget /\ NoneCut
  <2>1. CASE Choose(u)
    BY <2>1, ChooseStep
  <2>2. CASE ~Choose(u)
    <3>1. CASE (\E s \in Sizes : Ask(u, s)) \/ TooLarge(u) \/ Account(u) \/ GiveUp(u)
      BY <1>1, <3>1, AskStep, TooLargeStep, LeaveStep DEF Harmless
    <3>2. CASE AllDisabled(u) \/ NotWaiting(u) \/ FallAsleep(u)
      BY <1>1, <3>2, NoneReadyStep DEF Harmless
    <3>3. CASE \/ Uploaded(u) \/ UploadedUnlogged(u) \/ AnswerLost(u) \/ OtherError(u)
               \/ Unauthorized(u)
      BY <1>1, <3>3, UploadedStep, FailedStep, UnauthorizedStep DEF Harmless
    <3>4. CASE \E s \in RetryAfter : Flooded(u, s) \/ FloodedAtStop(u, s)
      BY <1>1, <3>4, PausedStep DEF Harmless
    <3>5. CASE (\E s \in RetryAfter : HoldBack(u, s)) \/ Repeat(u)
      <4>1. CASE \E s \in RetryAfter : HoldBack(u, s)
        BY <1>1, <4>1, HoldBackStep DEF Harmless
      <4>2. CASE Repeat(u)
        BY <1>1, <4>2, RepeatStep DEF Harmless
      <4> QED BY <3>5, <4>1, <4>2
    <3> QED BY <1>2, <2>2, <3>1, <3>2, <3>3, <3>4, <3>5 DEF Upload
  <2> QED BY <2>1, <2>2
<1>3. CASE Tick
  BY <1>1, <1>3, TickStep
<1>4. CASE Rebuild
  BY <1>1, <1>4, RebuildStep
<1>5. CASE ChangeLimit \/ StartPolling \/ UNCHANGED vars
  BY <1>1, <1>5, OtherStep DEF Harmless
<1> QED BY <1>2, <1>3, <1>4, <1>5 DEF Next

LEMMA Invariant == Spec => []IInv
<1>1. Init => IInv
  BY InitInv
<1>2. IInv /\ [Next]_vars => IInv'
  BY StepCorrect
<1> QED BY <1>1, <1>2, PTL DEF Spec

\* The variables have their types, and a bot is out only when its own token was
\* refused, by the server of this pool or of the earlier one with the same tokens,
\* for any number of bots and any uploaders (bot_engine.py).
THEOREM PoolCorrect == Spec => []PoolConsistent
<1>1. IInv => PoolConsistent
  BY DEF IInv, UploaderInv, BotInv, FlagInv, LimitInv, PoolConsistent, TypeOK, Labels, Bot, Client
<1> QED BY <1>1, Invariant, PTL

\* No upload begins with a bot that has really uploaded the threshold in its
\* window, by the setting the uploader read, and no pause is cut short.
THEOREM LimitsCorrect == Spec => LimitsHold
<1> DEFINE A == \A u \in Uploaders :
                  pc[u] \in {"select", "sleep"} /\ pc'[u] = "upload" /\ Reads(u).threshold > 0
                    => sent'[using'[u].bot] < Reads(u).threshold
           B == Tick \/ Rebuild \/ \A i \in Bots : bots'[i].cool >= bots[i].cool
<1>1. IInv /\ [Next]_vars => [A]_vars /\ [B]_vars
  BY StepCorrect DEF BeginsInBudget, NoneCut
<1> QED BY <1>1, Invariant, PTL DEF Spec, LimitsHold, Budget, PausesHold

LEMMA Service == Spec => []ServiceInv
<1>1. Init => ServiceInv
  BY InitService
<1>2. IInv /\ ServiceInv /\ [Next]_vars => ServiceInv'
  BY ServiceStep
<1> QED BY <1>1, <1>2, Invariant, PTL DEF Spec

\* A bot that is ready is served: the others are chosen fewer than N times before
\* it is (the round robin of acquire_upload_bot), and no uploader sleeps a second
\* or more while it is ready by the setting he read, unless a shorter window is in
\* use or the pool is new; whatever is paused, disabled, uploaded, switched on or
\* off by others during the sleep.
THEOREM ServedCorrect == Spec => []ReadyServed
<1>1. IInv /\ ServiceInv => Rotation
  <2> SUFFICES ASSUME ServiceInv, NEW j \in Bots, IInv
               PROVE  passed[j] < N
    BY DEF Rotation
  <2>1. /\ passed[j] \in Nat /\ passed[j] + Distance(j) < N
        /\ j \in 0 .. N - 1 /\ rr \in 0 .. N - 1
    BY DEF ServiceInv, TurnInv, IInv, BotInv, Bots
  <2>2. Distance(j) \in 0 .. N - 1
    BY <2>1, Around DEF Distance
  <2> QED BY <2>1, <2>2, Constants
<1>2. IInv /\ ServiceInv => PromptWake
  <2> SUFFICES ASSUME IInv, ServiceInv, NEW u \in Uploaders, Sleeping(u), NEW i \in Bots
               PROVE  ~Ready(bots[i], believes[u])
    BY DEF PromptWake, Sleeping
  <2>1. PICK t \in Nat \ {0} : t = sleep[u] - Second + 1
    BY Constants DEF Sleeping, IInv, UploaderInv
  <2> DEFINE l == believes[u]
  <2>2. Held(bots[i], t, l)
    BY <2>1 DEF ServiceInv, SleepInv
  <2>3. bots[i] \in Bot /\ l \in Setting
    BY Settings DEF IInv, BotInv
  <2> HIDE DEF l
  <2>4. CASE bots[i].disabled \/ bots[i].cool >= t
    BY <2>3, <2>4 DEF Ready, Bot, l
  <2>5. CASE l.threshold > 0 /\ bots[i].bytes >= l.threshold /\ bots[i].age + t <= l.window
    <3>1. ~Due(bots[i], l)
      BY <2>3, <2>5, Constants DEF Due, Bot, Setting
    <3>2. Fresh(bots[i], l) = bots[i]
      BY <2>3, <3>1, FreshBot
    <3> QED BY <2>5, <3>2 DEF Ready, Spent, l
  <2> QED BY <2>2, <2>4, <2>5 DEF Held
<1> QED BY <1>1, <1>2, Invariant, Service, PTL DEF ReadyServed
=============================================================================
