----------------------------- MODULE UploadPool -----------------------------
(***************************************************************************)
(* The pool of upload bots of bot_engine.py, and those who upload with it:  *)
(* realtime posts, each with a loop that ends with a result or an error,    *)
(* and a job (history or JSON import) with a bounded number of rounds.      *)
(* They meet in the pool only.  What they record of a message is in         *)
(* RealtimePost, Delivery and JsonImport.                                   *)
(*                                                                          *)
(* Points in time of the code are kept as the time since or until then, so  *)
(* the clock has no end.                                                    *)
(***************************************************************************)
EXTENDS Integers

CONSTANTS
  N,           \* number of bots
  Posts, Job,  \* who uploads: realtime posts, and the job
  PostSizes, JobSizes, \* sizes of files
  LocalServer, \* bot_api_base_url is configured
  UploadLimit, \* bot_upload_max_mb
  Limits,      \* settings: bot_rate_limit_gb, 0 while the limit is off, and
               \* bot_rate_limit_window_hours
  Second, Cooldown, Longest, \* in ticks: a second, bot_rate_limit_cooldown_minutes,
               \* and a time no window is longer than
  Rounds,      \* sends the job tries for a message
  RetryAfter,  \* seconds Telegram may ask a bot to wait
  MaxFiles, MaxJobFiles, MaxFloods, MaxRevoked, MaxChanges \* bounds: files of the
               \* posts and of the job, requests to wait, tokens refused, new settings

Sizes == PostSizes \union JobSizes

ASSUME PoolAssumption ==
  /\ {N, Second, Cooldown, Longest, Rounds} \subseteq Nat \ {0}
  /\ Limits \subseteq [threshold : Nat, window : 1 .. Longest]
  /\ Sizes \subseteq Nat /\ RetryAfter \subseteq Nat
  /\ Job \notin Posts /\ LocalServer \in BOOLEAN

Uploaders == Posts \union {Job}
Bots      == 0 .. N - 1

Least(S)    == CHOOSE x \in S : \A y \in S : x <= y
Larger(x, y) == IF x < y THEN y ELSE x

VARIABLES
  bots,     \* upload_bots: age of the window, bytes, left of the cooldown, disabled
  rr,       \* upload_bot_rr_index
  polling,  \* the startup is over: realtime posts arrive
  local,    \* bot_api_mode: the bots work with the local server
  limit,    \* the setting: one of Limits
  fallback, \* the account goes on when a bot fails
  kind,     \* the job is a history job or a JSON import
  pc, size, using, tries, \* where an uploader is, its file, client and rounds
  sleep,    \* what is left of its sleep
  believes, \* the setting a sleeper read before its loop
  answered, \* the job's guard holds an answer
  revoked,  \* clients whose token their server does not accept any more, those of an
            \* earlier pool (old) and of this one
  outdated, \* history: during the sleep the pool was built again, or a shorter
            \* window was in use
  sent,     \* history: bytes really uploaded since the window began
  passed,   \* history: times another bot was chosen since a bot was ready
  used      \* how much of each bound is used

pool      == <<bots, rr>>
settings  == <<local, limit, fallback>>
uploaders == <<kind, pc, size, using, tries, sleep, believes, answered>>
history   == <<outdated, sent, passed>>
vars      == <<pool, polling, settings, uploaders, revoked, history, used>>

Count(b, max) == used[b] < max /\ used' = [used EXCEPT ![b] = @ + 1]

NewBot  == [age |-> Longest, bytes |-> 0, cool |-> 0, disabled |-> FALSE]
NoBot   == [bot |-> 0, old |-> FALSE]
NoLimit == [threshold |-> 0, window |-> Longest]

Set(f, u, x) == [f EXCEPT ![u] = x]
-----------------------------------------------------------------------------
(* The pool.                                                                *)

\* The window of a bot has elapsed, by the setting l.
Due(b, l) == b.age >= l.window

Restarted(b) == [b EXCEPT !.age = 0, !.bytes = 0]

\* Mutant: the window is taken for elapsed every time.
FreshAlways(b, l) == Restarted(b)

\* _reset_window_if_needed
Fresh(b, l) == IF Due(b, l) THEN Restarted(b) ELSE b

Spent(b, l) == l.threshold > 0 /\ Fresh(b, l).bytes >= l.threshold

Ready(b, l) == ~b.disabled /\ b.cool = 0 /\ ~Spent(b, l)

\* When a bot that is not ready may be, as acquire_upload_bot sees it.
ReadyIn(b, l) == IF b.cool > 0 THEN b.cool ELSE l.window - Fresh(b, l).age

\* The wait of acquire_upload_bot, in whole seconds and at least one.
Waited(l)       == {ReadyIn(bots[i], l) : i \in {j \in Bots : ~bots[j].disabled}}
WholeSeconds(t) == Larger(Second, (t \div Second) * Second)

\* Mutant: the longest wait is taken.
WaitLongest(l) ==
  WholeSeconds(CHOOSE x \in Waited(l) \union {0} : \A y \in Waited(l) : y <= x)

WaitFor(l) == WholeSeconds(IF Waited(l) = {} THEN 5 * Second ELSE Least(Waited(l)))

InTurn(k) == (rr + k) % N

Exhausted == \A i \in Bots : bots[i].disabled

\* Mutant: the same bot is next again.
TurnStays(i) == i

NextTurn(i) == (i + 1) % N

\* The windows of the bots that are looked at start again if they have elapsed.
Looked(K, l) == IF l.threshold > 0 THEN {i \in {InTurn(k) : k \in K} : ~bots[i].disabled} ELSE {}

LookAt(K, l) ==
  /\ bots' = [i \in Bots |-> IF i \in Looked(K, l) THEN Fresh(bots[i], l) ELSE bots[i]]
  /\ sent' = [i \in Bots |-> IF i \in Looked(K, l) /\ Due(bots[i], l) THEN 0 ELSE sent[i]]

HistoryJob(u) == u = Job /\ kind = "history"

\* Whom an uploader waits for (wait_for_available_bot): one with a fallback waits
\* for nobody, but a history job does at first.
Waits(u) == ~fallback \/ (HistoryJob(u) /\ tries[u] = 0)

\* Mutant: the pause told last is kept.
PausedLast(b, t) == [b EXCEPT !.cool = t]

Paused(b, t) == [b EXCEPT !.cool = Larger(@, t)]

\* note_upload_success reads the setting as it is then: the upload that reaches the
\* threshold pauses the bot.
Reaches(b, s) == limit.threshold > 0 /\ Fresh(b, limit).bytes < limit.threshold
                 /\ Fresh(b, limit).bytes + s >= limit.threshold

Noted(b, s) ==
  LET counted == [Fresh(b, limit) EXCEPT !.bytes = @ + s] IN
  IF Reaches(b, s) THEN Paused(counted, Larger(Cooldown, limit.window - counted.age)) ELSE counted

\* Mutant: the bot whose turn it is is changed.
FoundInTurn(u) == rr

\* A client is looked for with ==, which aiogram decides by the token: one of an
\* earlier pool is found as well.
Found(u) == using[u].bot

\* Mutant: a client is never found.
ChangedNever(u, b) == bots

Changed(u, b) == [bots EXCEPT ![Found(u)] = b]
-----------------------------------------------------------------------------
(* Uploading a file.                                                        *)

Environment == UNCHANGED <<polling, settings, kind>>

Ended(u) ==
  /\ pc' = Set(pc, u, "idle")
  /\ size' = Set(size, u, 0) /\ using' = Set(using, u, NoBot) /\ tries' = Set(tries, u, 0)
  /\ answered' = Set(answered, u, FALSE)

GoesOn(u, label) == pc' = Set(pc, u, label) /\ UNCHANGED <<size, answered>>

Ask(u, s) ==
  /\ pc[u] = "idle"
  /\ IF u = Job THEN s \in JobSizes /\ Count("job", MaxJobFiles)
     ELSE polling /\ s \in PostSizes /\ Count("files", MaxFiles)
  /\ pc' = Set(pc, u, "select") /\ size' = Set(size, u, s)
  /\ IF u = Job THEN kind' \in {"history", "import"} ELSE UNCHANGED kind
  /\ UNCHANGED <<pool, using, tries, sleep, believes, answered, revoked, history>>
  /\ UNCHANGED <<polling, settings>>

\* acquire_upload_bot reads the setting before its loop: a sleeper still goes by it.
Reads(u) == IF pc[u] = "sleep" THEN believes[u] ELSE limit

Awake(u) == believes' = Set(believes, u, NoLimit) /\ outdated' = Set(outdated, u, FALSE)

\* The loop of acquire_upload_bot starts; a sleeper starts it again.
Selecting(u) ==
  /\ pc[u] = "select" \/ (pc[u] = "sleep" /\ sleep[u] = 0)
  /\ UNCHANGED <<revoked, used>> /\ Environment

\* The job has no more rounds.
OutOfRounds(u) == u = Job /\ tries[u] >= Rounds

\* The file is for the account.
HandOver(u) == GoesOn(u, "account") /\ using' = Set(using, u, NoBot) /\ UNCHANGED tries

\* should_upload_via_bot
ForBots(u) == local \/ size[u] <= UploadLimit

\* resolve_upload_target: the file is too large for a bot, or no bot is ready and
\* the uploader does not wait.
ToAccount(u) ==
  /\ IF fallback /\ ~OutOfRounds(u) THEN HandOver(u) ELSE Ended(u)
  /\ UNCHANGED <<rr, sleep, passed>>

TooLarge(u) ==
  /\ Selecting(u) /\ ~ForBots(u)
  /\ ToAccount(u) /\ Awake(u) /\ UNCHANGED <<bots, sent>>

Choose(u) ==
  LET l     == Reads(u)
      ready == {k \in Bots : Ready(bots[InTurn(k)], l)}
      k     == Least(ready)
      i     == InTurn(k)
  IN
  /\ Selecting(u) /\ ForBots(u)
  /\ ready # {}
  /\ LookAt(0 .. k, l) /\ rr' = NextTurn(i) /\ Awake(u)
  /\ passed' = [j \in Bots |-> IF j = i \/ ~Ready(bots[j], l) THEN 0 ELSE passed[j] + 1]
  /\ IF OutOfRounds(u) /\ ~fallback THEN Ended(u)
     ELSE IF OutOfRounds(u) THEN HandOver(u)
     ELSE /\ using' = Set(using, u, [bot |-> i, old |-> FALSE])
          /\ GoesOn(u, "upload")
          /\ UNCHANGED tries
  /\ UNCHANGED sleep

NoneReady(u) ==
  /\ Selecting(u) /\ ForBots(u)
  /\ \A i \in Bots : ~Ready(bots[i], Reads(u))
  /\ LookAt(Bots, Reads(u))

\* The error is not one the fallback is for.
AllDisabled(u) ==
  /\ NoneReady(u) /\ Exhausted
  /\ Ended(u) /\ Awake(u)
  /\ UNCHANGED <<rr, sleep, passed>>

NotWaiting(u) == NoneReady(u) /\ ~Exhausted /\ ~Waits(u) /\ ToAccount(u) /\ Awake(u)

\* The windows others go by: those of the setting, and of the sleepers.
InUse == {limit.window} \union {believes[v].window : v \in {v \in Uploaders : pc[v] = "sleep"}}

FallAsleep(u) ==
  LET l == Reads(u) IN
  /\ NoneReady(u) /\ ~Exhausted /\ Waits(u)
  /\ GoesOn(u, "sleep") /\ sleep' = Set(sleep, u, WaitFor(l))
  /\ believes' = Set(believes, u, l)
  /\ outdated' = Set(outdated, u, \E w \in InUse : w < l.window)
  /\ UNCHANGED <<rr, using, tries, passed>>

InUpload(u) ==
  /\ pc[u] = "upload"
  /\ UNCHANGED <<rr, believes, outdated, passed>> /\ Environment

Counted(u) ==
  LET i     == using[u].bot
      since == IF Due(bots[i], limit) THEN 0 ELSE sent[i]
  IN  [sent EXCEPT ![i] = since + (IF answered[u] THEN 0 ELSE size[u])]

\* The bot failed for good.
Abandoned(u) == IF fallback THEN HandOver(u) ELSE Ended(u)

\* The bot failed: a history job starts another round with it, an import gives the
\* message up, a post is for the account.
Refused(u) ==
  \/ /\ HistoryJob(u) /\ tries[u] + 1 < Rounds
     /\ GoesOn(u, "upload") /\ tries' = Set(tries, u, tries[u] + 1) /\ UNCHANGED using
  \/ HistoryJob(u) /\ tries[u] + 1 >= Rounds /\ Abandoned(u)
  \/ u = Job /\ kind = "import" /\ Ended(u)
  \/ u # Job /\ Abandoned(u)

Uploaded(u) ==
  /\ InUpload(u) /\ (using[u] \notin revoked \/ answered[u])
  /\ bots' = Changed(u, Noted(bots[Found(u)], size[u])) /\ sent' = Counted(u)
  /\ Ended(u)
  /\ UNCHANGED <<sleep, revoked, used>>

\* The log entry of the pause cannot be written, in the try around the request:
\* the upload is taken for a failed one. A history job's next round is given the
\* answer again.
UploadedUnlogged(u) ==
  /\ InUpload(u) /\ using[u] \notin revoked /\ Reaches(bots[Found(u)], size[u])
  /\ bots' = Changed(u, Noted(bots[Found(u)], size[u])) /\ sent' = Counted(u)
  /\ IF HistoryJob(u) /\ tries[u] + 1 < Rounds
     THEN /\ tries' = Set(tries, u, tries[u] + 1) /\ answered' = Set(answered, u, TRUE)
          /\ UNCHANGED <<pc, size, using>>
     ELSE IF u = Job THEN Ended(u)
     ELSE Refused(u)
  /\ UNCHANGED <<sleep, revoked, used>>

\* Network errors until the retries are used up. The job reports the doubt, the
\* post goes on as after any error.
AnswerLost(u) ==
  /\ InUpload(u) /\ ~answered[u]
  /\ IF u = Job THEN Ended(u) ELSE Refused(u)
  /\ UNCHANGED <<bots, sleep, revoked, sent, used>>

\* Any other error; the job abandons a bot for which the file is too large.
OtherError(u) ==
  /\ InUpload(u) /\ ~answered[u]
  /\ Refused(u) \/ Abandoned(u)
  /\ UNCHANGED <<bots, sleep, revoked, sent, used>>

\* Another bot is chosen.
Reselect(u) ==
  /\ GoesOn(u, "select") /\ tries' = Set(tries, u, IF u = Job THEN tries[u] + 1 ELSE 0)
  /\ using' = Set(using, u, NoBot)
  /\ UNCHANGED <<sleep, sent>>

\* Telegram asks to wait. A post and an import pause the bot and choose another
\* (mark_upload_bot_cooldown with retry_after + 1) ...
AskedToWait(u) == InUpload(u) /\ ~answered[u] /\ Count("floods", MaxFloods) /\ UNCHANGED revoked

Flooded(u, seconds) ==
  /\ AskedToWait(u) /\ ~HistoryJob(u)
  /\ bots' = Changed(u, Paused(bots[Found(u)], (seconds + 1) * Second))
  /\ Reselect(u)

\* ... a history job waits itself and repeats the request with the same bot
\* (_execute_with_clone_retry_interruptibly) ...
HoldBack(u, seconds) ==
  /\ AskedToWait(u) /\ HistoryJob(u)
  /\ GoesOn(u, "held") /\ sleep' = Set(sleep, u, (seconds + 1) * Second)
  /\ UNCHANGED <<bots, using, tries, sent>>

\* ... unless it is to stop: then the bot is paused, and no other is chosen.
FloodedAtStop(u, seconds) ==
  /\ AskedToWait(u) /\ HistoryJob(u)
  /\ bots' = Changed(u, Paused(bots[Found(u)], (seconds + 1) * Second))
  /\ Ended(u) /\ UNCHANGED <<sleep, sent>>

Repeat(u) ==
  /\ pc[u] = "held" /\ sleep[u] = 0
  /\ GoesOn(u, "upload")
  /\ UNCHANGED <<bots, rr, using, tries, sleep, believes, revoked, history, used>> /\ Environment

\* disable_upload_bot. The server does not accept the token any more.
Unauthorized(u) ==
  /\ InUpload(u) /\ ~answered[u]
  /\ revoked' = revoked \union {using[u]}
  /\ IF using[u] \in revoked THEN UNCHANGED used ELSE Count("revoked", MaxRevoked)
  /\ bots' = Changed(u, [bots[Found(u)] EXCEPT !.disabled = TRUE])
  /\ Reselect(u)

\* The account sends the file, or cannot.
Account(u) ==
  /\ pc[u] = "account"
  /\ Ended(u)
  /\ UNCHANGED <<bots, rr, sleep, believes, revoked, history, used>> /\ Environment

\* A stop, a cancelled task, or any other error.
GiveUp(u) ==
  /\ pc[u] # "idle"
  /\ Ended(u) /\ sleep' = Set(sleep, u, 0) /\ Awake(u)
  /\ UNCHANGED <<bots, rr, revoked, sent, passed, used>>
  /\ Environment
-----------------------------------------------------------------------------
(* Time, Telegram, the user and the startup.                                *)

Less(t) == IF t > 0 THEN t - 1 ELSE 0

Older(age) == IF age < Longest THEN age + 1 ELSE Longest

Tick ==
  /\ \/ \E i \in Bots : bots[i].age < Longest \/ bots[i].cool > 0
     \/ \E u \in Uploaders : sleep[u] > 0
  /\ bots' = [i \in Bots |-> [bots[i] EXCEPT !.age = Older(@), !.cool = Less(@)]]
  /\ sleep' = [u \in Uploaders |-> Less(sleep[u])]
  /\ UNCHANGED <<rr, polling, settings, kind, pc, size, using, tries, believes, answered,
                 revoked, history, used>>

\* The user changes the limit, or turns it on or off. Who sleeps by a longer window
\* may now be overtaken.
ChangeLimit ==
  /\ Count("changes", MaxChanges)
  /\ limit' \in Limits \ {limit}
  /\ outdated' = [u \in Uploaders |->
       outdated[u] \/ (pc[u] = "sleep" /\ limit'.window < believes[u].window)]
  /\ UNCHANGED <<pool, polling, local, fallback, uploaders, revoked, sent, passed>>

\* startup_task: the bot answers ...
StartPolling ==
  /\ ~polling /\ polling' = TRUE
  /\ UNCHANGED <<pool, settings, uploaders, revoked, history, used>>

\* ... or the local server does not, and the pool is built again for the official
\* one, by close_bot_client and init_bot_client. A job may be running already, and
\* keeps its client.
Rebuild ==
  /\ local /\ ~polling /\ polling' = TRUE /\ local' = FALSE
  /\ using' = [u \in Uploaders |-> [using[u] EXCEPT !.old = pc[u] \in {"upload", "held"}]]
  /\ revoked' = {[c EXCEPT !.old = TRUE] : c \in revoked}
  /\ bots' = [i \in Bots |-> NewBot] /\ rr' = 0
  /\ outdated' = [u \in Uploaders |-> pc[u] = "sleep"]
  /\ sent' = [i \in Bots |-> 0] /\ passed' = [i \in Bots |-> 0]
  /\ UNCHANGED <<limit, fallback, kind, pc, size, tries, sleep, believes, answered, used>>
-----------------------------------------------------------------------------
Init ==
  /\ bots = [i \in Bots |-> NewBot] /\ rr = 0
  /\ polling = FALSE /\ local = LocalServer
  /\ limit \in Limits /\ fallback \in BOOLEAN /\ kind = "history"
  /\ pc = [u \in Uploaders |-> "idle"] /\ size = [u \in Uploaders |-> 0]
  /\ using = [u \in Uploaders |-> NoBot] /\ tries = [u \in Uploaders |-> 0]
  /\ sleep = [u \in Uploaders |-> 0] /\ believes = [u \in Uploaders |-> NoLimit]
  /\ revoked = {}
  /\ answered = [u \in Uploaders |-> FALSE]
  /\ outdated = [u \in Uploaders |-> FALSE]
  /\ sent = [i \in Bots |-> 0] /\ passed = [i \in Bots |-> 0]
  /\ used = [b \in {"files", "job", "floods", "revoked", "changes"} |-> 0]

Upload(u) ==
  \/ TooLarge(u) \/ Choose(u) \/ AllDisabled(u) \/ NotWaiting(u) \/ FallAsleep(u)
  \/ Uploaded(u) \/ UploadedUnlogged(u) \/ AnswerLost(u) \/ OtherError(u)
  \/ (\E s \in RetryAfter : Flooded(u, s) \/ HoldBack(u, s) \/ FloodedAtStop(u, s))
  \/ Repeat(u) \/ Unauthorized(u) \/ Account(u)

Next ==
  \/ \E u \in Uploaders : (\E s \in Sizes : Ask(u, s)) \/ Upload(u) \/ GiveUp(u)
  \/ Tick \/ ChangeLimit \/ StartPolling \/ Rebuild

Spec == Init /\ [][Next]_vars

\* Time passes, and a request ends with some answer.
FairSpec == Spec /\ WF_vars(Tick) /\ \A u \in Uploaders : WF_vars(Upload(u))
-----------------------------------------------------------------------------
(* Properties.                                                              *)

\* The variables hold values of their types.
TypeOK ==
  /\ bots \in [Bots -> [age : 0 .. Longest, bytes : Nat, cool : Nat, disabled : BOOLEAN]]
  /\ rr \in Bots /\ {polling, local} \subseteq BOOLEAN
  /\ limit \in Limits /\ fallback \in BOOLEAN /\ kind \in {"history", "import"}
  /\ pc \in [Uploaders -> {"idle", "select", "sleep", "upload", "held", "account"}]
  /\ size \in [Uploaders -> Sizes \union {0}]
  /\ using \in [Uploaders -> [bot : Bots, old : BOOLEAN]]
  /\ tries \in [Uploaders -> 0 .. Rounds] /\ sleep \in [Uploaders -> Nat]
  /\ believes \in [Uploaders -> Limits \union {NoLimit}]

\* A bot is disabled only if its own token was refused, by a server the pool was
\* built for: that all bots are out is never said while one of them was never
\* refused, whoever else fails at the same time. (After a new pool it may be the
\* local server's word: the official one may still accept the token.)
OutIsRefused ==
  \A i \in Bots : bots[i].disabled => \E o \in BOOLEAN : [bot |-> i, old |-> o] \in revoked

\* The values have their types, and only refused bots are out.
PoolConsistent == TypeOK /\ OutIsRefused

\* A bot that is ready, by the setting of those who choose, is not passed over by
\* every other bot in turn without being chosen.
Rotation == \A i \in Bots : passed[i] < N

\* Nobody sleeps on for a second or more while a bot is ready by the setting he
\* goes by, unless during the sleep the pool was built again or a shorter
\* window was in use.
PromptWake ==
  \A u \in Uploaders :
    pc[u] = "sleep" /\ ~outdated[u] /\ sleep[u] >= Second
      => \A i \in Bots : ~Ready(bots[i], believes[u])

\* A bot that is ready is used: neither passed over nor slept on.
ReadyServed == Rotation /\ PromptWake

\* No bot is chosen for an upload that has really uploaded the threshold in its
\* window, by the setting the uploader read when it began to look, so that only
\* the uploads already at work go over it; across pauses, new windows, lost log
\* entries, answers of an earlier pool and changes of the setting. (One who
\* fell asleep under another setting goes by that one.)
Budget ==
  [][\A u \in Uploaders :
       pc[u] \in {"select", "sleep"} /\ pc'[u] = "upload" /\ Reads(u).threshold > 0
         => sent'[using'[u].bot] < Reads(u).threshold]_vars

\* A pause is never cut short: not by the shorter one of another upload of the
\* same bot, and not by a new window or setting; only time ends it, or a new pool.
PausesHold ==
  [][Tick \/ Rebuild \/ \A i \in Bots : bots'[i].cool >= bots[i].cool]_vars

\* What holds a bot back does so to its end: the budget and the pauses.
LimitsHold == Budget /\ PausesHold

\* Every upload ends: no one waits for ever, whatever bots are paused or disabled
\* meanwhile.
UploadsEnd == \A u \in Uploaders : pc[u] # "idle" ~> pc[u] = "idle"
=============================================================================
