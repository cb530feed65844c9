---------------------------- MODULE RealtimePost ----------------------------
(***************************************************************************)
(* Real-time handling of channel posts by the bot (bot_engine.py): aiogram  *)
(* runs the handler of every post as a task of its own; a single post is    *)
(* delivered by its handler, a member of an album is put into a cache and   *)
(* (re)starts the timer that delivers the album, and a delivery walks the   *)
(* targets that were configured when its post arrived.                      *)
(*                                                                          *)
(* A post is an update of Telegram: one that is sent again after a restart  *)
(* is a post of its own with the same message. A worker is named by its     *)
(* post: the handler of a single post, or the timer task that the arrival   *)
(* of a member created.                                                     *)
(***************************************************************************)
EXTENDS Integers, Sequences, SequencesExt, FiniteSets

CONSTANTS
  LastPost,       \* the posts are 1..LastPost, ordered by message id
  Targets,        \* the targets, a sequence in the order the rules are read
  Saved,          \* targets that are Saved Messages
  Uploads,        \* targets that get media by download and upload
  Droppable,      \* members Telegram may leave out when it copies an album
  Scenarios,      \* what the posts may be, the rules enabled at first, whether
                  \* captions are rewritten, and how often what may go wrong
  NetRetries      \* max_retries of execute_with_network_retry, 2 in the code

Posts == 1..LastPost
Rules == ToSet(Targets)
None  == 0
Kinds == {"single", "album"}
Fates == {"wanted", "off", "blocked"}

\* Requests and writes that go wrong, account switches, rules that are paused
\* or resumed, restarts of the process.
Limited == {"trouble", "switches", "changes", "restarts"}

ASSUME RealtimeAssumption ==
  /\ LastPost \in Nat
  /\ Targets \in Seq(Rules) /\ IsInjective(Targets)
  /\ Saved \subseteq Uploads /\ Uploads \subseteq Rules /\ Droppable \subseteq Posts
  /\ Scenarios \subseteq [posts : [Posts -> [kind : Kinds, fate : Fates, message : Posts]],
                           enabled : SUBSET Rules, rewritten : BOOLEAN, limits : [Limited -> Nat]]
  /\ \A s \in Scenarios, p, q \in Posts :
       /\ s.posts[p].message <= p
       /\ p <= q => s.posts[p].message <= s.posts[q].message
  /\ NetRetries \in Nat

VARIABLES
  scenario,
  rules,       \* the enabled rules of the source
  seen,        \* updates that were received
  again,       \* updates that Telegram sends a second time
  running,     \* FALSE from the begin of a stop to the restart in place
  cache,       \* media_group_cache of the album, in order of arrival
  timer,       \* media_group_tasks of the album
  cancelled,   \* tasks that find a CancelledError at their next await
  stranded,    \* history: the cache is what a restart in place left over
  work,        \* the local variables of a worker
  operations,  \* _saved_messages_active_operations
  switching,   \* _saved_messages_account_switching
  copies,      \* Telegram: how many copies of a post a target holds
  mapping,     \* message_mappings: the message whose copy a message is mapped to
  traces,      \* history: <<target, post, why>> there may be no copy
  extra,       \* history: how many repetitions of a copy had a reason
  bounds       \* how much of each limit is used

album   == <<cache, timer, cancelled, stranded>>
gate    == <<operations, switching>>
stored  == <<copies, mapping>>
history == <<traces, extra>>
given   == <<scenario, rules, seen, again, running>>
vars    == <<given, album, work, gate, stored, history, bounds>>

Sending == {"group", "save", "each", "saveEach"}
Labels  == {"none", "reading", "sleep", "gate", "done"} \union Sending
Reasons == {"error", "refused", "interrupted", "empty", "left out"}

\* A set of numbers as a sequence.
Ascending(S) ==
  CHOOSE s \in [1..Cardinality(S) -> S] : \A i, j \in DOMAIN s : i < j => s[i] < s[j]

Idle == [pc |-> "none", plan |-> <<>>, at |-> 1, group |-> <<>>, each |-> <<>>,
         answer |-> <<>>, tries |-> 0, account |-> FALSE]

Message(p) == scenario.posts[p].message
Kind(p)    == scenario.posts[p].kind
Fate(p)    == scenario.posts[p].fate
Target(w)  == work[w].plan[work[w].at]
Members(w) == ToSet(work[w].group)
Holding(w) == work[w].pc \in Sending /\ Target(w) \in Saved
At(w, label) == work[w].pc = label /\ w \notin cancelled

Count(b)   == bounds[b] < scenario.limits[b] /\ bounds' = [bounds EXCEPT ![b] = @ + 1]

\* While the process stops its clients are closed, and everything may fail.
Trouble    == IF running THEN Count("trouble") ELSE UNCHANGED bounds

Added(f, t, S) == [f EXCEPT ![t] = [p \in Posts |-> IF p \in S THEN @[p] + 1 ELSE @[p]]]
Noted(T, S, why) == traces \union {<<t, p, why>> : t \in T, p \in S}
-----------------------------------------------------------------------------
(* The end of a worker and of a target.                                     *)

\* Mutant: the finally forgets whichever task is registered.
UnregisteredAny(w) == None

\* finally of _flush_realtime_media_group_after_delay: a task removes itself.
Unregistered(w) == IF timer = w THEN None ELSE timer

\* Mutant: the operation is given back only when the target is finished.
GivenBackUnlessCut(w) == IF Holding(w) /\ w \notin cancelled THEN operations - 1 ELSE operations

\* finish_saved_messages_operation, in the finally of the target.
GivenBack(w) == IF Holding(w) THEN operations - 1 ELSE operations

End(w) ==
  /\ work' = [work EXCEPT ![w].pc = "done"]
  /\ timer' = Unregistered(w)
  /\ cancelled' = cancelled \ {w}
  /\ UNCHANGED <<cache, stranded>>
  /\ operations' = GivenBack(w)
  /\ UNCHANGED switching

\* Mutant: a target that fails ends the loop.
NextTargetUnlessFailed(w) ==
  IF work[w].at = Len(work[w].plan) \/ \E p \in Members(w) : <<Target(w), p, "error">> \in traces'
  THEN End(w)
  ELSE /\ work' = [work EXCEPT ![w].pc = "gate", ![w].at = @ + 1]
       /\ operations' = GivenBack(w)
       /\ UNCHANGED <<album, switching>>

\* The finally of a target, and the next turn of the loop.
NextTarget(w) ==
  IF work[w].at = Len(work[w].plan)
  THEN End(w)
  ELSE /\ work' = [work EXCEPT ![w].pc = "gate", ![w].at = @ + 1, ![w].answer = <<>>, ![w].tries = 0]
       /\ operations' = GivenBack(w)
       /\ UNCHANGED <<album, switching>>
\* The next item, when posts are copied one by one.
NextItem(w) ==
  IF Len(work[w].each) = 1
  THEN NextTarget(w)
  ELSE /\ work' = [work EXCEPT ![w].pc = "each", ![w].each = Tail(@), ![w].tries = 0]
       /\ UNCHANGED <<album, gate>>
-----------------------------------------------------------------------------
(* The arrival of posts.                                                    *)

\* get_target_channel_mappings: the targets of the rules that are enabled.
Planned ==
  LET places == Ascending({i \in DOMAIN Targets : Targets[i] \in rules})
  IN [i \in DOMAIN places |-> Targets[places[i]]]

\* handle_new_post: the rules are read once, then the type is checked.
Receive(p) ==
  /\ running /\ p \notin seen /\ work[p].pc = "none"
  /\ Message(p) = p \/ p \in again
  /\ seen' = seen \union {p}
  /\ work' = [work EXCEPT ![p] =
       [Idle EXCEPT !.pc   = IF rules = {} \/ Fate(p) = "off" THEN "done" ELSE "reading",
                    !.plan = Planned]]
  /\ UNCHANGED <<scenario, rules, again, running, album, gate, stored, history, bounds>>

\* The task of the album that has not ended is cancelled.
StopTimer(p) == cancelled' = cancelled \union (IF timer = None THEN {} ELSE {timer})

\* _queue_realtime_media_group
Queue(p) ==
  /\ At(p, "reading") /\ Kind(p) = "album"
  /\ cache' = Append(cache, p)
  /\ StopTimer(p)
  /\ timer' = p /\ stranded' = FALSE
  /\ work' = [work EXCEPT ![p].pc = "sleep"]
  /\ UNCHANGED <<given, gate, stored, history, bounds>>

\* A single post goes through the filters.
Handle(p) ==
  /\ At(p, "reading") /\ Kind(p) = "single"
  /\ work' = [work EXCEPT ![p].group = IF Fate(p) = "wanted" THEN <<p>> ELSE <<>>,
                          ![p].pc = IF Fate(p) = "wanted" THEN "gate" ELSE "done"]
  /\ UNCHANGED <<given, album, gate, stored, history, bounds>>

\* Mutant: the album is delivered in the order of arrival.
TakenAsArrived == cache

\* The album is taken out of the cache, sorted by message id.
Taken == Ascending(ToSet(cache))

\* Mutant: the members that were taken stay in the cache.
KeptInCache == cache

EmptiedCache == <<>>

\* The timer runs out: one blocked member drops the album.
Fire(w) ==
  /\ At(w, "sleep")
  /\ cache' = EmptiedCache
  /\ IF Taken = <<>> \/ \E p \in ToSet(cache) : Fate(p) = "blocked"
       THEN /\ work' = [work EXCEPT ![w].pc = "done"]
            /\ timer' = Unregistered(w)
       ELSE /\ work' = [work EXCEPT ![w].pc = "gate", ![w].group = Taken]
            /\ UNCHANGED timer
  /\ UNCHANGED <<given, cancelled, stranded, gate, stored, history, bounds>>

\* The posts the current request is about.
InFlight(w) == IF work[w].pc = "group" THEN Members(w)
               ELSE IF work[w].pc = "each" THEN {Head(work[w].each)} ELSE {}

\* Members that Telegram may leave out when it copies an album itself.
Omitted(w) ==
  IF work[w].pc = "group" /\ Target(w) \notin Uploads THEN Droppable \intersect Members(w) ELSE {}

\* Telegram takes no album with a message twice. Copied one by one, members go
\* to the stored target id, which for Saved Messages is no chat.
Acceptable(w) ==
  IF work[w].pc = "group"
  THEN Target(w) \in Uploads \/ \A p, q \in Members(w) : Message(p) = Message(q) => p = q
  ELSE Kind(w) = "single" \/ Target(w) \notin Saved

\* What a request that ends without an answer may have added to the target.
Outcomes(w) ==
  {{}} \union (IF Acceptable(w) THEN {InFlight(w) \ out : out \in SUBSET Omitted(w)} ELSE {})

\* CancelledError, in a task whose album went on or in any task when the
\* process stops.
Interrupted(w) ==
  /\ work[w].pc \notin {"none", "done"}
  /\ w \in cancelled \/ ~running
  /\ \E carried \in Outcomes(w) :
       copies' = IF carried = {} THEN copies ELSE Added(copies, Target(w), carried)
  /\ traces' = Noted({work[w].plan[i] : i \in work[w].at .. Len(work[w].plan)}, Members(w), "interrupted")
  /\ End(w)
  /\ UNCHANGED <<given, mapping, extra, bounds>>
-----------------------------------------------------------------------------
(* A target.                                                                *)

\* begin_saved_messages_operation
Admitted(t) == ~(t \in Saved /\ switching)

\* Mutant: the delivery waits for the end of the switch.
RefusedLater(w) == At(w, "gate") /\ ~Admitted(Target(w)) /\ UNCHANGED vars

\* A refusal is raised outside the try of the loop and ends the worker.
Refused(w) ==
  /\ At(w, "gate") /\ ~Admitted(Target(w))
  /\ traces' = Noted({work[w].plan[i] : i \in work[w].at .. Len(work[w].plan)}, Members(w), "refused")
  /\ End(w)
  /\ UNCHANGED <<given, stored, extra, bounds>>

\* An album is copied whole unless a caption changes; a post is an item.
Enter(w) ==
  /\ At(w, "gate") /\ Admitted(Target(w))
  /\ operations' = IF Target(w) \in Saved THEN operations + 1 ELSE operations
  /\ LET whole == Kind(w) = "album" /\ (Target(w) \in Uploads \/ ~scenario.rewritten)
     IN work' = [work EXCEPT ![w].pc = IF whole THEN "group" ELSE "each",
                             ![w].each = IF whole THEN <<>> ELSE work[w].group,
                             ![w].account = Target(w) \in Saved]
  /\ UNCHANGED <<given, album, switching, stored, history, bounds>>

\* zip(group, ids): the ids in order, cut to the shorter of the two.
Paired(posts, copied) == [i \in DOMAIN copied |-> <<posts[i], copied[i]>>]

\* Telegram copies the album in order, leaving out members it cannot copy.
GroupAnswered(w) ==
  /\ At(w, "group") /\ Acceptable(w)
  /\ \E out \in SUBSET Omitted(w) :
       LET sent == Members(w) \ out IN
       /\ sent # {}
       /\ copies' = Added(copies, Target(w), sent)
       /\ traces' = Noted({Target(w)}, out, "left out")
       /\ work' = [work EXCEPT ![w].pc = "save",
                               ![w].answer = Paired(work[w].group, Ascending(sent))]
  /\ UNCHANGED <<given, album, gate, mapping, extra, bounds>>

\* except Exception: what was sent or answered so far is not looked at.
FallBack(w) ==
  /\ work' = [work EXCEPT ![w].pc = "each", ![w].each = work[w].group, ![w].tries = 0]
  /\ UNCHANGED <<album, gate>>

\* A request ends without an answer, whether it was carried out or not: the
\* copies it may have made, C, are made once more by what follows.
SentInVain(w, C) ==
  /\ copies' = Added(copies, Target(w), C)
  /\ extra'  = Added(extra, Target(w), C)

\* execute_with_network_retry: an error of the connection, and the next try.
NetworkError(w) ==
  /\ \/ At(w, "group") \/ At(w, "each")
  /\ Trouble
  /\ \E carried \in Outcomes(w) : SentInVain(w, carried)
  /\ IF work[w].tries < NetRetries
       THEN work' = [work EXCEPT ![w].tries = @ + 1] /\ UNCHANGED <<album, gate, traces>>
       ELSE IF work[w].pc = "group"
         THEN FallBack(w) /\ UNCHANGED traces
         ELSE traces' = Noted({Target(w)}, InFlight(w), "error") /\ NextItem(w)
  /\ UNCHANGED <<given, mapping>>

\* The album is refused, or it fails with another error, before or after
\* Telegram took it.
GroupFails(w) ==
  /\ At(w, "group")
  /\ \/ ~Acceptable(w) /\ UNCHANGED <<bounds, copies, extra>>
     \/ Trouble /\ \E carried \in Outcomes(w) : SentInVain(w, carried)
  /\ FallBack(w)
  /\ UNCHANGED <<given, mapping, traces>>

Uploading(w) ==
  /\ At(w, "group") \/ (At(w, "each") /\ Kind(w) = "single")
  /\ Target(w) \in Uploads

\* The bot's upload fails: with a flood wait or a refused token, where nothing
\* arrived, another bot or the account is taken; with any other error, or when
\* note_upload_success cannot write its log, the account is.
UploadAgain(w) ==
  /\ Uploading(w) /\ ~work[w].account
  /\ Count("trouble")
  /\ \E account \in BOOLEAN, carried \in Outcomes(w) :
       /\ account \/ carried = {}
       /\ SentInVain(w, carried)
       /\ work' = [work EXCEPT ![w].account = account, ![w].tries = 0]
  /\ UNCHANGED <<given, album, gate, mapping, traces>>

\* A download that yields no file: the target is passed over without a log.
NothingDownloaded(w) ==
  /\ Uploading(w)
  /\ Trouble
  /\ traces' = Noted({Target(w)}, Members(w), "empty")
  /\ NextTarget(w)
  /\ UNCHANGED <<given, stored, extra>>

\* INSERT OR IGNORE, under the ids of the messages.
Mapped(t, p, copied) == [mapping EXCEPT ![t][p] = IF @ = None THEN copied ELSE @]

SaveMember(w) ==
  /\ At(w, "save") /\ work[w].answer # <<>>
  /\ LET pair == Head(work[w].answer)
     IN mapping' = Mapped(Target(w), Message(pair[1]), Message(pair[2]))
  /\ work' = [work EXCEPT ![w].answer = Tail(@)]
  /\ UNCHANGED <<given, album, gate, copies, history, bounds>>

GroupSaved(w) ==
  /\ At(w, "save") /\ work[w].answer = <<>>
  /\ NextTarget(w)
  /\ UNCHANGED <<given, stored, history, bounds>>

\* A mapping or the log cannot be written: every member is copied again.
SaveFails(w) ==
  /\ At(w, "save")
  /\ Trouble
  /\ extra' = Added(extra, Target(w), Members(w))
  /\ FallBack(w)
  /\ UNCHANGED <<given, stored, traces>>

ItemAnswered(w) ==
  /\ At(w, "each") /\ Acceptable(w)
  /\ copies' = Added(copies, Target(w), InFlight(w))
  /\ work' = [work EXCEPT ![w].pc = "saveEach"]
  /\ UNCHANGED <<given, album, gate, mapping, history, bounds>>

SaveItem(w) ==
  /\ At(w, "saveEach")
  /\ LET m == Message(Head(work[w].each)) IN mapping' = Mapped(Target(w), m, m)
  /\ NextItem(w)
  /\ UNCHANGED <<given, copies, history, bounds>>

\* The failure of an item is logged, and the loop goes on.
ItemFails(w) ==
  /\ \/ /\ At(w, "each")
        /\ IF Acceptable(w) THEN Trouble ELSE UNCHANGED bounds
        /\ \E carried \in Outcomes(w) : copies' = Added(copies, Target(w), carried)
     \/ At(w, "saveEach") /\ Trouble /\ UNCHANGED copies
  /\ traces' = Noted({Target(w)}, {Head(work[w].each)}, "error")
  /\ NextItem(w)
  /\ UNCHANGED <<given, mapping, extra>>
-----------------------------------------------------------------------------
(* The surroundings.                                                        *)

\* A rule of the source is paused or resumed.
ChangeRule(t) ==
  /\ running /\ Count("changes")
  /\ rules' = IF t \in rules THEN rules \ {t} ELSE rules \union {t}
  /\ UNCHANGED <<scenario, seen, again, running, album, work, gate, stored, history>>

\* begin_saved_messages_account_switch
BeginSwitch ==
  /\ operations = 0 /\ ~switching
  /\ Count("switches")
  /\ switching' = TRUE
  /\ UNCHANGED <<given, album, work, operations, stored, history>>

EndSwitch ==
  /\ switching
  /\ switching' = FALSE
  /\ UNCHANGED <<given, album, work, operations, stored, history, bounds>>

\* The next update of a message that was received.
Repeats ==
  {p \in Posts \ seen : Message(p) < p /\ \A q \in 1..(p - 1) : Message(q) = Message(p) => q \in seen}

\* Telegram sends the updates of the last batch once more, whether they were
\* handled or not.
SentAgain == \E more \in SUBSET Repeats : again' = again \union more

\* The process dies and is started anew.
Restart ==
  /\ Count("restarts")
  /\ SentAgain /\ running' = TRUE
  /\ cache' = <<>> /\ timer' = None /\ cancelled' = {} /\ stranded' = FALSE
  /\ work' = [p \in Posts |-> Idle]
  /\ operations' = 0 /\ switching' = FALSE
  /\ UNCHANGED <<scenario, rules, seen, stored, history>>

\* The server stops to restart in place: polling ends, the clients are closed
\* and every task is cancelled, in a time of which nothing is assumed.
Shutdown ==
  /\ running /\ Count("restarts")
  /\ running' = FALSE
  /\ UNCHANGED <<scenario, rules, seen, again, album, work, gate, stored, history>>

\* The tasks have ended; what the module keeps is there as it was.
StartAgain ==
  /\ ~running /\ \A w \in Posts : work[w].pc \in {"none", "done"}
  /\ running' = TRUE
  /\ SentAgain
  /\ stranded' = (cache # <<>>)
  /\ UNCHANGED <<scenario, rules, seen, cache, timer, cancelled, work, gate, stored, history, bounds>>
-----------------------------------------------------------------------------
Init ==
  /\ scenario \in Scenarios
  /\ rules = scenario.enabled
  /\ seen = {} /\ again = {} /\ running = TRUE
  /\ cache = <<>> /\ timer = None /\ cancelled = {} /\ stranded = FALSE
  /\ work = [p \in Posts |-> Idle]
  /\ operations = 0 /\ switching = FALSE
  /\ copies = [t \in Rules |-> [p \in Posts |-> 0]]
  /\ mapping = [t \in Rules |-> [p \in Posts |-> None]]
  /\ traces = {}
  /\ extra = [t \in Rules |-> [p \in Posts |-> 0]]
  /\ bounds = [b \in Limited |-> 0]

Worker(w) ==
  \/ Queue(w) \/ Handle(w) \/ Fire(w) \/ Interrupted(w)
  \/ Refused(w) \/ Enter(w)
  \/ GroupAnswered(w) \/ NetworkError(w) \/ GroupFails(w)
  \/ UploadAgain(w) \/ NothingDownloaded(w)
  \/ SaveMember(w) \/ GroupSaved(w) \/ SaveFails(w)
  \/ ItemAnswered(w) \/ SaveItem(w) \/ ItemFails(w)

Next ==
  \/ \E p \in Posts : Receive(p) \/ Worker(p)
  \/ \E t \in Rules : ChangeRule(t)
  \/ BeginSwitch \/ EndSwitch \/ Restart \/ Shutdown \/ StartAgain

Spec == Init /\ [][Next]_vars

\* The event loop gives every task its turn.
FairSpec == Spec /\ \A w \in Posts : WF_vars(Worker(w))
-----------------------------------------------------------------------------
(* Properties.                                                              *)

\* The variables hold values of their types.
TypeOK ==
  /\ scenario \in Scenarios
  /\ rules \subseteq Rules /\ seen \subseteq Posts /\ again \subseteq Posts /\ running \in BOOLEAN
  /\ cache \in Seq(Posts) /\ timer \in Posts \union {None} /\ cancelled \subseteq Posts
  /\ stranded \in BOOLEAN
  /\ work \in [Posts -> [pc : Labels, plan : Seq(Rules), at : Nat, group : Seq(Posts),
                         each : Seq(Posts), answer : Seq(Posts \X Posts), tries : 0..NetRetries,
                         account : BOOLEAN]]
  /\ operations \in Nat /\ switching \in BOOLEAN
  /\ copies \in [Rules -> [Posts -> Nat]]
  /\ mapping \in [Rules -> [Posts -> Posts \union {None}]]
  /\ traces \subseteq Rules \X Posts \X Reasons
  /\ extra \in [Rules -> [Posts -> Nat]]
  /\ \A b \in Limited : bounds[b] \in 0..scenario.limits[b]

\* While members of an album wait in the cache of a running process, the
\* registered task is asleep and not cancelled, and it is the only such task:
\* no member is left waiting, and the album has one timer. The exception is
\* the cache that a restart in place finds: it outlives the timer, and its
\* members wait until another member of the album arrives.
TimerCovers ==
  /\ cache # <<>> /\ running => timer # None \/ stranded
  /\ {w \in Posts : At(w, "sleep")} = IF cache = <<>> \/ timer = None THEN {} ELSE {timer}

\* The count of Saved Messages operations is the number of workers that hold
\* one, cancelled ones included, and an account switch has none beside it.
GateHeld ==
  /\ operations = Cardinality({w \in Posts : Holding(w)})
  /\ switching => operations = 0

\* The values have their types and fit together: the cache with its timer, and
\* the count of the gate with those inside.
CacheConsistent == TypeOK /\ TimerCovers /\ GateHeld

\* A message is mapped to the copy of another only in a target where
\* Telegram left out a member of the album, so that zip shifted the ids.
MappingExplained ==
  \A t \in Rules, m \in Posts :
    mapping[t][m] \notin {None, m} => \E q \in Posts : <<t, q, "left out">> \in traces

\* A target holds a second copy of a post only for a reason: a request that
\* was carried out ended in an error, and was repeated, made again by the
\* account or replaced by copies one by one, or the writes after an answered
\* album failed. Late members, cancelled timers, stops and restarts alone never
\* double a post; an update that Telegram sends again is another post.
CopiesExplained == \A t \in Rules, p \in Posts : copies[t][p] <= 1 + extra[t][p]

\* One copy per post, recorded under its own id: what differs from that has one
\* of the reasons above.
Explained == MappingExplained /\ CopiesExplained

\* A worker that is done has copied every post of its group to every target
\* of its plan, unless an error was logged, the gate refused, the task was
\* cancelled, the download was empty or Telegram left the member out.
LossExplained ==
  \A w \in Posts : work[w].pc = "done" =>
    \A i \in DOMAIN work[w].plan, p \in Members(w) :
      LET t == work[w].plan[i] IN copies[t][p] > 0 \/ \E why \in Reasons : <<t, p, why>> \in traces

\* Every handler and timer ends: it has delivered, dropped or given up, handed
\* its post to the cache, or was cancelled.
PostsEnd == \A w \in Posts : work[w].pc \notin {"none", "done"} ~> work[w].pc \in {"none", "done"}

\* docs/releases/v0.5.4.md:18: when a mapping cannot be saved only the write is
\* tried again, so a member whose id was answered is not copied again.
AnsweredNotResent ==
  [][\A w \in Posts : work[w].pc = "each" =>
       \A i \in DOMAIN work[w].answer :
         LET t == Target(w) IN copies'[t][work[w].answer[i][1]] = copies[t][work[w].answer[i][1]]]_vars
=============================================================================
