----------------------------- MODULE HistoryJob -----------------------------
(***************************************************************************)
(* A history job: the reservation of the one session (main.py), reading a   *)
(* range of the source in batches, forming message groups across batches,   *)
(* counting results, stopping, and restarting the server in place           *)
(* (clone/process.py, runtime/state.py, runtime/result.py).                 *)
(*                                                                          *)
(* Handing a group to the sync functions is one step: Delivery models it.   *)
(***************************************************************************)
EXTENDS Integers, Sequences, SequencesExt, FiniteSets

CONSTANTS
  Requests,     \* calls of /api/start_sync
  EndId,        \* the range is 1..EndId
  ChunkSize,    \* messages of a batch, 100 in the code
  Sources,      \* what the range may hold: an album and a state for every id
  MaxStops,     \* bound: stop requests
  MaxFailures,  \* bound: batches and log writes that fail
  MaxLost,      \* bound: messages that fail alone
  MaxRestarts   \* bound: restarts in place

Ids == 1..EndId

ASSUME HistoryAssumption ==
  /\ EndId \in Nat /\ ChunkSize \in Nat \ {0}
  /\ Sources \subseteq [Ids -> [album : Nat, state : {"on", "off", "gone"}]]
  /\ {MaxStops, MaxFailures, MaxLost, MaxRestarts} \subseteq Nat

VARIABLES
  source,        \* album (0: none) of an id; its type is on, off, or there is no message
  isSyncing, stopRequested, \* of sync_state
  serving,       \* the server accepts requests
  pc,            \* where a request, and then its job, is
  chunk,         \* chunk_start
  held,          \* pending_album
  groups,        \* groups of the batch that are left
  outcome,       \* the counters of SyncResult
  result,        \* sync_state["result"]["status"], "none" while a job runs
  raised,        \* the job ended with an exception
  passed,        \* history: groups handed to the sync functions
  failedChunks,  \* history: batches that could not be read
  lost,          \* history: messages that could not be read one by one
  stops, failures, restarts

flags   == <<isSyncing, stopRequested>>
reading == <<chunk, held, groups>>
told    == <<outcome, result, raised>>
history == <<passed, failedChunks, lost>>
bounds  == <<stops, failures, restarts>>
vars    == <<source, flags, serving, pc, reading, told, history, bounds>>

Active   == {"validating", "queued", "setup", "read", "fetch", "emit", "deliver", "logging"}
Counters == {"sent", "skipped", "failed", "unmapped", "batches"}
Results  == {"sent_mapped", "sent_unmapped", "skipped", "failed"}
NoCounts == [c \in Counters |-> 0]

Album(m)  == source[m].album
Batch(c)  == c .. (IF c + ChunkSize - 1 < EndId THEN c + ChunkSize - 1 ELSE EndId)

\* The ids of S, sorted.
Ascending(S) == CHOOSE s \in [1..Cardinality(S) -> S] : \A i, j \in DOMAIN s : i < j => s[i] < s[j]

\* Messages the settings select, and those they leave out.
Selected(S) == {m \in S : source[m].state = "on"}
Left(S)     == {m \in S : source[m].state = "off"}
-----------------------------------------------------------------------------
(* Groups and counters.                                                     *)

\* group_messages: a group begins where the album changes, and at a message of none.
Begins(s) == {i \in DOMAIN s : i = 1 \/ Album(s[i]) = 0 \/ Album(s[i]) # Album(s[i - 1])}

GroupMessages(s) ==
  LET first == Ascending(Begins(s)) IN
  [g \in DOMAIN first |-> SubSeq(s, first[g], IF g = Len(first) THEN Len(s) ELSE first[g + 1] - 1)]

Counter(r) == CASE r = "sent_mapped"   -> "sent"
                [] r = "skipped"       -> "skipped"
                [] r = "sent_unmapped" -> "unmapped"
                [] OTHER               -> "failed"

Record(o, r, n) == [o EXCEPT ![Counter(r)] = @ + n]

\* Mutant: a failed batch does not count against completion.
StatusOfCounters(o, error, stopped) ==
  IF stopped THEN "stopped"
  ELSE IF error \/ o["failed"] + o["unmapped"] > 0
    THEN IF o["sent"] + o["unmapped"] > 0 THEN "partial_failed" ELSE "failed"
    ELSE "completed"

\* SyncResult.snapshot
Status(o, error, stopped) ==
  IF stopped THEN "stopped"
  ELSE IF error \/ o["failed"] + o["batches"] + o["unmapped"] > 0
    THEN IF o["sent"] + o["unmapped"] > 0 THEN "partial_failed" ELSE "failed"
    ELSE "completed"

Goto(r, label) == pc' = [pc EXCEPT ![r] = label]

\* process_master_sync, finally: the result is taken, then logged.
EndJob(r, o, error) ==
  /\ Goto(r, "logging")
  /\ outcome' = o
  /\ raised'  = error
  /\ result'  = Status(o, error, stopRequested)
  /\ groups'  = <<>>
  /\ held'    = <<>>
  /\ UNCHANGED chunk

\* Mutant: a job that is stopped before it begins returns outside the finally.
ReleaseUnlessQueued(r) ==
  IF pc[r] = "queued" THEN UNCHANGED <<pc, flags>> ELSE
    /\ Goto(r, "done")
    /\ isSyncing' = FALSE
    /\ stopRequested' = FALSE

\* Mutant: the stop flag is not reset.
ReleaseStopKept(r) == Goto(r, "done") /\ isSyncing' = FALSE /\ UNCHANGED stopRequested

\* finish_sync_session, and the finally of _run_reserved_sync.
Release(r) ==
  /\ Goto(r, "done")
  /\ isSyncing' = FALSE
  /\ stopRequested' = FALSE

Fail == failures < MaxFailures /\ failures' = failures + 1
-----------------------------------------------------------------------------
(* The session.                                                             *)

\* Mutant: only a session that is being started counts.
BusyStarting == \E r \in Requests : pc[r] \in {"validating", "queued"}

Busy == isSyncing

\* _reserve_history_start: checked and claimed without an await.
Reserve(r) ==
  /\ serving
  /\ pc[r] = "new"
  /\ IF Busy
       THEN Goto(r, "done") /\ UNCHANGED flags
       ELSE Goto(r, "validating") /\ isSyncing' = TRUE /\ stopRequested' = FALSE
  /\ UNCHANGED <<source, serving, reading, told, history, bounds>>

\* start_sync answers with an error, or raises.
Invalid(r) ==
  /\ pc[r] = "validating"
  /\ Release(r)
  /\ UNCHANGED <<source, serving, reading, told, history, bounds>>

\* ... or adds the background task.
Validated(r) ==
  /\ pc[r] = "validating"
  /\ Goto(r, "queued")
  /\ UNCHANGED <<source, flags, serving, reading, told, history, bounds>>

\* Mutant: the stop flag is not looked at before the session clears it.
StoppedNever == FALSE

\* A stop that came before the task began.
StoppedEarly == stopRequested

\* _run_reserved_sync and start_sync_session.
Begin(r) ==
  /\ pc[r] = "queued"
  /\ outcome' = NoCounts
  /\ raised'  = FALSE
  /\ passed'  = <<>> /\ failedChunks' = {} /\ lost' = {}
  /\ IF StoppedEarly
       THEN Release(r) /\ result' = "stopped" /\ UNCHANGED reading
       ELSE /\ Goto(r, "setup")
            /\ result' = "none"
            /\ stopRequested' = FALSE
            /\ chunk' = 1 /\ held' = <<>> /\ groups' = <<>>
            /\ UNCHANGED isSyncing
  /\ UNCHANGED <<source, serving, bounds>>

\* Settings, the channels, the newest message; an error ends the job.
Setup(r) ==
  /\ pc[r] = "setup"
  /\ \/ Goto(r, "read") /\ UNCHANGED <<reading, told>>
     \/ EndJob(r, outcome, TRUE)
  /\ UNCHANGED <<source, flags, serving, history, bounds>>

\* The log write fails: _run_reserved_sync stores an empty, failed result.
LogEnd(r) ==
  /\ pc[r] = "logging"
  /\ \/ UNCHANGED <<told, failures>>
     \/ Fail /\ outcome' = NoCounts /\ raised' = TRUE /\ result' = "failed"
  /\ Release(r)
  /\ UNCHANGED <<source, serving, reading, history, stops, restarts>>
-----------------------------------------------------------------------------
(* _iter_history_message_groups and the loop of _run_master_sync.           *)

ReadNext(r) ==
  /\ pc[r] = "read"
  /\ IF chunk > EndId \/ stopRequested
       THEN EndJob(r, outcome, FALSE)
       ELSE Goto(r, "fetch") /\ UNCHANGED <<reading, told>>
  /\ UNCHANGED <<source, flags, serving, history, bounds>>

\* Mutant: the album is not kept back.
NothingHeld(done) == FALSE

\* The album at the end of a batch waits for the next one.
HoldsLast(done) ==
  /\ chunk + ChunkSize - 1 < EndId
  /\ done # <<>> /\ Album(Last(done)[1]) # 0

ReadCounts(S) == Record(outcome, "skipped", Cardinality(Left(S)))

\* _safe_get_messages: the batch, or one by one when the library cannot parse it;
\* then a message that fails is taken for one that does not exist.
Fetched(r) ==
  /\ pc[r] = "fetch"
  /\ IF stopRequested
       THEN EndJob(r, outcome, FALSE) /\ UNCHANGED lost
       ELSE \E failing \in SUBSET (Selected(Batch(chunk)) \union Left(Batch(chunk))) :
              LET read == Batch(chunk) \ failing
                  done == GroupMessages(held \o Ascending(Selected(read))) IN
              /\ Cardinality(lost \union failing) <= MaxLost
              /\ lost'    = lost \union failing
              /\ outcome' = ReadCounts(read)
              /\ held'    = IF HoldsLast(done) THEN Last(done) ELSE <<>>
              /\ groups'  = IF HoldsLast(done) THEN Front(done) ELSE done
              /\ chunk'   = chunk + ChunkSize
              /\ Goto(r, "emit")
              /\ UNCHANGED <<result, raised>>
  /\ UNCHANGED <<source, flags, serving, passed, failedChunks, bounds>>

\* Mutant: the album kept back is not counted.
DroppedUncounted == [outcome EXCEPT !["batches"] = @ + 1]

Dropped == Record([outcome EXCEPT !["batches"] = @ + 1], "failed", Len(held))

\* Any other error of a batch: the album kept back is given up.  Writing the log
\* may fail, which ends the job.
FetchFails(r) ==
  /\ pc[r] = "fetch"
  /\ Fail
  /\ IF stopRequested
       THEN EndJob(r, outcome, FALSE) /\ UNCHANGED failedChunks
       ELSE /\ failedChunks' = failedChunks \union {chunk}
            /\ \/ EndJob(r, Dropped, TRUE)
               \/ /\ Goto(r, "read")
                  /\ outcome' = Dropped
                  /\ held'    = <<>>
                  /\ chunk'   = chunk + ChunkSize
                  /\ UNCHANGED <<groups, result, raised>>
  /\ UNCHANGED <<source, flags, serving, passed, lost, stops, restarts>>

\* SyncNetworkRetryExhaustedError
NetworkGone(r) ==
  /\ pc[r] = "fetch"
  /\ ~stopRequested
  /\ EndJob(r, outcome, TRUE)
  /\ UNCHANGED <<source, flags, serving, history, bounds>>

Emit(r) ==
  /\ pc[r] = "emit"
  /\ CASE groups = <<>> -> Goto(r, "read") /\ UNCHANGED <<reading, told, passed>>
       [] groups # <<>> /\ stopRequested -> EndJob(r, outcome, FALSE) /\ UNCHANGED passed
       [] OTHER -> /\ Goto(r, "deliver")
                   /\ passed' = Append(passed, Head(groups))
                   /\ UNCHANGED <<reading, told>>
  /\ UNCHANGED <<source, flags, serving, failedChunks, lost, bounds>>

\* Members of an album found synced are counted one by one, the others with the
\* result of the album; a failure after a stop is not counted.
Delivered(r) ==
  LET size == Len(Head(groups)) IN
  /\ pc[r] = "deliver"
  /\ \E known \in (IF size = 1 THEN {0} ELSE 0..size), res \in Results :
       LET counted == Record(outcome, "skipped", known) IN
       /\ outcome' = IF res = "failed" /\ stopRequested THEN counted
                     ELSE Record(counted, res, size - known)
       /\ Goto(r, "emit")
  /\ groups' = Tail(groups)
  /\ UNCHANGED <<source, flags, serving, chunk, held, result, raised, history, bounds>>

\* An exception of the sync functions ends the job.
DeliverRaises(r) ==
  /\ pc[r] = "deliver"
  /\ EndJob(r, outcome, TRUE)
  /\ UNCHANGED <<source, flags, serving, history, bounds>>
-----------------------------------------------------------------------------
(* The user and the server.                                                 *)

\* stop_sync
RequestStop ==
  /\ serving /\ isSyncing
  /\ stops < MaxStops
  /\ stopRequested' = TRUE
  /\ stops' = stops + 1
  /\ UNCHANGED <<source, isSyncing, serving, pc, reading, told, history, failures, restarts>>

\* restart_server: no new requests; the server waits for the open ones.
Shutdown ==
  /\ serving
  /\ restarts < MaxRestarts
  /\ serving'  = FALSE
  /\ restarts' = restarts + 1
  /\ UNCHANGED <<source, flags, pc, reading, told, history, stops, failures>>

\* _force_cleanup, and the next turn of serve_until_stopped in the same process.
Restart ==
  /\ ~serving
  /\ \A r \in Requests : pc[r] \notin Active
  /\ stopRequested' = TRUE
  /\ serving' = TRUE
  /\ UNCHANGED <<source, isSyncing, pc, reading, told, history, bounds>>

Init ==
  /\ source \in Sources
  /\ isSyncing = FALSE /\ stopRequested = FALSE
  /\ serving = TRUE
  /\ pc = [r \in Requests |-> "new"]
  /\ chunk = 1 /\ held = <<>> /\ groups = <<>>
  /\ outcome = NoCounts /\ result = "none" /\ raised = FALSE
  /\ passed = <<>> /\ failedChunks = {} /\ lost = {}
  /\ stops = 0 /\ failures = 0 /\ restarts = 0

Job(r) ==
  \/ Invalid(r) \/ Validated(r) \/ Begin(r) \/ Setup(r) \/ LogEnd(r)
  \/ ReadNext(r) \/ Fetched(r) \/ FetchFails(r) \/ NetworkGone(r)
  \/ Emit(r) \/ Delivered(r) \/ DeliverRaises(r)

Next ==
  \/ \E r \in Requests : Reserve(r) \/ Job(r)
  \/ RequestStop \/ Shutdown \/ Restart

Spec == Init /\ [][Next]_vars

\* A request that was taken up keeps running.
FairSpec == Spec /\ \A r \in Requests : WF_vars(Job(r))
-----------------------------------------------------------------------------
(* Properties.                                                              *)

\* Every variable has its type.
TypeOK ==
  /\ source \in Sources
  /\ {isSyncing, stopRequested, serving, raised} \subseteq BOOLEAN
  /\ pc \in [Requests -> Active \union {"new", "done"}]
  /\ chunk \in Nat
  /\ held \in Seq(Ids) /\ groups \in Seq(Seq(Ids)) /\ passed \in Seq(Seq(Ids))
  /\ outcome \in [Counters -> Nat]
  /\ result \in {"none", "completed", "partial_failed", "failed", "stopped"}
  /\ failedChunks \subseteq Ids /\ lost \subseteq Ids
  /\ stops \in Nat /\ failures \in Nat /\ restarts \in Nat

\* At most one job is alive, and the flag that pollers, account switches and
\* other starts look at is up exactly as long.
SessionExclusive ==
  /\ \A r, s \in Requests : pc[r] \in Active /\ pc[s] \in Active => r = s
  /\ isSyncing <=> \E r \in Requests : pc[r] \in Active

\* Nobody is told to stop when no job runs, since the poller obeys the same flag.
\* The exception is a restart in place, which raises the flag for nobody.
StopScoped == stopRequested => isSyncing \/ restarts > 0

\* The values have their types, and the flags of the session are up for the one
\* job that is alive.
SessionConsistent == TypeOK /\ SessionExclusive /\ StopScoped

\* Messages of the batches that were read.
Read == {m \in Ids : source[m].state # "gone"} \ (lost \union UNION {Batch(c) : c \in failedChunks})

\* The counters of a job that ran to its end add up: every message that was read
\* is in exactly one of them, albums cut by a batch and given up included.
Accounted ==
  result \in {"completed", "partial_failed", "failed"} /\ ~raised =>
    outcome["sent"] + outcome["skipped"] + outcome["failed"] + outcome["unmapped"]
      = Cardinality(Read)

Members(gs) == UNION {ToSet(gs[i]) : i \in DOMAIN gs}

\* Every message comes after those before it in its group and in earlier groups.
InOrder(gs) ==
  \A i, j \in DOMAIN gs : \A k \in DOMAIN gs[i], l \in DOMAIN gs[j] :
    i < j \/ (i = j /\ k < l) => gs[i][k] < gs[j][l]

\* A job that reports completion handed on every selected message it could read,
\* once, in order: the cuts between batches leave no trace.
CompletedTells ==
  result = "completed" => InOrder(passed) /\ Members(passed) = Selected(Ids) \ lost

\* An album is handed on only when its later members have been read too.
TailRead ==
  \A i \in DOMAIN passed : \A m \in Selected(Ids) \ lost :
    Album(m) # 0 /\ Album(m) = Album(passed[i][1]) => m <= Last(passed[i])

\* An album is handed on with all its members.
AlbumWhole ==
  \A i \in DOMAIN passed : \A m \in Selected(Ids) :
    Album(m) # 0 /\ Album(m) = Album(passed[i][1]) => Contains(passed[i], m)

\* A stop the server has accepted is not forgotten while the job can still obey:
\* the flag falls with the job, which then reports that it was stopped.
StopNotForgotten ==
  [][stopRequested /\ ~stopRequested' /\ (\E r \in Requests : pc[r] \in Active \ {"validating", "logging"})
       => result' = "stopped"]_vars

\* A job that was started ends, and so does its session.
JobsEnd == \A r \in Requests : pc[r] = "validating" ~> pc[r] = "done"
=============================================================================
