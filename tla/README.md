# A TLA+ model of tg-channel-sync

tg-channel-sync copies messages from Telegram channels to other channels or to the
Saved Messages of an auxiliary account.  The hard part is not copying a message; it is
knowing, after a lost answer, a crash, a stop, a rerun, a late album member or an account
switch, whether a message has been copied, where to, and for whom.  This directory models
that part: what is written to the database before and after a request, who moves which
cursor when, which account a client belongs to, what waits for what, and what a job says
about itself at the end.

Everything runs in one Python process on one asyncio event loop.  Code between two
`await`s is atomic; every database call is one SQLite transaction; every `await` is a
point where another task may run.  The models use exactly these grains.

## The system

| part | state it keeps | operations | meets |
| --- | --- | --- | --- |
| delivery guard and receipts (`runtime/state.py`, `database.py`) | receipts and mappings in SQLite, a guard per operation | prepare, send, confirm, mark unconfirmed, release | everyone who sends, except realtime posts, which keep mappings only |
| sending (`clone/process.py`, `clone/helpers.py`) | retry counters, the album's pending members | `sync_single_message`, `sync_media_group` | guard, Telegram, pool, stop flag |
| history job (`clone/process.py`, `runtime/result.py`) | session flags, batch, held album, counters | start, stop, read a batch, hand on a group | sending; pollers and account changes look at its flag |
| public channel poller (`realtime/public_poller.py`) | cursors in SQLite, a pass | list, load, deliver, move a cursor | sending, rules, account gate, session flag |
| realtime posts (`bot_engine.py`) | albums waiting for their timer, one task per update | new post, album flush, target loop, fallbacks | Telegram, mappings, account gate, pool |
| JSON import (`json_import/`) | a position in the export, counters | group, split, send, fall back | delivery guard, session, pool |
| rules (`database.py`, `main.py`) | rules with a starting point per target | add, pause, resume, delete | poller, realtime posts |
| account gate and login (`services/sync_services.py`, `bot_engine.py`) | operation counter, switching flag, bound account, pending and published client, legacy rows | begin/finish, code, password, cancel, switch, restore, bind, migrate | poller, realtime posts, edits, history job |
| upload bot pool (`bot_engine.py`) | windows, pauses and a turn | acquire, note, cool down, disable, build again | realtime posts, history job, JSON import |
| web API and server (`main.py`) | session reservation, exit flags | endpoints, restart in place | all of the above |
| logs, settings, filters, text, files, web interface, packaging | tables and files | pure conversions and I/O | - |

What is hard, and which property is for it: `PROJECT.json` lists it hazard by hazard.
In short:

* *delivery* - a request that may or may not have been carried out; an answer that
  cannot be matched to its album; two callers of one message; a retry of what was done.
  Correct means: what may be in the target is known to the database, a mapping is true,
  a doubt stays until a person decides, copies have a cause.
* *poller* - one pass serves several targets with cursors of their own, while rules,
  accounts and the history job change under it.  Correct means: no cursor passes a
  message that its target did not deal with, none goes back, nothing from before a
  starting point is sent, and a target that is left alone catches up.
* *history job* - batches cut albums; batches fail; stops come at any time; the session
  flag gates half of the program.  Correct means: groups are whole and in order, the
  counters add up, "completed" is true, one job at a time, and the flag always falls.
* *realtime posts* - a late member cancels a timer whose delivery may have begun; one
  task serves all targets in turn; there are no receipts.  Correct means: no member waits
  without a timer (but for what a restart in place leaves over), second copies and shifted mappings have a reason, a loss leaves a
  trace, the gate is given back.
* *JSON import* - albums are guessed, texts are cut, files are missing, bots and the
  account take turns.  Correct means: the guess and the cut obey their rules, nothing is
  in the target without a trace, the report is true.
* *account* - requests, posts, edits, a job and a restart, over records that belong to
  one account each.  Correct means: records never reach another account, an operation
  and a job work with one account, the gate opens again.
* *pool* - several uploads share the pauses, windows and turn of the bots.  Correct
  means: no budget or pause is broken, no ready bot is passed over or slept on, by the
  setting each uploader has read, and nobody waits for ever.

## Modules

| module | models |
| --- | --- |
| `Delivery` | `sync_single_message`, `sync_media_group`, `DeliveryGuard`, and the receipt and mapping transactions, for one (source, target, owner) |
| `DeliveryLedger` | the abstract promise: a message is open, in doubt or confirmed; `Delivery` and `JsonImport` both implement it |
| `DeliveryRefinement` | the mapping from `Delivery` to `DeliveryLedger` |
| `DeliveryProofs` | theorems about `Delivery`: types, traces, reservations, and that it implements `DeliveryLedger` |
| `DeliveryReportProofs` | theorems about `Delivery`: what is reported, and what holds with one caller |
| `PublicPoller` | the poller for one public channel, rules, cursors, account gate |
| `PublicPollerProofs` | theorems about `PublicPoller` |
| `HistoryJob` | the session, batches and albums, counters, stop, restart in place |
| `HistoryJobProofs` | theorems about its session, its counters and the albums it hands on |
| `RealtimePost` | updates of one source: album cache and timer, the target loop, copying and uploading, the gate, restarts |
| `RealtimePostProofs` | theorems about `RealtimePost` |
| `JsonForm` | grouping of an export and splitting of a text, beside reference definitions |
| `JsonImport` | the import job over an export: walk, guard, senders, fallbacks, reruns |
| `JsonImportProofs` | theorems about grouping and splitting in `JsonForm`, about `JsonImport`, and that it implements `DeliveryLedger` |
| `SavedAccount` | login, gate, records per account, legacy migration, posts, edits, a job |
| `SavedAccountProofs` | theorems about `SavedAccount` |
| `UploadPool` | the upload bots and those who upload with them |
| `UploadPoolProofs` | theorems about `UploadPool` |
| `MC*` | small instances for TLC |

### Delivery

A *worker* is a caller of the two sync functions: the history job or the poller.  `job`
holds the arguments, `pc` where it is, `idx` its place in the loop over the members,
`todo` the members without mapping, `guard` the `DeliveryGuard`, `tries` the counters of
the nested loops.  `mapping` and `receipt` are the two tables, `target` is the target
channel (message id = position), `wire` and `ids` the request on its way.

One operation runs `CheckReceipt`, `CheckMapping` per member (two reads, two
transactions), `Checked`, `Filter`, then the send loop: `StopBeforeSend`, `Prepare`
(the reservation, one transaction over the whole group) or `PrepareRefused`, `Issue`,
Telegram's `Accept`, an answer, and then `ConfirmMember` per member, `Mark` or
`Release`.  A lone message is filtered before its checks, an album after them; an album
with a single member left is sent as a single message: the model follows both.

* Telegram is external: `Accept` appends the members to the target; the answer may be
  complete, partial, unparsable, an error, a flood wait, a refusal.  When the caller
  stops waiting, the request may still be carried out: it becomes an *orphan*, which
  `AcceptOrphan` or `LoseOrphan` decides at any later time, after a crash too.
* `NetworkError` is ambiguous by nature; `ambiguous` counts it per message, because the
  code repeats the request and a copy may be added.  `UnknownError` is the same for an
  error the retry does not know (a 502, a timeout with a text outside
  `TEMPORARY_NETWORK_ERROR_PATTERNS`): the loops take it for a failed round and send again
  under the same reservation, although Telegram may have carried the request out.
  `CopiesBounded` says that nothing else adds a copy.  `Reject` is what is left: Telegram
  refuses the request.
* `PrepareRefused` ends an operation, but the loops around the upload of a lone file take
  the refusal for an error like any other, go round again and report a failure.
* `LogFails` is the log write after a confirmed delivery: inside the album loop it makes
  the loop go round with everything confirmed.  `MarkFails` is the failing write of the
  doubt itself: the guard's flags change before the database.
* The loops are abstracted to `GroupRounds` and `CloneRounds`, the numbers of sends they
  allow: `NextRound` may also give up early where the code does (a text has one round, a
  file that is too large ends a loop).
* A definite failure, such as a refusal, leaves the receipt at `sending`, which a later
  caller reports as *in doubt*: the code does, and so does the model.

### DeliveryLedger

`Status` reads a mapping as *confirmed*, otherwise a receipt as *in doubt*, otherwise
the message is *open*.  The ledger reserves groups as a whole and only if none of it is
in doubt, posts only what is in doubt or confirmed, confirms only what was posted and
opens again only what was not.  Forced operations waive the doubt of what they take
over.  `Delivery` implements it: run `delivery_race` shows it on two workers, theorem
`LedgerCorrect` for every value of the constants.

### PublicPoller

A delivery is one step that ends in a processed result or not.  The pass (`user`,
`owner`, `group`, `seen`, `lo`, `hi`, `waiting`, `paused`) keeps what the code keeps in
local variables, stale or not: the cursors read by `List`, the client taken by
`TakeClient`, the targets found paused.  `Held` is the operation counter of the account
gate; a switch is refused while it holds.  A switch goes through `BeginSwitch` (client
closed, account cleared), `Bind`, `Publish` or `EndSwitch`; `stale` says that the client
of the running pass was stopped, so that its calls may fail.  Adding a rule is two steps,
since the newest message is read before the rule is stored.  `handled` (what each target
has dealt with) and `renewed` (rules added again during the pass) are history variables;
the code never reads them.  A pass keeps the cursors it has read, so a rule that is
deleted and added again during the pass is still served from its old cursor:
`StartRespected` names this exception.  If such a rule was added while nobody was logged
in it starts at 0, and the pass, which goes on with a client from before, moves its cursor
over messages the new rule never got; `Presumed` puts what is before the old cursor into
`handled`, so that `CursorCovers` speaks of everything else.  It takes five changes to get
there; the attempt to prove the property found it.

`stopRequested` is the stop flag of the history job, which every delivery of the poller
looks at (`safe_execute`): while it is up each delivery fails (`SendFails`, as often as it
is tried).  A job that ends takes it down.  `RestartInPlace` raises it with no job to take
it down, and the poller stalls until a job is started; `CatchesUp` therefore promises
progress only to a target that is left alone *and* while no stop is asked for.  `Crash` is
the death of the process, which leaves the database only.

### HistoryJob

A request goes through `Reserve`, `Validated` or `Invalid`, `Begin`, and then is the job
until `LogEnd` releases the session.  `ReadNext`, `Fetched`, `FetchFails`, `Emit`,
`Delivered` are the generator and the loop around it.  `held` is the album kept back at
a cut.  `GroupMessages` is `group_messages`: it cuts the messages where a group `Begins`,
at every message without an album and wherever the album changes.  The status is taken
from the counters before the last log write, as in the code; if that write fails the
result is replaced by an empty failed one.  `Shutdown` and `Restart` are a restart in place: the
server waits for open requests and their background tasks, then cleans up, then serves
again in the same process with the same `sync_state`.  It leaves `stop_requested` up
with no job to take it down, and the poller, which obeys the same flag, stalls until a
job is started: `StopScoped` names the restart as the only such case.

### RealtimePost

A post is an update, and the task of an update is the *worker* of its post; an update that
Telegram sends again is a post of its own with the same `Message`, under which its copies
are mapped.  The rules are read once, when the update arrives: the `plan`.  `cache` holds
the members of the album that wait, `timer` the task that is registered for them,
`cancelled` the tasks a later member has cancelled, asleep or awake.  The last one takes
the members (`Taken`: sorted by id); one blocked member drops the album.  It walks its
plan target by target: a Saved Messages target enters the gate or is refused, the album is
copied (or, with captions to rewrite or by policy, downloaded and uploaded), the answer is
paired with the members as `zip` does, each mapping is a write of its own.  When anything
of that fails, the members are copied one by one, those that were just answered included.
`operations` counts the gate, `switching` closes it.

A request that ends in an error may have been carried out (`Outcomes`), whatever the error:
what it added is counted in `copies`, and in `extra` where the code makes the request again
(`SentInVain`): in `NetworkError`, in `GroupFails`, which goes over to single copies, and in
`UploadAgain`, where the account uploads what the bot may have uploaded, among others
because `note_upload_success` could not write its log.  `CopiesExplained` says that these,
and a failed write behind an answered album, are all reasons for a second copy.

`Restart` is the death of the process: all tasks are forgotten.  `Shutdown` and
`StartAgain` are a restart in place: tasks are cancelled wherever they are (`Interrupted`),
requests may fail since the clients are closed, and the module goes on with what it had,
`media_group_cache` included.  Members that were waiting are then in the cache without a
timer, until another member of their album comes: `stranded` marks them, and `TimerCovers`
names them as the only ones.  After either, Telegram sends updates again that were not
acknowledged (`SentAgain`).  `copies` is what is in the target, `traces` what was logged,
refused, cancelled or left out, and `extra` the copies a repeated request may have added;
all three are history variables, the program has no receipts here.  `Ascending` stands for
`sorted` and for the order of a query.

The scenarios (`MCRealtimePost`) fix what the posts are (albums of two or three, an album
with a single post beside it, blocked posts, posts of a kind that is switched off, captions
to rewrite, updates sent twice), which targets are enabled (a channel, one that gets media
by upload, Saved Messages) and how much trouble there is (failed requests and writes,
account switches, rule changes, restarts).

### JsonForm and JsonImport

`GroupMessages` (explicit ids, kinds, families, replies, neighbouring ids, time window, at
most ten) and `SplitText` (tags to close, room for them, tags to open again) are pure
functions of the source.  Each runs over its input as the code does: `State[n]` is what the
first `n` messages or tokens come to.  A group is the places of its messages in the export,
since two messages of an export may look alike.  `WellGrouped` and `WellSplit` say
independently what a correct result is.  For a text this is what a reader sees (`Read`):
each character with the tags it stands in, and the closing tags that are out of place.  The
parts, read one by one, must show what the text shows, leave no tag open, and be within the
limit.  Two things are conditions of the code rather than of the statement.  A part may
exceed the limit by the closing tag of a tag opened at its very end, since the code measures
the closing tags before it tracks the new one (`WithinLimit`).  And where the open tags leave
no room for a character (`Fits` fails) the code's inner loop does not come to an end with it;
the model does, so nothing is claimed there about lengths.  Characters are those of the
rendered text: the code may cut an escaped character in two.

A job walks the groups (`Next...`), checks receipts and mappings, reserves with the
guard, selects who sends (a bot of the pool, or the account), and ends each item with
one of the results the code counts.  An album whose files are incomplete, too large for
a bot, or answered oddly goes on one by one or by the account, as the code does; what a
long text needs is sent part by part, the first part's id being recorded.  A job may be
forced, stopped, or die; `Repair` brings a missing file back before a rerun.

Things the code does that a reader may not expect, all in the model: the album check
looks at all receipts but at the first mapping only, so an album is skipped or sent as a
whole (`json_rerun`; `RepeatedInAlbum`, which is proved, says that nothing else repeats a
confirmed message); albums ignore the type filter; a part that consists of tags only
is refused at the limit; a failing log write after a delivery counts a message both as
sent and as failed.

Seen from outside, an import keeps the promise of `DeliveryLedger` (`Promise`,
`ImplementsLedger`): the status of a message is read from its mapping and its receipt, a
message is posted when the target has a copy of it.  Nothing is ever overridden: a forced
job repeats requests, but reserves first as every job does.

### SavedAccount

`login` is where a request to change the account is: the restore at the start, a phone
number, a code or password, a cancel, a switch.  `MayChange` is the check and the
closing of the gate, which happen without an `await` in between; `Migrate`, `Bind` and
`Publish` are the three steps in which an account becomes the one in use: the
transaction that takes over the old records, the variable, the published client.
`session` is the account of the session file, `frozen` the owner the old records were
found to have at the first start of the new version.  Posts and edits hold the gate
(`active`); an edit reads its copy before it holds the gate and again under it.  A job
does not hold the gate: requests look at `is_syncing` when they begin, jobs do not look
at requests.  `Stop` ends the process anywhere; `Shutdown` closes the client whatever the
gate says.  The restore at the start does not look at a client that a web login has
published before it came to its turn: it connects another one to the same session file.

### UploadPool

Times are kept as what is left of them, so that the clock has no end: `Tick` takes one
unit off every pause and sleep and makes every window older, up to `Longest`.  An upload
asks (`Ask`), looks through the bots in turn (`Choose`, `NoneReady`, `AllDisabled`,
`NotWaiting`), sleeps (`FallAsleep`), uploads, and tells the pool what happened
(`Uploaded`, `Flooded`, `Unauthorized`, ...).

`acquire_upload_bot` reads the limit (whether there is one, its threshold and its window)
once before its loop.  A sleeper therefore goes by what he has read (`believes`, `Reads`)
however often he wakes, while `note_upload_success` reads the setting as it is
(`Noted`).  `ChangeLimit` turns the limit on or off and changes threshold and window.
`Budget` and `PromptWake` are about the setting the uploader goes by; that somebody sleeps
on by a limit that was turned off, or takes a bot over a limit that was turned on while he
slept, is what the code does, and the model too.  The windows of bots belong to the pool
and are reset by the setting of whoever looks at them, so one who sleeps by a longer window
may be overtaken; `outdated` marks him, and `PromptWake` leaves him out.

Clients are compared with `==`, which aiogram decides by the token.  `Rebuild` builds the
pool again for the official server, with the same tokens: an upload under way keeps its
client (`old`), and what it tells the pool reaches the new bot with its token (`Found`,
`Changed`).  `revoked` keeps apart what the old and the new server refuse; a new bot can
be out because of what the local server said.  Its bytes count in the new window.  `local`
says with which server the bots work; a file may be too large for them with the official
one only.

Realtime posts choose again after a flood wait and end, or go to the account, with any other
failure.  A JSON import chooses again after a flood wait or a refused token and gives up
with any other failure.  A history job waits out a flood itself, with the same bot
(`HoldBack`, `Repeat`); only when it is to stop is the bot paused (`FloodedAtStop`).  It
goes round `Rounds` times, for an unwritten log entry too, and is then given the answer its
guard holds (`answered`).  A history job with a fallback waits for a bot when it begins and
no more after that, an import with one never (`Waits`).  The log entry about a wait is taken
as written in no time.  `sent`, `passed` and `outdated` are history variables.

## Runs

All runs switch off the deadlock check: operations, requests, changes, posts and files
are bounded, so a behaviour ends when they are used up; before that the program may also
just be idle.  Liveness properties show that nothing stops earlier.

| run | question | bounds |
| --- | --- | --- |
| `delivery_operations` | what operations of one caller leave behind, and do they end | an album of two and its first member alone, one network retry (the code: two), two rounds of every loop (the code: three), one flood wait, two operations, crash, stop (957,803 states) |
| `delivery_race` | what two callers do to each other; is the ledger implemented | overlapping groups and a blocked lone message, two workers, forced and not, two operations, crash |
| `delivery_rerun` (violation) | is a confirmed message sent again | two workers, one album |
| `poller_pass` | are cursors sound, does a target catch up | Saved Messages and a channel, two accounts, three messages of which two form an album, two changes (rules, switches, jobs, stops, restarts), one failure besides those of a stop (690,716 states) |
| `history_jobs` | groups, counters, "completed", sessions, stops, and the end | two requests, five messages in batches of two, albums on and across cuts, one stop, one failed batch, one lost message, one restart |
| `history_album` (violation) | is an album handed on whole | one request, one failed batch |
| `realtime_posts` | doubles, losses, timers, gate, end | three posts, three targets (a channel, one by upload, Saved Messages), ten scenarios, one network retry (489,059 states) |
| `realtime_resent` (violation) | is an answered member copied again | one album, one failure |
| `json_imports` | is the ledger implemented; copies, reports, grouping and splitting | exports of up to three messages, a bot and the account, one network try, two rounds, reruns; all exports of three media messages, in time, late or of unknown time, and, behind two characters, all balanced texts of five tokens that fit, with closing tags of two lengths |
| `json_rerun` (violation) | is a confirmed message sent again | one album with a missing file, a rerun |
| `saved_accounts` | records, edits, client, gate | two accounts, the restore and a web user, four requests, two operations, one job, two starts |
| `upload_pool` | budgets, pauses, turn, end | two bots, a post with a small file and a job with one too large for the official server, the limit on and off with windows of two and one ticks and changed once, one flood wait, two revoked tokens, one new pool (269,630 states) |

Why the bounds are enough.  Receipts and mappings are per message, and operations meet
only in the messages they share, so two overlapping groups (an album, and a part of it)
and two workers show every pairwise race; a second operation of the same worker sees what
the first has left.  In the poller one target with a cursor per account and one with a
plain cursor cover both tables, and three messages let a group be missed between two
that are not.  In the history job five ids in batches of two put an album at a cut,
across two cuts and at the end of the range.  A realtime album of three has a first, a
middle and a last late member; two enabled targets let one fail before the other, and a
third has the uploads.  A text of five
tokens with two open tags has every order of cut, opening and closing, and `CutsCorrect`
holds for every other text.  Two accounts are enough to confuse owners, and two bots to
pass one over.  Symmetry is used in `delivery_race` only, for workers; its properties
are invariants and the step conditions of the ledger and of `UnconfirmedSticks`.

Fairness.  `delivery_operations`: a started operation keeps running and a request that is
out ends, since both run on the event loop and the client library times out; Telegram's
`Accept`, the user and the next operation have none.  `poller_pass`: the poller is a task
that loops for ever and catches every exception (`public_poller.py:155-173`), and a
history job ends, which is what `history_jobs` shows; no login and no user action is
fair.  `history_jobs`: a request that was taken up keeps running.  `realtime_posts`: the
task of each update gets its turns; updates, switches and rule changes have none.
`saved_accounts`: a request to change the account gets its turns (it awaits calls with a
timeout); its outcome is open.  `upload_pool`: the clock ticks, and each upload gets its
turns; new files, settings and revoked tokens have none.

Related properties are checked as one: `SessionConsistent`, `CacheConsistent`,
`LedgerConsistent`, `LoginConsistent` and `PoolConsistent` are the type invariant of
their module with what the values must say of each other; `Explained`, `CutsSound`,
`OwnRecords`, `ReadyServed` and `LimitsHold` are each two sides of one promise.  Their
parts have names and comments of their own.

## What the violations show

* `delivery_rerun`: the reservation looks at receipts only (database.py:691).  A caller
  that has checked both tables can be overtaken by one that confirms, and sends the
  confirmed messages again (docs/usage.md:93 says a rerun skips them).  With one worker
  the same property holds: `delivery_operations`.
* `history_album`: only the head of a cut album is given up when a batch fails; a tail
  behind a failed batch is handed on as an album (comment at clone/process.py:1204).
* `realtime_resent`: when a mapping cannot be written after an album was copied, all its
  members are copied again one by one (bot_engine.py:885; docs/releases/v0.5.4.md:18 says
  only the write is tried again).
* `json_rerun`: an album whose first file was missing is sent one by one without it; with
  the file back, a rerun looks at the first mapping only and sends the whole album again
  (json_import/process.py:500; docs/usage.md:93, docs/releases/v0.5.4.md:16).  It is the
  only way to do so: `RepeatsCorrect`.

## Proofs

`DeliveryProofs` and `DeliveryReportProofs` prove, for every set of messages, workers and
groups, every mode and every bound, under `DeliveryAssumption` only (groups are
non-empty, without repeated members; bounds are numbers):

* `TypeCorrect`: `TypeOK` always holds.  Its inductive invariant `Typed` adds
  `PositionOK`: the member whose mapping is looked up exists.
* `TraceCorrect`: `ExposedIsTraced`.  It is not inductive.  That a request on its way
  has a receipt needs: a worker at the request, or behind it, holds its reservation
  (`Control`: what `pc`, `guard` and `wire` say about each other), and nobody else can
  have taken the receipts away (`Held`: the members of a prepared operation are traced;
  `ReservationExclusive`: another prepared operation shares only messages that are
  mapped or forced; `RefusedUnexposed`: an operation that releases has put
  nothing in the target).  `Trace` is their conjunction with `Typed`.
* `ExclusionCorrect`: `ReservationExclusive`, from the same invariant.
* `DoubtCorrect`: `UnconfirmedSticks`, an action property, from the same invariant.
* `MappingCorrect`: `MappingSound`.  `Sound` adds to `Trace` what a request and an answer
  know of the channel: the ids of an accepted request are those of its copies, in order,
  and an answer that passes `Complete` is that very list, since one that lacks a member
  is shorter and one with a foreign id has a zero or a repeat.  The channel only grows.
* `LedgerCorrect`: `ImplementsLedger`, by step simulation.  `Prepare` is `Reserve` or
  `Override`, an accepted request (abandoned or not) is `Post`, because what was exposed
  is traced; `ConfirmMember` is `Confirm`, because of `Sound`; `Release` is `Release`,
  because of `RefusedUnexposed`; `Mark` and everything else stutters.
* `ReportCorrect`: `ReportSound`.  `Progress` says what the loops have established: the
  members before `idx` are settled (to be sent, or mapped) unless the group is blocked,
  and after the answer the members to send before `idx` are recorded.  No mapping is ever
  removed, so other workers disturb neither.

Three properties are about a message that is delivered, lost or repeated by one caller
after the other, and are proved under `OneCaller` (there is at most one worker, as while
only the history job or only the poller serves the source):

* `RerunCorrect`: `ConfirmedNotResent`.  `Unsent`: as long as an operation that is not
  forced has no answer, none of the members it is to send has a mapping.
* `DoubtRecorded`: `DoubtReported`.  `Doubt`: from a prepared send to the report, a member
  is traced unless forced; a member that is left out of `todo` has a mapping.
* `CopiesCorrect`: `CopiesBounded`.  `Spare` counts: the copies of a message and the
  abandoned requests for it that may still add one are at most `1 + ambiguous`, and at most
  `ambiguous` while an operation can still request it.  `ambiguous` counts every end of a
  request that leaves open whether Telegram carried it out: a lost answer, an error no
  pattern names (a 502, a timeout in other words), an answer that was not understood.

All three rest on `Shape` (`todo` has no repeats, is a part of the group, and is empty or
not as `pc` says; what is marked unconfirmed is not prepared).  The hypothesis is needed:
with two callers all three are false, because `prepare_message_delivery` looks at the
receipts and not at the mappings, so a caller that looked before the other confirmed sends
again; the run `delivery_rerun` shows it for the first.

`SavedAccountProofs` proves every safety property of `SavedAccount`, for every set of
accounts, messages, operations and requests, under `SavedAssumption` only (the values
that stand for "no account" and "not looked for yet" are no accounts, and the former no
message either):

* `LoginCorrect`: `LoginConsistent`, that is `TypeOK` and `ClientVerified`.
* `RecordsCorrect`: `OwnRecords`, that is `OwnMappings` and `EditsOwn`.
* `JobCorrect`: `JobKeepsAccount`.
* `HeldCorrect`: `AccountHeld`, an action property.

All four follow from one inductive invariant, `IInv`.  That records are an account's own
needs to know whose chat a post or a job has resolved (`OpBound`, `JobBound`), which
needs that the account cannot change meanwhile: for a post because the gate is closed to
requests while it is inside (`GateClosed`: a request is alone, has closed the gate, and
nobody is behind it); for a job, which does not hold the gate, because every request that
is still under way can only publish the account of the session file (`Verified`), and
that is the job's; requests that could put another account there are refused while a job
runs.  `LegacyOwned` carries the owner of the old records from the first start to their
migration.

`PublicPollerProofs` proves every safety property of `PublicPoller`, for every set of
targets and accounts, all albums and all bounds, under `PollerAssumption` only:

* `TypeCorrect`: `TypeOK`.
* `CursorCorrect`: `CursorCovers`.
* `StartCorrect`: `StartRespected`.
* `CursorStepCorrect`: `CursorNeverBack`, an action property.

`CursorCovers` looks at rules and cursors; that a cursor may be moved follows from what
the pass knows.  The inductive invariant `IInv` adds it: for each target of the pass,
everything up to the cursor it has read was dealt with, and, unless the target was found
paused, also everything the pass has come across beyond (`Known`); while the pass is
behind the gate its client, the owner of its cursors and the account agree, so what it
deals with is what the cursor counts (`PassInv`); absent rules keep their cursors'
promise (`RuleInv`).  That a message group is an interval, and that the pass starts behind
all its targets, are lemmas; least and greatest members come from the library's theorem
that the order of the naturals is well founded.

`HistoryJobProofs` proves every safety property of `HistoryJob` that the code keeps, for any
number of requests, any range, batch size and source and all bounds, under
`HistoryAssumption` only (numbers are numbers, and a source gives each id an album and a
state):

* `SessionCorrect`: `SessionConsistent`, that is `TypeOK`, `SessionExclusive` and `StopScoped`.
* `StopCorrect`: `StopNotForgotten`, an action property.
* `AccountedCorrect`: `Accounted`.
* `CompletionCorrect`: `CompletedTells`.
* `TailCorrect`: `TailRead`, when the selected messages of an album follow one another
  (`AlbumsTogether`, which Telegram's albums do and the sources of the run too; without it
  the property is false, since `group_messages` compares neighbours only).

For the session (`IInv`), every step of a job either leaves it alive and its flags alone,
but for clearing the stop flag, or gives the session back (`JobSteps`); that a server which
does not serve is being restarted (`Restarting`) is what `StopScoped` needs to be inductive.

What a job reads has an invariant of its own, `ReadInv`.  `Ordered`: what was handed on comes
before what waits to be, that before the album kept back, and all of it before the next
batch.  `Handed`: these three together are the selected messages looked at so far, less the
lost ones, unless a batch failed.  `Counted`: the counters, the groups that wait and the
album kept back add up to what was read, unless a stop was asked for.  `Places` says which
of them are empty where: at the end of the range nothing is kept back, so the sums are those
of the properties.  Under it are facts about the operators: a finite set of numbers can be
sorted, so that `Ascending` is defined (`Sortable`, `Ascends`); the groups of a sorted
sequence hold its messages in order, each group is of one album, and the next is of another
(`Grouping`).  All of these are inductions on a size or a place, by a smallest
counterexample.  `TailInv` adds that no group that waits has members to come (`Known`), and
that what was looked at is before the album kept back (`Behind`): if a member came after the
end of its group, the head of the next group would stand between the two (`GroupEnds`).

`UploadPoolProofs` proves, for any number of bots, any uploaders, files and limits, under
`PoolAssumption` only:

* `PoolCorrect`: `PoolConsistent`, that is `TypeOK` and `OutIsRefused`.
* `LimitsCorrect`: `LimitsHold`, that is `Budget` and `PausesHold`, two action properties.
* `ServedCorrect`: `ReadyServed`, that is `Rotation` and `PromptWake`.

The code reads the setting of the limit once, before an uploader starts to look
(bot_engine.py:345-348), so one who sleeps goes on by what he has read (`believes`).  The properties say no more than
that: `Budget` is about the setting the uploader has read, so a sleeper from before the
limit was turned on still takes a bot beyond it, and `PromptWake` about a bot that is ready
by that setting, so a sleeper from before it was turned off sleeps on.  `outdated` excepts
those asleep while the pool was built again or a shorter window was in use.  A bot is found
by its token, also by a client of the pool before (`Found`).

The budget is about what was really uploaded, the code looks at what it has counted: the
invariant says that in a window that has not elapsed at least as much was counted as was
sent, and that nothing was sent in one that has (`BotInv`).  That the job uploads only
while it has rounds left (`UploaderInv`) is needed for the types.  A bot can be passed over
only by those between the turn and itself: how often it was, and its distance from the turn,
stay below the number of bots together (`TurnInv`).  While somebody sleeps for a second or
more, every bot is held back for as long as that (`SleepInv`), whatever the others do: a
pause only grows, and a window runs on.

`RealtimePostProofs` proves every safety property of `RealtimePost` that the code keeps, for
all posts, targets, scenarios and bounds, under `RealtimeAssumption` only (a rule names a
target once, which `UNIQUE(source_id, target_id)` grants; only configured targets upload; an
update that comes again carries an earlier message, and updates keep the order of messages):

* `CacheCorrect`: `CacheConsistent`, that is `TypeOK`, `TimerCovers` and `GateHeld`.
* `ExplainedCorrect`: `Explained`, that is `MappingExplained` and `CopiesExplained`.
* `LossCorrect`: `LossExplained`.

All follow from one inductive invariant, `IInv`.  That no post is copied twice without a
reason needs that no post is in two hands (`Apart`: it is unseen, in the cache, or with one
worker), and that what a worker has still to send, here and in the targets to come, has no
copy without a reason (`FreshAt`); that no loss goes unnoticed, that what it has behind it
is copied or noted (`SettledAt`).  Both speak of `Remaining`: everything at the gate and in
an album request, nothing while answers are saved, the rest of the list when posts go one
by one, everything again after a fall-back, for which `extra` was raised.  A mapping to
a foreign copy comes from an answer that is shorter than the album (`AnswerAt`), since an
album is its own sorted sequence (`Ascends`, from an induction on the size of a set by a
smallest counterexample).  `AlbumInv` adds to `TimerCovers` that neither the registered task
nor a cancelled one has ended.  A step of one worker is taken apart once and for all
(`StepFits`: others keep their part when only their own posts could be copied), so each
action is left with what it does to its own worker.

`JsonImportProofs` proves, for all exports, texts, missing files, senders, scenarios and
bounds, under `FormAssumption` (size, window and limit are positive) and
`ImportAssumption` only (what the parts of a scenario are):

* `CutsCorrect`: `CutsSound`, that is `GroupsSound` (`GroupsCorrect`) and `PartsSound`.
* `LedgerCorrect`: `LedgerConsistent`, that is `TypeOK` and `MappingSound`.
* `CopiesCorrect`, `ReportCorrect`: `CopiesExplained`, `ReportSound`.
* `ImplementsCorrect`: `ImplementsLedger`, by step simulation; `TracedCorrect`: `Traced`,
  which the ledger implies, and which its proof needs.
* `RepeatsCorrect`: `RepeatedInAlbum`, an action property no run checks.  It delimits what
  `json_rerun` finds: the album whose first member is not mapped is the only exception to
  what docs/usage.md:93 says of a rerun.

The groups first.  `Forming` says of `State[n]` what `WellGrouped` says of the result: the
groups that are done and the run that is open hold the first `n` messages, in order, each
group within the size and of one album, each run of one family without gaps.  Adding a
message keeps it (`AddForms`), cutting a run into chunks does too (`Chunked`, from the
arithmetic of the last chunk, `Ceiling`), and it holds of all `n` by a smallest
counterexample.

The job's inductive invariant is `IInv`, in five parts.  `Types` bounds the counters and
says when a unit is empty.  `Walk` is the place in the export: the groups that are left come
after what is worked on, and a delivery is a whole album with every file there, or the first
of the messages that go one by one; without the order a message could be reached twice.
`Ledger` has the receipt before the request; that an answer yet to be confirmed names each
member's own copy, since the ids of an answer ascend and a full-length one is therefore the
delivery itself (`Ascending`, `FullAnswer`); and that before its first part goes out a
message has no more copies than reasons.  A forced job needs that of everything ahead of it.
`Doubts`: a message that is never sent by itself (blocked, or of a type switched off) has a
receipt only as a member of an album that was sent as a whole; without it a job could report
as skipped what is in doubt.  `Reports`: nothing is told yet of what is left, and enough of
what is done.  `RepeatsCorrect` adds that the first message of a delivery was not mapped
when it was chosen (`FirstNew`); nobody else writes mappings meanwhile.

The texts next (`SplitSound`, for every sequence of tokens).  `Length`, `Read`, `SplitText`
and the library's `FlattenSeq` are recursive functions over a sequence, and the library's
induction cannot be instantiated here.  Two lemmas take its place: `Climb`, a set that has 0
and with each number the next has them all, by a least counterexample; and `Recursion`, a
recursion that stays in a set has a solution.  From them follows what each of the four does
with one token more (`LengthAppend`, `ReadAppend`, `FlattenAppend`, `SplitIs`).  A reader who
comes to the end of a part sees the open tags closed, last opened first, and nothing else
(`ReadClosers`); one who begins the next sees them opened (`ReadOpens`).  So a cut leaves
what the parts show as it was (`CutCarries`), a token that is added is seen as in the text
(`ExtendedCarries`), and `Carries` holds of all beginnings of the text.  `InLimits` says that
the part in work, closed now, is within the limit: there was room for the token beside the
closing tags, or else a cut made room (`AddTokenInLimits`), and fewer open tags need no more
room (`ClosersShorter`).

The simulation of the ledger last.  `Prepare`, and the failure of the account behind its
reservation, are `Reserve` of the members that were open; a request that is carried out,
whatever becomes of its answer, is `Post`, because at a request every member has a receipt;
`Confirm` is `Confirm`, because an answer that is being recorded had its request carried out
(`Sent`); everything else stutters (`Settled`: no other step takes away a receipt).  `Release`
has no counterpart: an import never gives up a receipt.

Each module has one lemma per action or per kind of action, and `PTL` combines them.

Checked only by TLC: liveness, which is out of the prover's reach.  Every safety property of
the passing runs is a theorem (three of `Delivery` with one caller, `TailRead` for albums
whose messages follow one another).

Definitions that choose among conditions in the order of the code are `IF` chains: where the
arms of a `CASE` overlap, TLA+ leaves open which is taken, although TLC takes the first, and
a theorem would be about another program.

A job can report completion although a message was lost in the one-by-one fallback, where
a failing message counts as a missing one (`Fetched`, `lost`); no text of the repository
denies it, so `CompletedTells` speaks of what was read.

## Mutants

Definitions marked `Mutant` are used by no action.  Each is a plausible bug in the
definition it precedes (a receipt for the first member only, an answer not kept, a
verdict in the wrong order, a cursor set instead of raised, an album not kept back, a
pause cut short); put in its place it violates the property `PROJECT.json` names with it.

## Not modelled

Several sources, targets or owners of one ledger (rows never meet); several public
channels (polled in turn); what is downloaded, and how captions, replies and links are
rewritten; filters beyond their verdict; the check against cycles of rules; edits of
posts outside Saved Messages; the sending of a sticker without its thumbnail; settings,
logs and the web interface; a forced exit during a restart; packaging.  These are
conversions and I/O without a state of their own, or, for the rule check, a search in a
small graph whose race with a second request is listed among the hazards.

## Plan

1. `Delivery`, its ledger and its theorems; `PublicPoller` with its theorems;
   `HistoryJob` and its session - done.
2. `RealtimePost`; `JsonForm` and `JsonImport`; `SavedAccount` with its theorems;
   `UploadPool` - done.
3. `ChannelMappings`: two rules added at once and the cycle check, beside a reference
   definition of reachability.
4. Pure algorithms: link rewriting and filters.
5. Compositions: `Delivery` and `RealtimePost` on the same tables, `HistoryJob` and
   `Delivery` on one stop flag.
6. Proofs: every safety property the passing runs check is a theorem - done.  Next, the
   compositions of 5.
