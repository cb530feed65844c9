----------------------------- MODULE JsonImport -----------------------------
(***************************************************************************)
(* The import of a Telegram Desktop export (sync_worker/json_import): jobs  *)
(* walk the groups of one export, check receipts and mappings, send albums, *)
(* single media and texts through a delivery guard with an upload bot or    *)
(* the user account, confirm the answers and count the results. A job may   *)
(* be stopped, fail or die with the process, and be run again.              *)
(*                                                                          *)
(* Messages are named by their place in the export.                         *)
(***************************************************************************)
EXTENDS JsonForm

CONSTANTS
  Scenarios,  \* exports, how they are sent, and how often what may happen
  NetRetries, \* max_retries of execute_with_network_retry, 2 in the code
  BotRounds   \* rounds of the loop over upload bots, 3 in the code

Fates   == {"wanted", "off", "blocked"}
Limited == {"jobs", "forced", "trouble", "stops", "crashes", "repairs"}

ASSUME ImportAssumption ==
  /\ NetRetries \in Nat /\ BotRounds \in Nat \ {0}
  /\ \A s \in Scenarios :
       /\ s.messages \in Seq(ExportMessage)
       /\ s.fate \in [DOMAIN s.messages -> Fates] /\ s.missing \subseteq DOMAIN s.messages
       /\ s.text \in Seq(Token)
       /\ s.sender \in {"bot", "user"} /\ s.fallback \in BOOLEAN
       /\ s.limits \in [Limited -> Nat]

VARIABLES
  scenario,
  parts,     \* the parts its text is sent in
  missing,   \* media whose file is not where the export says
  receipt,   \* message_sync_receipts
  mapping,   \* message_mappings: the message whose copy a message is mapped to
  copies,    \* Telegram: how many copies of a message the target holds
  pc,        \* where the job is
  force,     \* force_send
  stop,      \* stop_requested
  groups,    \* groups that are left
  todo,      \* messages of a group that are handled one by one, the current first
  unit,      \* the messages of the current delivery
  guard,     \* _prepared or _unanswer of its DeliveryGuard
  via,       \* the sender the upload target names
  rounds, tries, part, \* rounds with a bot, network errors, text part
  answer,    \* <<message, message the id belongs to>> pairs still to be recorded
  report,    \* the results recorded for each message
  ended,     \* how the last job ended
  extra,     \* history: how many repetitions of a copy had a reason
  bounds     \* how much of each limit is used

setting  == <<scenario, parts, missing>>
database == <<receipt, mapping>>
place    == <<pc, stop, groups, todo, ended>>
sending  == <<unit, guard, via, rounds, tries, part, answer>>
vars     == <<setting, database, copies, place, force, sending, report, extra, bounds>>

Msgs       == DOMAIN scenario.messages
Message(m) == scenario.messages[m]
Fate(m)    == scenario.fate[m]
Results    == {"sent_mapped", "sent_unmapped", "skipped", "failed"}
Labels     == {"idle", "next", "album", "item", "select", "prepare", "request", "confirm"}
Texts(m)   == Message(m).kind = "text"
Single     == todo # <<>>
Unit       == ToSet(unit)

Count(b)       == bounds[b] < scenario.limits[b] /\ bounds' = [bounds EXCEPT ![b] = @ + 1]
Added(f, S)    == [m \in Msgs |-> IF m \in S THEN f[m] + 1 ELSE f[m]]
Recorded(S, r) == [m \in Msgs |-> IF m \in S THEN report[m] \union {r} ELSE report[m]]

\* A delivery of the messages u, before its guard has done anything.
Fresh(u) ==
  /\ unit' = u /\ guard' = "fresh" /\ via' = "user"
  /\ rounds' = 0 /\ tries' = 0 /\ part' = 1 /\ answer' = <<>>

\* process_json_sync returns or raises, and the session is given back.
End(how) ==
  /\ pc' = "idle" /\ ended' = how /\ stop' = FALSE
  /\ groups' = <<>> /\ todo' = <<>>
  /\ Fresh(<<>>)

\* The next message of a group, or the next group.
Onward ==
  /\ IF Single THEN pc' = "item" /\ todo' = Tail(todo) ELSE pc' = "next" /\ UNCHANGED todo
  /\ Fresh(<<>>)
  /\ UNCHANGED <<groups, stop, ended>>

\* An exception: it is counted and passed over for a single message unless it
\* is fatal, and it ends the job for an album.
Fails(fatal) ==
  IF Single
  THEN /\ report' = Recorded(Unit, "failed")
       /\ IF fatal THEN End("raised") ELSE Onward
  ELSE End("raised") /\ UNCHANGED report
-----------------------------------------------------------------------------
(* The walk through the export.                                             *)

\* The groups of the export.
Grouped == GroupMessages(scenario.messages)

Begin(f) ==
  /\ pc = "idle"
  /\ bounds["jobs"] < scenario.limits["jobs"]
  /\ f => bounds["forced"] < scenario.limits["forced"]
  /\ bounds' = [bounds EXCEPT !["jobs"] = @ + 1, !["forced"] = IF f THEN @ + 1 ELSE @]
  /\ pc' = "next" /\ ended' = "none" /\ stop' = FALSE
  /\ groups' = Grouped /\ todo' = <<>>
  /\ force' = f
  /\ report' = [m \in Msgs |-> {}]
  /\ extra' = IF f THEN Added(extra, Msgs) ELSE extra
  /\ UNCHANGED <<setting, database, copies, sending>>

NextGroup ==
  /\ pc = "next"
  /\ IF stop THEN End("stopped")
     ELSE IF groups = <<>> THEN End("completed")
     ELSE /\ pc' = IF Len(Head(groups)) > 1 THEN "album" ELSE "item"
          /\ todo' = IF Len(Head(groups)) > 1 THEN <<>> ELSE Head(groups)
          /\ groups' = Tail(groups)
          /\ Fresh(Head(groups))
          /\ UNCHANGED <<stop, ended>>
  /\ UNCHANGED <<setting, database, copies, force, report, extra, bounds>>

\* Mutant: only the receipt of the first member is looked at.
PendingFirst(S) == ~force /\ \E m \in S : receipt[m] # "none" /\ \A n \in S : m <= n

Pending(S) == ~force /\ \E m \in S : receipt[m] # "none"
Synced(m)  == ~force /\ mapping[m] # 0

\* send_json_media_group up to its guard: every receipt is looked at, but only
\* the mapping of the first member, and no type filter.
CheckAlbum ==
  /\ pc = "album"
  /\ IF Pending(Unit) \/ Synced(Head(unit)) \/ \E m \in Unit : Fate(m) = "blocked"
       THEN /\ report' = Recorded(Unit, IF Pending(Unit) THEN "sent_unmapped" ELSE "skipped")
            /\ Onward
            /\ UNCHANGED extra
       ELSE IF Unit \intersect missing # {}
         THEN /\ pc' = "item" /\ todo' = unit
              /\ Fresh(<<>>)
              /\ UNCHANGED <<groups, stop, ended, report, extra>>
         ELSE /\ pc' = "select"
              /\ extra' = Added(extra, {m \in Unit : Synced(m)})
              /\ UNCHANGED <<groups, todo, stop, ended, sending, report>>
  /\ UNCHANGED <<setting, database, copies, force, bounds>>

\* What a message comes to before anything is sent for it.
Verdict(m) ==
  IF Message(m).kind = "service" THEN "ignored"
  ELSE IF Fate(m) # "wanted" THEN "skipped"
  ELSE IF Pending({m}) THEN "sent_unmapped"
  ELSE IF Synced(m) THEN "skipped"
  ELSE IF m \in missing THEN "failed" ELSE "send"

CheckItem ==
  /\ pc = "item"
  /\ IF todo = <<>> THEN pc' = "next" /\ UNCHANGED <<stop, groups, todo, ended, sending, report>>
     ELSE IF stop THEN End("stopped") /\ UNCHANGED report
     ELSE LET m == Head(todo) IN
       IF Verdict(m) = "send"
       THEN pc' = "select" /\ Fresh(<<m>>) /\ UNCHANGED <<stop, groups, todo, ended, report>>
       ELSE /\ report' = IF Verdict(m) = "ignored" THEN report ELSE Recorded({m}, Verdict(m))
            /\ Onward
  /\ UNCHANGED <<setting, database, copies, force, extra, bounds>>
-----------------------------------------------------------------------------
(* One delivery.                                                            *)

InUnit == UNCHANGED <<stop, groups, todo, ended, report>>

\* resolve_upload_target: the user account, or a bot when one may be used.
Senders == IF scenario.sender = "user" THEN {"user"}
           ELSE IF scenario.fallback THEN {"bot", "user"} ELSE {"bot"}

Select ==
  /\ pc = "select" /\ ~stop
  /\ via' \in Senders
  /\ pc' = IF guard = "prepared" THEN "request" ELSE "prepare"
  /\ UNCHANGED <<unit, guard, rounds, tries, part, answer>>
  /\ InUnit
  /\ UNCHANGED <<setting, database, copies, force, extra, bounds>>

\* No bot is left, the account is not logged in, or the reservation fails.
\* Without the account the guard has reserved the messages already.
CannotSend ==
  /\ pc \in {"select", "prepare"} /\ ~stop
  /\ Count("trouble")
  /\ \E fatal \in {FALSE, pc = "prepare" /\ via = "user"} :
       /\ receipt' = [m \in Msgs |-> IF fatal /\ m \in Unit THEN "sending" ELSE receipt[m]]
       /\ Fails(fatal)
  /\ UNCHANGED <<setting, mapping, copies, force, extra>>

\* Mutant: the reservation comes after the answer.
PrepareNothing ==
  /\ pc = "prepare" /\ ~(stop /\ via = "bot")
  /\ guard' = "prepared" /\ pc' = "request"
  /\ UNCHANGED <<unit, via, rounds, tries, part, answer>>
  /\ InUnit
  /\ UNCHANGED <<setting, database, copies, force, extra, bounds>>

\* DeliveryGuard.send: the receipts are written before the request.
Prepare ==
  /\ pc = "prepare" /\ ~(stop /\ via = "bot")
  /\ receipt' = [m \in Msgs |-> IF m \in Unit THEN "sending" ELSE receipt[m]]
  /\ guard' = "prepared" /\ pc' = "request"
  /\ UNCHANGED <<unit, via, rounds, tries, part, answer>>
  /\ InUnit
  /\ UNCHANGED <<setting, mapping, copies, force, extra, bounds>>

\* A stop is seen before a round with a bot, or by safe_execute.
StopSeen ==
  /\ stop
  /\ pc \in {"select", "request"} \/ (pc = "prepare" /\ via = "bot")
  /\ \E carried \in {{}, IF pc = "request" /\ part = 1 THEN Unit ELSE {}} :
       copies' = Added(copies, carried)
  /\ End("stopped")
  /\ UNCHANGED <<setting, database, force, report, extra, bounds>>

SendsText == Single /\ Texts(Head(todo))

\* Telegram refuses a text part that holds nothing but tags.
Sendable == SendsText => \E i \in DOMAIN parts[part] : parts[part][i].is = "char"

\* The request is carried out: the first part of a text counts as the copy.
Carried == copies' = Added(copies, IF part = 1 THEN Unit ELSE {})

MoreParts == SendsText /\ part < Len(parts)

\* Mutant: an operation in doubt is released.
MarkedReleased == [m \in Msgs |-> IF m \in Unit THEN "none" ELSE receipt[m]]

\* mark_message_delivery_unconfirmed
Marked == [m \in Msgs |-> IF m \in Unit /\ receipt[m] # "none" THEN "unconfirmed" ELSE receipt[m]]

Doubt == receipt' = Marked /\ report' = Recorded(Unit, "sent_unmapped") /\ Onward

\* Mutant: an album's answer may be short.
AnyIds(ids) == ids # <<>>

\* As many ids as members, all of them valid and different.
Complete(ids) == Len(ids) = Len(unit) /\ Cardinality(ToSet(ids)) = Len(ids)

\* The ids an answer may bring: those of the messages, or none or some of them.
Answers == {ids \in SeqOf(Unit, Len(unit)) : \A i, j \in DOMAIN ids : i < j => ids[i] < ids[j]}

\* The request is answered, perhaps just before a stop is seen. After an answer
\* with ids missing the operation is marked, unless that write fails.
Answered ==
  /\ pc = "request" /\ Sendable
  /\ Carried
  /\ \E ids \in Answers :
       /\ IF ids = unit THEN UNCHANGED bounds ELSE ~stop /\ Count("trouble")
       /\ \/ /\ Complete(ids) /\ MoreParts
             /\ part' = part + 1 /\ rounds' = 0 /\ tries' = 0
             /\ InUnit
             /\ UNCHANGED <<pc, unit, guard, via, answer, receipt>>
          \/ /\ Complete(ids) /\ ~MoreParts
             /\ pc' = "confirm" /\ answer' = [i \in DOMAIN ids |-> <<unit[i], ids[i]>>]
             /\ InUnit
             /\ UNCHANGED <<unit, guard, via, rounds, tries, part, receipt>>
          \/ ~Complete(ids) /\ Doubt
          \/ ~Complete(ids) /\ UNCHANGED receipt /\ Fails(FALSE)
          \/ ~Complete(ids) /\ UNCHANGED <<receipt, report>> /\ End("raised")
  /\ UNCHANGED <<setting, mapping, force, extra>>

\* execute_with_network_retry: the lost request may have been carried out.
NetworkError ==
  /\ pc = "request" /\ ~stop /\ Sendable
  /\ Count("trouble")
  /\ \E carried \in {{}, IF part = 1 THEN Unit ELSE {}} :
       copies' = Added(copies, carried) /\ extra' = Added(extra, carried)
  /\ IF tries < NetRetries
       THEN /\ tries' = tries + 1 /\ InUnit
            /\ UNCHANGED <<pc, unit, guard, via, rounds, part, answer>>
       ELSE Fails(TRUE)
  /\ UNCHANGED <<setting, database, force>>

\* The request goes to another sender.
Resent(sender, round) ==
  /\ via' = sender /\ rounds' = round /\ tries' = 0
  /\ UNCHANGED <<pc, unit, guard, part, answer>>
  /\ InUnit

\* Flood control, or a bot that is disabled. After the last round the user
\* account is tried if it may be; if not, an album is in doubt.
TurnedAway ==
  /\ pc = "request" /\ via = "bot" /\ ~stop
  /\ Count("trouble")
  /\ \/ /\ \E sender \in Senders : /\ sender = "user" \/ rounds + 1 < BotRounds
                                   /\ Resent(sender, rounds + 1)
        /\ UNCHANGED receipt
     \/ /\ rounds + 1 = BotRounds
        /\ IF scenario.fallback THEN Resent("user", rounds + 1) /\ UNCHANGED receipt
           ELSE IF Single THEN Fails(FALSE) /\ UNCHANGED receipt ELSE Doubt
  /\ UNCHANGED <<setting, mapping, copies, force, extra>>

\* Flood control of the user account: the request waits and is repeated.
FloodWait ==
  /\ pc = "request" /\ via = "user" /\ ~stop
  /\ Count("trouble")
  /\ Resent("user", rounds)
  /\ UNCHANGED <<setting, database, copies, force, extra>>

\* A file is too large for a bot, and the user account may send it.
TooLarge ==
  /\ pc = "request" /\ via = "bot" /\ ~stop /\ scenario.fallback
  /\ ~SendsText
  /\ Count("trouble")
  /\ Resent("user", rounds)
  /\ UNCHANGED <<setting, database, copies, force, extra>>

\* Telegram refuses, no other sender is found, or the account is logged out.
Refused ==
  /\ pc = "request" /\ ~stop
  /\ IF Sendable THEN Count("trouble") ELSE UNCHANGED bounds
  /\ \E fatal \in {FALSE, via = "user"} : Fails(fatal)
  /\ UNCHANGED <<setting, database, copies, force, extra>>

\* record_success of the next member; force_send replaces a mapping.
Confirm ==
  /\ pc = "confirm" /\ answer # <<>>
  /\ LET m == Head(answer)[1] IN
       /\ mapping' = [mapping EXCEPT ![m] = IF force \/ @ = 0 THEN Head(answer)[2] ELSE @]
       /\ receipt' = [receipt EXCEPT ![m] = "none"]
  /\ answer' = Tail(answer)
  /\ UNCHANGED <<pc, unit, guard, via, rounds, tries, part>>
  /\ InUnit
  /\ UNCHANGED <<setting, copies, force, extra, bounds>>

\* SyncMappingPersistenceError ends the job.
ConfirmFails ==
  /\ pc = "confirm" /\ answer # <<>>
  /\ Count("trouble")
  /\ End("raised")
  /\ UNCHANGED <<setting, database, copies, force, report, extra>>

Logged ==
  /\ pc = "confirm" /\ answer = <<>>
  /\ report' = Recorded(Unit, "sent_mapped")
  /\ Onward
  /\ UNCHANGED <<setting, database, copies, force, extra, bounds>>

\* The log cannot be written: a message is counted as sent and as failed, an
\* album is not counted and ends the job.
LogFails ==
  /\ pc = "confirm" /\ answer = <<>>
  /\ Count("trouble")
  /\ IF Single THEN report' = [m \in Msgs |-> IF m \in Unit THEN report[m] \union {"sent_mapped", "failed"}
                                               ELSE report[m]] /\ Onward
               ELSE End("raised") /\ UNCHANGED report
  /\ UNCHANGED <<setting, database, copies, force, extra>>
-----------------------------------------------------------------------------
(* The surroundings.                                                        *)

RequestStop ==
  /\ pc # "idle" /\ ~stop
  /\ Count("stops")
  /\ stop' = TRUE
  /\ UNCHANGED <<setting, database, copies, pc, groups, todo, ended, force, sending, report, extra>>

\* The process dies; a request that is on its way may be carried out.
Crash ==
  /\ pc # "idle"
  /\ Count("crashes")
  /\ \E carried \in {{}, IF pc = "request" /\ part = 1 THEN Unit ELSE {}} :
       copies' = Added(copies, carried)
  /\ End("crashed")
  /\ UNCHANGED <<setting, database, force, report, extra>>

\* The user puts a missing file where it belongs.
Repair(m) ==
  /\ m \in missing
  /\ Count("repairs")
  /\ missing' = missing \ {m}
  /\ UNCHANGED <<scenario, parts, database, copies, place, force, sending, report, extra>>
-----------------------------------------------------------------------------
Init ==
  /\ scenario \in Scenarios
  /\ parts = SplitText(scenario.text)
  /\ missing = scenario.missing
  /\ receipt = [m \in Msgs |-> "none"] /\ mapping = [m \in Msgs |-> 0]
  /\ copies = [m \in Msgs |-> 0]
  /\ pc = "idle" /\ ended = "none" /\ stop = FALSE /\ force = FALSE
  /\ groups = <<>> /\ todo = <<>>
  /\ unit = <<>> /\ guard = "fresh" /\ via = "user"
  /\ rounds = 0 /\ tries = 0 /\ part = 1 /\ answer = <<>>
  /\ report = [m \in Msgs |-> {}]
  /\ extra = [m \in Msgs |-> 0]
  /\ bounds = [b \in Limited |-> 0]

Job ==
  \/ NextGroup \/ CheckAlbum \/ CheckItem
  \/ Select \/ CannotSend \/ Prepare \/ StopSeen
  \/ Answered \/ NetworkError \/ TurnedAway \/ FloodWait \/ TooLarge \/ Refused
  \/ Confirm \/ ConfirmFails \/ Logged \/ LogFails

Next ==
  \/ \E f \in BOOLEAN : Begin(f)
  \/ Job
  \/ RequestStop \/ Crash
  \/ \E m \in missing : Repair(m)

Spec == Init /\ [][Next]_vars
-----------------------------------------------------------------------------
(* Properties.                                                              *)

\* The variables hold values of their types.
TypeOK ==
  /\ missing \subseteq Msgs
  /\ receipt \in [Msgs -> {"none", "sending", "unconfirmed"}]
  /\ mapping \in [Msgs -> Msgs \union {0}] /\ copies \in [Msgs -> Nat] /\ extra \in [Msgs -> Nat]
  /\ pc \in Labels /\ force \in BOOLEAN /\ stop \in BOOLEAN
  /\ groups \in Seq(Seq(Msgs)) /\ todo \in Seq(Msgs) /\ unit \in Seq(Msgs)
  /\ guard \in {"fresh", "prepared"} /\ via \in {"bot", "user"}
  /\ rounds \in 0..BotRounds /\ tries \in 0..NetRetries /\ answer \in Seq(Msgs \X Msgs)
  /\ part = 1 \/ part \in DOMAIN parts
  /\ report \in [Msgs -> SUBSET Results]
  /\ ended \in {"none", "completed", "stopped", "raised", "crashed"}
  /\ \A b \in Limited : bounds[b] \in 0..scenario.limits[b]

\* A message is mapped to its own copy, however short or odd an answer was.
MappingSound == \A m \in Msgs : mapping[m] \in {0, m}

\* The values have their types, and a mapping names a copy of its message.
LedgerConsistent == TypeOK /\ MappingSound

\* A message that may be in the target has a receipt or a mapping, whatever
\* answer was lost and wherever the job stopped, failed or died.
Traced == \A m \in Msgs : copies[m] > 0 => receipt[m] # "none" \/ mapping[m] # 0

\* A second copy of a message has a reason: a forced job, a request repeated
\* after a network error, or an album sent because its first member is new.
\* Stops, crashes and runs of the same export alone never double a message.
CopiesExplained == \A m \in Msgs : copies[m] <= 1 + extra[m]

AlbumOf(m) == LET G == Grouped IN G[CHOOSE g \in DOMAIN G : m \in ToSet(G[g])]

\* What a job that came to its end reports: every message once at least; one
\* that is counted as sent is mapped; one in doubt is counted as such or as
\* failed; one that is skipped was filtered or is mapped, or its album was
\* skipped for a blocked member or for its first.
ReportSound ==
  ended = "completed" => \A m \in Msgs : Message(m).kind # "service" =>
    /\ report[m] # {}
    /\ "sent_mapped" \in report[m] => mapping[m] # 0
    /\ receipt[m] # "none" => report[m] \subseteq {"sent_unmapped", "failed"}
    /\ "skipped" \in report[m] =>
         \/ Fate(m) # "wanted" \/ mapping[m] # 0
         \/ mapping[AlbumOf(m)[1]] # 0
         \/ \E n \in ToSet(AlbumOf(m)) : Fate(n) = "blocked"

\* Every export is cut into albums as the rules for albums say. (The export and
\* the text never change: both are looked at before the first job.)
GroupsSound == bounds["jobs"] = 0 => WellGrouped(scenario.messages, Grouped)

\* Every text is cut into balanced parts within the limit.
PartsSound == bounds["jobs"] = 0 => WellSplit(scenario.text, parts)

\* What the pure part of the import computes is what it must.
CutsSound == GroupsSound /\ PartsSound

\* docs/usage.md:93: a rerun skips messages that were confirmed.
ConfirmedNotResent ==
  [][\A m \in Msgs : ~force /\ pc # "idle" /\ mapping[m] # 0 => copies'[m] = copies[m]]_vars

\* docs/usage.md:93 has a rerun skip what was confirmed. It does, but for this: a
\* job that is not forced sends a mapped message again in an album whose first
\* member is not mapped, and in no other way.
RepeatedInAlbum ==
  [][\A m \in Msgs : ~force /\ mapping[m] # 0 /\ copies'[m] # copies[m] =>
       ~Single /\ m \in Unit /\ m # unit[1] /\ mapping[unit[1]] = 0]_vars
-----------------------------------------------------------------------------
(* What an import promises, seen from outside.                              *)

AllMsgs == UNION {DOMAIN s.messages : s \in Scenarios}

\* A mapping outranks a receipt, as in Delivery.
Status(m) == IF m \notin Msgs THEN "open"
             ELSE IF mapping[m] # 0 THEN "confirmed"
             ELSE IF receipt[m] # "none" THEN "inDoubt" ELSE "open"

Promise == INSTANCE DeliveryLedger
             WITH Msgs       <- AllMsgs,
                  status     <- [m \in AllMsgs |-> Status(m)],
                  posted     <- {m \in Msgs : copies[m] > 0},
                  overridden <- {}

\* The import keeps the promise of DeliveryLedger, forced or not, without ever
\* overriding it: a message is in doubt before it can be in the target, confirmed
\* only if it is there, and then for good; a doubt ends in no other way unless the
\* message never got there.
ImplementsLedger == Promise!Spec
=============================================================================
