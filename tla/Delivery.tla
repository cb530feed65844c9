------------------------------ MODULE Delivery ------------------------------
(***************************************************************************)
(* Delivery of source messages to one target under a persistent ledger of   *)
(* receipts and mappings (database.py, sync_worker/runtime/state.py,        *)
(* sync_single_message and sync_media_group of clone/process.py).           *)
(*                                                                          *)
(* A worker is a caller of those two functions: the history job, the public *)
(* channel poller.  Workers run on one event loop; every await is a point   *)
(* where another worker may run, every database call is one transaction.    *)
(* One (source, target, owner) triple is modelled: rows of different        *)
(* triples never meet.                                                      *)
(***************************************************************************)
EXTENDS Integers, Sequences, FiniteSets

CONSTANTS
  Msgs,          \* ids of the source messages
  Workers,       \* concurrent callers of the sync functions
  Groups,        \* message groups a caller may pass: sequences over Msgs
  Dropped,       \* messages a filter rule blocks
  Modes,         \* "api" (copy on the server) and/or "clone" (download, upload)
  Forces,        \* values of force_send a caller may pass
  NetRetries,    \* NETWORK_RETRY_MAX_RETRIES: repeats after a network error
  GroupRounds,   \* rounds of the API album loop
  CloneRounds,   \* rounds of the clone upload loop, fallback rounds included
  MaxFloods,     \* bound: flood waits during one clone operation
  MaxOps,        \* bound: operations started
  MaxCrashes,    \* bound: process deaths
  MaxStops       \* bound: stop requests

ASSUME DeliveryAssumption ==
  /\ Groups \subseteq Seq(Msgs)
  /\ \A g \in Groups : /\ g # <<>>
                       /\ \A i, j \in DOMAIN g : g[i] = g[j] => i = j
  /\ Modes \subseteq {"api", "clone"}
  /\ Forces \subseteq BOOLEAN
  /\ {NetRetries, MaxFloods, MaxOps, MaxCrashes, MaxStops} \subseteq Nat
  /\ {GroupRounds, CloneRounds} \subseteq Nat \ {0}

VARIABLES
  mapping,       \* message_mappings: target message id of a source message, 0 if none
  receipt,       \* message_sync_receipts: "none", "sending" or "unconfirmed"
  target,        \* the target channel: message id i is a copy of target[i]
  orphans,       \* requests nobody waits for that Telegram may still carry out
  protected,     \* the source forbids forwarding
  stopRequested, \* sync_state["stop_requested"], shared by every worker
  pc,            \* where a worker is in its operation
  job,           \* the arguments of the operation
  idx,           \* position in the loop over the members
  todo,          \* members without mapping: what the operation sends
  blocked,       \* a member has a pending receipt
  guard,         \* the operation's DeliveryGuard
  wire,          \* the outstanding request: "none", "sent" or "accepted"
  ids,           \* target ids Telegram gave to an accepted request
  tries,         \* retry counters of the loops around the request
  result,        \* what the last operation of a worker returned
  forced,        \* history: messages a forced operation has reserved
  ambiguous,     \* history: requests for a message that ended in an error which leaves
                 \* open whether Telegram carried them out
  ops, crashes, stops \* counted against MaxOps, MaxCrashes, MaxStops

ledger  == <<mapping, receipt>>
remote  == <<target, orphans>>
members == <<job, idx, todo, blocked>>
request == <<wire, ids>>
history == <<forced, ambiguous>>
bounds  == <<ops, crashes, stops>>
vars    == <<ledger, remote, protected, stopRequested, pc, members, guard,
             request, tries, result, history, bounds>>
-----------------------------------------------------------------------------
Elems(s) == {s[i] : i \in DOMAIN s}

PCs      == {"idle", "filter", "check", "checkMapping", "send", "issue",
             "calling", "confirm", "mark", "release"}
Results  == {"none", "sent_mapped", "sent_unmapped", "skipped", "failed", "raised"}
Receipts == {"none", "sending", "unconfirmed"}

Job   == [group : Seq(Msgs), force : BOOLEAN, mode : {"api", "clone"}]
Guard == [prepared : BOOLEAN, unconfirmed : BOOLEAN, hasResult : BOOLEAN, answer : Seq(Nat)]
Tries == [net : Nat, round : Nat, flood : Nat]

FreshGuard == [prepared |-> FALSE, unconfirmed |-> FALSE, hasResult |-> FALSE, answer |-> <<>>]
FreshTries == [net |-> 0, round |-> 1, flood |-> 0]

PreparedGuard == [FreshGuard EXCEPT !.prepared = TRUE]
DoubtfulGuard == [FreshGuard EXCEPT !.unconfirmed = TRUE]
\* Mutant: the answer is not kept for the next call.
AnswerForgotten(g, a) ==
  [prepared |-> g.prepared, unconfirmed |-> g.unconfirmed, hasResult |-> FALSE, answer |-> a]

AnsweredGuard(g, a) ==
  [prepared |-> g.prepared, unconfirmed |-> g.unconfirmed, hasResult |-> TRUE, answer |-> a]

\* Mutant: the loop does not count its rounds.
AfterRoundUncounted(t) == [net |-> 0, round |-> t.round, flood |-> t.flood]

\* Mutant: the budget counts down.
AfterNetErrorDown(t) == [net |-> t.net - 1, round |-> t.round, flood |-> t.flood]

\* Every new round, and every new call after a flood wait, starts its own
\* execute_with_network_retry.
AfterRound(t)    == [net |-> 0, round |-> t.round + 1, flood |-> t.flood]
AfterFlood(t)    == [net |-> 0, round |-> t.round, flood |-> t.flood + 1]
AfterNetError(t) == [net |-> t.net + 1, round |-> t.round, flood |-> t.flood]

\* A lone message goes through sync_single_message, an album through
\* sync_media_group; an album with one member left is sent as a single message.
Album(w)      == Len(job[w].group) > 1
SendsAlbum(w) == Len(todo[w]) > 1

Rounds(w) == IF job[w].mode = "clone" THEN CloneRounds
             ELSE IF SendsAlbum(w) THEN GroupRounds ELSE 1

Refused(w) == protected /\ job[w].mode = "api"

-----------------------------------------------------------------------------
(* Ends of an operation and of a round.                                     *)

Finish(w, r) ==
  /\ pc'      = [pc EXCEPT ![w] = "idle"]
  /\ result'  = [result EXCEPT ![w] = r]
  /\ idx'     = [idx EXCEPT ![w] = 1]
  /\ todo'    = [todo EXCEPT ![w] = <<>>]
  /\ blocked' = [blocked EXCEPT ![w] = FALSE]
  /\ guard'   = [guard EXCEPT ![w] = FreshGuard]
  /\ tries'   = [tries EXCEPT ![w] = FreshTries]
  /\ wire'    = [wire EXCEPT ![w] = "none"]
  /\ ids'     = [ids EXCEPT ![w] = <<>>]
  /\ UNCHANGED job

Goto(w, label) ==
  /\ pc' = [pc EXCEPT ![w] = label]
  /\ UNCHANGED result

\* The request is over, nothing else about the operation changes.
CloseRequest(w) ==
  /\ wire' = [wire EXCEPT ![w] = "none"]
  /\ ids'  = [ids EXCEPT ![w] = <<>>]

\* What the loops around the request return when they end without an answer.
\* The last album upload, through the user account, lets its error escape.
GiveUp(w) ==
  \/ Finish(w, "failed")
  \/ /\ SendsAlbum(w)
     /\ job[w].mode = "clone"
     /\ Finish(w, "raised")

AnotherRound(w, g) ==
  /\ tries[w].round < Rounds(w)
  /\ Goto(w, "send")
  /\ tries' = [tries EXCEPT ![w] = AfterRound(tries[w])]
  /\ guard' = [guard EXCEPT ![w] = g]
  /\ idx'   = [idx EXCEPT ![w] = 1]
  /\ CloseRequest(w)
  /\ UNCHANGED <<job, todo, blocked>>

\* An error the loop retries.  A clone may have fewer rounds: a text has one, a
\* file that is too large ends a loop.
NextRound(w, g) ==
  \/ AnotherRound(w, g)
  \/ /\ tries[w].round >= Rounds(w) \/ job[w].mode = "clone"
     /\ GiveUp(w)

\* The caller stops waiting: a request not yet accepted may still be, unless
\* Telegram refuses it anyway.
Abandon(w) ==
  /\ UNCHANGED target
  /\ \/ UNCHANGED orphans
     \/ /\ wire[w] = "sent"
        /\ ~Refused(w)
        /\ orphans' = orphans \union {todo[w]}
-----------------------------------------------------------------------------
(* Before the send: filters, pending receipts, existing mappings.           *)

StartOp(w) ==
  /\ pc[w] = "idle"
  /\ ops < MaxOps
  /\ \E g \in Groups, f \in Forces, m \in Modes :
       /\ job' = [job EXCEPT ![w] = [group |-> g, force |-> f, mode |-> m]]
       /\ pc'  = [pc EXCEPT ![w] = IF Len(g) = 1 THEN "filter" ELSE "check"]
  /\ result' = [result EXCEPT ![w] = "none"]
  /\ ops' = ops + 1
  /\ UNCHANGED <<ledger, remote, protected, stopRequested, idx, todo, blocked,
                 guard, request, tries, history, crashes, stops>>

\* apply_message_filters on a lone message, before its checks, and on every
\* member of an album, after them: one blocked member drops the album.
Filter(w) ==
  /\ pc[w] = "filter"
  /\ IF Elems(job[w].group) \cap Dropped # {}
       THEN Finish(w, "skipped")
       ELSE /\ Goto(w, IF Album(w) THEN "send" ELSE "check")
            /\ UNCHANGED <<members, guard, request, tries>>
  /\ UNCHANGED <<ledger, remote, protected, stopRequested, history, bounds>>

\* update_state_and_check_skip, first read: a pending receipt.
CheckReceipt(w) ==
  LET m == job[w].group[idx[w]] IN
  /\ pc[w] = "check"
  /\ idx[w] <= Len(job[w].group)
  /\ \/ /\ job[w].force
        /\ todo' = [todo EXCEPT ![w] = Append(@, m)]
        /\ idx'  = [idx EXCEPT ![w] = @ + 1]
        /\ UNCHANGED <<pc, blocked>>
     \/ /\ ~job[w].force
        /\ receipt[m] # "none"
        /\ blocked' = [blocked EXCEPT ![w] = TRUE]
        /\ idx'     = [idx EXCEPT ![w] = @ + 1]
        /\ UNCHANGED <<pc, todo>>
     \/ /\ ~job[w].force
        /\ receipt[m] = "none"
        /\ pc' = [pc EXCEPT ![w] = "checkMapping"]
        /\ UNCHANGED <<idx, todo, blocked>>
  /\ UNCHANGED <<ledger, remote, protected, stopRequested, job, guard, request,
                 tries, result, history, bounds>>

\* Mutant: an album is sent again with the members that have arrived.
PendingWhole(w, m) == Append(todo[w], m)

\* The members to send, once m has been looked up.
Pending(w, m) == IF mapping[m] = 0 THEN Append(todo[w], m) ELSE todo[w]

\* update_state_and_check_skip, second read: is_message_synced.
CheckMapping(w) ==
  /\ pc[w] = "checkMapping"
  /\ todo' = [todo EXCEPT ![w] = Pending(w, job[w].group[idx[w]])]
  /\ idx'  = [idx EXCEPT ![w] = @ + 1]
  /\ pc'   = [pc EXCEPT ![w] = "check"]
  /\ UNCHANGED <<ledger, remote, protected, stopRequested, job, blocked, guard,
                 request, tries, result, history, bounds>>

\* Mutant: the empty list is looked at before the blocked members.
VerdictSwapped(w) == IF todo[w] = <<>> THEN "skipped"
                     ELSE IF blocked[w] THEN "sent_unmapped" ELSE "none"

\* One pending member blocks the whole group; a group with nothing left to
\* send is skipped.
Verdict(w) == IF blocked[w] THEN "sent_unmapped"
              ELSE IF todo[w] = <<>> THEN "skipped" ELSE "none"

Checked(w) ==
  /\ pc[w] = "check"
  /\ idx[w] > Len(job[w].group)
  /\ \/ /\ Verdict(w) # "none"
        /\ Finish(w, Verdict(w))
     \/ /\ Verdict(w) = "none"
        /\ Goto(w, IF Album(w) THEN "filter" ELSE "send")
        /\ idx' = [idx EXCEPT ![w] = 1]
        /\ UNCHANGED <<job, todo, blocked, guard, request, tries>>
  /\ UNCHANGED <<ledger, remote, protected, stopRequested, history, bounds>>

-----------------------------------------------------------------------------
(* DeliveryGuard.send and the request.                                      *)

\* The loops look at stop_requested before a round and return what they have;
\* for an album safe_execute, which looks again, raises.
StopOutcomes(w) ==
  IF guard[w].hasResult THEN {"sent_mapped"}
  ELSE IF guard[w].unconfirmed THEN {"failed", "sent_unmapped"}
  ELSE IF SendsAlbum(w) THEN {"failed", "raised"} ELSE {"failed"}

StopBeforeSend(w) ==
  /\ pc[w] = "send"
  /\ stopRequested
  /\ \E r \in StopOutcomes(w) : Finish(w, r)
  /\ UNCHANGED <<ledger, remote, protected, stopRequested, history, bounds>>

\* An operation marked unconfirmed never sends again; one that has an answer
\* reuses it; one that has its reservation goes straight to the request.
GuardEnter(w) ==
  /\ pc[w] = "send"
  /\ ~stopRequested
  /\ CASE guard[w].unconfirmed -> Finish(w, "raised")
       [] ~guard[w].unconfirmed /\ guard[w].hasResult ->
            /\ Goto(w, "confirm")
            /\ UNCHANGED <<members, guard, request, tries>>
       [] ~guard[w].unconfirmed /\ ~guard[w].hasResult /\ guard[w].prepared ->
            /\ Goto(w, "issue")
            /\ UNCHANGED <<members, guard, request, tries>>
       [] OTHER -> FALSE
  /\ UNCHANGED <<ledger, remote, protected, stopRequested, history, bounds>>

NeedsReservation(w) ==
  /\ pc[w] = "send"
  /\ ~stopRequested
  /\ guard[w] = FreshGuard

\* Mutants: a receipt in one of its two states does not count.
ReservableSending(w) ==
  job[w].force \/ \A m \in Elems(todo[w]) : receipt[m] # "unconfirmed"
ReservableUnconfirmed(w) ==
  job[w].force \/ \A m \in Elems(todo[w]) : receipt[m] # "sending"

Reservable(w) ==
  job[w].force \/ \A m \in Elems(todo[w]) : receipt[m] = "none"

\* Mutant: only the first member of an album gets a receipt.
ReservedFirst(w) == [receipt EXCEPT ![todo[w][1]] = "sending"]

Reserved(w) ==
  [m \in Msgs |-> IF m \in Elems(todo[w]) THEN "sending" ELSE receipt[m]]

\* prepare_message_delivery: one transaction over every member.  It looks at
\* receipts, not at mappings.
Prepare(w) ==
  /\ NeedsReservation(w)
  /\ Reservable(w)
  /\ receipt' = Reserved(w)
  /\ guard'   = [guard EXCEPT ![w] = PreparedGuard]
  /\ forced'  = IF job[w].force THEN forced \union Elems(todo[w]) ELSE forced
  /\ Goto(w, "issue")
  /\ UNCHANGED <<mapping, remote, protected, stopRequested, members, request,
                 tries, ambiguous, bounds>>

\* SyncDeliveryPendingError.  The loops around the upload of a lone file take it
\* for an error like any other.
PrepareRefused(w) ==
  /\ NeedsReservation(w)
  /\ ~Reservable(w)
  /\ \/ Finish(w, "raised")
     \/ /\ job[w].mode = "clone" /\ ~SendsAlbum(w)
        /\ NextRound(w, guard[w])
  /\ UNCHANGED <<ledger, remote, protected, stopRequested, history, bounds>>

\* There is nothing to send: the download failed, the media has no file id.
MediaUnavailable(w) ==
  /\ NeedsReservation(w)
  /\ tries[w] = FreshTries
  /\ Finish(w, "failed") \/ Finish(w, "raised")
  /\ UNCHANGED <<ledger, remote, protected, stopRequested, history, bounds>>

\* The reservation transaction, or a step before it, fails and is rolled back.
PrepareFails(w) ==
  /\ NeedsReservation(w)
  /\ NextRound(w, guard[w])
  /\ UNCHANGED <<ledger, remote, protected, stopRequested, history, bounds>>

Issue(w) ==
  /\ pc[w] = "issue"
  /\ wire' = [wire EXCEPT ![w] = "sent"]
  /\ Goto(w, "calling")
  /\ UNCHANGED <<ledger, remote, protected, stopRequested, members, guard, ids,
                 tries, history, bounds>>

\* A stop request found while the request is not sent yet or not answered: the
\* task is cancelled, which does not take the request back.
StopWhileSending(w) ==
  /\ pc[w] \in {"issue", "calling"}
  /\ stopRequested
  /\ Finish(w, IF SendsAlbum(w) THEN "raised" ELSE "failed")
  /\ Abandon(w)
  /\ UNCHANGED <<ledger, protected, stopRequested, history, bounds>>

-----------------------------------------------------------------------------
(* Telegram.                                                                *)

\* Telegram copies the members into the target, in order.
Accept(w) ==
  /\ wire[w] = "sent"
  /\ ~Refused(w)
  /\ target' = target \o todo[w]
  /\ ids'    = [ids EXCEPT ![w] = [i \in 1..Len(todo[w]) |-> Len(target) + i]]
  /\ wire'   = [wire EXCEPT ![w] = "accepted"]
  /\ UNCHANGED <<ledger, orphans, protected, stopRequested, pc, members, guard,
                 tries, result, history, bounds>>

AcceptOrphan ==
  /\ \E o \in orphans : /\ target'  = target \o o
                        /\ orphans' = orphans \ {o}
  /\ UNCHANGED <<ledger, protected, stopRequested, pc, members, guard, request,
                 tries, result, history, bounds>>

LoseOrphan ==
  /\ \E o \in orphans : orphans' = orphans \ {o}
  /\ UNCHANGED <<ledger, target, protected, stopRequested, pc, members, guard,
                 request, tries, result, history, bounds>>
-----------------------------------------------------------------------------
(* Answers.                                                                 *)

Answered(w, a) ==
  /\ guard' = [guard EXCEPT ![w] = AnsweredGuard(guard[w], a)]
  /\ CloseRequest(w)
  /\ Goto(w, "confirm")
  /\ UNCHANGED <<ledger, remote, protected, stopRequested, members, tries, history, bounds>>

ReplyOk(w) ==
  /\ wire[w] = "accepted"
  /\ Answered(w, ids[w])

\* An answer that lacks members, or carries an id that is no id or is repeated.
ReplyPartial(w) ==
  /\ wire[w] = "accepted"
  /\ \/ \E i \in 1..Len(ids[w]), j \in 0..Len(ids[w]) :
          /\ <<i, j>> # <<1, Len(ids[w])>>
          /\ Answered(w, SubSeq(ids[w], i, j))
     \/ \E i, j \in 1..Len(ids[w]) :
          Answered(w, [ids[w] EXCEPT ![i] = IF i = j THEN 0 ELSE ids[w][j]])

\* The client library cannot parse the answer (_is_topics_parse_error).
ReplyUnparsable(w) ==
  /\ wire[w] = "accepted"
  /\ CloseRequest(w)
  /\ Goto(w, "mark")
  /\ UNCHANGED <<ledger, remote, protected, stopRequested, members, guard, tries,
                 history, bounds>>

Doubted(w) ==
  [m \in Msgs |-> IF m \in Elems(todo[w]) THEN ambiguous[m] + 1 ELSE ambiguous[m]]

\* execute_with_network_retry: the request may have arrived or not.
NetworkError(w) ==
  /\ wire[w] # "none"
  /\ Abandon(w)
  /\ ambiguous' = Doubted(w)
  /\ IF tries[w].net < NetRetries
       THEN /\ tries' = [tries EXCEPT ![w] = AfterNetError(tries[w])]
            /\ CloseRequest(w)
            /\ Goto(w, "send")
            /\ UNCHANGED <<members, guard>>
       ELSE Finish(w, "raised")
  /\ UNCHANGED <<ledger, protected, stopRequested, forced, bounds>>

\* _execute_with_clone_retry_interruptibly waits and calls again, with a fresh
\* budget of network retries.
FloodWait(w) ==
  /\ wire[w] = "sent"
  /\ job[w].mode = "clone"
  /\ tries[w].flood < MaxFloods
  /\ tries' = [tries EXCEPT ![w] = AfterFlood(tries[w])]
  /\ CloseRequest(w)
  /\ Goto(w, "send")
  /\ UNCHANGED <<ledger, remote, protected, stopRequested, members, guard, history, bounds>>

\* An error that execute_with_network_retry does not know, such as that of a
\* gateway, may also come after the request was carried out.  The loops send
\* again under the same reservation.
UnknownError(w) ==
  /\ wire[w] # "none"
  /\ Abandon(w)
  /\ ambiguous' = Doubted(w)
  /\ NextRound(w, guard[w])
  /\ UNCHANGED <<ledger, protected, stopRequested, forced, bounds>>

\* Telegram refuses the request.
Reject(w) ==
  /\ wire[w] = "sent"
  /\ NextRound(w, guard[w])
  /\ UNCHANGED <<ledger, remote, protected, stopRequested, history, bounds>>

Restricted(w) ==
  /\ wire[w] = "sent"
  /\ Refused(w)
  /\ CloseRequest(w)
  /\ Goto(w, "release")
  /\ UNCHANGED <<ledger, remote, protected, stopRequested, members, guard, tries, history, bounds>>

\* DeliveryGuard.release after CHAT_FORWARDS_RESTRICTED, then RuntimeError.  The
\* delete may fail, which raises too and keeps the receipts.
Release(w) ==
  /\ pc[w] = "release"
  /\ \/ UNCHANGED receipt
     \/ receipt' = [m \in Msgs |-> IF m \in Elems(todo[w]) THEN "none" ELSE receipt[m]]
  /\ Finish(w, "raised")
  /\ UNCHANGED <<mapping, remote, protected, stopRequested, history, bounds>>

-----------------------------------------------------------------------------
(* After the answer.                                                        *)

\* Mutant: repeated ids pass.
CompleteRepeated(w) ==
  LET a == guard[w].answer IN
  Len(a) = Len(todo[w]) /\ \A i \in DOMAIN a : a[i] > 0

\* _confirm_media_group, _sent_message_id: one positive id per member, no repeats.
Complete(w) ==
  LET a == guard[w].answer IN
  /\ Len(a) = Len(todo[w])
  /\ \A i \in DOMAIN a : a[i] > 0
  /\ \A i, j \in DOMAIN a : a[i] = a[j] => i = j

AnswerIncomplete(w) ==
  /\ pc[w] = "confirm"
  /\ ~Complete(w)
  /\ Goto(w, "mark")
  /\ UNCHANGED <<ledger, remote, protected, stopRequested, members, guard, request,
                 tries, history, bounds>>

\* Mutant: the last member is taken for recorded.
AllRecordedEarly(w) == Complete(w) /\ idx[w] >= Len(todo[w])

AllRecorded(w) == Complete(w) /\ idx[w] > Len(todo[w])

\* Mutant: every member gets the id of the first.
AnswerHead(w) == guard[w].answer[1]

AnswerFor(w) == guard[w].answer[idx[w]]

\* record_success for the next member: mapping and receipt in one transaction.
ConfirmMember(w) ==
  LET m == todo[w][idx[w]] IN
  /\ pc[w] = "confirm"
  /\ Complete(w) /\ ~AllRecorded(w)
  /\ mapping' = [mapping EXCEPT ![m] = IF @ = 0 \/ job[w].force THEN AnswerFor(w) ELSE @]
  /\ receipt' = [receipt EXCEPT ![m] = "none"]
  /\ idx'     = [idx EXCEPT ![w] = @ + 1]
  /\ UNCHANGED <<remote, protected, stopRequested, pc, job, todo, blocked, guard,
                 request, tries, result, history, bounds>>

\* Three failed writes: SyncMappingPersistenceError, re-raised by every caller.
ConfirmFails(w) ==
  /\ pc[w] = "confirm"
  /\ Complete(w) /\ ~AllRecorded(w)
  /\ Finish(w, "raised")
  /\ UNCHANGED <<ledger, remote, protected, stopRequested, history, bounds>>

Confirmed(w) ==
  /\ pc[w] = "confirm"
  /\ AllRecorded(w)
  /\ Finish(w, "sent_mapped")
  /\ UNCHANGED <<ledger, remote, protected, stopRequested, history, bounds>>

\* The log write after the confirmation fails: a lone message is reported as
\* failed, an album goes round again and confirms the answer it has a second
\* time.  After the last round it returns the result it already had.
LogFails(w) ==
  /\ pc[w] = "confirm"
  /\ AllRecorded(w)
  /\ \/ ~SendsAlbum(w) /\ Finish(w, "failed")
     \/ SendsAlbum(w) /\ AnotherRound(w, guard[w])
     \/ /\ SendsAlbum(w)
        /\ tries[w].round >= Rounds(w)
        /\ Finish(w, "sent_mapped") \/ (job[w].mode = "clone" /\ Finish(w, "raised"))
  /\ UNCHANGED <<ledger, remote, protected, stopRequested, history, bounds>>

\* DeliveryGuard.mark_unconfirmed: the flags change before the database does.
\* An error inside _confirm_media_group is retried by the album loop, any other
\* escapes.
MarkError(w) ==
  IF SendsAlbum(w) /\ guard[w].hasResult
    THEN NextRound(w, DoubtfulGuard)
    ELSE Finish(w, "raised")

\* Mutant: the receipts are deleted.
MarkedGone(w) == [m \in Msgs |-> IF m \in Elems(todo[w]) THEN "none" ELSE receipt[m]]

\* The update touches the receipts that exist.
Marked(w) ==
  [m \in Msgs |-> IF m \in Elems(todo[w]) /\ receipt[m] # "none" THEN "unconfirmed" ELSE receipt[m]]

\* The log write after the update may fail.
Mark(w) ==
  /\ pc[w] = "mark"
  /\ receipt' = Marked(w)
  /\ Finish(w, "sent_unmapped") \/ MarkError(w)
  /\ UNCHANGED <<mapping, remote, protected, stopRequested, history, bounds>>

MarkFails(w) ==
  /\ pc[w] = "mark"
  /\ MarkError(w)
  /\ UNCHANGED <<ledger, remote, protected, stopRequested, history, bounds>>

-----------------------------------------------------------------------------
(* The user and the machine.                                                *)

RequestStop ==
  /\ ~stopRequested
  /\ stops < MaxStops
  /\ stopRequested' = TRUE
  /\ stops' = stops + 1
  /\ UNCHANGED <<ledger, remote, protected, pc, members, guard, request, tries,
                 result, history, ops, crashes>>

\* finish_sync_session, start_sync_session: the flag falls when the history job
\* ends, whatever other workers are doing.
ClearStop ==
  /\ stopRequested
  /\ stopRequested' = FALSE
  /\ UNCHANGED <<ledger, remote, protected, pc, members, guard, request, tries,
                 result, history, bounds>>

FreshJob == [group |-> <<>>, force |-> FALSE, mode |-> "api"]

\* The process dies: only the database and Telegram outlive it.
Crash ==
  /\ crashes < MaxCrashes
  /\ \E w \in Workers : pc[w] # "idle"
  /\ pc'      = [w \in Workers |-> "idle"]
  /\ job'     = [w \in Workers |-> FreshJob]
  /\ idx'     = [w \in Workers |-> 1]
  /\ todo'    = [w \in Workers |-> <<>>]
  /\ blocked' = [w \in Workers |-> FALSE]
  /\ guard'   = [w \in Workers |-> FreshGuard]
  /\ wire'    = [w \in Workers |-> "none"]
  /\ ids'     = [w \in Workers |-> <<>>]
  /\ tries'   = [w \in Workers |-> FreshTries]
  /\ result'  = [w \in Workers |-> "none"]
  /\ stopRequested' = FALSE
  /\ \E S \in SUBSET {w \in Workers : wire[w] = "sent" /\ ~Refused(w)} :
       orphans' = orphans \union {todo[w] : w \in S}
  /\ crashes' = crashes + 1
  /\ UNCHANGED <<ledger, target, protected, history, ops, stops>>

Init ==
  /\ mapping   = [m \in Msgs |-> 0]
  /\ receipt   = [m \in Msgs |-> "none"]
  /\ target    = <<>>
  /\ orphans   = {}
  /\ protected \in BOOLEAN
  /\ stopRequested = FALSE
  /\ pc        = [w \in Workers |-> "idle"]
  /\ job       = [w \in Workers |-> FreshJob]
  /\ idx       = [w \in Workers |-> 1]
  /\ todo      = [w \in Workers |-> <<>>]
  /\ blocked   = [w \in Workers |-> FALSE]
  /\ guard     = [w \in Workers |-> FreshGuard]
  /\ wire      = [w \in Workers |-> "none"]
  /\ ids       = [w \in Workers |-> <<>>]
  /\ tries     = [w \in Workers |-> FreshTries]
  /\ result    = [w \in Workers |-> "none"]
  /\ forced    = {}
  /\ ambiguous = [m \in Msgs |-> 0]
  /\ ops = 0 /\ crashes = 0 /\ stops = 0

Work(w) ==
  \/ Filter(w) \/ CheckReceipt(w) \/ CheckMapping(w) \/ Checked(w)
  \/ StopBeforeSend(w) \/ GuardEnter(w)
  \/ MediaUnavailable(w) \/ Prepare(w) \/ PrepareRefused(w) \/ PrepareFails(w)
  \/ Issue(w) \/ StopWhileSending(w)
  \/ Release(w) \/ AnswerIncomplete(w)
  \/ ConfirmMember(w) \/ ConfirmFails(w) \/ Confirmed(w) \/ LogFails(w)
  \/ Mark(w) \/ MarkFails(w)

Answer(w) ==
  \/ ReplyOk(w) \/ ReplyPartial(w) \/ ReplyUnparsable(w)
  \/ NetworkError(w) \/ UnknownError(w) \/ FloodWait(w) \/ Reject(w) \/ Restricted(w)

Next ==
  \/ \E w \in Workers : StartOp(w) \/ Work(w) \/ Accept(w) \/ Answer(w)
  \/ AcceptOrphan \/ LoseOrphan
  \/ RequestStop \/ ClearStop \/ Crash

Spec == Init /\ [][Next]_vars

\* A started operation keeps running, and a request that is out ends: the client
\* library answers it or times out.
FairSpec ==
  Spec /\ \A w \in Workers : WF_vars(Work(w)) /\ WF_vars(Answer(w))
-----------------------------------------------------------------------------
(* Properties.                                                              *)

SharedTypeOK ==
  /\ mapping       \in [Msgs -> Nat]
  /\ receipt       \in [Msgs -> Receipts]
  /\ target        \in Seq(Msgs)
  /\ orphans       \subseteq Seq(Msgs)
  /\ protected     \in BOOLEAN
  /\ stopRequested \in BOOLEAN
  /\ forced        \subseteq Msgs
  /\ ambiguous     \in [Msgs -> Nat]
  /\ ops \in Nat /\ crashes \in Nat /\ stops \in Nat

WorkerTypeOK ==
  /\ pc            \in [Workers -> PCs]
  /\ job           \in [Workers -> Job]
  /\ idx           \in [Workers -> Nat \ {0}]
  /\ todo          \in [Workers -> Seq(Msgs)]
  /\ blocked       \in [Workers -> BOOLEAN]
  /\ guard         \in [Workers -> Guard]
  /\ wire          \in [Workers -> {"none", "sent", "accepted"}]
  /\ ids           \in [Workers -> Seq(Nat)]
  /\ tries         \in [Workers -> Tries]
  /\ result        \in [Workers -> Results]

\* Every variable has its type: the ledger and the channel, and what each worker
\* keeps of its operation.
TypeOK == SharedTypeOK /\ WorkerTypeOK

\* The member whose mapping is read exists.
PositionOK ==
  \A w \in Workers : pc[w] = "checkMapping" => idx[w] <= Len(job[w].group)

\* A copy of m is in the target, or a request that may still put one there is out.
Exposed(m) ==
  \/ m \in Elems(target)
  \/ \E o \in orphans : m \in Elems(o)
  \/ \E w \in Workers : wire[w] = "sent" /\ ~Refused(w) /\ m \in Elems(todo[w])

\* The database knows of an attempt to send m.
Traced(m) == mapping[m] # 0 \/ receipt[m] # "none"

\* A message that is in the target, or may still get there, has a mapping or a
\* receipt, whatever crashed, failed or was stopped since: a rerun never takes
\* it for a new one.  Forced operations override receipts and are exempt.
ExposedIsTraced == \A m \in Msgs \ forced : Exposed(m) => Traced(m)

\* A mapping names a message of the target that is a copy of its source: replies
\* and edits that resolve through it reach the right message, whatever was
\* missing from an album's answer.
MappingSound ==
  \A m \in Msgs : mapping[m] # 0 =>
    mapping[m] \in DOMAIN target /\ target[mapping[m]] = m

\* Two operations hold a reservation of the same unconfirmed message only if a
\* forced one is involved.
ReservationExclusive ==
  \A v, w \in Workers : \A m \in Msgs \ forced :
    /\ v # w
    /\ guard[v].prepared /\ guard[w].prepared
    /\ m \in Elems(todo[v]) \cap Elems(todo[w])
    => mapping[m] # 0

\* What an operation reports is true of the ledger: sent_mapped says that every
\* member has a mapping, skipped that nothing was left to send.
ReportSound ==
  \A w \in Workers :
    LET group == Elems(job[w].group) IN
    /\ result[w] = "sent_mapped" => \A m \in group : mapping[m] # 0
    /\ result[w] = "skipped" =>
         group \cap Dropped # {} \/ \A m \in group : mapping[m] # 0

\* A caller also moves on after sent_unmapped.  With one worker some member then
\* has a receipt or a mapping, so the user can find the group again.
DoubtReported ==
  \A w \in Workers : result[w] = "sent_unmapped" =>
    \E m \in Elems(job[w].group) : Traced(m) \/ m \in forced

Copies(m) == Cardinality({i \in DOMAIN target : target[i] = m})

\* Without force a message is copied at most once, plus once for every request
\* for it that ended in an error which leaves open whether it was carried out:
\* no crash, stop, refused write, odd answer or rerun adds a copy.
CopiesBounded ==
  \A m \in Msgs \ forced : Copies(m) <= 1 + ambiguous[m]

\* A rerun does not send a message again that has a mapping.
ConfirmedNotResent ==
  [][\A w \in Workers : wire[w] = "none" /\ wire'[w] = "sent" /\ ~job[w].force
       => \A m \in Elems(todo[w]) : mapping[m] = 0]_vars

\* A delivery in doubt stays in doubt until it is confirmed or forced: no
\* automatic step makes the message sendable again.
UnconfirmedSticks ==
  [][\A m \in Msgs : receipt[m] = "unconfirmed" /\ m \notin forced'
       => receipt'[m] = "unconfirmed" \/ mapping'[m] # 0]_vars

\* Every operation ends.
OperationsEnd == \A w \in Workers : pc[w] # "idle" ~> pc[w] = "idle"
=============================================================================
