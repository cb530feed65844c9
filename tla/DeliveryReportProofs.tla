------------------------ MODULE DeliveryReportProofs -------------------------
(*****************************************************************************)
(* What an operation of Delivery reports is true of the ledger, and how     *)
(* often it sends.  Progress says what the loops of an operation have       *)
(* established so far; Shape is what they keep of its members.  The last    *)
(* sections are about one operation at a time, the history job alone or the *)
(* poller alone: Spent counts the copies of a message, those that may still *)
(* come included, against the requests whose fate the code cannot know.     *)
(*****************************************************************************)
EXTENDS DeliveryProofs, FiniteSetTheorems

-----------------------------------------------------------------------------
(* What an operation reports: the inductive invariant.                      *)

Mapped(m) == mapping[m] # 0

GroupMapped(w) == \A m \in Elems(job[w].group) : Mapped(m)
TodoMapped(w)  == \A i \in DOMAIN todo[w] : Mapped(todo[w][i])

\* A member that was looked at is to be sent, or needs no sending.
Settled(w, m) == m \in Elems(todo[w]) \/ Mapped(m)

Truthful(w, r) ==
  /\ r = "sent_mapped" => GroupMapped(w)
  /\ r = "skipped" => Elems(job[w].group) \cap Dropped # {} \/ GroupMapped(w)

\* The members before idx are settled, or the group is blocked.
Looked(w) ==
  blocked[w] \/ \A i \in DOMAIN job[w].group : i < idx[w] => Settled(w, job[w].group[i])

AllSettled(w) == \A m \in Elems(job[w].group) : Settled(w, m)

\* The members to send that lie before idx are recorded.
RecordedSoFar(w) == \A i \in DOMAIN todo[w] : i < idx[w] => Mapped(todo[w][i])

ProgressAt(w) ==
  /\ pc[w] \in {"idle", "filter", "send", "issue", "calling"} => idx[w] = 1
  /\ pc[w] \in {"check", "checkMapping"} => Looked(w)
  /\ pc[w] \in {"send", "issue", "calling", "confirm", "mark", "release"} => AllSettled(w)
  /\ pc[w] = "filter" /\ Album(w) => AllSettled(w)
  /\ pc[w] \in {"issue", "calling"} => ~guard[w].hasResult
  /\ pc[w] = "send" /\ guard[w].hasResult => TodoMapped(w)
  /\ pc[w] = "confirm" => RecordedSoFar(w)
  /\ Truthful(w, result[w])

Progress == \A w \in Workers : ProgressAt(w)

ReportInv == Trace /\ Progress

-----------------------------------------------------------------------------
(* Steps of others, and the ends of an operation.                           *)

\* No mapping is ever removed.
MappingGrows == \A m \in Msgs : Mapped(m) => Mapped(m)'

LEMMA Members ==
  ASSUME Typed, NEW w \in Workers
  PROVE  /\ job[w].group \in Seq(Msgs) /\ todo[w] \in Seq(Msgs)
         /\ Elems(job[w].group) \subseteq Msgs
         /\ \A i \in DOMAIN job[w].group : job[w].group[i] \in Msgs
         /\ \A i \in DOMAIN todo[w] : todo[w][i] \in Msgs
<1>1. job[w].group \in Seq(Msgs) /\ todo[w] \in Seq(Msgs)
  BY DEF Typed, WorkerTypeOK, Job
<1> QED BY <1>1 DEF Elems

\* Everything the invariant says of w survives a step that leaves w alone.
LEMMA IdleProgress ==
  ASSUME Typed, NEW w \in Workers, ProgressAt(w), MappingGrows,
         UNCHANGED <<pc[w], job[w], idx[w], todo[w], blocked[w], guard[w], result[w]>>
  PROVE  ProgressAt(w)'
<1>1. \A m \in Msgs : Settled(w, m) => Settled(w, m)'
  BY DEF Settled, MappingGrows
<1>2. Looked(w) => Looked(w)'
  BY <1>1, Members DEF Looked
<1>3. AllSettled(w) => AllSettled(w)'
  BY <1>1, Members DEF AllSettled
<1>4. TodoMapped(w) => TodoMapped(w)'
  BY Members DEF TodoMapped, MappingGrows
<1>5. RecordedSoFar(w) => RecordedSoFar(w)'
  BY Members DEF RecordedSoFar, MappingGrows
<1>6. GroupMapped(w) => GroupMapped(w)'
  BY Members DEF GroupMapped, MappingGrows
<1>7. Truthful(w, result[w]) => Truthful(w, result[w])'
  BY <1>6 DEF Truthful
<1>8. Album(w)' <=> Album(w)
  BY DEF Album
<1> QED BY <1>2, <1>3, <1>4, <1>5, <1>7, <1>8 DEF ProgressAt

\* A step of w leaves the operations of the others alone.
Aside(w) ==
  \A v \in Workers \ {w} :
    UNCHANGED <<pc[v], job[v], idx[v], todo[v], blocked[v], guard[v], result[v]>>

LEMMA AsideProgress ==
  ASSUME ReportInv, NEW w \in Workers, Aside(w), MappingGrows, ProgressAt(w)'
  PROVE  Progress'
<1>1. ASSUME NEW v \in Workers \ {w} PROVE ProgressAt(v)'
  BY IdleProgress DEF Aside, ReportInv, Trace, Progress
<1> QED BY <1>1 DEF Progress

LEMMA SameMapping ==
  ASSUME UNCHANGED mapping
  PROVE  MappingGrows
BY DEF MappingGrows, Mapped

LEMMA FinishProgress ==
  ASSUME ReportInv, NEW w \in Workers, NEW r, Finish(w, r), UNCHANGED mapping, Truthful(w, r)
  PROVE  Progress'
<1>1. pc'[w] = "idle" /\ idx'[w] = 1 /\ result'[w] = r /\ job' = job
  BY DEF Finish, ReportInv, Trace, Typed, WorkerTypeOK
<1>2. Truthful(w, result[w])'
  BY <1>1 DEF Truthful, GroupMapped, Mapped
<1>3. ProgressAt(w)'
  BY <1>1, <1>2 DEF ProgressAt
<1>4. Aside(w)
  BY DEF Finish, Aside, ReportInv, Trace, Typed, WorkerTypeOK
<1> QED BY <1>3, <1>4, AsideProgress, SameMapping

\* Most ends report nothing that has to be true of the ledger.
LEMMA FailProgress ==
  ASSUME ReportInv, NEW w \in Workers, NEW r \in {"failed", "raised", "sent_unmapped"},
         Finish(w, r), UNCHANGED mapping
  PROVE  Progress'
BY FinishProgress DEF Truthful

\* An operation keeps its members and what it last reported, and moves on.
LEMMA MoveProgress ==
  ASSUME ReportInv, NEW w \in Workers,
         UNCHANGED <<mapping, job, todo, blocked, result>>, Aside(w),
         pc'[w] \in {"send", "issue", "calling", "confirm", "mark", "release"},
         AllSettled(w),
         pc'[w] # "mark" /\ pc'[w] # "release" => idx'[w] = 1,
         pc'[w] \in {"issue", "calling"} => ~guard'[w].hasResult,
         pc'[w] = "send" /\ guard'[w].hasResult => TodoMapped(w)
  PROVE  Progress'
<1>1. AllSettled(w)' /\ (TodoMapped(w)' <=> TodoMapped(w))
  BY DEF AllSettled, Settled, TodoMapped, Mapped
<1>2. Truthful(w, result[w])'
  BY DEF Truthful, GroupMapped, Mapped, ReportInv, Progress, ProgressAt
<1>3. idx'[w] = 1 => RecordedSoFar(w)'
  BY Members DEF RecordedSoFar, ReportInv, Trace
<1>4. ProgressAt(w)'
  BY <1>1, <1>2, <1>3 DEF ProgressAt
<1> QED BY <1>4, AsideProgress, SameMapping

LEMMA AnotherRoundProgress ==
  ASSUME ReportInv, NEW w \in Workers, NEW g, AnotherRound(w, g), UNCHANGED mapping,
         AllSettled(w), g.hasResult => TodoMapped(w)
  PROVE  Progress'
<1>1. /\ pc'[w] = "send" /\ idx'[w] = 1 /\ guard'[w] = g
      /\ UNCHANGED <<job, todo, blocked, result>> /\ Aside(w)
  BY DEF AnotherRound, Goto, CloseRequest, Aside, ReportInv, Trace, Typed, WorkerTypeOK
<1> QED BY <1>1, MoveProgress

LEMMA NextRoundProgress ==
  ASSUME ReportInv, NEW w \in Workers, NEW g, NextRound(w, g), UNCHANGED mapping,
         AllSettled(w), g.hasResult => TodoMapped(w)
  PROVE  Progress'
BY AnotherRoundProgress, FailProgress DEF NextRound, GiveUp

-----------------------------------------------------------------------------
(* Before the send.                                                         *)

LEMMA StartOpProgress ==
  ASSUME ReportInv, NEW w \in Workers, StartOp(w)
  PROVE  Progress'
<1>1. /\ UNCHANGED <<mapping, idx, todo, blocked, guard>> /\ Aside(w)
      /\ result'[w] = "none" /\ idx[w] = 1
  BY DEF StartOp, ledger, Aside, ReportInv, Trace, Typed, WorkerTypeOK, Progress, ProgressAt
<1>2. PICK g \in Groups :
        /\ job'[w].group = g
        /\ pc'[w] = IF Len(g) = 1 THEN "filter" ELSE "check"
  BY DEF StartOp, ReportInv, Trace, Typed, WorkerTypeOK
<1>3. Len(g) = 1 => ~Album(w)'
  BY <1>2 DEF Album
<1>4. g \in Seq(Msgs)
  BY DeliveryAssumption DEF DeliveryAssumption
<1>5. Looked(w)'
  BY <1>1, <1>2, <1>4 DEF Looked
<1>6. ProgressAt(w)'
  BY <1>1, <1>2, <1>3, <1>5 DEF ProgressAt, Truthful
<1> QED BY <1>1, <1>6, AsideProgress, SameMapping

LEMMA FilterProgress ==
  ASSUME ReportInv, NEW w \in Workers, Filter(w)
  PROVE  Progress'
<1>1. UNCHANGED mapping /\ idx[w] = 1
  BY DEF Filter, ledger, ReportInv, Progress, ProgressAt
<1>2. CASE Elems(job[w].group) \cap Dropped # {} /\ Finish(w, "skipped")
  <2>1. Truthful(w, "skipped")
    BY <1>2 DEF Truthful
  <2> QED BY <1>1, <1>2, <2>1, FinishProgress
<1>3. CASE Goto(w, IF Album(w) THEN "send" ELSE "check") /\ UNCHANGED <<members, guard, request, tries>>
  <2>1. /\ pc'[w] = (IF Album(w) THEN "send" ELSE "check")
        /\ UNCHANGED <<job, idx, todo, blocked, guard, result>> /\ Aside(w)
    BY <1>3 DEF Goto, members, Aside, ReportInv, Trace, Typed, WorkerTypeOK
  <2>2. CASE Album(w)
    <3>1. AllSettled(w) /\ ~guard[w].hasResult
      BY <2>2 DEF Filter, ReportInv, Progress, ProgressAt, Trace, Control, ControlAt
    <3> QED BY <1>1, <2>1, <2>2, <3>1, MoveProgress
  <2>3. CASE ~Album(w)
    <3>1. Looked(w)'
      BY <1>1, <2>1, Members DEF Looked, ReportInv, Trace
    <3>2. Truthful(w, result[w])'
      BY <1>1, <2>1 DEF Truthful, GroupMapped, Mapped, ReportInv, Progress, ProgressAt
    <3>3. ProgressAt(w)'
      BY <2>1, <2>3, <3>1, <3>2 DEF ProgressAt
    <3> QED BY <1>1, <2>1, <3>3, AsideProgress, SameMapping
  <2> QED BY <2>2, <2>3
<1> QED BY <1>2, <1>3 DEF Filter

LEMMA ElemsAppend ==
  ASSUME NEW s \in Seq(Msgs), NEW m \in Msgs
  PROVE  Elems(Append(s, m)) = Elems(s) \union {m}
<1>1. \A i \in DOMAIN s : i \in DOMAIN Append(s, m) /\ Append(s, m)[i] = s[i]
  OBVIOUS
<1>2. Len(s) + 1 \in DOMAIN Append(s, m) /\ Append(s, m)[Len(s) + 1] = m
  OBVIOUS
<1>3. \A i \in DOMAIN Append(s, m) : i \in DOMAIN s \/ i = Len(s) + 1
  OBVIOUS
<1> QED BY <1>1, <1>2, <1>3 DEF Elems

\* The next member was looked at: it is appended, it is mapped, or it blocks.
LEMMA LookProgress ==
  ASSUME ReportInv, NEW w \in Workers, UNCHANGED <<mapping, job, guard, result>>, Aside(w),
         pc[w] \in {"check", "checkMapping"}, pc'[w] = "check",
         idx[w] \in DOMAIN job[w].group, idx'[w] = idx[w] + 1,
         blocked[w] => blocked'[w],
         \/ todo'[w] = Append(todo[w], job[w].group[idx[w]])
         \/ todo'[w] = todo[w] /\ (blocked'[w] \/ Mapped(job[w].group[idx[w]]))
  PROVE  Progress'
<1> DEFINE n == job[w].group[idx[w]]
<1>1. /\ job[w].group \in Seq(Msgs) /\ todo[w] \in Seq(Msgs) /\ n \in Msgs
      /\ idx[w] \in Nat \ {0}
  BY Members DEF ReportInv, Trace, Typed, WorkerTypeOK
<1>2. Elems(todo[w]) \subseteq Elems(todo'[w])
  BY <1>1, ElemsAppend
<1>3. \A m : Settled(w, m) => Settled(w, m)'
  BY <1>2 DEF Settled, Mapped
<1>4. blocked'[w] \/ n \in Elems(todo'[w]) \/ mapping'[n] # 0
  BY <1>1, ElemsAppend DEF Mapped
<1>5. Looked(w)
  BY DEF ReportInv, Progress, ProgressAt
<1>6. \A i \in DOMAIN job[w].group : i < idx[w] + 1 => i < idx[w] \/ i = idx[w]
  BY <1>1
<1>7. Looked(w)'
  BY <1>3, <1>4, <1>5, <1>6 DEF Looked, Settled, Mapped
<1>8. Truthful(w, result[w])'
  BY DEF Truthful, GroupMapped, Mapped, ReportInv, Progress, ProgressAt
<1>9. ProgressAt(w)'
  BY <1>7, <1>8 DEF ProgressAt
<1> QED BY <1>9, AsideProgress, SameMapping

LEMMA CheckProgress ==
  ASSUME ReportInv, NEW w \in Workers, CheckReceipt(w) \/ CheckMapping(w)
  PROVE  Progress'
<1>1. UNCHANGED <<mapping, job, guard, result>> /\ Aside(w) /\ pc[w] \in {"check", "checkMapping"}
  BY DEF CheckReceipt, CheckMapping, ledger, Aside, ReportInv, Trace, Typed, WorkerTypeOK
<1>2. idx[w] \in DOMAIN job[w].group
  BY Members DEF CheckReceipt, CheckMapping, PositionOK, ReportInv, Trace, Typed, WorkerTypeOK
<1>3. CASE CheckMapping(w)
  <2>1. /\ pc'[w] = "check" /\ idx'[w] = idx[w] + 1 /\ blocked' = blocked
        /\ todo'[w] = Pending(w, job[w].group[idx[w]])
    BY <1>3 DEF CheckMapping, ReportInv, Trace, Typed, WorkerTypeOK
  <2> QED BY <1>1, <1>2, <2>1, LookProgress DEF Pending, Mapped
<1>4. CASE CheckReceipt(w) /\ pc'[w] = "check"
  <2>1. /\ idx'[w] = idx[w] + 1 /\ (blocked[w] => blocked'[w])
        /\ \/ todo'[w] = Append(todo[w], job[w].group[idx[w]])
           \/ todo'[w] = todo[w] /\ blocked'[w]
    BY <1>4 DEF CheckReceipt, ReportInv, Trace, Typed, WorkerTypeOK
  <2> QED BY <1>1, <1>2, <1>4, <2>1, LookProgress
<1>5. CASE CheckReceipt(w) /\ pc'[w] = "checkMapping" /\ UNCHANGED <<idx, todo, blocked>>
  <2>1. Looked(w)' <=> Looked(w)
    BY <1>1, <1>5 DEF Looked, Settled, Mapped
  <2>2. Truthful(w, result[w])'
    BY <1>1 DEF Truthful, GroupMapped, Mapped, ReportInv, Progress, ProgressAt
  <2>3. ProgressAt(w)'
    BY <1>1, <1>5, <2>1, <2>2 DEF ProgressAt, ReportInv, Progress
  <2> QED BY <1>1, <2>3, AsideProgress, SameMapping
<1>6. CheckReceipt(w) =>
        pc'[w] = "check" \/ (pc'[w] = "checkMapping" /\ UNCHANGED <<idx, todo, blocked>>)
  BY DEF CheckReceipt, ReportInv, Trace, Typed, WorkerTypeOK
<1> QED BY <1>3, <1>4, <1>5, <1>6

\* The whole group was looked at: what is neither sent nor blocked is mapped.
LEMMA CheckedProgress ==
  ASSUME ReportInv, NEW w \in Workers, Checked(w)
  PROVE  Progress'
<1>1. UNCHANGED mapping /\ ~guard[w].hasResult
  BY DEF Checked, ledger, ReportInv, Trace, Control, ControlAt
<1>2. ~blocked[w] => AllSettled(w)
  <2>1. job[w].group \in Seq(Msgs) /\ idx[w] \in Nat /\ idx[w] > Len(job[w].group)
    BY Members DEF Checked, ReportInv, Trace, Typed, WorkerTypeOK
  <2>2. Looked(w)
    BY DEF Checked, ReportInv, Progress, ProgressAt
  <2> QED BY <2>1, <2>2 DEF Looked, AllSettled, Elems
<1>3. CASE Finish(w, Verdict(w))
  <2>1. todo[w] = <<>> => Elems(todo[w]) = {}
    BY DEF Elems
  <2>2. Truthful(w, Verdict(w))
    BY <1>2, <2>1 DEF Verdict, Truthful, AllSettled, Settled, GroupMapped
  <2> QED BY <1>1, <1>3, <2>2, FinishProgress
<1>4. CASE /\ Verdict(w) = "none"
           /\ Goto(w, IF Album(w) THEN "filter" ELSE "send")
           /\ idx' = [idx EXCEPT ![w] = 1]
           /\ UNCHANGED <<job, todo, blocked, guard, request, tries>>
  <2>1. AllSettled(w)
    BY <1>2, <1>4 DEF Verdict
  <2>2. /\ pc'[w] = (IF Album(w) THEN "filter" ELSE "send") /\ idx'[w] = 1
        /\ UNCHANGED result /\ Aside(w)
    BY <1>4 DEF Goto, Aside, ReportInv, Trace, Typed, WorkerTypeOK
  <2>3. CASE ~Album(w)
    BY <1>1, <1>4, <2>1, <2>2, <2>3, MoveProgress
  <2>4. CASE Album(w)
    <3>1. AllSettled(w)' /\ Truthful(w, result[w])'
      BY <1>1, <1>4, <2>1, <2>2
         DEF AllSettled, Settled, Truthful, GroupMapped, Mapped, ReportInv, Progress, ProgressAt
    <3>2. ProgressAt(w)'
      BY <2>2, <2>4, <3>1 DEF ProgressAt
    <3> QED BY <1>1, <2>2, <3>2, AsideProgress, SameMapping
  <2> QED BY <2>3, <2>4
<1> QED BY <1>3, <1>4 DEF Checked

-----------------------------------------------------------------------------
(* The request and its answer.                                              *)

LEMMA Sending ==
  ASSUME ReportInv, NEW w \in Workers,
         pc[w] \in {"send", "issue", "calling", "confirm", "mark", "release"}
  PROVE  /\ AllSettled(w)
         /\ pc[w] \in {"send", "issue", "calling"} => idx[w] = 1
         /\ pc[w] \in {"issue", "calling"} => ~guard[w].hasResult
         /\ pc[w] = "send" /\ guard[w].hasResult => TodoMapped(w)
         /\ pc[w] = "confirm" => RecordedSoFar(w)
BY DEF ReportInv, Progress, ProgressAt

LEMMA SettledMapped ==
  ASSUME NEW w \in Workers, AllSettled(w), TodoMapped(w)
  PROVE  GroupMapped(w)
BY DEF AllSettled, Settled, TodoMapped, GroupMapped, Elems

LEMMA SendEndProgress ==
  ASSUME ReportInv, NEW w \in Workers,
         \/ StopBeforeSend(w) \/ MediaUnavailable(w) \/ PrepareRefused(w) \/ PrepareFails(w)
         \/ StopWhileSending(w) \/ ConfirmFails(w) \/ Reject(w)
  PROVE  Progress'
<1>1. UNCHANGED mapping
  BY DEF StopBeforeSend, MediaUnavailable, PrepareRefused, PrepareFails, StopWhileSending,
         ConfirmFails, Reject, ledger
<1>2. CASE StopBeforeSend(w)
  <2>1. PICK r \in StopOutcomes(w) : Finish(w, r)
    BY <1>2 DEF StopBeforeSend
  <2>2. guard[w].hasResult => GroupMapped(w)
    BY <1>2, Sending, SettledMapped DEF StopBeforeSend
  <2>3. Truthful(w, r)
    BY <2>2 DEF StopOutcomes, Truthful
  <2> QED BY <1>1, <2>1, <2>3, FinishProgress
<1>3. CASE MediaUnavailable(w) \/ StopWhileSending(w) \/ ConfirmFails(w)
  BY <1>1, <1>3, FailProgress DEF MediaUnavailable, StopWhileSending, ConfirmFails
<1>4. CASE PrepareRefused(w) \/ PrepareFails(w)
  BY <1>1, <1>4, FailProgress, Sending, NextRoundProgress
  DEF PrepareRefused, PrepareFails, NeedsReservation
<1>5. CASE Reject(w)
  <2>1. pc[w] = "calling"
    BY <1>5 DEF Reject, ReportInv, Trace, Control, ControlAt
  <2> QED BY <1>1, <1>5, <2>1, Sending, NextRoundProgress DEF Reject
<1> QED BY <1>2, <1>3, <1>4, <1>5

\* A step to another label of the send, the members as they were.
LEMMA GotoProgress ==
  ASSUME ReportInv, NEW w \in Workers, NEW label \in {"send", "issue", "calling", "mark", "release"},
         Goto(w, label), UNCHANGED <<mapping, job, idx, todo, blocked, guard>>,
         pc[w] \in {"send", "issue", "calling", "confirm"},
         pc[w] = "confirm" => label = "mark",
         label \in {"issue", "calling"} => ~guard[w].hasResult
  PROVE  Progress'
<1>1. pc'[w] = label /\ UNCHANGED result /\ Aside(w)
  BY DEF Goto, Aside, ReportInv, Trace, Typed, WorkerTypeOK
<1> QED BY <1>1, Sending, MoveProgress

LEMMA GuardEnterProgress ==
  ASSUME ReportInv, NEW w \in Workers, GuardEnter(w)
  PROVE  Progress'
<1>1. UNCHANGED mapping /\ pc[w] = "send"
  BY DEF GuardEnter, ledger
<1>2. CASE Finish(w, "raised")
  BY <1>1, <1>2, FailProgress
<1>3. CASE Goto(w, "confirm") /\ UNCHANGED <<members, guard, request, tries>>
  <2>1. pc'[w] = "confirm" /\ UNCHANGED <<job, idx, todo, blocked, guard, result>> /\ Aside(w)
    BY <1>3 DEF Goto, members, Aside, ReportInv, Trace, Typed, WorkerTypeOK
  <2> QED BY <1>1, <2>1, Sending, MoveProgress
<1>4. CASE ~guard[w].hasResult /\ Goto(w, "issue") /\ UNCHANGED <<members, guard, request, tries>>
  BY <1>1, <1>4, GotoProgress DEF members
<1> QED BY <1>2, <1>3, <1>4 DEF GuardEnter

LEMMA PrepareProgress ==
  ASSUME ReportInv, NEW w \in Workers, Prepare(w)
  PROVE  Progress'
<1>1. ~PreparedGuard.hasResult
  BY DEF PreparedGuard, FreshGuard
<1>2. /\ pc[w] = "send" /\ pc'[w] = "issue" /\ guard'[w] = PreparedGuard
      /\ UNCHANGED <<mapping, job, idx, todo, blocked, result>> /\ Aside(w)
  BY DEF Prepare, NeedsReservation, Goto, members, Aside, ReportInv, Trace, Typed, WorkerTypeOK
<1> QED BY <1>1, <1>2, Sending, MoveProgress

LEMMA RequestProgress ==
  ASSUME ReportInv, NEW w \in Workers,
         \/ Issue(w) \/ ReplyUnparsable(w) \/ FloodWait(w) \/ Restricted(w) \/ AnswerIncomplete(w)
  PROVE  Progress'
<1>1. UNCHANGED <<mapping, job, idx, todo, blocked, guard>>
  BY DEF Issue, ReplyUnparsable, FloodWait, Restricted, AnswerIncomplete, ledger, members
<1>2. CASE Issue(w)
  BY <1>1, <1>2, Sending, GotoProgress DEF Issue
<1>3. CASE AnswerIncomplete(w)
  BY <1>1, <1>3, GotoProgress DEF AnswerIncomplete
<1>4. CASE ReplyUnparsable(w) \/ FloodWait(w) \/ Restricted(w)
  <2>1. pc[w] = "calling"
    BY <1>4 DEF ReplyUnparsable, FloodWait, Restricted, ReportInv, Trace, Control, ControlAt
  <2> QED BY <1>1, <1>4, <2>1, GotoProgress DEF ReplyUnparsable, FloodWait, Restricted
<1> QED BY <1>2, <1>3, <1>4

LEMMA NetworkErrorProgress ==
  ASSUME ReportInv, NEW w \in Workers, NetworkError(w)
  PROVE  Progress'
<1>1. UNCHANGED mapping /\ pc[w] = "calling"
  BY DEF NetworkError, ledger, ReportInv, Trace, Control, ControlAt
<1>2. CASE Finish(w, "raised")
  BY <1>1, <1>2, FailProgress
<1>3. CASE Goto(w, "send") /\ UNCHANGED <<members, guard>>
  BY <1>1, <1>3, GotoProgress DEF members
<1> QED BY <1>2, <1>3 DEF NetworkError

LEMMA UnknownErrorProgress ==
  ASSUME ReportInv, NEW w \in Workers, UnknownError(w)
  PROVE  Progress'
<1>1. UNCHANGED mapping /\ pc[w] = "calling"
  BY DEF UnknownError, ledger, ReportInv, Trace, Control, ControlAt
<1> QED BY <1>1, Sending, NextRoundProgress DEF UnknownError

LEMMA ReplyProgress ==
  ASSUME ReportInv, NEW w \in Workers, ReplyOk(w) \/ ReplyPartial(w)
  PROVE  Progress'
<1>1. pc[w] = "calling"
  BY DEF ReplyOk, ReplyPartial, ReportInv, Trace, Control, ControlAt
<1>2. PICK a : Answered(w, a)
  BY DEF ReplyOk, ReplyPartial
<1>3. pc'[w] = "confirm" /\ UNCHANGED <<mapping, job, idx, todo, blocked, result>> /\ Aside(w)
  BY <1>2 DEF Answered, Goto, ledger, members, Aside, ReportInv, Trace, Typed, WorkerTypeOK
<1> QED BY <1>1, <1>3, Sending, MoveProgress

-----------------------------------------------------------------------------
(* After the answer.                                                        *)

LEMMA ConfirmMemberProgress ==
  ASSUME ReportInv, NEW w \in Workers, ConfirmMember(w)
  PROVE  Progress'
<1> DEFINE n == todo[w][idx[w]]
<1>1. n \in Msgs /\ AnswerFor(w) \in Nat \ {0} /\ idx[w] \in Nat \ {0}
  BY ConfirmedId DEF ConfirmMember, ReportInv, Trace, Typed, WorkerTypeOK
<1>2. /\ mapping' = [mapping EXCEPT ![n] = IF @ = 0 \/ job[w].force THEN AnswerFor(w) ELSE @]
      /\ UNCHANGED <<pc, job, todo, blocked, guard, result>>
      /\ pc[w] = "confirm" /\ idx' = [idx EXCEPT ![w] = @ + 1]
  BY DEF ConfirmMember
<1>3. mapping'[n] # 0
  BY <1>1, <1>2 DEF ReportInv, Trace, Typed, SharedTypeOK
<1>4. MappingGrows
  BY <1>1, <1>2, <1>3 DEF MappingGrows, Mapped, ReportInv, Trace, Typed, SharedTypeOK
<1>5. idx'[w] = idx[w] + 1 /\ Aside(w)
  BY <1>2 DEF Aside, ReportInv, Trace, Typed, WorkerTypeOK
<1>6. RecordedSoFar(w)'
  <2> SUFFICES ASSUME NEW i \in DOMAIN todo[w], i < idx[w] + 1
               PROVE  Mapped(todo[w][i])'
    BY <1>2, <1>5 DEF RecordedSoFar
  <2>1. i < idx[w] \/ i = idx[w]
    BY <1>1, Members DEF ReportInv, Trace
  <2>2. RecordedSoFar(w) /\ todo[w][i] \in Msgs
    BY <1>2, Sending, Members DEF ReportInv, Trace
  <2> QED BY <1>2, <1>3, <1>4, <2>1, <2>2 DEF RecordedSoFar, MappingGrows, Mapped
<1>7. AllSettled(w)'
  BY <1>2, <1>4, Sending, Members DEF AllSettled, Settled, MappingGrows, ReportInv, Trace
<1>8. Truthful(w, result[w])'
  BY <1>2, <1>4, Members
     DEF Truthful, GroupMapped, MappingGrows, ReportInv, Trace, Progress, ProgressAt
<1>9. ProgressAt(w)'
  BY <1>2, <1>6, <1>7, <1>8 DEF ProgressAt
<1> QED BY <1>4, <1>5, <1>9, AsideProgress

\* Every member to send is recorded, and every other one was mapped before.
LEMMA RecordedMapped ==
  ASSUME ReportInv, NEW w \in Workers, pc[w] = "confirm", AllRecorded(w)
  PROVE  TodoMapped(w) /\ GroupMapped(w)
<1>1. idx[w] \in Nat /\ todo[w] \in Seq(Msgs) /\ idx[w] > Len(todo[w])
  BY Members DEF AllRecorded, ReportInv, Trace, Typed, WorkerTypeOK
<1>2. TodoMapped(w)
  BY <1>1, Sending DEF RecordedSoFar, TodoMapped
<1> QED BY <1>2, Sending, SettledMapped

LEMMA ConfirmedProgress ==
  ASSUME ReportInv, NEW w \in Workers, Confirmed(w) \/ LogFails(w)
  PROVE  Progress'
<1>1. UNCHANGED mapping /\ TodoMapped(w) /\ GroupMapped(w) /\ AllSettled(w)
  BY RecordedMapped, Sending DEF Confirmed, LogFails, ledger
<1>2. CASE Finish(w, "sent_mapped")
  BY <1>1, <1>2, FinishProgress DEF Truthful
<1>3. CASE Finish(w, "failed") \/ Finish(w, "raised")
  BY <1>1, <1>3, FailProgress
<1>4. CASE AnotherRound(w, guard[w])
  BY <1>1, <1>4, AnotherRoundProgress
<1> QED BY <1>2, <1>3, <1>4 DEF Confirmed, LogFails

LEMMA MarkProgress ==
  ASSUME ReportInv, NEW w \in Workers, Mark(w) \/ MarkFails(w) \/ Release(w)
  PROVE  Progress'
<1>1. UNCHANGED mapping /\ AllSettled(w)
  BY Sending DEF Mark, MarkFails, Release, ledger
<1>2. CASE Finish(w, "sent_unmapped") \/ Finish(w, "raised")
  BY <1>1, <1>2, FailProgress
<1>3. CASE NextRound(w, DoubtfulGuard)
  <2>1. ~DoubtfulGuard.hasResult
    BY DEF DoubtfulGuard, FreshGuard
  <2> QED BY <1>1, <1>3, <2>1, NextRoundProgress
<1> QED BY <1>2, <1>3 DEF Mark, MarkFails, MarkError, Release

-----------------------------------------------------------------------------
(* Telegram, the user, the machine.                                         *)

LEMMA ElsewhereProgress ==
  ASSUME ReportInv,
         \/ \E w \in Workers : Accept(w)
         \/ AcceptOrphan \/ LoseOrphan \/ RequestStop \/ ClearStop \/ UNCHANGED vars
  PROVE  Progress'
<1>1. UNCHANGED <<mapping, pc, job, idx, todo, blocked, guard, result>>
  BY DEF Accept, AcceptOrphan, LoseOrphan, RequestStop, ClearStop, vars, ledger, members
<1> QED BY <1>1, SameMapping, IdleProgress DEF ReportInv, Trace, Progress

LEMMA CrashProgress ==
  ASSUME ReportInv, Crash
  PROVE  Progress'
<1> SUFFICES ASSUME NEW w \in Workers PROVE ProgressAt(w)'
  BY DEF Progress
<1>1. pc'[w] = "idle" /\ idx'[w] = 1 /\ result'[w] = "none"
  BY DEF Crash
<1> QED BY <1>1 DEF ProgressAt, Truthful

-----------------------------------------------------------------------------
(* The theorem.                                                             *)

LEMMA InitProgress == Init => Progress
BY DEF Init, Progress, ProgressAt, Truthful

LEMMA StepProgress ==
  ASSUME ReportInv, [Next]_vars
  PROVE  Progress'
<1>1. ASSUME NEW w \in Workers, Work(w) PROVE Progress'
  BY <1>1, FilterProgress, CheckProgress, CheckedProgress, SendEndProgress, GuardEnterProgress,
     PrepareProgress, RequestProgress, ConfirmMemberProgress, ConfirmedProgress, MarkProgress DEF Work
<1>2. ASSUME NEW w \in Workers, Answer(w) PROVE Progress'
  BY <1>2, ReplyProgress, RequestProgress, NetworkErrorProgress, UnknownErrorProgress,
     SendEndProgress DEF Answer
<1> QED BY <1>1, <1>2, StartOpProgress, ElsewhereProgress, CrashProgress DEF Next

\* What an operation reports is true of the ledger, for any number of workers,
\* members, rounds, stops and crashes: sent_mapped says that every member has a
\* mapping, skipped that nothing was left to send.
THEOREM ReportCorrect == Spec => []ReportSound
<1>1. Init => ReportInv
  BY InitTrace, InitProgress DEF ReportInv
<1>2. ReportInv /\ [Next]_vars => ReportInv'
  BY DeliveryAssumption, StepTrace, StepProgress DEF ReportInv
<1>3. ReportInv => ReportSound
  BY DEF ReportInv, Progress, ProgressAt, Truthful, GroupMapped, Mapped, ReportSound
<1> QED BY <1>1, <1>2, <1>3, PTL DEF Spec

-----------------------------------------------------------------------------
(* The shape of an operation.                                               *)

NoRepeats(s) == \A i, j \in DOMAIN s : s[i] = s[j] => i = j

\* The labels after the members were looked at.
Beyond == {"send", "issue", "calling", "confirm", "mark", "release"}

ShapeAt(w) ==
  /\ NoRepeats(job[w].group) /\ NoRepeats(todo[w])
  /\ Elems(todo[w]) \subseteq Elems(job[w].group)
  /\ pc[w] = "idle" \/ (pc[w] = "filter" /\ ~Album(w)) => todo[w] = <<>> /\ ~blocked[w]
  /\ pc[w] \in {"check", "checkMapping"} =>
       \A m \in Elems(todo[w]) : \E i \in DOMAIN job[w].group : i < idx[w] /\ job[w].group[i] = m
  /\ pc[w] \in Beyond \/ (pc[w] = "filter" /\ Album(w)) => todo[w] # <<>>
  /\ guard[w].unconfirmed => pc[w] = "send" /\ ~guard[w].prepared
  /\ pc[w] = "confirm" => guard[w].hasResult
  /\ pc[w] # "idle" => result[w] = "none"

OrphansOK == \A o \in orphans : NoRepeats(o)

Shape == (\A w \in Workers : ShapeAt(w)) /\ OrphansOK

ShapeInv == ReportInv /\ Shape

LEMMA EmptyElems == Elems(<<>>) = {} /\ NoRepeats(<<>>)
BY DEF Elems, NoRepeats

LEMMA FinishShape ==
  ASSUME ShapeInv, NEW w \in Workers, NEW r, Finish(w, r)
  PROVE  ShapeAt(w)' /\ Aside(w)
<1>1. /\ pc'[w] = "idle" /\ todo'[w] = <<>> /\ ~blocked'[w] /\ job' = job
      /\ guard'[w] = FreshGuard
  BY DEF Finish, ShapeInv, ReportInv, Trace, Typed, WorkerTypeOK
<1>2. ~FreshGuard.unconfirmed
  BY DEF FreshGuard
<1>3. NoRepeats(job[w].group)
  BY DEF ShapeInv, Shape, ShapeAt
<1>4. ShapeAt(w)'
  BY <1>1, <1>2, <1>3, EmptyElems DEF ShapeAt, Beyond, NoRepeats, Elems
<1>5. Aside(w)
  BY DEF Finish, Aside, ShapeInv, ReportInv, Trace, Typed, WorkerTypeOK
<1> QED BY <1>4, <1>5

\* The members are fixed once the operation sends.
LEMMA MoveShape ==
  ASSUME ShapeInv, NEW w \in Workers,
         pc[w] \in Beyond, pc'[w] \in Beyond, UNCHANGED <<job, todo, blocked, result>>,
         guard'[w].unconfirmed => pc'[w] = "send" /\ ~guard'[w].prepared,
         pc'[w] = "confirm" => guard'[w].hasResult
  PROVE  ShapeAt(w)'
<1>1. ShapeAt(w)
  BY DEF ShapeInv, Shape
<1> QED BY <1>1 DEF ShapeAt, Beyond, NoRepeats, Elems

LEMMA AnotherRoundShape ==
  ASSUME ShapeInv, NEW w \in Workers, NEW g, AnotherRound(w, g), pc[w] \in Beyond,
         g.unconfirmed => ~g.prepared
  PROVE  ShapeAt(w)' /\ Aside(w)
<1>1. /\ pc'[w] = "send" /\ guard'[w] = g
      /\ UNCHANGED <<job, todo, blocked, result>> /\ Aside(w)
  BY DEF AnotherRound, Goto, CloseRequest, Aside, ShapeInv, ReportInv, Trace, Typed, WorkerTypeOK
<1> QED BY <1>1, MoveShape DEF Beyond

LEMMA NextRoundShape ==
  ASSUME ShapeInv, NEW w \in Workers, NEW g, NextRound(w, g), pc[w] \in Beyond,
         g.unconfirmed => ~g.prepared
  PROVE  ShapeAt(w)' /\ Aside(w)
BY AnotherRoundShape, FinishShape DEF NextRound, GiveUp

\* A worker is marked unconfirmed only on its way into the next round.
LEMMA GotoShape ==
  ASSUME ShapeInv, NEW w \in Workers, NEW label \in Beyond, Goto(w, label),
         pc[w] \in Beyond, UNCHANGED <<job, todo, blocked, guard>>,
         idx' = idx, ~guard[w].unconfirmed, label = "confirm" => guard[w].hasResult
  PROVE  ShapeAt(w)' /\ Aside(w)
<1>1. pc'[w] = label /\ UNCHANGED result /\ Aside(w)
  BY DEF Goto, Aside, ShapeInv, ReportInv, Trace, Typed, WorkerTypeOK
<1> QED BY <1>1, MoveShape

LEMMA Unmarked ==
  ASSUME ShapeInv, NEW w \in Workers, pc[w] # "send" \/ guard[w].prepared
  PROVE  ~guard[w].unconfirmed
BY DEF ShapeInv, Shape, ShapeAt

-----------------------------------------------------------------------------
(* The shape before the send.                                               *)

LEMMA StartOpShape ==
  ASSUME ShapeInv, NEW w \in Workers, StartOp(w)
  PROVE  ShapeAt(w)' /\ Aside(w)
<1>1. /\ pc[w] = "idle" /\ UNCHANGED <<todo, blocked, guard>> /\ Aside(w)
      /\ result'[w] = "none"
  BY DEF StartOp, Aside, ShapeInv, ReportInv, Trace, Typed, WorkerTypeOK
<1>2. PICK g \in Groups :
        /\ job'[w].group = g
        /\ pc'[w] = IF Len(g) = 1 THEN "filter" ELSE "check"
  BY DEF StartOp, ShapeInv, ReportInv, Trace, Typed, WorkerTypeOK
<1>3. NoRepeats(g) /\ (Len(g) = 1 => ~Album(w)')
  BY <1>2, DeliveryAssumption DEF DeliveryAssumption, NoRepeats, Album
<1>4. todo[w] = <<>> /\ ~blocked[w] /\ ~guard[w].unconfirmed
  BY <1>1 DEF ShapeInv, Shape, ShapeAt
<1>5. NoRepeats(job[w].group)'
  BY <1>2, <1>3 DEF NoRepeats
<1> QED BY <1>1, <1>2, <1>3, <1>4, <1>5, EmptyElems DEF ShapeAt, Beyond

LEMMA FilterShape ==
  ASSUME ShapeInv, NEW w \in Workers, Filter(w)
  PROVE  ShapeAt(w)' /\ Aside(w)
<1>1. CASE Finish(w, "skipped")
  BY <1>1, FinishShape
<1>2. CASE Goto(w, IF Album(w) THEN "send" ELSE "check") /\ UNCHANGED <<members, guard, request, tries>>
  <2>1. /\ pc'[w] = (IF Album(w) THEN "send" ELSE "check")
        /\ UNCHANGED <<job, todo, blocked, guard, result>> /\ Aside(w)
    BY <1>2 DEF Goto, members, Aside, ShapeInv, ReportInv, Trace, Typed, WorkerTypeOK
  <2>2. ShapeAt(w) /\ pc[w] = "filter"
    BY DEF Filter, ShapeInv, Shape
  <2>3. CASE Album(w)
    BY <2>1, <2>2, <2>3 DEF ShapeAt, Beyond, NoRepeats, Elems
  <2>4. CASE ~Album(w)
    <3>1. todo[w] = <<>>
      BY <2>2, <2>4 DEF ShapeAt
    <3> QED BY <2>1, <2>2, <2>4, <3>1, EmptyElems DEF ShapeAt, Beyond, NoRepeats
  <2> QED BY <2>1, <2>3, <2>4
<1> QED BY <1>1, <1>2 DEF Filter

\* The member at idx is not among those before it.
LEMMA LookShape ==
  ASSUME ShapeInv, NEW w \in Workers, UNCHANGED <<job, guard, result>>, Aside(w),
         pc[w] \in {"check", "checkMapping"}, pc'[w] = "check",
         idx[w] \in DOMAIN job[w].group, idx'[w] = idx[w] + 1,
         todo'[w] \in {todo[w], Append(todo[w], job[w].group[idx[w]])}
  PROVE  ShapeAt(w)'
<1> DEFINE n == job[w].group[idx[w]]
<1>1. /\ job[w].group \in Seq(Msgs) /\ todo[w] \in Seq(Msgs) /\ n \in Msgs
      /\ idx[w] \in Nat \ {0}
  BY Members DEF ShapeInv, ReportInv, Trace, Typed, WorkerTypeOK
<1>2. ShapeAt(w)
  BY DEF ShapeInv, Shape
<1>3. \A m \in Elems(todo[w]) : \E i \in DOMAIN job[w].group : i < idx[w] /\ job[w].group[i] = m
  BY <1>2 DEF ShapeAt
<1>4. n \notin Elems(todo[w])
  <2>1. NoRepeats(job[w].group)
    BY <1>2 DEF ShapeAt
  <2> QED BY <1>1, <1>3, <2>1 DEF NoRepeats
<1>5. NoRepeats(todo'[w])
  <2>1. CASE todo'[w] = todo[w]
    BY <1>2, <2>1 DEF ShapeAt
  <2>2. CASE todo'[w] = Append(todo[w], n)
    <3>1. \A i \in DOMAIN todo'[w] :
            \/ i \in DOMAIN todo[w] /\ todo'[w][i] = todo[w][i] /\ todo'[w][i] # n
            \/ i = Len(todo[w]) + 1 /\ todo'[w][i] = n
      BY <1>1, <1>4, <2>2 DEF Elems
    <3>2. NoRepeats(todo[w])
      BY <1>2 DEF ShapeAt
    <3> QED BY <3>1, <3>2 DEF NoRepeats
  <2> QED BY <2>1, <2>2
<1>6. Elems(todo'[w]) \subseteq Elems(todo[w]) \union {n}
  BY <1>1, ElemsAppend
<1>7. n \in Elems(job[w].group)
  BY DEF Elems
<1>8. \A m \in Elems(todo'[w]) : \E i \in DOMAIN job[w].group : i < idx'[w] /\ job[w].group[i] = m
  BY <1>1, <1>3, <1>6
<1>9. /\ Elems(todo'[w]) \subseteq Elems(job[w].group) /\ NoRepeats(job[w].group)
      /\ ~guard[w].unconfirmed /\ result[w] = "none"
  BY <1>2, <1>6, <1>7 DEF ShapeAt
<1>10. NoRepeats(todo[w])' /\ NoRepeats(job[w].group)' /\ Elems(todo[w])' = Elems(todo'[w])
  BY <1>5, <1>9 DEF NoRepeats, Elems
<1> QED BY <1>8, <1>9, <1>10 DEF ShapeAt, Beyond, Elems

LEMMA CheckShape ==
  ASSUME ShapeInv, NEW w \in Workers, CheckReceipt(w) \/ CheckMapping(w)
  PROVE  ShapeAt(w)' /\ Aside(w)
<1>1. UNCHANGED <<job, guard, result>> /\ Aside(w) /\ pc[w] \in {"check", "checkMapping"}
  BY DEF CheckReceipt, CheckMapping, Aside, ShapeInv, ReportInv, Trace, Typed, WorkerTypeOK
<1>2. idx[w] \in DOMAIN job[w].group
  BY Members DEF CheckReceipt, CheckMapping, PositionOK, ShapeInv, ReportInv, Trace, Typed, WorkerTypeOK
<1>3. CASE CheckMapping(w)
  <2>1. /\ pc'[w] = "check" /\ idx'[w] = idx[w] + 1
        /\ todo'[w] = Pending(w, job[w].group[idx[w]])
    BY <1>3 DEF CheckMapping, ShapeInv, ReportInv, Trace, Typed, WorkerTypeOK
  <2> QED BY <1>1, <1>2, <2>1, LookShape DEF Pending
<1>4. CASE CheckReceipt(w) /\ pc'[w] = "check"
  <2>1. /\ idx'[w] = idx[w] + 1
        /\ todo'[w] \in {todo[w], Append(todo[w], job[w].group[idx[w]])}
    BY <1>4 DEF CheckReceipt, ShapeInv, ReportInv, Trace, Typed, WorkerTypeOK
  <2> QED BY <1>1, <1>2, <1>4, <2>1, LookShape
<1>5. CASE CheckReceipt(w) /\ pc'[w] = "checkMapping" /\ UNCHANGED <<idx, todo, blocked>>
  <2>1. ShapeAt(w)
    BY DEF ShapeInv, Shape
  <2> QED BY <1>1, <1>5, <2>1 DEF ShapeAt, Beyond, NoRepeats, Elems
<1>6. CheckReceipt(w) =>
        pc'[w] = "check" \/ (pc'[w] = "checkMapping" /\ UNCHANGED <<idx, todo, blocked>>)
  BY DEF CheckReceipt, ShapeInv, ReportInv, Trace, Typed, WorkerTypeOK
<1> QED BY <1>1, <1>3, <1>4, <1>5, <1>6

LEMMA CheckedShape ==
  ASSUME ShapeInv, NEW w \in Workers, Checked(w)
  PROVE  ShapeAt(w)' /\ Aside(w)
<1>1. CASE Finish(w, Verdict(w))
  BY <1>1, FinishShape
<1>2. CASE /\ Verdict(w) = "none"
           /\ Goto(w, IF Album(w) THEN "filter" ELSE "send")
           /\ idx' = [idx EXCEPT ![w] = 1]
           /\ UNCHANGED <<job, todo, blocked, guard, request, tries>>
  <2>1. /\ pc'[w] = (IF Album(w) THEN "filter" ELSE "send")
        /\ UNCHANGED result /\ Aside(w)
    BY <1>2 DEF Goto, Aside, ShapeInv, ReportInv, Trace, Typed, WorkerTypeOK
  <2>2. todo[w] # <<>>
    BY <1>2 DEF Verdict
  <2>3. ShapeAt(w) /\ pc[w] = "check"
    BY DEF Checked, ShapeInv, Shape
  <2> QED BY <1>2, <2>1, <2>2, <2>3 DEF ShapeAt, Beyond, NoRepeats, Elems, Album
<1> QED BY <1>1, <1>2 DEF Checked

-----------------------------------------------------------------------------
(* The shape of the send and after the answer.                              *)

LEMMA InCall ==
  ASSUME ShapeInv, NEW w \in Workers, wire[w] # "none"
  PROVE  pc[w] = "calling" /\ guard[w].prepared /\ ~guard[w].hasResult /\ ~guard[w].unconfirmed
<1>1. pc[w] = "calling" /\ guard[w].prepared
  BY DEF ShapeInv, ReportInv, Trace, Control, ControlAt
<1> QED BY <1>1, Unmarked, Sending DEF ShapeInv

LEMMA EndShape ==
  ASSUME ShapeInv, NEW w \in Workers,
         \/ StopBeforeSend(w) \/ MediaUnavailable(w) \/ PrepareRefused(w) \/ PrepareFails(w)
         \/ StopWhileSending(w) \/ ConfirmFails(w) \/ Confirmed(w) \/ LogFails(w) \/ Reject(w) \/ Release(w)
  PROVE  ShapeAt(w)' /\ Aside(w)
<1>1. CASE \E r : Finish(w, r)
  BY <1>1, FinishShape
<1>2. CASE PrepareRefused(w) \/ PrepareFails(w)
  BY <1>2, FinishShape, NextRoundShape
  DEF PrepareRefused, PrepareFails, NeedsReservation, FreshGuard, Beyond
<1>3. CASE Reject(w)
  BY <1>3, InCall, NextRoundShape DEF Reject, Beyond
<1>4. CASE LogFails(w)
  <2>1. ~guard[w].unconfirmed
    BY <1>4, Unmarked DEF LogFails
  <2> QED BY <1>4, <2>1, FinishShape, AnotherRoundShape DEF LogFails, Beyond
<1> QED BY <1>1, <1>2, <1>3, <1>4 DEF StopBeforeSend, MediaUnavailable, PrepareRefused,
           StopWhileSending, ConfirmFails, Confirmed, Release

LEMMA GuardEnterShape ==
  ASSUME ShapeInv, NEW w \in Workers, GuardEnter(w)
  PROVE  ShapeAt(w)' /\ Aside(w)
<1>1. CASE Finish(w, "raised")
  BY <1>1, FinishShape
<1>2. CASE /\ ~guard[w].unconfirmed
           /\ (guard[w].hasResult /\ Goto(w, "confirm")) \/ Goto(w, "issue")
           /\ UNCHANGED <<members, guard, request, tries>>
  BY <1>2, GotoShape DEF GuardEnter, members, Beyond
<1> QED BY <1>1, <1>2 DEF GuardEnter

LEMMA PrepareShape ==
  ASSUME ShapeInv, NEW w \in Workers, Prepare(w)
  PROVE  ShapeAt(w)' /\ Aside(w)
<1>1. ~PreparedGuard.unconfirmed
  BY DEF PreparedGuard, FreshGuard
<1>2. /\ pc[w] = "send" /\ pc'[w] = "issue" /\ guard'[w] = PreparedGuard
      /\ UNCHANGED <<job, todo, blocked, result>> /\ Aside(w)
  BY DEF Prepare, NeedsReservation, Goto, members, Aside, ShapeInv, ReportInv, Trace, Typed, WorkerTypeOK
<1> QED BY <1>1, <1>2, MoveShape DEF Beyond

LEMMA RequestShape ==
  ASSUME ShapeInv, NEW w \in Workers,
         Issue(w) \/ ReplyUnparsable(w) \/ FloodWait(w) \/ Restricted(w) \/ AnswerIncomplete(w)
  PROVE  ShapeAt(w)' /\ Aside(w)
<1>1. UNCHANGED <<job, idx, todo, blocked, guard>>
  BY DEF Issue, ReplyUnparsable, FloodWait, Restricted, AnswerIncomplete, members
<1>2. pc[w] \in Beyond /\ ~guard[w].unconfirmed
  BY InCall, Unmarked DEF Issue, ReplyUnparsable, FloodWait, Restricted, AnswerIncomplete, Beyond
<1> QED BY <1>1, <1>2, GotoShape DEF Issue, ReplyUnparsable, FloodWait, Restricted, AnswerIncomplete, Beyond

LEMMA NetworkErrorShape ==
  ASSUME ShapeInv, NEW w \in Workers, NetworkError(w)
  PROVE  ShapeAt(w)' /\ Aside(w)
<1>1. CASE Finish(w, "raised")
  BY <1>1, FinishShape
<1>2. CASE Goto(w, "send") /\ UNCHANGED <<members, guard>>
  <2>1. pc[w] = "calling" /\ ~guard[w].unconfirmed
    BY InCall DEF NetworkError
  <2> QED BY <1>2, <2>1, GotoShape DEF members, Beyond
<1> QED BY <1>1, <1>2 DEF NetworkError

LEMMA UnknownErrorShape ==
  ASSUME ShapeInv, NEW w \in Workers, UnknownError(w)
  PROVE  ShapeAt(w)' /\ Aside(w)
BY InCall, NextRoundShape DEF UnknownError, Beyond

LEMMA ReplyShape ==
  ASSUME ShapeInv, NEW w \in Workers, ReplyOk(w) \/ ReplyPartial(w)
  PROVE  ShapeAt(w)' /\ Aside(w)
<1>1. pc[w] = "calling" /\ ~guard[w].unconfirmed
  BY InCall DEF ReplyOk, ReplyPartial
<1>2. PICK a : Answered(w, a)
  BY DEF ReplyOk, ReplyPartial
<1>3. /\ pc'[w] = "confirm" /\ guard'[w] = AnsweredGuard(guard[w], a)
      /\ UNCHANGED <<job, todo, blocked, result>> /\ Aside(w)
  BY <1>2 DEF Answered, Goto, members, Aside, ShapeInv, ReportInv, Trace, Typed, WorkerTypeOK
<1>4. guard'[w].unconfirmed = guard[w].unconfirmed /\ guard'[w].hasResult
  BY <1>3 DEF AnsweredGuard
<1> QED BY <1>1, <1>3, <1>4, MoveShape DEF Beyond

LEMMA ConfirmMemberShape ==
  ASSUME ShapeInv, NEW w \in Workers, ConfirmMember(w)
  PROVE  ShapeAt(w)' /\ Aside(w)
<1>1. /\ pc[w] = "confirm" /\ pc' = pc /\ guard' = guard
      /\ UNCHANGED <<job, todo, blocked, result>> /\ Aside(w)
  BY DEF ConfirmMember, Aside, ShapeInv, ReportInv, Trace, Typed, WorkerTypeOK
<1>2. guard[w].hasResult
  BY <1>1 DEF ShapeInv, Shape, ShapeAt
<1> QED BY <1>1, <1>2, Unmarked, MoveShape DEF Beyond

LEMMA MarkShape ==
  ASSUME ShapeInv, NEW w \in Workers, Mark(w) \/ MarkFails(w)
  PROVE  ShapeAt(w)' /\ Aside(w)
<1>1. pc[w] \in Beyond
  BY DEF Mark, MarkFails, Beyond
<1>2. ~DoubtfulGuard.prepared
  BY DEF DoubtfulGuard, FreshGuard
<1>3. (\E r : Finish(w, r)) \/ NextRound(w, DoubtfulGuard)
  BY DEF Mark, MarkFails, MarkError
<1> QED BY <1>1, <1>2, <1>3, FinishShape, NextRoundShape

-----------------------------------------------------------------------------
(* The shape is kept.                                                       *)

LEMMA WorkerShape ==
  ASSUME ShapeInv, NEW w \in Workers, StartOp(w) \/ Work(w) \/ Answer(w)
  PROVE  ShapeAt(w)' /\ Aside(w)
<1>1. CASE Work(w)
  BY <1>1, FilterShape, CheckShape, CheckedShape, EndShape, GuardEnterShape, PrepareShape, RequestShape,
     ConfirmMemberShape, MarkShape DEF Work
<1>2. CASE Answer(w)
  BY <1>2, ReplyShape, RequestShape, NetworkErrorShape, UnknownErrorShape, EndShape
     DEF Answer
<1> QED BY <1>1, <1>2, StartOpShape

LEMMA SameShape ==
  ASSUME NEW w \in Workers, ShapeAt(w),
         UNCHANGED <<pc[w], job[w], idx[w], todo[w], blocked[w], guard[w], result[w]>>
  PROVE  ShapeAt(w)'
<1>1. /\ NoRepeats(job[w].group)' <=> NoRepeats(job[w].group)
      /\ NoRepeats(todo[w])' <=> NoRepeats(todo[w])
  BY DEF NoRepeats
<1>2. Elems(job[w].group)' = Elems(job[w].group) /\ Elems(todo[w])' = Elems(todo[w])
  BY DEF Elems
<1>3. Album(w)' <=> Album(w)
  BY DEF Album
<1> QED BY <1>1, <1>2, <1>3 DEF ShapeAt

LEMMA AsideShape ==
  ASSUME Shape, NEW w \in Workers, Aside(w)
  PROVE  \A v \in Workers \ {w} : ShapeAt(v)'
<1> SUFFICES ASSUME NEW v \in Workers \ {w} PROVE ShapeAt(v)'
  OBVIOUS
<1>1. UNCHANGED <<pc[v], job[v], idx[v], todo[v], blocked[v], guard[v], result[v]>>
  BY DEF Aside
<1> QED BY <1>1, SameShape DEF Shape

LEMMA AddOrphans ==
  ASSUME ShapeInv, NEW w \in Workers, OrphanStep(w)
  PROVE  OrphansOK'
<1>1. OrphansOK /\ NoRepeats(todo[w])
  BY DEF ShapeInv, Shape, ShapeAt
<1> QED BY <1>1 DEF OrphanStep, OrphansOK, NoRepeats

LEMMA WorkerOrphans ==
  ASSUME ShapeInv, NEW w \in Workers, StartOp(w) \/ Work(w) \/ Answer(w)
  PROVE  OrphanStep(w)
<1>1. CASE StopWhileSending(w) \/ NetworkError(w) \/ UnknownError(w)
  BY <1>1, AbandonOrphan DEF StopWhileSending, NetworkError, UnknownError
<1>2. CASE StartOp(w)
  BY <1>2 DEF StartOp, remote, OrphanStep
<1>3. CASE Answer(w) /\ ~NetworkError(w) /\ ~UnknownError(w)
  BY <1>3 DEF Answer, ReplyOk, ReplyPartial, Answered, ReplyUnparsable, FloodWait, Reject, Restricted,
     remote, OrphanStep
<1>4. CASE \/ Filter(w) \/ CheckReceipt(w) \/ CheckMapping(w) \/ Checked(w)
           \/ StopBeforeSend(w) \/ GuardEnter(w) \/ MediaUnavailable(w) \/ Prepare(w)
  BY <1>4 DEF Filter, CheckReceipt, CheckMapping, Checked, StopBeforeSend, GuardEnter, MediaUnavailable,
     Prepare, remote, OrphanStep
<1>5. CASE \/ PrepareRefused(w) \/ PrepareFails(w) \/ Issue(w) \/ Release(w) \/ AnswerIncomplete(w)
           \/ ConfirmMember(w) \/ ConfirmFails(w) \/ Confirmed(w) \/ LogFails(w) \/ Mark(w) \/ MarkFails(w)
  BY <1>5 DEF PrepareRefused, PrepareFails, Issue, Release, AnswerIncomplete, ConfirmMember, ConfirmFails,
     Confirmed, LogFails, Mark, MarkFails, remote, OrphanStep
<1> QED BY <1>1, <1>2, <1>3, <1>4, <1>5 DEF Work

LEMMA CrashShape ==
  ASSUME ShapeInv, Crash
  PROVE  Shape'
<1>1. /\ pc' = [w \in Workers |-> "idle"] /\ job' = [w \in Workers |-> FreshJob]
      /\ todo' = [w \in Workers |-> <<>>] /\ blocked' = [w \in Workers |-> FALSE]
      /\ guard' = [w \in Workers |-> FreshGuard]
  BY DEF Crash
<1>2. ~FreshGuard.unconfirmed /\ FreshJob.group = <<>>
  BY DEF FreshGuard, FreshJob
<1>3. \A w \in Workers : ShapeAt(w)'
  BY <1>1, <1>2, EmptyElems DEF ShapeAt, Beyond
<1>4. \A o \in orphans : NoRepeats(o)
  BY DEF ShapeInv, Shape, OrphansOK
<1>5. \A w \in Workers : NoRepeats(todo[w])
  BY DEF ShapeInv, Shape, ShapeAt
<1>6. \A o \in orphans' : o \in orphans \/ \E w \in Workers : o = todo[w]
  BY DEF Crash
<1>7. OrphansOK'
  BY <1>4, <1>5, <1>6 DEF OrphansOK, NoRepeats
<1> QED BY <1>3, <1>7 DEF Shape

\* Steps that leave every operation as it is.
LEMMA ElsewhereShape ==
  ASSUME ShapeInv,
         \/ \E w \in Workers : Accept(w)
         \/ AcceptOrphan \/ LoseOrphan \/ RequestStop \/ ClearStop \/ UNCHANGED vars
  PROVE  Shape'
<1>1. UNCHANGED <<pc, job, idx, todo, blocked, guard, result>> /\ orphans' \subseteq orphans
  BY DEF Accept, AcceptOrphan, LoseOrphan, RequestStop, ClearStop, vars, remote, members
<1>2. \A w \in Workers : ShapeAt(w)'
  BY <1>1, SameShape DEF ShapeInv, Shape
<1> QED BY <1>1, <1>2 DEF ShapeInv, Shape, OrphansOK, NoRepeats

LEMMA InitShape == Init => Shape
<1> SUFFICES ASSUME Init PROVE Shape
  OBVIOUS
<1>1. ~FreshGuard.unconfirmed /\ FreshJob.group = <<>>
  BY DEF FreshGuard, FreshJob
<1>2. \A w \in Workers : ShapeAt(w)
  BY <1>1, EmptyElems DEF Init, ShapeAt, Beyond
<1> QED BY <1>2 DEF Init, Shape, OrphansOK

LEMMA StepShape ==
  ASSUME ShapeInv, [Next]_vars
  PROVE  Shape'
<1>1. ASSUME NEW w \in Workers, StartOp(w) \/ Work(w) \/ Answer(w)
      PROVE  Shape'
  <2>1. ShapeAt(w)' /\ Aside(w) /\ OrphanStep(w)
    BY <1>1, WorkerShape, WorkerOrphans
  <2> QED BY <2>1, AsideShape, AddOrphans DEF ShapeInv, Shape
<1>2. CASE UNCHANGED vars \/ Crash \/ AcceptOrphan \/ LoseOrphan \/ RequestStop \/ ClearStop
  BY <1>2, CrashShape, ElsewhereShape
<1>3. CASE \E w \in Workers : Accept(w)
  BY <1>3, ElsewhereShape
<1> QED BY <1>1, <1>2, <1>3 DEF Next

LEMMA ShapeInvariant == Spec => []ShapeInv
<1>1. Init => ShapeInv
  BY InitTrace, InitProgress, InitShape DEF ShapeInv, ReportInv
<1>2. ShapeInv /\ [Next]_vars => ShapeInv'
  BY DeliveryAssumption, StepTrace, StepProgress, StepShape DEF ShapeInv, ReportInv
<1> QED BY <1>1, <1>2, PTL DEF Spec
-----------------------------------------------------------------------------
(* One operation at a time: what has a mapping is not sent again.           *)

OneCaller == \A v, w \in Workers : v = w

\* Until its answer is in, an operation without force sends what has no mapping.
UnsentAt(w) ==
  ~job[w].force /\ ~guard[w].hasResult /\ ~guard[w].unconfirmed
    => \A m \in Elems(todo[w]) : mapping[m] = 0

Unsent == \A w \in Workers : UnsentAt(w)

LEMMA KeepUnsent ==
  ASSUME ShapeInv, Unsent, NEW w \in Workers, UNCHANGED <<mapping, job, todo>>,
         ~guard'[w].hasResult /\ ~guard'[w].unconfirmed => ~guard[w].hasResult /\ ~guard[w].unconfirmed
  PROVE  UnsentAt(w)'
BY DEF Unsent, UnsentAt, Elems

LEMMA FinishUnsent ==
  ASSUME ShapeInv, NEW w \in Workers, NEW r, Finish(w, r)
  PROVE  UnsentAt(w)'
<1>1. todo'[w] = <<>>
  BY DEF Finish, ShapeInv, ReportInv, Trace, Typed, WorkerTypeOK
<1> QED BY <1>1 DEF UnsentAt, Elems

LEMMA AnotherRoundUnsent ==
  ASSUME ShapeInv, Unsent, NEW w \in Workers, NEW g, AnotherRound(w, g), UNCHANGED mapping,
         ~g.hasResult /\ ~g.unconfirmed => ~guard[w].hasResult /\ ~guard[w].unconfirmed
  PROVE  UnsentAt(w)'
<1>1. UNCHANGED <<job, todo>> /\ guard'[w] = g
  BY DEF AnotherRound, ShapeInv, ReportInv, Trace, Typed, WorkerTypeOK
<1> QED BY <1>1, KeepUnsent

LEMMA NextRoundUnsent ==
  ASSUME ShapeInv, Unsent, NEW w \in Workers, NEW g, NextRound(w, g), UNCHANGED mapping,
         ~g.hasResult /\ ~g.unconfirmed => ~guard[w].hasResult /\ ~guard[w].unconfirmed
  PROVE  UnsentAt(w)'
BY AnotherRoundUnsent, FinishUnsent DEF NextRound, GiveUp

LEMMA CheckUnsent ==
  ASSUME ShapeInv, Unsent, NEW w \in Workers, CheckReceipt(w) \/ CheckMapping(w)
  PROVE  UnsentAt(w)'
<1>1. UNCHANGED <<mapping, job, guard>>
  BY DEF CheckReceipt, CheckMapping, ledger
<1>2. CASE UNCHANGED todo
  BY <1>1, <1>2, KeepUnsent
<1>3. CASE CheckReceipt(w) /\ job[w].force
  BY <1>1, <1>3 DEF UnsentAt
<1>4. CASE CheckMapping(w)
  <2> DEFINE n == job[w].group[idx[w]]
  <2>1. todo'[w] = Pending(w, n)
    BY <1>4 DEF CheckMapping, ShapeInv, ReportInv, Trace, Typed, WorkerTypeOK
  <2>2. idx[w] \in DOMAIN job[w].group
    BY <1>4, Members DEF CheckMapping, PositionOK, ShapeInv, ReportInv, Trace, Typed, WorkerTypeOK
  <2>3. todo[w] \in Seq(Msgs) /\ n \in Msgs
    BY <2>2, Members DEF ShapeInv, ReportInv, Trace
  <2>4. \A m \in Elems(todo'[w]) : m \in Elems(todo[w]) \/ (m = n /\ mapping[m] = 0)
    BY <2>1, <2>3, ElemsAppend DEF Pending
  <2> QED BY <1>1, <2>4 DEF Unsent, UnsentAt, Elems
<1> QED BY <1>2, <1>3, <1>4 DEF CheckReceipt

LEMMA WorkUnsent ==
  ASSUME ShapeInv, Unsent, NEW w \in Workers, Work(w)
  PROVE  UnsentAt(w)'
<1>1. CASE Filter(w) \/ Checked(w) \/ GuardEnter(w) \/ Issue(w) \/ AnswerIncomplete(w)
  BY <1>1, FinishUnsent, KeepUnsent
     DEF Filter, Checked, GuardEnter, Issue, AnswerIncomplete, ledger, members
<1>2. CASE \/ StopBeforeSend(w) \/ MediaUnavailable(w) \/ StopWhileSending(w)
           \/ Release(w) \/ ConfirmFails(w) \/ Confirmed(w)
  BY <1>2, FinishUnsent
     DEF StopBeforeSend, MediaUnavailable, StopWhileSending, Release, ConfirmFails, Confirmed
<1>3. CASE PrepareRefused(w) \/ PrepareFails(w)
  BY <1>3, FinishUnsent, NextRoundUnsent DEF PrepareRefused, PrepareFails, ledger
<1>4. CASE LogFails(w)
  BY <1>4, FinishUnsent, AnotherRoundUnsent DEF LogFails, ledger
<1>5. CASE Mark(w) \/ MarkFails(w)
  <2>1. DoubtfulGuard.unconfirmed /\ UNCHANGED mapping
    BY <1>5 DEF DoubtfulGuard, FreshGuard, Mark, MarkFails, ledger
  <2>2. (\E r : Finish(w, r)) \/ NextRound(w, DoubtfulGuard)
    BY <1>5 DEF Mark, MarkFails, MarkError
  <2> QED BY <2>1, <2>2, FinishUnsent, NextRoundUnsent
<1>6. CASE Prepare(w)
  <2>1. guard[w] = FreshGuard /\ UNCHANGED <<mapping, job, todo>>
    BY <1>6 DEF Prepare, NeedsReservation, members
  <2>2. ~FreshGuard.hasResult /\ ~FreshGuard.unconfirmed
    BY DEF FreshGuard
  <2> QED BY <2>1, <2>2, KeepUnsent
<1>7. CASE ConfirmMember(w)
  <2>1. guard[w].hasResult /\ guard' = guard
    BY <1>7 DEF ConfirmMember, ShapeInv, Shape, ShapeAt
  <2> QED BY <2>1 DEF UnsentAt
<1> QED BY <1>1, <1>2, <1>3, <1>4, <1>5, <1>6, <1>7, CheckUnsent DEF Work

LEMMA AnswerUnsent ==
  ASSUME ShapeInv, Unsent, NEW w \in Workers, Answer(w)
  PROVE  UnsentAt(w)'
<1>1. CASE ReplyOk(w) \/ ReplyPartial(w)
  <2>1. PICK a : Answered(w, a)
    BY <1>1 DEF ReplyOk, ReplyPartial
  <2>2. guard'[w].hasResult
    BY <2>1 DEF Answered, AnsweredGuard, ShapeInv, ReportInv, Trace, Typed, WorkerTypeOK
  <2> QED BY <2>2 DEF UnsentAt
<1>2. CASE ReplyUnparsable(w) \/ FloodWait(w) \/ Restricted(w) \/ NetworkError(w)
  BY <1>2, KeepUnsent, FinishUnsent
     DEF ReplyUnparsable, FloodWait, Restricted, NetworkError, ledger, members
<1>3. CASE UnknownError(w) \/ Reject(w)
  BY <1>3, NextRoundUnsent DEF UnknownError, Reject, ledger
<1> QED BY <1>1, <1>2, <1>3 DEF Answer

LEMMA StepUnsent ==
  ASSUME OneCaller, ShapeInv, Unsent, [Next]_vars
  PROVE  Unsent'
<1>1. ASSUME NEW w \in Workers, StartOp(w) \/ Work(w) \/ Answer(w)
      PROVE  Unsent'
  <2>1. CASE StartOp(w)
    <3>1. todo'[w] = <<>>
      BY <2>1 DEF StartOp, ShapeInv, Shape, ShapeAt
    <3> QED BY <3>1 DEF OneCaller, Unsent, UnsentAt, Elems
  <2> QED BY <1>1, <2>1, WorkUnsent, AnswerUnsent DEF OneCaller, Unsent
<1>2. CASE Crash
  BY <1>2 DEF Crash, Unsent, UnsentAt, Elems
<1>3. CASE \/ \E w \in Workers : Accept(w)
           \/ AcceptOrphan \/ LoseOrphan \/ RequestStop \/ ClearStop \/ UNCHANGED vars
  <2>1. UNCHANGED <<mapping, job, todo, guard>>
    BY <1>3 DEF Accept, AcceptOrphan, LoseOrphan, RequestStop, ClearStop, vars, ledger, members
  <2> QED BY <2>1, KeepUnsent DEF Unsent
<1> QED BY <1>1, <1>2, <1>3 DEF Next

LEMMA UnsentInvariant ==
  ASSUME OneCaller
  PROVE  Spec => [](ShapeInv /\ Unsent)
<1>1. Init => ShapeInv /\ Unsent
  BY InitTrace, InitProgress, InitShape DEF ShapeInv, ReportInv, Init, Unsent, UnsentAt, Elems
<1>2. ShapeInv /\ Unsent /\ [Next]_vars => (ShapeInv /\ Unsent)'
  BY OneCaller, DeliveryAssumption, StepTrace, StepProgress, StepShape, StepUnsent DEF ShapeInv, ReportInv
<1> QED BY <1>1, <1>2, PTL DEF Spec

\* The step that ConfirmedNotResent asks for.
NotResent ==
  \A w \in Workers : wire[w] = "none" /\ wire'[w] = "sent" /\ ~job[w].force
    => \A m \in Elems(todo[w]) : mapping[m] = 0

\* Nothing but Issue puts a request on the wire.
LEMMA OnlyIssue ==
  ASSUME ShapeInv, NEW w \in Workers, StartOp(w) \/ Work(w) \/ Answer(w), ~Issue(w),
         wire[w] = "none"
  PROVE  wire'[w] = "none"
<1>1. ASSUME NEW r, Finish(w, r) PROVE wire'[w] = "none"
  BY <1>1 DEF Finish, ShapeInv, ReportInv, Trace, Typed, WorkerTypeOK
<1>2. ASSUME NEW g, AnotherRound(w, g) PROVE wire'[w] = "none"
  BY <1>2 DEF AnotherRound, CloseRequest, ShapeInv, ReportInv, Trace, Typed, WorkerTypeOK
<1>3. CASE Answer(w)
  BY <1>1, <1>3 DEF Answer, ReplyOk, ReplyPartial, ReplyUnparsable, NetworkError, UnknownError, FloodWait,
     Reject, Restricted
<1>4. CASE \/ Filter(w) \/ CheckReceipt(w) \/ CheckMapping(w) \/ Checked(w)
           \/ StopBeforeSend(w) \/ GuardEnter(w) \/ StartOp(w)
  BY <1>1, <1>4 DEF Filter, CheckReceipt, CheckMapping, Checked, StopBeforeSend, GuardEnter, StartOp, request
<1>5. CASE \/ MediaUnavailable(w) \/ Prepare(w) \/ PrepareRefused(w) \/ PrepareFails(w)
           \/ StopWhileSending(w) \/ Release(w) \/ AnswerIncomplete(w)
  BY <1>1, <1>2, <1>5 DEF MediaUnavailable, Prepare, PrepareRefused, PrepareFails, NextRound, GiveUp,
     StopWhileSending, Release, AnswerIncomplete, request
<1>6. CASE \/ ConfirmMember(w) \/ ConfirmFails(w) \/ Confirmed(w) \/ LogFails(w) \/ Mark(w) \/ MarkFails(w)
  BY <1>1, <1>2, <1>6 DEF ConfirmMember, ConfirmFails, Confirmed, LogFails, Mark, MarkFails, MarkError,
     NextRound, GiveUp, request
<1> QED BY <1>3, <1>4, <1>5, <1>6 DEF Work

LEMMA StepNotResent ==
  ASSUME OneCaller, ShapeInv, Unsent, Next
  PROVE  NotResent
<1> SUFFICES ASSUME NEW w \in Workers, wire[w] = "none", wire'[w] = "sent", ~job[w].force
             PROVE  \A m \in Elems(todo[w]) : mapping[m] = 0
  BY DEF NotResent
<1>1. CASE Issue(w)
  <2>1. ~guard[w].hasResult /\ ~guard[w].unconfirmed
    BY <1>1, Sending, Unmarked DEF Issue, ShapeInv
  <2> QED BY <2>1 DEF Unsent, UnsentAt
<1>2. CASE \E v \in Workers : StartOp(v) \/ Work(v) \/ Answer(v)
  BY <1>1, <1>2, OnlyIssue DEF OneCaller
<1>3. CASE \/ \E v \in Workers : Accept(v)
           \/ AcceptOrphan \/ LoseOrphan \/ RequestStop \/ ClearStop \/ Crash
  BY <1>3 DEF Accept, OneCaller, AcceptOrphan, LoseOrphan, RequestStop, ClearStop, Crash, request
<1> QED BY <1>2, <1>3 DEF Next

\* While one operation runs at a time a rerun never sends again what has a
\* mapping, for any albums, stops, crashes, odd answers and retries.
THEOREM RerunCorrect ==
  ASSUME OneCaller
  PROVE  Spec => ConfirmedNotResent
<1>1. ShapeInv /\ Unsent /\ [Next]_vars => [NotResent]_vars
  BY OneCaller, StepNotResent
<1> QED BY <1>1, UnsentInvariant, PTL DEF Spec, ConfirmedNotResent, NotResent
-----------------------------------------------------------------------------
(* One operation at a time: a doubt is on record.                           *)

OnRecord(S) == \E m \in S : Traced(m) \/ m \in forced

DoubtAt(w) ==
  /\ pc[w] \in {"check", "checkMapping"} /\ blocked[w] => OnRecord(Elems(job[w].group))
  /\ result[w] = "sent_unmapped" => OnRecord(Elems(job[w].group))
  /\ guard[w].unconfirmed => OnRecord(Elems(todo[w]))

Doubt == \A w \in Workers : DoubtAt(w)

LEMMA FinishDoubt ==
  ASSUME ShapeInv, NEW w \in Workers, NEW r, Finish(w, r),
         r = "sent_unmapped" => OnRecord(Elems(job[w].group))'
  PROVE  DoubtAt(w)'
<1>1. pc'[w] = "idle" /\ guard'[w] = FreshGuard /\ result'[w] = r
  BY DEF Finish, ShapeInv, ReportInv, Trace, Typed, WorkerTypeOK
<1>2. ~FreshGuard.unconfirmed
  BY DEF FreshGuard
<1> QED BY <1>1, <1>2 DEF DoubtAt

\* The operation goes on to its send, or stays there, and is not marked.
LEMMA MoveDoubt ==
  ASSUME ShapeInv, NEW w \in Workers, pc[w] # "idle", UNCHANGED result,
         pc'[w] \notin {"check", "checkMapping"}, ~guard'[w].unconfirmed
  PROVE  DoubtAt(w)'
<1>1. result[w] = "none"
  BY DEF ShapeInv, Shape, ShapeAt
<1> QED BY <1>1 DEF DoubtAt

LEMMA AnotherRoundDoubt ==
  ASSUME ShapeInv, NEW w \in Workers, NEW g, AnotherRound(w, g), pc[w] # "idle",
         g.unconfirmed => OnRecord(Elems(todo[w]))'
  PROVE  DoubtAt(w)'
<1>1. pc'[w] = "send" /\ guard'[w] = g /\ UNCHANGED result
  BY DEF AnotherRound, Goto, ShapeInv, ReportInv, Trace, Typed, WorkerTypeOK
<1>2. result[w] = "none"
  BY DEF ShapeInv, Shape, ShapeAt
<1> QED BY <1>1, <1>2 DEF DoubtAt

LEMMA NextRoundDoubt ==
  ASSUME ShapeInv, NEW w \in Workers, NEW g, NextRound(w, g), pc[w] # "idle",
         g.unconfirmed => OnRecord(Elems(todo[w]))'
  PROVE  DoubtAt(w)'
BY AnotherRoundDoubt, FinishDoubt DEF NextRound, GiveUp

LEMMA GotoDoubt ==
  ASSUME ShapeInv, NEW w \in Workers, NEW label, Goto(w, label), pc[w] # "idle",
         label \notin {"check", "checkMapping"}, UNCHANGED guard, ~guard[w].unconfirmed
  PROVE  DoubtAt(w)'
<1>1. pc'[w] = label /\ UNCHANGED result
  BY DEF Goto, ShapeInv, ReportInv, Trace, Typed, WorkerTypeOK
<1> QED BY <1>1, MoveDoubt

\* A blocked group has a receipt, and nobody takes it away meanwhile.
LEMMA LookDoubt ==
  ASSUME ShapeInv, Doubt, NEW w \in Workers,
         StartOp(w) \/ Filter(w) \/ CheckReceipt(w) \/ CheckMapping(w) \/ Checked(w)
  PROVE  DoubtAt(w)'
<1>1. /\ UNCHANGED <<ledger, forced>>
      /\ pc[w] # "send"
  BY DEF StartOp, Filter, CheckReceipt, CheckMapping, Checked, history
<1>2. ~guard[w].unconfirmed
  BY <1>1, Unmarked
<1>3. CASE StartOp(w)
  <2>1. result'[w] = "none" /\ UNCHANGED <<blocked, guard>> /\ ~blocked[w]
    BY <1>3 DEF StartOp, ShapeInv, Shape, ShapeAt, ReportInv, Trace, Typed, WorkerTypeOK
  <2> QED BY <1>2, <2>1 DEF DoubtAt
<1>4. CASE Filter(w)
  <2>1. CASE Finish(w, "skipped")
    BY <2>1, FinishDoubt
  <2>2. CASE Goto(w, IF Album(w) THEN "send" ELSE "check") /\ UNCHANGED <<members, guard, request, tries>>
    <3>1. /\ pc'[w] = (IF Album(w) THEN "send" ELSE "check") /\ UNCHANGED <<result, guard, blocked>>
          /\ result[w] = "none" /\ (~Album(w) => ~blocked[w])
      BY <1>4, <2>2 DEF Filter, Goto, members, ShapeInv, Shape, ShapeAt, ReportInv, Trace, Typed, WorkerTypeOK
    <3> QED BY <1>2, <3>1 DEF DoubtAt
  <2> QED BY <1>4, <2>1, <2>2 DEF Filter
<1>5. CASE CheckReceipt(w) \/ CheckMapping(w)
  <2>1. /\ UNCHANGED <<job, guard, result>> /\ result[w] = "none"
        /\ pc[w] \in {"check", "checkMapping"} /\ idx[w] \in DOMAIN job[w].group
    BY <1>5, Members DEF CheckReceipt, CheckMapping, PositionOK, ShapeInv, Shape, ShapeAt,
       ReportInv, Trace, Typed, WorkerTypeOK
  <2>2. blocked'[w] => blocked[w] \/ receipt[job[w].group[idx[w]]] # "none"
    BY <1>5 DEF CheckReceipt, CheckMapping, ShapeInv, ReportInv, Trace, Typed, WorkerTypeOK
  <2>3. blocked'[w] => OnRecord(Elems(job[w].group))
    BY <2>1, <2>2 DEF Doubt, DoubtAt, OnRecord, Traced, Elems
  <2>4. blocked'[w] => OnRecord(Elems(job[w].group))'
    BY <1>1, <2>1, <2>3 DEF OnRecord, Traced, ledger, Elems
  <2> QED BY <1>2, <2>1, <2>4 DEF DoubtAt
<1>6. CASE Checked(w)
  <2>1. CASE Finish(w, Verdict(w))
    <3>1. Verdict(w) = "sent_unmapped" => OnRecord(Elems(job[w].group))
      BY <1>6 DEF Verdict, Checked, Doubt, DoubtAt
    <3>2. UNCHANGED job
      BY <2>1 DEF Finish
    <3>3. Verdict(w) = "sent_unmapped" => OnRecord(Elems(job[w].group))'
      BY <1>1, <3>1, <3>2 DEF OnRecord, Traced, ledger, Elems
    <3> QED BY <2>1, <3>3, FinishDoubt
  <2>2. CASE Goto(w, IF Album(w) THEN "filter" ELSE "send") /\ UNCHANGED guard
    BY <1>2, <1>6, <2>2, GotoDoubt DEF Checked
  <2> QED BY <1>6, <2>1, <2>2 DEF Checked
<1> QED BY <1>3, <1>4, <1>5, <1>6

LEMMA StopDoubt ==
  ASSUME ShapeInv, Doubt, NEW w \in Workers, StopBeforeSend(w)
  PROVE  DoubtAt(w)'
<1>1. PICK r \in StopOutcomes(w) : Finish(w, r)
  BY DEF StopBeforeSend
<1>2. r = "sent_unmapped" => guard[w].unconfirmed
  BY <1>1 DEF StopOutcomes
<1>3. Elems(todo[w]) \subseteq Elems(job[w].group)
  BY DEF ShapeInv, Shape, ShapeAt
<1>4. r = "sent_unmapped" => OnRecord(Elems(job[w].group))
  BY <1>2, <1>3 DEF Doubt, DoubtAt, OnRecord
<1>5. UNCHANGED <<ledger, forced, job>>
  BY <1>1 DEF StopBeforeSend, history, Finish
<1>6. r = "sent_unmapped" => OnRecord(Elems(job[w].group))'
  BY <1>4, <1>5 DEF OnRecord, Traced, ledger, Elems
<1> QED BY <1>1, <1>6, FinishDoubt

\* What is marked was reserved, and keeps its receipt.
LEMMA MarkDoubt ==
  ASSUME ShapeInv, NEW w \in Workers, Mark(w) \/ MarkFails(w)
  PROVE  DoubtAt(w)'
<1>1. /\ guard[w].prepared /\ pc[w] = "mark" /\ todo[w] # <<>> /\ todo[w] \in Seq(Msgs)
      /\ Elems(todo[w]) \subseteq Elems(job[w].group)
  BY Members DEF Mark, MarkFails, Beyond, ShapeInv, Shape, ShapeAt, ReportInv, Trace, Control, ControlAt
<1>2. PICK m \in Elems(todo[w]) : TRUE
  <2>1. 1 \in DOMAIN todo[w]
    BY <1>1
  <2> QED BY <2>1 DEF Elems
<1>3. Traced(m) \/ m \in forced
  BY <1>1, HeldTraced DEF ShapeInv, ReportInv
<1>4. m \in Msgs
  BY ElemsType DEF ShapeInv, ReportInv, Trace
<1>5. Traced(m)' \/ m \in forced'
  BY <1>3, <1>4 DEF Mark, MarkFails, Marked, ledger, history, Traced
<1>6. CASE \E r \in {"sent_unmapped", "raised"} : Finish(w, r)
  <2>1. UNCHANGED job
    BY <1>6 DEF Finish
  <2>2. OnRecord(Elems(job[w].group))'
    BY <1>1, <1>5, <2>1 DEF OnRecord, Elems
  <2> QED BY <1>6, <2>2, FinishDoubt
<1>7. CASE NextRound(w, DoubtfulGuard)
  <2>1. CASE AnotherRound(w, DoubtfulGuard)
    <3>1. UNCHANGED todo
      BY <2>1 DEF AnotherRound
    <3>2. OnRecord(Elems(todo[w]))'
      BY <1>5, <3>1 DEF OnRecord, Elems
    <3> QED BY <1>1, <2>1, <3>2, AnotherRoundDoubt
  <2>2. CASE Finish(w, "failed") \/ Finish(w, "raised")
    BY <2>2, FinishDoubt
  <2> QED BY <1>7, <2>1, <2>2 DEF NextRound, GiveUp
<1> QED BY <1>6, <1>7 DEF Mark, MarkFails, MarkError

LEMMA WorkDoubt ==
  ASSUME ShapeInv, Doubt, NEW w \in Workers, Work(w)
  PROVE  DoubtAt(w)'
<1>1. CASE GuardEnter(w) \/ Issue(w) \/ AnswerIncomplete(w)
  <2>1. CASE Finish(w, "raised")
    BY <2>1, FinishDoubt
  <2>2. CASE \E label \in {"issue", "calling", "confirm", "mark"} :
               Goto(w, label) /\ UNCHANGED guard /\ ~guard[w].unconfirmed
    BY <1>1, <2>2, GotoDoubt DEF GuardEnter, Issue, AnswerIncomplete
  <2> QED BY <1>1, <2>1, <2>2, Unmarked DEF GuardEnter, Issue, AnswerIncomplete, members
<1>2. CASE \/ MediaUnavailable(w) \/ StopWhileSending(w) \/ Release(w)
           \/ ConfirmFails(w) \/ Confirmed(w)
  BY <1>2, FinishDoubt DEF MediaUnavailable, StopWhileSending, Release, ConfirmFails, Confirmed
<1>3. CASE PrepareRefused(w) \/ PrepareFails(w)
  BY <1>3, FinishDoubt, NextRoundDoubt
  DEF PrepareRefused, PrepareFails, NeedsReservation, FreshGuard
<1>4. CASE LogFails(w)
  <2>1. ~guard[w].unconfirmed
    BY <1>4, Unmarked DEF LogFails
  <2> QED BY <1>4, <2>1, FinishDoubt, AnotherRoundDoubt DEF LogFails
<1>5. CASE Prepare(w)
  <2>1. pc'[w] = "issue" /\ guard'[w] = PreparedGuard /\ pc[w] = "send" /\ UNCHANGED result
    BY <1>5 DEF Prepare, NeedsReservation, Goto, ShapeInv, ReportInv, Trace, Typed, WorkerTypeOK
  <2> QED BY <2>1, MoveDoubt DEF PreparedGuard, FreshGuard
<1>6. CASE ConfirmMember(w)
  <2>1. pc[w] = "confirm" /\ UNCHANGED <<pc, guard, result>> /\ ~guard[w].unconfirmed
    BY <1>6, Unmarked DEF ConfirmMember
  <2> QED BY <2>1, MoveDoubt
<1> QED BY <1>1, <1>2, <1>3, <1>4, <1>5, <1>6, LookDoubt, StopDoubt, MarkDoubt DEF Work

LEMMA AnswerDoubt ==
  ASSUME ShapeInv, Doubt, NEW w \in Workers, Answer(w)
  PROVE  DoubtAt(w)'
<1>1. pc[w] = "calling" /\ ~guard[w].unconfirmed
  BY InCall DEF Answer, ReplyOk, ReplyPartial, ReplyUnparsable, NetworkError, UnknownError, FloodWait,
     Reject, Restricted
<1>2. CASE ReplyOk(w) \/ ReplyPartial(w)
  <2>1. PICK a : Answered(w, a)
    BY <1>2 DEF ReplyOk, ReplyPartial
  <2>2. pc'[w] = "confirm" /\ guard'[w] = AnsweredGuard(guard[w], a) /\ UNCHANGED result
    BY <2>1 DEF Answered, Goto, ShapeInv, ReportInv, Trace, Typed, WorkerTypeOK
  <2> QED BY <1>1, <2>2, MoveDoubt DEF AnsweredGuard
<1>3. CASE ReplyUnparsable(w) \/ FloodWait(w) \/ Restricted(w) \/ NetworkError(w)
  BY <1>1, <1>3, GotoDoubt, FinishDoubt
     DEF ReplyUnparsable, FloodWait, Restricted, NetworkError, members
<1>4. CASE UnknownError(w) \/ Reject(w)
  BY <1>1, <1>4, NextRoundDoubt DEF UnknownError, Reject
<1> QED BY <1>2, <1>3, <1>4 DEF Answer

LEMMA StepDoubt ==
  ASSUME OneCaller, ShapeInv, Doubt, [Next]_vars
  PROVE  Doubt'
<1>1. CASE \E w \in Workers : StartOp(w) \/ Work(w) \/ Answer(w)
  BY <1>1, LookDoubt, WorkDoubt, AnswerDoubt DEF OneCaller, Doubt
<1>2. CASE Crash
  <2>1. ~FreshGuard.unconfirmed
    BY DEF FreshGuard
  <2> QED BY <1>2, <2>1 DEF Crash, Doubt, DoubtAt
<1>3. CASE \/ \E w \in Workers : Accept(w)
           \/ AcceptOrphan \/ LoseOrphan \/ RequestStop \/ ClearStop \/ UNCHANGED vars
  <2>1. UNCHANGED <<mapping, receipt, forced, pc, job, todo, blocked, guard, result>>
    BY <1>3 DEF Accept, AcceptOrphan, LoseOrphan, RequestStop, ClearStop, vars, ledger, members, history
  <2> QED BY <2>1 DEF Doubt, DoubtAt, OnRecord, Traced, Elems
<1> QED BY <1>1, <1>2, <1>3 DEF Next

\* A caller that moves on after sent_unmapped leaves a trace of the group in the
\* ledger, while one operation runs at a time.
THEOREM DoubtRecorded ==
  ASSUME OneCaller
  PROVE  Spec => []DoubtReported
<1>1. ~FreshGuard.unconfirmed
  BY DEF FreshGuard
<1>2. Init => Doubt
  BY <1>1 DEF Init, Doubt, DoubtAt
<1>3. ShapeInv /\ Doubt /\ [Next]_vars => Doubt'
  BY OneCaller, StepDoubt
<1>4. Doubt => DoubtReported
  BY DEF Doubt, DoubtAt, OnRecord, DoubtReported
<1> QED BY <1>2, <1>3, <1>4, ShapeInvariant, PTL DEF Spec
-----------------------------------------------------------------------------
(* One operation at a time: how often a message is copied.                  *)

Underway(m) == {o \in orphans : m \in Elems(o)}

\* The copies of m, those that may still come of abandoned requests included.
Spent(m) == Copies(m) + Cardinality(Underway(m))

\* While its answer is not in, an operation may add one copy of each member.
SpareAt(w) ==
  wire[w] = "sent" \/ (pc[w] \in {"send", "issue"} /\ guard[w].prepared /\ ~guard[w].hasResult)
    => \A m \in Elems(todo[w]) \ forced : Spent(m) <= ambiguous[m]

Bounded ==
  /\ IsFiniteSet(orphans)
  /\ \A m \in Msgs \ forced : Spent(m) <= 1 + ambiguous[m]

Spare   == (\A w \in Workers : SpareAt(w)) /\ Bounded
LoneInv == ShapeInv /\ Unsent /\ Spare

Places(s, m) == {i \in DOMAIN s : s[i] = m}

LEMMA PlacesFinite ==
  ASSUME NEW S, NEW s \in Seq(S), NEW m
  PROVE  IsFiniteSet(Places(s, m)) /\ Cardinality(Places(s, m)) \in Nat
<1>1. IsFiniteSet(1..Len(s))
  BY FS_Interval
<1>2. Places(s, m) \subseteq 1..Len(s)
  BY DEF Places
<1> QED BY <1>1, <1>2, FS_Subset, FS_CardinalityType

\* A batch without repeats adds one copy of each of its members.
LEMMA PlacesConcat ==
  ASSUME NEW S, NEW s \in Seq(S), NEW t \in Seq(S), NoRepeats(t), NEW m
  PROVE  Cardinality(Places(s \o t, m)) =
           Cardinality(Places(s, m)) + (IF m \in Elems(t) THEN 1 ELSE 0)
<1>1. \A i \in DOMAIN (s \o t) :
        \/ i \in DOMAIN s /\ (s \o t)[i] = s[i]
        \/ i \notin DOMAIN s /\ i - Len(s) \in DOMAIN t /\ (s \o t)[i] = t[i - Len(s)]
  OBVIOUS
<1>2. DOMAIN s \subseteq DOMAIN (s \o t)
  OBVIOUS
<1>3. CASE m \in Elems(t)
  <2>1. PICK j \in DOMAIN t : t[j] = m
    BY <1>3 DEF Elems
  <2>2. Len(s) + j \in DOMAIN (s \o t) /\ Len(s) + j \notin DOMAIN s /\ (s \o t)[Len(s) + j] = m
    BY <2>1
  <2>3. \A k \in DOMAIN t : t[k] = m => k = j
    BY <2>1 DEF NoRepeats
  <2>4. \A i \in DOMAIN (s \o t) : (s \o t)[i] = m => (i \in DOMAIN s /\ s[i] = m) \/ i = Len(s) + j
    <3> SUFFICES ASSUME NEW i \in DOMAIN (s \o t), (s \o t)[i] = m, i \notin DOMAIN s
                 PROVE  i = Len(s) + j
      BY <1>1
    <3>1. i - Len(s) = j
      BY <1>1, <2>3
    <3> QED BY <3>1
  <2>5. Places(s \o t, m) = Places(s, m) \union {Len(s) + j}
    BY <1>1, <1>2, <2>2, <2>4 DEF Places
  <2>6. Len(s) + j \notin Places(s, m)
    BY <2>2 DEF Places
  <2> QED BY <1>3, <2>5, <2>6, PlacesFinite, FS_AddElement
<1>4. CASE m \notin Elems(t)
  <2>1. Places(s \o t, m) = Places(s, m)
    BY <1>1, <1>2, <1>4 DEF Places, Elems
  <2> QED BY <1>4, <2>1, PlacesFinite
<1> QED BY <1>3, <1>4

LEMMA CopiesPlaces ==
  ASSUME NEW m
  PROVE  Copies(m) = Cardinality(Places(target, m))
BY DEF Copies, Places

LEMMA SpentTypes ==
  ASSUME Typed, Bounded, NEW m \in Msgs
  PROVE  /\ Copies(m) \in Nat /\ ambiguous[m] \in Nat
         /\ IsFiniteSet(Underway(m)) /\ Cardinality(Underway(m)) \in Nat
<1>1. target \in Seq(Msgs) /\ ambiguous[m] \in Nat
  BY DEF Typed, SharedTypeOK
<1>2. IsFiniteSet(Underway(m))
  BY FS_Subset DEF Bounded, Underway
<1> QED BY <1>1, <1>2, CopiesPlaces, PlacesFinite, FS_CardinalityType

LEMMA SpentSame ==
  ASSUME UNCHANGED <<target, orphans>>
  PROVE  (\A m : Spent(m)' = Spent(m)) /\ (IsFiniteSet(orphans) => IsFiniteSet(orphans)')
BY DEF Spent, Copies, Underway, Elems

\* Nothing is copied and the operation has no more to spend than before.
LEMMA KeepSpare ==
  ASSUME LoneInv, NEW w \in Workers, UNCHANGED <<target, orphans, forced, ambiguous>>,
         \/ wire'[w] # "sent" /\ (pc'[w] \notin {"send", "issue"} \/ ~guard'[w].prepared \/ guard'[w].hasResult)
         \/ /\ todo'[w] = todo[w]
            /\ wire[w] = "sent" \/ (pc[w] \in {"send", "issue"} /\ guard[w].prepared /\ ~guard[w].hasResult)
  PROVE  SpareAt(w)' /\ Bounded'
<1>1. (\A m : Spent(m)' = Spent(m)) /\ IsFiniteSet(orphans')
  BY SpentSame DEF LoneInv, Spare, Bounded
<1>2. Bounded'
  BY <1>1 DEF LoneInv, Spare, Bounded
<1>3. SpareAt(w)'
  BY <1>1 DEF LoneInv, Spare, SpareAt, Elems
<1> QED BY <1>2, <1>3

LEMMA FinishSpare ==
  ASSUME LoneInv, NEW w \in Workers, NEW r, Finish(w, r), UNCHANGED <<target, orphans, forced, ambiguous>>
  PROVE  SpareAt(w)' /\ Bounded'
<1>1. wire'[w] = "none" /\ pc'[w] = "idle"
  BY DEF Finish, LoneInv, ShapeInv, ReportInv, Trace, Typed, WorkerTypeOK
<1> QED BY <1>1, KeepSpare

LEMMA AnotherRoundSpare ==
  ASSUME LoneInv, NEW w \in Workers, NEW g, AnotherRound(w, g), UNCHANGED <<target, orphans, forced, ambiguous>>,
         g.prepared /\ ~g.hasResult => wire[w] = "sent"
  PROVE  SpareAt(w)' /\ Bounded'
<1>1. wire'[w] = "none" /\ guard'[w] = g /\ UNCHANGED todo
  BY DEF AnotherRound, CloseRequest, LoneInv, ShapeInv, ReportInv, Trace, Typed, WorkerTypeOK
<1> QED BY <1>1, KeepSpare

LEMMA NextRoundSpare ==
  ASSUME LoneInv, NEW w \in Workers, NEW g, NextRound(w, g), UNCHANGED <<target, orphans, forced, ambiguous>>,
         g.prepared /\ ~g.hasResult => wire[w] = "sent"
  PROVE  SpareAt(w)' /\ Bounded'
BY FinishSpare, AnotherRoundSpare DEF NextRound, GiveUp

\* What is reserved without force has no mapping and no receipt, so nothing of
\* it is in the target or under way.
LEMMA PrepareSpare ==
  ASSUME LoneInv, NEW w \in Workers, Prepare(w)
  PROVE  SpareAt(w)' /\ Bounded'
<1>1. /\ UNCHANGED <<mapping, target, orphans, todo, wire, ambiguous>> /\ guard[w] = FreshGuard
      /\ forced' = IF job[w].force THEN forced \union Elems(todo[w]) ELSE forced
      /\ job[w].force \/ \A m \in Elems(todo[w]) : receipt[m] = "none"
  BY DEF Prepare, NeedsReservation, Reservable, remote, members, request
<1>2. (\A m : Spent(m)' = Spent(m)) /\ IsFiniteSet(orphans')
  BY <1>1, SpentSame DEF LoneInv, Spare, Bounded
<1>3. Bounded'
  BY <1>1, <1>2 DEF LoneInv, Spare, Bounded
<1>4. ASSUME NEW m \in Elems(todo[w]), m \notin forced' PROVE Spent(m) <= ambiguous[m]
  <2>1. ~job[w].force /\ m \notin forced /\ receipt[m] = "none"
    BY <1>1, <1>4
  <2>2. mapping[m] = 0
    BY <1>1, <2>1 DEF LoneInv, Unsent, UnsentAt, FreshGuard
  <2>3. m \in Msgs
    BY ElemsType DEF LoneInv, ShapeInv, ReportInv, Trace
  <2>4. ~Exposed(m)
    BY <2>1, <2>2, <2>3 DEF LoneInv, ShapeInv, ReportInv, Trace, Hold, ExposedIsTraced, Traced
  <2>5. Places(target, m) = {} /\ Underway(m) = {}
    BY <2>4 DEF Exposed, Places, Underway, Elems
  <2>6. Spent(m) = 0
    BY <2>5, CopiesPlaces, FS_EmptySet DEF Spent
  <2> QED BY <2>3, <2>6 DEF LoneInv, ShapeInv, ReportInv, Trace, Typed, SharedTypeOK
<1>5. SpareAt(w)'
  BY <1>1, <1>2, <1>4 DEF SpareAt, Elems
<1> QED BY <1>3, <1>5

-----------------------------------------------------------------------------
(* Steps that copy, abandon or give up waiting.                             *)

LEMMA AcceptSpare ==
  ASSUME LoneInv, NEW w \in Workers, Accept(w)
  PROVE  SpareAt(w)' /\ Bounded'
<1>1. /\ UNCHANGED <<orphans, pc, todo, guard, forced, ambiguous>>
      /\ target' = target \o todo[w] /\ wire[w] = "sent" /\ wire'[w] = "accepted"
  BY DEF Accept, members, history, LoneInv, ShapeInv, ReportInv, Trace, Typed, WorkerTypeOK
<1>2. pc[w] = "calling"
  BY <1>1, InCall DEF LoneInv
<1>3. SpareAt(w)'
  BY <1>1, <1>2 DEF SpareAt
<1>4. ASSUME NEW m \in Msgs \ forced PROVE Spent(m)' <= 1 + ambiguous[m]
  <2>1. target \in Seq(Msgs) /\ todo[w] \in Seq(Msgs) /\ NoRepeats(todo[w])
    BY DEF LoneInv, ShapeInv, Shape, ShapeAt, ReportInv, Trace, Typed, SharedTypeOK, WorkerTypeOK
  <2>2. Cardinality(Places(target', m)) =
          Cardinality(Places(target, m)) + (IF m \in Elems(todo[w]) THEN 1 ELSE 0)
    BY <1>1, <2>1, PlacesConcat
  <2>3. Spent(m)' = Cardinality(Places(target', m)) + Cardinality(Underway(m))
    BY <1>1 DEF Spent, Copies, Places, Underway, Elems
  <2>4. m \in Elems(todo[w]) => Spent(m) <= ambiguous[m]
    BY <1>1 DEF LoneInv, Spare, SpareAt
  <2>5. Spent(m) <= 1 + ambiguous[m]
    BY DEF LoneInv, Spare, Bounded
  <2> QED BY <2>2, <2>3, <2>4, <2>5, SpentTypes, CopiesPlaces
          DEF Spent, LoneInv, Spare, ShapeInv, ReportInv, Trace
<1>5. Bounded'
  BY <1>1, <1>4 DEF LoneInv, Spare, Bounded
<1> QED BY <1>3, <1>5

\* An abandoned request may add one copy of each of its members.
LEMMA OrphanSpent ==
  ASSUME LoneInv, NEW w \in Workers, OrphanStep(w), UNCHANGED target
  PROVE  /\ IsFiniteSet(orphans')
         /\ \A m \in Msgs :
              /\ Spent(m) \in Nat /\ Spent(m)' \in Nat
              /\ \/ Spent(m)' = Spent(m)
                 \/ wire[w] = "sent" /\ m \in Elems(todo[w]) /\ Spent(m)' <= Spent(m) + 1
<1>1. \A m \in Msgs : Spent(m) \in Nat
  BY SpentTypes DEF Spent, LoneInv, Spare, ShapeInv, ReportInv, Trace
<1>2. CASE UNCHANGED orphans
  BY <1>1, <1>2, SpentSame DEF LoneInv, Spare, Bounded
<1>3. CASE wire[w] = "sent" /\ orphans' = orphans \union {todo[w]}
  <2>1. IsFiniteSet(orphans')
    BY <1>3, FS_AddElement DEF LoneInv, Spare, Bounded
  <2>2. ASSUME NEW m \in Msgs PROVE
          /\ Spent(m)' \in Nat
          /\ Spent(m)' = Spent(m) \/ (m \in Elems(todo[w]) /\ Spent(m)' <= Spent(m) + 1)
    <3> DEFINE left == {o \in orphans' : m \in Elems(o)}
    <3>1. /\ Spent(m)' = Copies(m) + Cardinality(left)
          /\ Spent(m) = Copies(m) + Cardinality(Underway(m))
      BY DEF Spent, Copies, Underway, Elems
    <3>2. IsFiniteSet(Underway(m)) /\ Cardinality(Underway(m)) \in Nat /\ Copies(m) \in Nat
      BY SpentTypes DEF LoneInv, Spare, ShapeInv, ReportInv, Trace
    <3>3. CASE m \in Elems(todo[w])
      <4>1. left = Underway(m) \union {todo[w]}
        BY <1>3, <3>3 DEF Underway
      <4> HIDE DEF left
      <4>2. IsFiniteSet(left) /\ Cardinality(left) \in Nat
        BY <3>2, <4>1, FS_AddElement, FS_CardinalityType
      <4>3. Cardinality(left) =
              IF todo[w] \in Underway(m) THEN Cardinality(Underway(m)) ELSE Cardinality(Underway(m)) + 1
        BY <3>2, <4>1, FS_AddElement
      <4> QED BY <3>1, <3>2, <3>3, <4>2, <4>3
    <3>4. CASE m \notin Elems(todo[w])
      <4>1. left = Underway(m)
        BY <1>3, <3>4 DEF Underway
      <4> HIDE DEF left
      <4> QED BY <3>1, <3>2, <4>1
    <3> QED BY <3>3, <3>4
  <2> QED BY <1>1, <1>3, <2>1, <2>2
<1> QED BY <1>2, <1>3 DEF OrphanStep

LEMMA AbandonBounded ==
  ASSUME LoneInv, NEW w \in Workers, OrphanStep(w), UNCHANGED <<target, forced, ambiguous>>
  PROVE  Bounded'
<1>1. ASSUME NEW m \in Msgs \ forced PROVE Spent(m)' <= 1 + ambiguous[m]
  <2>1. Spent(m) <= 1 + ambiguous[m] /\ ambiguous[m] \in Nat
    BY SpentTypes DEF LoneInv, Spare, Bounded, ShapeInv, ReportInv, Trace
  <2>2. wire[w] = "sent" /\ m \in Elems(todo[w]) => Spent(m) <= ambiguous[m]
    BY DEF LoneInv, Spare, SpareAt
  <2> QED BY <2>1, <2>2, OrphanSpent
<1>2. IsFiniteSet(orphans')
  BY OrphanSpent
<1> QED BY <1>1, <1>2 DEF Bounded

LEMMA StopWhileSendingSpare ==
  ASSUME LoneInv, NEW w \in Workers, StopWhileSending(w)
  PROVE  SpareAt(w)' /\ Bounded'
<1>1. UNCHANGED <<target, forced, ambiguous>> /\ OrphanStep(w)
  BY AbandonOrphan DEF StopWhileSending, history
<1>2. wire'[w] = "none" /\ pc'[w] = "idle"
  BY DEF StopWhileSending, Finish, LoneInv, ShapeInv, ReportInv, Trace, Typed, WorkerTypeOK
<1> QED BY <1>1, <1>2, AbandonBounded DEF SpareAt

\* The request that is repeated counts as one whose fate is unknown.
LEMMA DoubtedSpare ==
  ASSUME LoneInv, NEW w \in Workers, NetworkError(w) \/ UnknownError(w)
  PROVE  SpareAt(w)' /\ Bounded'
<1>1. /\ UNCHANGED <<target, forced>> /\ OrphanStep(w)
      /\ ambiguous' = [m \in Msgs |-> IF m \in Elems(todo[w]) THEN ambiguous[m] + 1 ELSE ambiguous[m]]
  BY AbandonOrphan DEF NetworkError, UnknownError, Doubted
<1>2. ASSUME NEW m \in Msgs \ forced
      PROVE  /\ Spent(m)' <= 1 + ambiguous'[m]
             /\ m \in Elems(todo[w]) => Spent(m)' <= ambiguous'[m]
  <2>1. Spent(m) <= 1 + ambiguous[m] /\ ambiguous[m] \in Nat
    BY SpentTypes DEF LoneInv, Spare, Bounded, ShapeInv, ReportInv, Trace
  <2>2. wire[w] = "sent" /\ m \in Elems(todo[w]) => Spent(m) <= ambiguous[m]
    BY DEF LoneInv, Spare, SpareAt
  <2>3. ambiguous'[m] = IF m \in Elems(todo[w]) THEN ambiguous[m] + 1 ELSE ambiguous[m]
    BY <1>1
  <2> QED BY <1>1, <2>1, <2>2, <2>3, OrphanSpent
<1>3. Bounded'
  BY <1>1, <1>2, OrphanSpent DEF Bounded
<1>4. todo'[w] = todo[w] \/ (pc'[w] = "idle" /\ wire'[w] = "none")
  BY DEF NetworkError, UnknownError, NextRound, AnotherRound, GiveUp, Finish, members,
     LoneInv, ShapeInv, ReportInv, Trace, Typed, WorkerTypeOK
<1>5. Elems(todo[w]) \subseteq Msgs
  BY ElemsType DEF LoneInv, ShapeInv, ReportInv, Trace
<1>6. SpareAt(w)'
  BY <1>1, <1>2, <1>4, <1>5 DEF SpareAt, Elems
<1> QED BY <1>3, <1>6

\* An abandoned request is carried out, which was counted before, or lost.
LEMMA OrphanSpare ==
  ASSUME LoneInv, AcceptOrphan \/ LoseOrphan
  PROVE  Spare'
<1>1. UNCHANGED <<pc, todo, guard, wire, forced, ambiguous>>
  BY DEF AcceptOrphan, LoseOrphan, members, request, history
<1>2. PICK o \in orphans : orphans' = orphans \ {o} /\ (target' = target \o o \/ target' = target)
  BY DEF AcceptOrphan, LoseOrphan
<1>3. IsFiniteSet(orphans')
  BY <1>2, FS_RemoveElement DEF LoneInv, Spare, Bounded
<1>4. ASSUME NEW m \in Msgs PROVE Spent(m)' <= Spent(m) /\ Spent(m) \in Nat /\ Spent(m)' \in Nat
  <2> DEFINE left == {p \in orphans' : m \in Elems(p)}
             now  == Cardinality(Places(target', m))
  <2>1. Spent(m)' = now + Cardinality(left)
    BY DEF Spent, Copies, Places, Underway, Elems
  <2>2. Spent(m) = Cardinality(Places(target, m)) + Cardinality(Underway(m))
    BY CopiesPlaces DEF Spent
  <2>3. /\ target \in Seq(Msgs) /\ o \in Seq(Msgs) /\ NoRepeats(o)
        /\ IsFiniteSet(Underway(m)) /\ Cardinality(Underway(m)) \in Nat
        /\ Cardinality(Places(target, m)) \in Nat
    BY SpentTypes, PlacesFinite DEF LoneInv, Spare, ShapeInv, Shape, OrphansOK, ReportInv, Trace, Typed, SharedTypeOK
  <2>4. \/ now = Cardinality(Places(target, m))
        \/ now = Cardinality(Places(target, m)) + (IF m \in Elems(o) THEN 1 ELSE 0)
    <3>1. CASE target' = target \o o
      BY <2>3, <3>1, PlacesConcat
    <3>2. CASE target' = target
      BY <3>2
    <3> QED BY <1>2, <3>1, <3>2
  <2>5. CASE m \in Elems(o)
    <3>1. left = Underway(m) \ {o} /\ o \in Underway(m)
      BY <1>2, <2>5 DEF Underway
    <3> HIDE DEF left
    <3>2. Cardinality(left) = Cardinality(Underway(m)) - 1
      BY <2>3, <3>1, FS_RemoveElement
    <3>3. Cardinality(left) \in Nat
      BY <2>3, <3>1, FS_RemoveElement, FS_CardinalityType
    <3> QED BY <2>1, <2>2, <2>3, <2>4, <2>5, <3>2, <3>3
  <2>6. CASE m \notin Elems(o)
    <3>1. left = Underway(m)
      BY <1>2, <2>6 DEF Underway
    <3>2. now = Cardinality(Places(target, m))
      BY <2>3, <2>4, <2>6
    <3> HIDE DEF left
    <3>3. Spent(m)' = Spent(m) /\ Spent(m) \in Nat
      BY <2>1, <2>2, <2>3, <3>1, <3>2
    <3> QED BY <3>3
  <2> QED BY <2>5, <2>6
<1>5. ASSUME NEW m \in Msgs, Spent(m) <= 1 + ambiguous[m] PROVE Spent(m)' <= 1 + ambiguous[m]
  BY <1>4, <1>5 DEF LoneInv, ShapeInv, ReportInv, Trace, Typed, SharedTypeOK
<1>6. ASSUME NEW m \in Msgs, Spent(m) <= ambiguous[m] PROVE Spent(m)' <= ambiguous[m]
  BY <1>4, <1>6 DEF LoneInv, ShapeInv, ReportInv, Trace, Typed, SharedTypeOK
<1>7. Bounded'
  BY <1>1, <1>3, <1>5 DEF LoneInv, Spare, Bounded
<1>8. \A w \in Workers : Elems(todo[w]) \subseteq Msgs
  BY ElemsType DEF LoneInv, ShapeInv, ReportInv, Trace
<1>9. \A w \in Workers : SpareAt(w)'
  BY <1>1, <1>6, <1>8 DEF LoneInv, Spare, SpareAt, Elems
<1> QED BY <1>7, <1>9 DEF Spare

LEMMA CrashSpare ==
  ASSUME OneCaller, LoneInv, Crash
  PROVE  Spare'
<1>1. PICK w \in Workers : TRUE
  BY DEF Crash
<1>2. PICK S \in SUBSET {v \in Workers : wire[v] = "sent" /\ ~Refused(v)} :
        orphans' = orphans \union {todo[v] : v \in S}
  BY DEF Crash
<1>3. S = {} \/ (S = {w} /\ wire[w] = "sent" /\ ~Refused(w))
  BY <1>2 DEF OneCaller
<1>4. OrphanStep(w)
  BY <1>2, <1>3 DEF OrphanStep
<1>5. UNCHANGED <<target, forced, ambiguous>>
  BY DEF Crash, history
<1>6. Bounded'
  BY <1>4, <1>5, AbandonBounded
<1>7. \A v \in Workers : SpareAt(v)'
  BY DEF Crash, SpareAt
<1> QED BY <1>6, <1>7 DEF Spare

-----------------------------------------------------------------------------
(* The other steps, and the theorem.                                        *)

LEMMA QuietSpare ==
  ASSUME LoneInv, NEW w \in Workers,
         \/ StartOp(w) \/ Filter(w) \/ CheckReceipt(w) \/ CheckMapping(w) \/ Checked(w)
         \/ StopBeforeSend(w) \/ GuardEnter(w) \/ MediaUnavailable(w) \/ PrepareRefused(w) \/ PrepareFails(w)
         \/ Issue(w) \/ Release(w) \/ AnswerIncomplete(w)
  PROVE  SpareAt(w)' /\ Bounded'
<1>1. UNCHANGED <<target, orphans, forced, ambiguous>>
  BY DEF StartOp, Filter, CheckReceipt, CheckMapping, Checked, StopBeforeSend, GuardEnter, MediaUnavailable,
     PrepareRefused, PrepareFails, Issue, Release, AnswerIncomplete, remote, history
<1>2. CASE \E r : Finish(w, r)
  BY <1>1, <1>2, FinishSpare
<1>3. CASE PrepareRefused(w) \/ PrepareFails(w)
  BY <1>1, <1>3, FinishSpare, NextRoundSpare
  DEF PrepareRefused, PrepareFails, NeedsReservation, FreshGuard
<1>4. CASE StartOp(w) \/ CheckReceipt(w) \/ CheckMapping(w)
  <2>1. /\ pc'[w] \in {"filter", "check", "checkMapping"} /\ UNCHANGED wire
        /\ pc[w] \in {"idle", "check", "checkMapping"}
    BY <1>4 DEF StartOp, CheckReceipt, CheckMapping, request, LoneInv, ShapeInv, ReportInv, Trace, Typed, WorkerTypeOK
  <2>2. wire[w] = "none"
    BY <2>1, InCall DEF LoneInv
  <2> QED BY <1>1, <2>1, <2>2, KeepSpare
<1>5. CASE \E label : Goto(w, label) /\ (Filter(w) \/ Checked(w))
  <2>1. (\E r : Finish(w, r)) \/ UNCHANGED <<wire, guard>>
    BY <1>5 DEF Filter, Checked, request
  <2>2. pc[w] \in {"filter", "check"}
    BY <1>5 DEF Filter, Checked
  <2>3. wire[w] = "none" /\ ~guard[w].prepared
    BY <2>2, InCall DEF LoneInv, ShapeInv, ReportInv, Trace, Control, ControlAt
  <2> QED BY <1>1, <1>2, <2>1, <2>3, KeepSpare
<1>6. CASE GuardEnter(w) \/ Issue(w) \/ AnswerIncomplete(w)
  <2>1. pc[w] \in {"send", "issue", "confirm"}
    BY <1>6 DEF GuardEnter, Issue, AnswerIncomplete
  <2>2. wire[w] = "none"
    BY <2>1, InCall DEF LoneInv
  <2>3. CASE Issue(w)
    <3>1. guard[w].prepared /\ ~guard[w].hasResult /\ pc[w] = "issue" /\ UNCHANGED todo
      BY <2>3, Sending DEF Issue, members, LoneInv, ShapeInv, ReportInv, Trace, Control, ControlAt
    <3> QED BY <1>1, <3>1, KeepSpare
  <2>4. CASE GuardEnter(w) /\ ~(\E r : Finish(w, r))
    <3>1. /\ UNCHANGED <<wire, todo, guard>> /\ pc[w] = "send"
          /\ guard[w].hasResult \/ (guard[w].prepared /\ ~guard[w].hasResult)
      BY <2>4 DEF GuardEnter, members, request
    <3> QED BY <1>1, <2>2, <3>1, KeepSpare
  <2>5. CASE AnswerIncomplete(w)
    <3>1. UNCHANGED wire /\ pc'[w] = "mark"
      BY <2>5 DEF AnswerIncomplete, Goto, request, LoneInv, ShapeInv, ReportInv, Trace, Typed, WorkerTypeOK
    <3> QED BY <1>1, <2>2, <3>1, KeepSpare
  <2> QED BY <1>2, <1>6, <2>3, <2>4, <2>5
<1> QED BY <1>2, <1>3, <1>4, <1>5, <1>6 DEF Filter, Checked, StopBeforeSend, MediaUnavailable, Release

LEMMA ConfirmSpare ==
  ASSUME LoneInv, NEW w \in Workers,
         ConfirmMember(w) \/ ConfirmFails(w) \/ Confirmed(w) \/ LogFails(w) \/ Mark(w) \/ MarkFails(w)
  PROVE  SpareAt(w)' /\ Bounded'
<1>1. UNCHANGED <<target, orphans, forced, ambiguous>>
  BY DEF ConfirmMember, ConfirmFails, Confirmed, LogFails, Mark, MarkFails, remote, history
<1>2. CASE \E r : Finish(w, r)
  BY <1>1, <1>2, FinishSpare
<1>3. CASE ConfirmMember(w)
  <2>1. pc[w] = "confirm" /\ UNCHANGED <<pc, wire>>
    BY <1>3 DEF ConfirmMember, request
  <2>2. wire[w] = "none"
    BY <2>1, InCall DEF LoneInv
  <2> QED BY <1>1, <2>1, <2>2, KeepSpare
<1>4. CASE LogFails(w)
  <2>1. guard[w].hasResult
    BY <1>4 DEF LogFails, LoneInv, ShapeInv, Shape, ShapeAt
  <2> QED BY <1>1, <1>2, <1>4, <2>1, AnotherRoundSpare DEF LogFails
<1>5. CASE Mark(w) \/ MarkFails(w)
  <2>1. ~DoubtfulGuard.prepared
    BY DEF DoubtfulGuard, FreshGuard
  <2> QED BY <1>1, <1>2, <1>5, <2>1, NextRoundSpare DEF Mark, MarkFails, MarkError
<1> QED BY <1>2, <1>3, <1>4, <1>5 DEF ConfirmFails, Confirmed

LEMMA AnswerSpare ==
  ASSUME LoneInv, NEW w \in Workers, Answer(w)
  PROVE  SpareAt(w)' /\ Bounded'
<1>1. CASE ReplyOk(w) \/ ReplyPartial(w)
  <2>1. PICK a : Answered(w, a)
    BY <1>1 DEF ReplyOk, ReplyPartial
  <2>2. /\ pc'[w] = "confirm" /\ wire'[w] = "none"
        /\ UNCHANGED <<target, orphans, forced, ambiguous>>
    BY <2>1 DEF Answered, Goto, CloseRequest, remote, history, LoneInv, ShapeInv, ReportInv, Trace, Typed, WorkerTypeOK
  <2> QED BY <2>2, KeepSpare
<1>2. CASE ReplyUnparsable(w) \/ FloodWait(w) \/ Restricted(w)
  <2>1. /\ UNCHANGED <<target, orphans, forced, ambiguous, todo>> /\ wire'[w] = "none"
        /\ pc'[w] \in {"mark", "release"} \/ wire[w] = "sent"
    BY <1>2 DEF ReplyUnparsable, FloodWait, Restricted, Goto, CloseRequest, remote, members, history,
       LoneInv, ShapeInv, ReportInv, Trace, Typed, WorkerTypeOK
  <2> QED BY <2>1, KeepSpare
<1>3. CASE Reject(w)
  BY <1>3, NextRoundSpare DEF Reject, remote, history
<1> QED BY <1>1, <1>2, <1>3, DoubtedSpare DEF Answer

LEMMA StepSpare ==
  ASSUME OneCaller, LoneInv, [Next]_vars
  PROVE  Spare'
<1>1. ASSUME NEW w \in Workers, StartOp(w) \/ Work(w) \/ Accept(w) \/ Answer(w)
      PROVE  Spare'
  <2>1. SpareAt(w)' /\ Bounded'
    BY <1>1, QuietSpare, PrepareSpare, StopWhileSendingSpare, ConfirmSpare, AcceptSpare, AnswerSpare DEF Work
  <2> QED BY <2>1 DEF OneCaller, Spare
<1>2. CASE RequestStop \/ ClearStop \/ UNCHANGED vars
  <2>1. UNCHANGED <<target, orphans, pc, todo, guard, wire, forced, ambiguous>>
    BY <1>2 DEF RequestStop, ClearStop, vars, remote, members, request, history
  <2>2. (\A m : Spent(m)' = Spent(m)) /\ IsFiniteSet(orphans')
    BY <2>1, SpentSame DEF LoneInv, Spare, Bounded
  <2> QED BY <2>1, <2>2 DEF LoneInv, Spare, SpareAt, Bounded, Elems
<1> QED BY <1>1, <1>2, OrphanSpare, CrashSpare DEF Next

\* While one operation runs at a time, a message is copied at most once without
\* force, plus once for every request for it that ended in a network error: no
\* crash, stop, failed write, odd answer or rerun adds a copy.
THEOREM CopiesCorrect ==
  ASSUME OneCaller
  PROVE  Spec => []CopiesBounded
<1>1. Init => Spare
  <2> SUFFICES ASSUME Init PROVE Spare
    OBVIOUS
  <2>1. ~FreshGuard.prepared /\ IsFiniteSet(orphans)
    BY FS_EmptySet DEF FreshGuard, Init
  <2>2. \A m \in Msgs : Spent(m) = 0 /\ ambiguous[m] = 0
    <3> TAKE m \in Msgs
    <3>1. Places(target, m) = {} /\ Underway(m) = {}
      BY DEF Init, Places, Underway
    <3>2. Cardinality(Places(target, m)) = 0 /\ Cardinality(Underway(m)) = 0
      BY <3>1, FS_EmptySet
    <3>3. ambiguous[m] = 0
      BY DEF Init
    <3> QED BY <3>2, <3>3, CopiesPlaces DEF Spent
  <2> QED BY <2>1, <2>2 DEF Init, Spare, SpareAt, Bounded
<1>2. ShapeInv /\ Unsent /\ Spare /\ [Next]_vars => Spare'
  BY OneCaller, StepSpare DEF LoneInv
<1>3. ShapeInv /\ Spare => CopiesBounded
  <2> SUFFICES ASSUME ShapeInv, Spare, NEW m \in Msgs \ forced
               PROVE  Copies(m) <= 1 + ambiguous[m]
    BY DEF CopiesBounded
  <2>1. Spent(m) <= 1 + ambiguous[m]
    BY DEF Spare, Bounded
  <2> QED BY <2>1, SpentTypes DEF Spent, Spare, ShapeInv, ReportInv, Trace
<1> QED BY <1>1, <1>2, <1>3, UnsentInvariant, PTL DEF Spec
=============================================================================
