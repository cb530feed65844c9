--------------------------- MODULE DeliveryProofs ----------------------------
(*****************************************************************************)
(* Proofs about Delivery, for any number of workers: type correctness; what *)
(* is exposed to the target is traced in the database, and reservations     *)
(* exclude each other (Trace adds what an operation knows while it holds a  *)
(* reservation); and Delivery implements DeliveryLedger, with mappings that *)
(* name true copies (Sound adds why a confirmation names something that was *)
(* posted).                                                                 *)
(*****************************************************************************)
EXTENDS DeliveryRefinement, SequenceTheorems, TLAPS

-----------------------------------------------------------------------------
(* Type correctness.                                                        *)

LEMMA FreshTypes == FreshGuard \in Guard /\ FreshTries \in Tries /\ FreshJob \in Job
                    /\ PreparedGuard \in Guard /\ DoubtfulGuard \in Guard
<1>1. <<>> \in Seq(Nat) /\ <<>> \in Seq(Msgs)
  OBVIOUS
<1> QED BY <1>1 DEF FreshGuard, FreshTries, PreparedGuard, DoubtfulGuard, FreshJob, Guard, Tries, Job

LEMMA TriesTypes ==
  ASSUME NEW t \in Tries
  PROVE  {AfterRound(t), AfterFlood(t), AfterNetError(t)} \subseteq Tries
BY DEF Tries, AfterRound, AfterFlood, AfterNetError

LEMMA GuardTypes ==
  ASSUME NEW g \in Guard, NEW a \in Seq(Nat)
  PROVE  AnsweredGuard(g, a) \in Guard
BY DEF Guard, AnsweredGuard

LEMMA FinishType ==
  ASSUME WorkerTypeOK, NEW w \in Workers, NEW r \in Results, Finish(w, r)
  PROVE  WorkerTypeOK'
<1>1. <<>> \in Seq(Nat) /\ <<>> \in Seq(Msgs)
  OBVIOUS
<1> QED BY <1>1, FreshTypes DEF Finish, WorkerTypeOK, PCs

LEMMA AnotherRoundType ==
  ASSUME WorkerTypeOK, NEW w \in Workers, NEW g \in Guard, AnotherRound(w, g)
  PROVE  WorkerTypeOK'
<1>1. <<>> \in Seq(Nat)
  OBVIOUS
<1>2. AfterRound(tries[w]) \in Tries
  BY TriesTypes DEF WorkerTypeOK
<1>3. /\ tries' \in [Workers -> Tries]
      /\ guard' \in [Workers -> Guard]
      /\ idx' \in [Workers -> Nat \ {0}]
  BY <1>2 DEF AnotherRound, WorkerTypeOK
<1> QED BY <1>1, <1>3 DEF AnotherRound, Goto, CloseRequest, WorkerTypeOK, PCs

LEMMA NextRoundType ==
  ASSUME WorkerTypeOK, NEW w \in Workers, NEW g \in Guard, NextRound(w, g)
  PROVE  WorkerTypeOK'
BY AnotherRoundType, FinishType DEF NextRound, GiveUp, Results

LEMMA AbandonType ==
  ASSUME TypeOK, NEW w \in Workers, Abandon(w)
  PROVE  target' \in Seq(Msgs) /\ orphans' \subseteq Seq(Msgs)
BY DEF Abandon, TypeOK, SharedTypeOK, WorkerTypeOK

LEMMA MarkErrorType ==
  ASSUME TypeOK, NEW w \in Workers, MarkError(w)
  PROVE  WorkerTypeOK'
BY NextRoundType, FinishType, FreshTypes DEF MarkError, TypeOK, Results

LEMMA FinishPosition ==
  ASSUME TypeOK, PositionOK, NEW w \in Workers, NEW r \in Results, Finish(w, r)
  PROVE  PositionOK'
BY DEF PositionOK, Finish, TypeOK, WorkerTypeOK

LEMMA AnotherRoundPosition ==
  ASSUME TypeOK, PositionOK, NEW w \in Workers, NEW g \in Guard, AnotherRound(w, g)
  PROVE  PositionOK'
BY DEF AnotherRound, Goto, PositionOK, TypeOK, WorkerTypeOK

Typed == SharedTypeOK /\ WorkerTypeOK /\ PositionOK

\* A step that leaves the database, Telegram and the counters alone.
Local == UNCHANGED <<ledger, remote, protected, stopRequested, history, bounds>>

LEMMA LocalShared ==
  ASSUME SharedTypeOK, Local
  PROVE  SharedTypeOK'
BY DEF Local, SharedTypeOK, ledger, remote, history, bounds

LEMMA FinishTyped ==
  ASSUME Typed, SharedTypeOK', NEW w \in Workers, NEW r \in Results, Finish(w, r)
  PROVE  Typed'
BY FinishType, FinishPosition DEF Typed, TypeOK

LEMMA AnotherRoundTyped ==
  ASSUME Typed, SharedTypeOK', NEW w \in Workers, NEW g \in Guard, AnotherRound(w, g)
  PROVE  Typed'
BY AnotherRoundType, AnotherRoundPosition DEF Typed, TypeOK

LEMMA NextRoundTyped ==
  ASSUME Typed, SharedTypeOK', NEW w \in Workers, NEW g \in Guard, NextRound(w, g)
  PROVE  Typed'
BY AnotherRoundTyped, FinishTyped DEF NextRound, GiveUp, Results

\* A step to another label that keeps the members.
LEMMA GotoTyped ==
  ASSUME Typed, SharedTypeOK', NEW w \in Workers, NEW label \in PCs \ {"checkMapping"},
         Goto(w, label), UNCHANGED members,
         guard' \in [Workers -> Guard], tries' \in [Workers -> Tries],
         wire' \in [Workers -> {"none", "sent", "accepted"}], ids' \in [Workers -> Seq(Nat)]
  PROVE  Typed'
<1>1. WorkerTypeOK'
  BY DEF Goto, members, Typed, WorkerTypeOK
<1>2. PositionOK'
  BY DEF Goto, members, PositionOK, Typed, WorkerTypeOK
<1> QED BY <1>1, <1>2 DEF Typed

LEMMA CloseRequestType ==
  ASSUME WorkerTypeOK, NEW w \in Workers, CloseRequest(w)
  PROVE  wire' \in [Workers -> {"none", "sent", "accepted"}] /\ ids' \in [Workers -> Seq(Nat)]
<1>1. <<>> \in Seq(Nat)
  OBVIOUS
<1> QED BY <1>1 DEF CloseRequest, WorkerTypeOK

LEMMA AnsweredTyped ==
  ASSUME Typed, NEW w \in Workers, NEW a \in Seq(Nat), Answered(w, a)
  PROVE  Typed'
<1>1. guard' \in [Workers -> Guard]
  BY GuardTypes DEF Answered, Typed, WorkerTypeOK
<1>2. SharedTypeOK'
  BY LocalShared DEF Answered, Local, Typed
<1>3. wire' \in [Workers -> {"none", "sent", "accepted"}] /\ ids' \in [Workers -> Seq(Nat)]
  BY CloseRequestType DEF Answered, Typed
<1>4. Goto(w, "confirm") /\ UNCHANGED members /\ tries' \in [Workers -> Tries]
  BY DEF Answered, Typed, WorkerTypeOK
<1> QED BY <1>1, <1>2, <1>3, <1>4, GotoTyped DEF PCs

LEMMA StartOpTyped ==
  ASSUME DeliveryAssumption, Typed, NEW w \in Workers, StartOp(w)
  PROVE  Typed'
<1>1. PICK g \in Groups, f \in Forces, m \in Modes :
        job' = [job EXCEPT ![w] = [group |-> g, force |-> f, mode |-> m]]
  BY DEF StartOp
<1>2. [group |-> g, force |-> f, mode |-> m] \in Job
  BY DEF DeliveryAssumption, Job
<1>3. /\ job' \in [Workers -> Job]
      /\ pc' \in [Workers -> PCs]
      /\ pc'[w] # "checkMapping"
      /\ \A v \in Workers \ {w} : pc'[v] = pc[v] /\ job'[v] = job[v]
  BY <1>1, <1>2 DEF StartOp, Typed, WorkerTypeOK, PCs
<1>4. ops' \in Nat /\ crashes' \in Nat /\ stops' \in Nat
  BY DEF StartOp, Typed, SharedTypeOK
<1>5. UNCHANGED <<mapping, receipt, target, orphans, protected, stopRequested, forced, ambiguous>>
  BY DEF StartOp, ledger, remote, history
<1>6. SharedTypeOK'
  BY <1>4, <1>5 DEF Typed, SharedTypeOK
<1>7. WorkerTypeOK'
  BY <1>3 DEF StartOp, Typed, WorkerTypeOK, Results, request
<1>8. PositionOK'
  BY <1>3 DEF StartOp, Typed, PositionOK
<1> QED BY <1>6, <1>7, <1>8 DEF Typed

LEMMA FilterTyped ==
  ASSUME Typed, NEW w \in Workers, Filter(w)
  PROVE  Typed'
<1>1. SharedTypeOK'
  BY LocalShared DEF Filter, Local, Typed
<1>2. CASE Finish(w, "skipped")
  BY <1>1, <1>2, FinishTyped DEF Results
<1>3. CASE Goto(w, IF Album(w) THEN "send" ELSE "check") /\ UNCHANGED <<members, guard, request, tries>>
  BY <1>1, <1>3, GotoTyped DEF PCs, Typed, WorkerTypeOK, request
<1> QED BY <1>2, <1>3 DEF Filter

LEMMA CheckReceiptTyped ==
  ASSUME Typed, NEW w \in Workers, CheckReceipt(w)
  PROVE  Typed'
<1> DEFINE m == job[w].group[idx[w]]
<1>1. m \in Msgs
  BY DEF CheckReceipt, Typed, WorkerTypeOK, Job
<1>2. Append(todo[w], m) \in Seq(Msgs)
  BY <1>1 DEF Typed, WorkerTypeOK
<1>3. todo' = todo \/ todo' = [todo EXCEPT ![w] = Append(todo[w], m)]
  BY DEF CheckReceipt
<1>4. todo' \in [Workers -> Seq(Msgs)]
  BY <1>2, <1>3 DEF Typed, WorkerTypeOK
<1>5. pc' \in [Workers -> PCs]
  <2>1. pc' = pc \/ pc' = [pc EXCEPT ![w] = "checkMapping"]
    BY DEF CheckReceipt
  <2> QED BY <2>1 DEF Typed, WorkerTypeOK, PCs
<1>6. idx' \in [Workers -> Nat \ {0}]
  <2>1. idx' = idx \/ idx' = [idx EXCEPT ![w] = idx[w] + 1]
    BY DEF CheckReceipt
  <2>2. idx[w] + 1 \in Nat \ {0}
    BY DEF Typed, WorkerTypeOK
  <2>3. CASE idx' = [idx EXCEPT ![w] = idx[w] + 1]
    BY <2>2, <2>3 DEF Typed, WorkerTypeOK
  <2> QED BY <2>1, <2>3 DEF Typed, WorkerTypeOK
<1>7. blocked' \in [Workers -> BOOLEAN]
  <2>1. blocked' = blocked \/ blocked' = [blocked EXCEPT ![w] = TRUE]
    BY DEF CheckReceipt
  <2> QED BY <2>1 DEF Typed, WorkerTypeOK
<1>8. WorkerTypeOK'
  BY <1>4, <1>5, <1>6, <1>7 DEF CheckReceipt, Typed, WorkerTypeOK, request
<1>9. PositionOK'
  BY DEF CheckReceipt, PositionOK, Typed, WorkerTypeOK
<1>10. SharedTypeOK'
  BY LocalShared DEF CheckReceipt, Local, Typed
<1> QED BY <1>8, <1>9, <1>10 DEF Typed

LEMMA CheckMappingTyped ==
  ASSUME Typed, NEW w \in Workers, CheckMapping(w)
  PROVE  Typed'
<1> DEFINE m == job[w].group[idx[w]]
<1>1. m \in Msgs
  BY DEF CheckMapping, PositionOK, Typed, WorkerTypeOK, Job
<1>2. todo[w] \in Seq(Msgs) /\ Append(todo[w], m) \in Seq(Msgs)
  BY <1>1 DEF Typed, WorkerTypeOK
<1>3. todo' \in [Workers -> Seq(Msgs)]
  BY <1>2 DEF CheckMapping, Pending, Typed, WorkerTypeOK
<1>4. pc' \in [Workers -> PCs] /\ idx' \in [Workers -> Nat \ {0}]
  BY DEF CheckMapping, Typed, WorkerTypeOK, PCs
<1>5. WorkerTypeOK'
  BY <1>3, <1>4 DEF CheckMapping, Typed, WorkerTypeOK, request
<1>6. PositionOK'
  BY DEF CheckMapping, PositionOK, Typed, WorkerTypeOK
<1>7. SharedTypeOK'
  BY LocalShared DEF CheckMapping, Local, Typed
<1> QED BY <1>5, <1>6, <1>7 DEF Typed

LEMMA CheckedTyped ==
  ASSUME Typed, NEW w \in Workers, Checked(w)
  PROVE  Typed'
<1>1. SharedTypeOK'
  BY LocalShared DEF Checked, Local, Typed
<1>2. CASE \E r \in Results : Finish(w, r)
  BY <1>1, <1>2, FinishTyped
<1>3. CASE /\ Goto(w, IF Album(w) THEN "filter" ELSE "send")
           /\ idx' = [idx EXCEPT ![w] = 1]
           /\ UNCHANGED <<job, todo, blocked, guard, request, tries>>
  <2>1. WorkerTypeOK'
    BY <1>3 DEF Goto, Typed, WorkerTypeOK, PCs, request
  <2>2. PositionOK'
    BY <1>3 DEF Goto, PositionOK, Typed, WorkerTypeOK
  <2> QED BY <1>1, <2>1, <2>2 DEF Typed
<1> QED BY <1>2, <1>3 DEF Checked, Verdict, Results

LEMMA SendTyped ==
  ASSUME Typed, NEW w \in Workers, StopBeforeSend(w) \/ GuardEnter(w)
  PROVE  Typed'
<1>1. SharedTypeOK'
  BY LocalShared DEF StopBeforeSend, GuardEnter, Local, Typed
<1>2. CASE \E r \in Results : Finish(w, r)
  BY <1>1, <1>2, FinishTyped
<1>3. CASE (Goto(w, "confirm") \/ Goto(w, "issue")) /\ UNCHANGED <<members, guard, request, tries>>
  BY <1>1, <1>3, GotoTyped DEF PCs, Typed, WorkerTypeOK, request
<1> QED BY <1>2, <1>3 DEF StopBeforeSend, StopOutcomes, GuardEnter, Results

LEMMA PrepareTyped ==
  ASSUME Typed, NEW w \in Workers, Prepare(w)
  PROVE  Typed'
<1>1. forced' \subseteq Msgs
  BY DEF Prepare, Typed, SharedTypeOK, WorkerTypeOK, Elems
<1>2. SharedTypeOK'
  BY <1>1 DEF Prepare, Reserved, Typed, SharedTypeOK, Receipts, remote, bounds
<1>3. guard' \in [Workers -> Guard]
  BY FreshTypes DEF Prepare, Typed, WorkerTypeOK
<1>4. Goto(w, "issue") /\ UNCHANGED <<members, request, tries>>
  BY DEF Prepare
<1> QED BY <1>2, <1>3, <1>4, GotoTyped DEF PCs, Typed, WorkerTypeOK, request

LEMMA PrepareEndsTyped ==
  ASSUME Typed, NEW w \in Workers, MediaUnavailable(w) \/ PrepareRefused(w) \/ PrepareFails(w)
  PROVE  Typed'
<1>1. SharedTypeOK'
  BY LocalShared DEF MediaUnavailable, PrepareRefused, PrepareFails, Local, Typed
<1>2. guard[w] \in Guard
  BY DEF Typed, WorkerTypeOK
<1> QED BY <1>1, <1>2, FinishTyped, NextRoundTyped DEF MediaUnavailable, PrepareRefused, PrepareFails, Results

LEMMA IssueTyped ==
  ASSUME Typed, NEW w \in Workers, Issue(w)
  PROVE  Typed'
<1>1. SharedTypeOK'
  BY LocalShared DEF Issue, Local, Typed
<1> QED BY <1>1, GotoTyped DEF Issue, PCs, Typed, WorkerTypeOK

LEMMA StopWhileSendingTyped ==
  ASSUME Typed, NEW w \in Workers, StopWhileSending(w)
  PROVE  Typed'
<1>1. SharedTypeOK'
  BY AbandonType DEF StopWhileSending, Typed, TypeOK, SharedTypeOK, ledger, history, bounds
<1> QED BY <1>1, FinishTyped DEF StopWhileSending, Results

LEMMA AcceptTyped ==
  ASSUME Typed, NEW w \in Workers, Accept(w)
  PROVE  Typed'
<1>1. target' \in Seq(Msgs)
  BY DEF Accept, Typed, SharedTypeOK, WorkerTypeOK
<1>2. SharedTypeOK'
  BY <1>1 DEF Accept, Typed, SharedTypeOK, ledger, history, bounds
<1>3. Len(target) \in Nat /\ Len(todo[w]) \in Nat
  BY DEF Typed, SharedTypeOK, WorkerTypeOK
<1>4. [i \in 1..Len(todo[w]) |-> Len(target) + i] \in Seq(Nat)
  BY <1>3
<1>5. ids' \in [Workers -> Seq(Nat)]
  BY <1>4 DEF Accept, Typed, WorkerTypeOK
<1>6. WorkerTypeOK'
  BY <1>5 DEF Accept, Typed, WorkerTypeOK, members
<1>7. PositionOK'
  BY DEF Accept, Typed, PositionOK, members
<1> QED BY <1>2, <1>6, <1>7 DEF Typed

LEMMA OrphanTyped ==
  ASSUME Typed, AcceptOrphan \/ LoseOrphan
  PROVE  Typed'
<1>1. ASSUME AcceptOrphan
      PROVE  target' \in Seq(Msgs) /\ orphans' \subseteq Seq(Msgs)
  <2>1. PICK o \in orphans : target' = target \o o /\ orphans' = orphans \ {o}
    BY <1>1 DEF AcceptOrphan
  <2>2. target \in Seq(Msgs) /\ o \in Seq(Msgs) /\ orphans \subseteq Seq(Msgs)
    BY DEF Typed, SharedTypeOK
  <2> QED BY <2>1, <2>2
<1>2. ASSUME LoseOrphan
      PROVE  target' \in Seq(Msgs) /\ orphans' \subseteq Seq(Msgs)
  BY <1>2 DEF LoseOrphan, Typed, SharedTypeOK
<1>3. SharedTypeOK'
  BY <1>1, <1>2 DEF AcceptOrphan, LoseOrphan, Typed, SharedTypeOK, ledger, history, bounds
<1>4. UNCHANGED <<pc, members, guard, request, tries, result>>
  BY DEF AcceptOrphan, LoseOrphan
<1>5. WorkerTypeOK'
  BY <1>4 DEF Typed, WorkerTypeOK, members, request
<1>6. PositionOK'
  BY <1>4 DEF Typed, PositionOK, members
<1> QED BY <1>3, <1>5, <1>6 DEF Typed

LEMMA ReplyOkTyped ==
  ASSUME Typed, NEW w \in Workers, ReplyOk(w)
  PROVE  Typed'
BY AnsweredTyped DEF ReplyOk, Typed, WorkerTypeOK

LEMMA ReplyPartialTyped ==
  ASSUME Typed, NEW w \in Workers, ReplyPartial(w)
  PROVE  Typed'
<1>1. ids[w] \in Seq(Nat)
  BY DEF Typed, WorkerTypeOK
<1>2. ASSUME NEW i \in 1..Len(ids[w]), NEW j \in 0..Len(ids[w])
      PROVE  SubSeq(ids[w], i, j) \in Seq(Nat)
  BY <1>1, SubSeqProperties
<1>3. ASSUME NEW i \in 1..Len(ids[w]), NEW j \in 1..Len(ids[w])
      PROVE  [ids[w] EXCEPT ![i] = IF i = j THEN 0 ELSE ids[w][j]] \in Seq(Nat)
  BY <1>1
<1>4. \E a \in Seq(Nat) : Answered(w, a)
  BY <1>2, <1>3 DEF ReplyPartial
<1> QED BY <1>4, AnsweredTyped

LEMMA RequestClosedTyped ==
  ASSUME Typed, NEW w \in Workers, ReplyUnparsable(w) \/ Restricted(w) \/ FloodWait(w)
  PROVE  Typed'
<1>1. SharedTypeOK'
  BY LocalShared DEF ReplyUnparsable, Restricted, FloodWait, Local, Typed
<1>2. wire' \in [Workers -> {"none", "sent", "accepted"}] /\ ids' \in [Workers -> Seq(Nat)]
  BY CloseRequestType DEF ReplyUnparsable, Restricted, FloodWait, Typed
<1>3. tries' \in [Workers -> Tries]
  BY TriesTypes DEF ReplyUnparsable, Restricted, FloodWait, Typed, WorkerTypeOK
<1>4. (Goto(w, "mark") \/ Goto(w, "release") \/ Goto(w, "send")) /\ UNCHANGED <<members, guard>>
  BY DEF ReplyUnparsable, Restricted, FloodWait
<1> QED BY <1>1, <1>2, <1>3, <1>4, GotoTyped DEF PCs, Typed, WorkerTypeOK

LEMMA NetworkErrorTyped ==
  ASSUME Typed, NEW w \in Workers, NetworkError(w)
  PROVE  Typed'
<1>1. ambiguous' \in [Msgs -> Nat]
  BY DEF NetworkError, Doubted, Typed, SharedTypeOK
<1>2. SharedTypeOK'
  BY <1>1, AbandonType DEF NetworkError, Typed, TypeOK, SharedTypeOK, ledger, bounds
<1>3. CASE Finish(w, "raised")
  BY <1>2, <1>3, FinishTyped DEF Results
<1>4. CASE /\ tries' = [tries EXCEPT ![w] = AfterNetError(tries[w])]
           /\ CloseRequest(w)
           /\ Goto(w, "send")
           /\ UNCHANGED <<members, guard>>
  <2>1. tries' \in [Workers -> Tries]
    BY <1>4, TriesTypes DEF Typed, WorkerTypeOK
  <2>2. wire' \in [Workers -> {"none", "sent", "accepted"}] /\ ids' \in [Workers -> Seq(Nat)]
    BY <1>4, CloseRequestType DEF Typed
  <2> QED BY <1>2, <1>4, <2>1, <2>2, GotoTyped DEF PCs, Typed, WorkerTypeOK
<1> QED BY <1>3, <1>4 DEF NetworkError

LEMMA UnknownErrorTyped ==
  ASSUME Typed, NEW w \in Workers, UnknownError(w)
  PROVE  Typed'
<1>1. ambiguous' \in [Msgs -> Nat]
  BY DEF UnknownError, Doubted, Typed, SharedTypeOK
<1>2. SharedTypeOK'
  BY <1>1, AbandonType DEF UnknownError, Typed, TypeOK, SharedTypeOK, ledger, bounds
<1> QED BY <1>2, NextRoundTyped DEF UnknownError, Typed, WorkerTypeOK

LEMMA RejectTyped ==
  ASSUME Typed, NEW w \in Workers, Reject(w)
  PROVE  Typed'
<1>1. SharedTypeOK'
  BY LocalShared DEF Reject, Local, Typed
<1> QED BY <1>1, NextRoundTyped DEF Reject, Typed, WorkerTypeOK

LEMMA ReleaseTyped ==
  ASSUME Typed, NEW w \in Workers, Release(w)
  PROVE  Typed'
<1>1. receipt' \in [Msgs -> Receipts]
  BY DEF Release, Typed, SharedTypeOK, Receipts
<1>2. SharedTypeOK'
  BY <1>1 DEF Release, Typed, SharedTypeOK, remote, history, bounds
<1> QED BY <1>2, FinishTyped DEF Release, Results

LEMMA AnswerIncompleteTyped ==
  ASSUME Typed, NEW w \in Workers, AnswerIncomplete(w)
  PROVE  Typed'
<1>1. SharedTypeOK'
  BY LocalShared DEF AnswerIncomplete, Local, Typed
<1> QED BY <1>1, GotoTyped DEF AnswerIncomplete, PCs, Typed, WorkerTypeOK, request

\* The id of a confirmed member is a message id.
LEMMA ConfirmedId ==
  ASSUME Typed, NEW w \in Workers, Complete(w), ~AllRecorded(w)
  PROVE  todo[w][idx[w]] \in Msgs /\ AnswerFor(w) \in Nat \ {0}
<1>1. guard[w].answer \in Seq(Nat) /\ todo[w] \in Seq(Msgs) /\ idx[w] \in Nat \ {0}
  BY DEF Typed, WorkerTypeOK, Guard
<1>2. idx[w] \in DOMAIN guard[w].answer /\ idx[w] \in DOMAIN todo[w]
  BY <1>1 DEF Complete, AllRecorded
<1> QED BY <1>1, <1>2 DEF Complete, AnswerFor

LEMMA ConfirmMemberTyped ==
  ASSUME Typed, NEW w \in Workers, ConfirmMember(w)
  PROVE  Typed'
<1>1. todo[w][idx[w]] \in Msgs /\ AnswerFor(w) \in Nat \ {0}
  BY ConfirmedId DEF ConfirmMember
<1>2. mapping' \in [Msgs -> Nat] /\ receipt' \in [Msgs -> Receipts]
  BY <1>1 DEF ConfirmMember, Typed, SharedTypeOK, Receipts
<1>3. SharedTypeOK'
  BY <1>2 DEF ConfirmMember, Typed, SharedTypeOK, remote, history, bounds
<1>4. idx' \in [Workers -> Nat \ {0}]
  BY DEF ConfirmMember, Typed, WorkerTypeOK
<1>5. WorkerTypeOK'
  BY <1>4 DEF ConfirmMember, Typed, WorkerTypeOK, request
<1>6. PositionOK'
  BY DEF ConfirmMember, Typed, PositionOK, WorkerTypeOK
<1> QED BY <1>3, <1>5, <1>6 DEF Typed

LEMMA ConfirmEndsTyped ==
  ASSUME Typed, NEW w \in Workers, ConfirmFails(w) \/ Confirmed(w) \/ LogFails(w)
  PROVE  Typed'
<1>1. SharedTypeOK'
  BY LocalShared DEF ConfirmFails, Confirmed, LogFails, Local, Typed
<1>2. guard[w] \in Guard
  BY DEF Typed, WorkerTypeOK
<1> QED BY <1>1, <1>2, FinishTyped, AnotherRoundTyped DEF ConfirmFails, Confirmed, LogFails, Results

LEMMA MarkErrorTyped ==
  ASSUME Typed, SharedTypeOK', NEW w \in Workers, MarkError(w)
  PROVE  Typed'
BY FreshTypes, FinishTyped, NextRoundTyped DEF MarkError, Results

LEMMA MarkTyped ==
  ASSUME Typed, NEW w \in Workers, Mark(w) \/ MarkFails(w)
  PROVE  Typed'
<1>1. receipt' \in [Msgs -> Receipts]
  BY DEF Mark, MarkFails, Marked, Typed, SharedTypeOK, Receipts, ledger
<1>2. SharedTypeOK'
  BY <1>1 DEF Mark, MarkFails, Typed, SharedTypeOK, ledger, remote, history, bounds
<1> QED BY <1>2, MarkErrorTyped, FinishTyped DEF Mark, MarkFails, Results

LEMMA StopTyped ==
  ASSUME Typed, RequestStop \/ ClearStop
  PROVE  Typed'
<1>1. UNCHANGED <<mapping, receipt, target, orphans, protected, forced, ambiguous>>
  BY DEF RequestStop, ClearStop, ledger, remote, history
<1>2. stopRequested' \in BOOLEAN
  BY DEF RequestStop, ClearStop
<1>3. ops' \in Nat /\ crashes' \in Nat /\ stops' \in Nat
  BY DEF RequestStop, ClearStop, Typed, SharedTypeOK, bounds
<1>4. SharedTypeOK'
  BY <1>1, <1>2, <1>3 DEF Typed, SharedTypeOK
<1>5. UNCHANGED <<pc, members, guard, request, tries, result>>
  BY DEF RequestStop, ClearStop
<1>6. WorkerTypeOK'
  BY <1>5 DEF Typed, WorkerTypeOK, members, request
<1>7. PositionOK'
  BY <1>5 DEF Typed, PositionOK, members
<1> QED BY <1>4, <1>6, <1>7 DEF Typed

LEMMA CrashTyped ==
  ASSUME Typed, Crash
  PROVE  Typed'
<1>1. orphans' \subseteq Seq(Msgs)
  BY DEF Crash, Typed, SharedTypeOK, WorkerTypeOK
<1>2. UNCHANGED <<mapping, receipt, target, protected, forced, ambiguous>> /\ stopRequested' = FALSE
  BY DEF Crash, ledger, history
<1>3. ops' \in Nat /\ crashes' \in Nat /\ stops' \in Nat
  BY DEF Crash, Typed, SharedTypeOK
<1>4. SharedTypeOK'
  BY <1>1, <1>2, <1>3 DEF Typed, SharedTypeOK
<1>5. <<>> \in Seq(Nat) /\ <<>> \in Seq(Msgs)
  OBVIOUS
<1>6. WorkerTypeOK'
  BY <1>5, FreshTypes DEF Crash, WorkerTypeOK, PCs, Results
<1>7. PositionOK'
  BY DEF Crash, PositionOK
<1> QED BY <1>4, <1>6, <1>7 DEF Typed

LEMMA InitTyped == Init => Typed
<1> SUFFICES ASSUME Init PROVE Typed
  OBVIOUS
<1>1. <<>> \in Seq(Nat) /\ <<>> \in Seq(Msgs)
  OBVIOUS
<1>2. ops \in Nat /\ crashes \in Nat /\ stops \in Nat
  BY DEF Init
<1>3. mapping \in [Msgs -> Nat] /\ ambiguous \in [Msgs -> Nat] /\ receipt \in [Msgs -> Receipts]
  BY DEF Init, Receipts
<1>4. SharedTypeOK
  BY <1>1, <1>2, <1>3 DEF Init, SharedTypeOK
<1>5. WorkerTypeOK
  BY <1>1, FreshTypes DEF Init, WorkerTypeOK, PCs, Results
<1>6. PositionOK
  BY DEF Init, PositionOK
<1> QED BY <1>4, <1>5, <1>6 DEF Typed

LEMMA StepTyped ==
  ASSUME DeliveryAssumption, Typed, [Next]_vars
  PROVE  Typed'
<1>1. ASSUME NEW w \in Workers, Work(w) PROVE Typed'
  BY <1>1, FilterTyped, CheckReceiptTyped, CheckMappingTyped, CheckedTyped, SendTyped,
     PrepareTyped, PrepareEndsTyped, IssueTyped, StopWhileSendingTyped, ReleaseTyped,
     AnswerIncompleteTyped, ConfirmMemberTyped, ConfirmEndsTyped, MarkTyped DEF Work
<1>2. ASSUME NEW w \in Workers, Answer(w) PROVE Typed'
  BY <1>2, ReplyOkTyped, ReplyPartialTyped, RequestClosedTyped, NetworkErrorTyped, UnknownErrorTyped,
     RejectTyped DEF Answer
<1>3. CASE UNCHANGED vars
  <2>1. Local /\ UNCHANGED <<pc, members, guard, request, tries, result>>
    BY <1>3 DEF vars, Local
  <2>2. SharedTypeOK'
    BY <2>1, LocalShared DEF Typed
  <2>3. WorkerTypeOK'
    BY <2>1 DEF Typed, WorkerTypeOK, members, request
  <2>4. PositionOK'
    BY <2>1 DEF Typed, PositionOK, members
  <2> QED BY <2>2, <2>3, <2>4 DEF Typed
<1> QED BY <1>1, <1>2, <1>3, StartOpTyped, AcceptTyped, OrphanTyped, StopTyped, CrashTyped DEF Next

\* Every variable has its type in every reachable state, for any number of
\* workers and messages.
THEOREM TypeCorrect == Spec => []TypeOK
<1>1. Init => Typed
  BY InitTyped
<1>2. Typed /\ [Next]_vars => Typed'
  BY DeliveryAssumption, StepTyped
<1>3. Typed => TypeOK
  BY DEF Typed, TypeOK
<1> QED BY <1>1, <1>2, <1>3, PTL DEF Spec

-----------------------------------------------------------------------------
(* What is exposed is traced: the inductive invariant.                      *)

\* Labels, reservation and request of an operation go together.
ControlAt(w) ==
  /\ pc[w] \in {"idle", "filter", "check", "checkMapping"} => ~guard[w].prepared
  /\ pc[w] \in {"issue", "calling", "confirm", "mark", "release"} => guard[w].prepared
  /\ guard[w].hasResult => guard[w].prepared
  /\ wire[w] # "none" => pc[w] = "calling"
  /\ pc[w] = "release" => Refused(w)

Control == \A w \in Workers : ControlAt(w)

\* What an operation has reserved keeps its receipt, which nobody else marks,
\* until it is confirmed or given back.
Held ==
  \A w \in Workers : guard[w].prepared =>
    \A m \in Elems(todo[w]) \ forced : mapping[m] # 0 \/ receipt[m] = "sending"

\* What an operation has reserved that Telegram refuses to copy is not exposed
\* by anybody, unless it was confirmed before.
RefusedUnexposed ==
  \A w \in Workers : guard[w].prepared /\ Refused(w) =>
    \A m \in Elems(todo[w]) \ forced : mapping[m] # 0 \/ ~Exposed(m)

Hold  == Held /\ ReservationExclusive /\ RefusedUnexposed /\ ExposedIsTraced
Trace == Typed /\ Control /\ Hold

-----------------------------------------------------------------------------
(* Steps that expose nothing new and untrace nothing.                       *)

Calm ==
  /\ UNCHANGED <<protected, forced>>
  /\ \A m \in Msgs : mapping[m] # 0 => mapping'[m] # 0
  /\ \A m \in Msgs : Traced(m) => Traced(m)'
  /\ \A m \in Msgs : Exposed(m)' => Exposed(m)
  /\ \A w \in Workers : guard'[w].prepared =>
       guard[w].prepared /\ todo'[w] = todo[w] /\ job'[w] = job[w]

LEMMA ElemsType ==
  ASSUME Typed, NEW w \in Workers
  PROVE  Elems(todo[w]) \subseteq Msgs
BY DEF Elems, Typed, WorkerTypeOK

LEMMA CalmHolds ==
  ASSUME Typed, Hold, Calm, Held'
  PROVE  Hold'
<1>1. \A w \in Workers : guard'[w].prepared => Elems(todo'[w]) \subseteq Msgs
  BY ElemsType DEF Calm
<1>3. ReservationExclusive'
  BY <1>1 DEF Calm, Hold, ReservationExclusive
<1>4. RefusedUnexposed'
  BY <1>1 DEF Calm, Hold, RefusedUnexposed, Refused
<1>5. ExposedIsTraced'
  BY DEF Calm, Hold, ExposedIsTraced
<1> QED BY <1>3, <1>4, <1>5 DEF Hold

LEMMA LedgerHeld ==
  ASSUME Held, Calm, UNCHANGED ledger
  PROVE  Held'
BY DEF Held, Calm, ledger

LEMMA HeldTraced ==
  ASSUME Trace, NEW w \in Workers, guard[w].prepared, NEW m \in Elems(todo[w]) \ forced
  PROVE  Traced(m)
BY DEF Trace, Hold, Held, Traced

\* A step of w says nothing about the others.
Others(w) ==
  \A v \in Workers \ {w} :
    /\ pc'[v] = pc[v] /\ job'[v] = job[v] /\ todo'[v] = todo[v]
    /\ guard'[v] = guard[v] /\ wire'[v] = wire[v]

\* At most the abandoned request of w is new among the orphans.
OrphanStep(w) ==
  \/ UNCHANGED orphans
  \/ /\ wire[w] = "sent" /\ ~Refused(w)
     /\ orphans' = orphans \union {todo[w]}

\* A worker step that begins neither a reservation nor a request.
Quiet(w) ==
  /\ UNCHANGED <<protected, forced, target>>
  /\ OrphanStep(w)
  /\ Others(w)
  /\ guard'[w].prepared => guard[w].prepared /\ todo'[w] = todo[w] /\ job'[w] = job[w]
  /\ wire'[w] = "sent" => wire[w] = "sent" /\ todo'[w] = todo[w] /\ job'[w] = job[w]

LEMMA QuietCalm ==
  ASSUME Typed, NEW w \in Workers, Quiet(w),
         \A m \in Msgs : mapping[m] # 0 => mapping'[m] # 0,
         \A m \in Msgs : Traced(m) => Traced(m)'
  PROVE  Calm
<1>1. ASSUME NEW m \in Msgs, Exposed(m)'
      PROVE  Exposed(m)
  <2>1. CASE m \in Elems(target')
    BY <2>1 DEF Quiet, Exposed
  <2>2. CASE \E o \in orphans' : m \in Elems(o)
    <3>1. PICK o \in orphans' : m \in Elems(o)
      BY <2>2
    <3>2. CASE o \in orphans
      BY <3>1, <3>2 DEF Exposed
    <3>3. CASE o \notin orphans
      <4>1. wire[w] = "sent" /\ ~Refused(w) /\ o = todo[w]
        BY <3>3 DEF Quiet, OrphanStep
      <4> QED BY <3>1, <4>1 DEF Exposed
    <3> QED BY <3>2, <3>3
  <2>3. CASE \E v \in Workers : wire'[v] = "sent" /\ ~Refused(v)' /\ m \in Elems(todo'[v])
    <3>1. PICK v \in Workers : wire'[v] = "sent" /\ ~Refused(v)' /\ m \in Elems(todo'[v])
      BY <2>3
    <3>2. wire[v] = "sent" /\ todo'[v] = todo[v] /\ job'[v] = job[v] /\ protected' = protected
      BY <3>1 DEF Quiet, Others
    <3> QED BY <3>1, <3>2 DEF Exposed, Refused
  <2> QED BY <1>1, <2>1, <2>2, <2>3 DEF Exposed, Elems
<1>2. \A v \in Workers : guard'[v].prepared =>
        guard[v].prepared /\ todo'[v] = todo[v] /\ job'[v] = job[v]
  BY DEF Quiet, Others
<1> QED BY <1>1, <1>2 DEF Calm, Quiet

LEMMA OthersControl ==
  ASSUME Control, NEW w \in Workers, Others(w), UNCHANGED protected, ControlAt(w)'
  PROVE  Control'
<1>1. ASSUME NEW v \in Workers \ {w} PROVE ControlAt(v)'
  BY <1>1 DEF Control, ControlAt, Others, Refused
<1> QED BY <1>1 DEF Control

\* The common case: the ledger keeps its rows.
LEMMA QuietTrace ==
  ASSUME Trace, NEW w \in Workers, Quiet(w), UNCHANGED ledger, ControlAt(w)'
  PROVE  Control' /\ Hold'
<1>1. Control'
  BY OthersControl DEF Trace, Quiet
<1>2. \A m \in Msgs : (mapping[m] # 0 => mapping'[m] # 0) /\ (Traced(m) => Traced(m)')
  BY DEF ledger, Traced
<1>3. Calm
  BY <1>2, QuietCalm DEF Trace
<1> QED BY <1>1, <1>3, CalmHolds, LedgerHeld DEF Trace, Hold

LEMMA FinishQuiet ==
  ASSUME Typed, NEW w \in Workers, NEW r, Finish(w, r), OrphanStep(w),
         UNCHANGED <<protected, forced, target>>
  PROVE  Quiet(w) /\ ControlAt(w)'
<1>1. pc'[w] = "idle" /\ guard'[w] = FreshGuard /\ wire'[w] = "none"
  BY DEF Finish, Typed, WorkerTypeOK
<1>2. Others(w)
  BY DEF Finish, Others, Typed, WorkerTypeOK
<1>3. ~FreshGuard.prepared /\ ~FreshGuard.hasResult
  BY DEF FreshGuard
<1> QED BY <1>1, <1>2, <1>3 DEF Quiet, ControlAt

LEMMA AnotherRoundQuiet ==
  ASSUME Typed, NEW w \in Workers, NEW g, AnotherRound(w, g), OrphanStep(w),
         UNCHANGED <<protected, forced, target>>,
         g.prepared => guard[w].prepared, g.hasResult => g.prepared
  PROVE  Quiet(w) /\ ControlAt(w)'
<1>1. UNCHANGED <<job, todo>> /\ pc'[w] = "send" /\ guard'[w] = g /\ wire'[w] = "none"
  BY DEF AnotherRound, Goto, CloseRequest, Typed, WorkerTypeOK
<1>2. Others(w)
  BY DEF AnotherRound, Goto, CloseRequest, Others, Typed, WorkerTypeOK
<1> QED BY <1>1, <1>2 DEF Quiet, ControlAt

LEMMA NextRoundQuiet ==
  ASSUME Typed, NEW w \in Workers, NEW g, NextRound(w, g), OrphanStep(w),
         UNCHANGED <<protected, forced, target>>,
         g.prepared => guard[w].prepared, g.hasResult => g.prepared
  PROVE  Quiet(w) /\ ControlAt(w)'
BY AnotherRoundQuiet, FinishQuiet DEF NextRound, GiveUp

\* A step to another label that neither sends nor reserves.
LEMMA GotoQuiet ==
  ASSUME Typed, Control, NEW w \in Workers,
         NEW label \in {"check", "send", "confirm", "mark"},
         Goto(w, label), UNCHANGED <<job, todo, guard>>,
         wire'[w] = "none", \A v \in Workers \ {w} : wire'[v] = wire[v],
         UNCHANGED <<protected, forced, target>>, OrphanStep(w),
         label = "check" => ~guard[w].prepared,
         label \in {"confirm", "mark"} => guard[w].prepared
  PROVE  Quiet(w) /\ ControlAt(w)'
<1>1. pc'[w] = label /\ Others(w)
  BY DEF Goto, Others, Typed, WorkerTypeOK
<1>2. guard[w].hasResult => guard[w].prepared
  BY DEF Control, ControlAt
<1> QED BY <1>1, <1>2 DEF Quiet, ControlAt

LEMMA AbandonOrphan ==
  ASSUME NEW w \in Workers, Abandon(w)
  PROVE  OrphanStep(w) /\ UNCHANGED target
BY DEF Abandon, OrphanStep

-----------------------------------------------------------------------------
(* Actions that only end the operation or move it on.                       *)

LEMMA StartOpHolds ==
  ASSUME Trace, NEW w \in Workers, StartOp(w)
  PROVE  Control' /\ Hold'
<1>1. /\ Others(w)
      /\ pc'[w] \in {"filter", "check"}
      /\ UNCHANGED <<ledger, remote, protected, todo, guard, wire, forced>>
  BY DEF StartOp, Others, request, history, Trace, Typed, WorkerTypeOK
<1>2. ~guard[w].prepared /\ ~guard[w].hasResult /\ wire[w] = "none"
  BY DEF StartOp, Trace, Control, ControlAt
<1>3. Quiet(w) /\ ControlAt(w)'
  BY <1>1, <1>2 DEF Quiet, ControlAt, OrphanStep, remote
<1> QED BY <1>1, <1>3, QuietTrace

LEMMA FilterHolds ==
  ASSUME Trace, NEW w \in Workers, Filter(w)
  PROVE  Control' /\ Hold'
<1>1. UNCHANGED <<ledger, remote, protected, forced>>
  BY DEF Filter, history
<1>2. CASE Finish(w, "skipped")
  BY <1>1, <1>2, FinishQuiet, QuietTrace DEF OrphanStep, remote, Trace
<1>3. CASE Goto(w, IF Album(w) THEN "send" ELSE "check") /\ UNCHANGED <<members, guard, request, tries>>
  <2>1. ~guard[w].prepared /\ ~guard[w].hasResult /\ wire[w] = "none"
    BY DEF Filter, Trace, Control, ControlAt
  <2>2. Quiet(w) /\ ControlAt(w)'
    BY <1>1, <1>3, <2>1, GotoQuiet DEF OrphanStep, remote, members, request, Trace
  <2> QED BY <1>1, <2>2, QuietTrace
<1> QED BY <1>2, <1>3 DEF Filter

LEMMA CheckHolds ==
  ASSUME Trace, NEW w \in Workers, CheckReceipt(w) \/ CheckMapping(w)
  PROVE  Control' /\ Hold'
<1>1. /\ Others(w)
      /\ pc'[w] \in {"check", "checkMapping"}
      /\ UNCHANGED <<ledger, remote, protected, guard, wire, forced>>
  BY DEF CheckReceipt, CheckMapping, Others, request, history, Trace, Typed, WorkerTypeOK
<1>2. ~guard[w].prepared /\ ~guard[w].hasResult /\ wire[w] = "none"
  BY DEF CheckReceipt, CheckMapping, Trace, Control, ControlAt
<1>3. Quiet(w) /\ ControlAt(w)'
  BY <1>1, <1>2 DEF Quiet, ControlAt, OrphanStep, remote
<1> QED BY <1>1, <1>3, QuietTrace

LEMMA CheckedHolds ==
  ASSUME Trace, NEW w \in Workers, Checked(w)
  PROVE  Control' /\ Hold'
<1>1. UNCHANGED <<ledger, remote, protected, forced>>
  BY DEF Checked, history
<1>2. CASE \E r \in Results : Finish(w, r)
  BY <1>1, <1>2, FinishQuiet, QuietTrace DEF OrphanStep, remote, Trace
<1>3. CASE /\ Goto(w, IF Album(w) THEN "filter" ELSE "send")
           /\ UNCHANGED <<job, todo, blocked, guard, request, tries>>
  <2>1. ~guard[w].prepared /\ ~guard[w].hasResult /\ wire[w] = "none"
    BY DEF Checked, Trace, Control, ControlAt
  <2>2. Others(w) /\ pc'[w] \in {"filter", "send"} /\ UNCHANGED wire
    BY <1>3 DEF Goto, Others, request, Trace, Typed, WorkerTypeOK
  <2>3. Quiet(w) /\ ControlAt(w)'
    BY <1>1, <1>3, <2>1, <2>2 DEF Quiet, ControlAt, OrphanStep, remote
  <2> QED BY <1>1, <2>3, QuietTrace
<1> QED BY <1>2, <1>3 DEF Checked, Verdict, Results

LEMMA GuardEnterHolds ==
  ASSUME Trace, NEW w \in Workers, GuardEnter(w)
  PROVE  Control' /\ Hold'
<1>1. UNCHANGED <<ledger, remote, protected, forced>> /\ pc[w] = "send"
  BY DEF GuardEnter, history
<1>2. wire[w] = "none"
  BY <1>1 DEF Trace, Control, ControlAt
<1>3. CASE Finish(w, "raised")
  BY <1>1, <1>3, FinishQuiet, QuietTrace DEF OrphanStep, remote, Trace
<1>4. CASE guard[w].hasResult /\ Goto(w, "confirm") /\ UNCHANGED <<members, guard, request, tries>>
  <2>1. guard[w].prepared
    BY <1>4 DEF Trace, Control, ControlAt
  <2>2. Quiet(w) /\ ControlAt(w)'
    BY <1>1, <1>2, <1>4, <2>1, GotoQuiet DEF OrphanStep, remote, members, request, Trace
  <2> QED BY <1>1, <2>2, QuietTrace
<1>5. CASE guard[w].prepared /\ Goto(w, "issue") /\ UNCHANGED <<members, guard, request, tries>>
  <2>1. Others(w) /\ pc'[w] = "issue" /\ UNCHANGED <<job, todo, guard, wire>>
    BY <1>5 DEF Goto, Others, members, request, Trace, Typed, WorkerTypeOK
  <2>2. Quiet(w) /\ ControlAt(w)'
    BY <1>1, <1>2, <1>5, <2>1 DEF Quiet, ControlAt, OrphanStep, remote
  <2> QED BY <1>1, <2>2, QuietTrace
<1> QED BY <1>3, <1>4, <1>5 DEF GuardEnter

LEMMA EndHolds ==
  ASSUME Trace, NEW w \in Workers,
         \/ StopBeforeSend(w) \/ MediaUnavailable(w) \/ PrepareRefused(w) \/ PrepareFails(w) \/ Reject(w)
         \/ ConfirmFails(w) \/ Confirmed(w) \/ LogFails(w)
  PROVE  Control' /\ Hold'
<1>1. UNCHANGED <<ledger, remote, protected, forced>>
  BY DEF StopBeforeSend, MediaUnavailable, PrepareRefused, PrepareFails, Reject, ConfirmFails, Confirmed, LogFails, history
<1>2. (\E r \in Results : Finish(w, r)) \/ NextRound(w, guard[w])
  BY DEF StopBeforeSend, StopOutcomes, MediaUnavailable, PrepareRefused, PrepareFails, Reject,
         ConfirmFails, Confirmed, LogFails, NextRound, Results
<1>3. guard[w].hasResult => guard[w].prepared
  BY DEF Trace, Control, ControlAt
<1>4. Quiet(w) /\ ControlAt(w)'
  BY <1>1, <1>2, <1>3, FinishQuiet, NextRoundQuiet DEF OrphanStep, remote, Trace
<1> QED BY <1>1, <1>4, QuietTrace

LEMMA StopWhileSendingHolds ==
  ASSUME Trace, NEW w \in Workers, StopWhileSending(w)
  PROVE  Control' /\ Hold'
<1>1. UNCHANGED <<ledger, protected, forced>> /\ OrphanStep(w) /\ UNCHANGED target
  BY AbandonOrphan DEF StopWhileSending, history
<1>2. Quiet(w) /\ ControlAt(w)'
  BY <1>1, FinishQuiet DEF StopWhileSending, Trace
<1> QED BY <1>1, <1>2, QuietTrace

LEMMA CloseRequestWire ==
  ASSUME Typed, NEW w \in Workers, CloseRequest(w)
  PROVE  wire'[w] = "none" /\ \A v \in Workers \ {w} : wire'[v] = wire[v]
BY DEF CloseRequest, Typed, WorkerTypeOK

LEMMA AnsweredHolds ==
  ASSUME Trace, NEW w \in Workers, NEW a, wire[w] = "accepted", Answered(w, a)
  PROVE  Control' /\ Hold'
<1>1. UNCHANGED <<ledger, remote, protected, forced, job, todo>>
  BY DEF Answered, history, members
<1>2. wire'[w] = "none" /\ \A v \in Workers \ {w} : wire'[v] = wire[v]
  BY CloseRequestWire DEF Answered, Trace
<1>3. pc'[w] = "confirm" /\ guard'[w].prepared = guard[w].prepared
  BY DEF Answered, Goto, AnsweredGuard, Trace, Typed, WorkerTypeOK
<1>4. Others(w)
  BY <1>1, <1>2 DEF Answered, Goto, Others, Trace, Typed, WorkerTypeOK
<1>5. guard[w].prepared
  BY DEF Trace, Control, ControlAt
<1>6. Quiet(w) /\ ControlAt(w)'
  BY <1>1, <1>2, <1>3, <1>4, <1>5 DEF Quiet, ControlAt, OrphanStep, remote
<1> QED BY <1>1, <1>6, QuietTrace

LEMMA ReplyHolds ==
  ASSUME Trace, NEW w \in Workers, ReplyOk(w) \/ ReplyPartial(w)
  PROVE  Control' /\ Hold'
BY AnsweredHolds DEF ReplyOk, ReplyPartial

LEMMA ClosedHolds ==
  ASSUME Trace, NEW w \in Workers, ReplyUnparsable(w) \/ FloodWait(w) \/ AnswerIncomplete(w)
  PROVE  Control' /\ Hold'
<1>1. UNCHANGED <<ledger, remote, protected, forced, job, todo, guard>>
  BY DEF ReplyUnparsable, FloodWait, AnswerIncomplete, history, members
<1>2. wire'[w] = "none" /\ \A v \in Workers \ {w} : wire'[v] = wire[v]
  BY CloseRequestWire DEF ReplyUnparsable, FloodWait, AnswerIncomplete, Trace, Control, ControlAt, request
<1>3. (Goto(w, "mark") \/ Goto(w, "send")) /\ guard[w].prepared
  BY DEF ReplyUnparsable, FloodWait, AnswerIncomplete, Trace, Control, ControlAt
<1>4. Quiet(w) /\ ControlAt(w)'
  BY <1>1, <1>2, <1>3, GotoQuiet DEF OrphanStep, remote, Trace
<1> QED BY <1>1, <1>4, QuietTrace

LEMMA NetworkErrorHolds ==
  ASSUME Trace, NEW w \in Workers, NetworkError(w)
  PROVE  Control' /\ Hold'
<1>1. UNCHANGED <<ledger, protected, forced>> /\ OrphanStep(w) /\ UNCHANGED target
  BY AbandonOrphan DEF NetworkError
<1>2. CASE Finish(w, "raised")
  BY <1>1, <1>2, FinishQuiet, QuietTrace DEF Trace
<1>3. CASE CloseRequest(w) /\ Goto(w, "send") /\ UNCHANGED <<members, guard>>
  <2>1. wire'[w] = "none" /\ \A v \in Workers \ {w} : wire'[v] = wire[v]
    BY <1>3, CloseRequestWire DEF Trace
  <2>2. Quiet(w) /\ ControlAt(w)'
    BY <1>1, <1>3, <2>1, GotoQuiet DEF members, Trace
  <2> QED BY <1>1, <2>2, QuietTrace
<1> QED BY <1>2, <1>3 DEF NetworkError

LEMMA UnknownErrorHolds ==
  ASSUME Trace, NEW w \in Workers, UnknownError(w)
  PROVE  Control' /\ Hold'
<1>1. UNCHANGED <<ledger, protected, forced>> /\ OrphanStep(w) /\ UNCHANGED target
  BY AbandonOrphan DEF UnknownError
<1>2. guard[w].hasResult => guard[w].prepared
  BY DEF Trace, Control, ControlAt
<1>3. Quiet(w) /\ ControlAt(w)'
  BY <1>1, <1>2, NextRoundQuiet DEF UnknownError, Trace
<1> QED BY <1>1, <1>3, QuietTrace

LEMMA RestrictedHolds ==
  ASSUME Trace, NEW w \in Workers, Restricted(w)
  PROVE  Control' /\ Hold'
<1>1. UNCHANGED <<ledger, remote, protected, forced, job, todo, guard>> /\ pc'[w] = "release"
  BY DEF Restricted, Goto, history, members, Trace, Typed, WorkerTypeOK
<1>2. wire'[w] = "none" /\ \A v \in Workers \ {w} : wire'[v] = wire[v]
  BY CloseRequestWire DEF Restricted, Trace
<1>3. Others(w)
  BY <1>1, <1>2 DEF Restricted, Goto, Others, Trace, Typed, WorkerTypeOK
<1>4. guard[w].prepared /\ Refused(w)
  BY DEF Restricted, Trace, Control, ControlAt
<1>5. Quiet(w) /\ ControlAt(w)'
  BY <1>1, <1>2, <1>3, <1>4 DEF Quiet, ControlAt, OrphanStep, remote, Refused
<1> QED BY <1>1, <1>5, QuietTrace

-----------------------------------------------------------------------------
(* Actions that reserve, send, copy or write.                               *)

LEMMA ElemsConcat ==
  ASSUME NEW S, NEW s \in Seq(S), NEW t \in Seq(S)
  PROVE  Elems(s \o t) = Elems(s) \union Elems(t)
<1>1. Elems(s \o t) \subseteq Elems(s) \union Elems(t)
  <2> SUFFICES ASSUME NEW i \in DOMAIN (s \o t)
               PROVE  (s \o t)[i] \in Elems(s) \union Elems(t)
    BY DEF Elems
  <2>1. CASE i <= Len(s)
    BY <2>1 DEF Elems
  <2>2. CASE i > Len(s)
    <3>1. i - Len(s) \in DOMAIN t /\ (s \o t)[i] = t[i - Len(s)]
      BY <2>2
    <3> QED BY <3>1 DEF Elems
  <2> QED BY <2>1, <2>2
<1>2. Elems(s) \subseteq Elems(s \o t)
  <2> SUFFICES ASSUME NEW i \in DOMAIN s PROVE s[i] \in Elems(s \o t)
    BY DEF Elems
  <2>1. i \in DOMAIN (s \o t) /\ (s \o t)[i] = s[i]
    OBVIOUS
  <2> QED BY <2>1 DEF Elems
<1>3. Elems(t) \subseteq Elems(s \o t)
  <2> SUFFICES ASSUME NEW i \in DOMAIN t PROVE t[i] \in Elems(s \o t)
    BY DEF Elems
  <2>1. Len(s) + i \in DOMAIN (s \o t) /\ (s \o t)[Len(s) + i] = t[i]
    OBVIOUS
  <2> QED BY <2>1 DEF Elems
<1> QED BY <1>1, <1>2, <1>3

\* Nobody else loses: the new reservation finds no receipt, and what has no
\* receipt and no mapping is exposed by nobody.
LEMMA PrepareHolds ==
  ASSUME Trace, NEW w \in Workers, Prepare(w)
  PROVE  Control' /\ Hold'
<1> DEFINE batch == Elems(todo[w])
<1>1. /\ UNCHANGED <<mapping, target, orphans, protected, job, todo, wire>>
      /\ pc[w] = "send"
      /\ pc' = [pc EXCEPT ![w] = "issue"]
      /\ guard' = [guard EXCEPT ![w] = PreparedGuard]
      /\ receipt' = [m \in Msgs |-> IF m \in batch THEN "sending" ELSE receipt[m]]
      /\ forced' = IF job[w].force THEN forced \union batch ELSE forced
      /\ job[w].force \/ \A m \in batch : receipt[m] = "none"
  BY DEF Prepare, NeedsReservation, Reservable, Reserved, Goto, remote, members, request
<1>2. batch \subseteq Msgs
  BY ElemsType DEF Trace
<1>3. PreparedGuard.prepared /\ wire[w] = "none"
  BY <1>1 DEF PreparedGuard, FreshGuard, Trace, Control, ControlAt
<1>4. /\ pc'[w] = "issue" /\ guard'[w] = PreparedGuard
      /\ \A v \in Workers \ {w} : pc'[v] = pc[v] /\ guard'[v] = guard[v]
  BY <1>1 DEF Trace, Typed, WorkerTypeOK
<1>5. Control'
  <2>1. Others(w)
    BY <1>1, <1>4 DEF Others
  <2>2. ControlAt(w)'
    BY <1>1, <1>3, <1>4 DEF ControlAt
  <2> QED BY <1>1, <2>1, <2>2, OthersControl DEF Trace
<1>6. \A m \in Msgs : Traced(m) => Traced(m)'
  BY <1>1 DEF Traced
<1>7. \A m \in batch : receipt'[m] = "sending"
  BY <1>1, <1>2
<1>8. \A m \in Msgs : Exposed(m)' <=> Exposed(m)
  BY <1>1 DEF Exposed, Elems, Refused
<1>9. \A m \in batch \ forced' : m \notin forced /\ receipt[m] = "none"
  BY <1>1
<1>10. Held'
  <2> SUFFICES ASSUME NEW v \in Workers, guard'[v].prepared, NEW m \in Elems(todo[v]) \ forced'
               PROVE  mapping[m] # 0 \/ receipt'[m] = "sending"
    BY <1>1 DEF Held
  <2>1. CASE m \in batch
    BY <1>7, <2>1
  <2>2. CASE m \notin batch
    <3>1. v # w /\ guard[v].prepared /\ m \notin forced
      BY <1>1, <1>4, <2>2
    <3>2. m \in Msgs
      BY ElemsType DEF Trace
    <3>3. receipt'[m] = receipt[m]
      BY <1>1, <2>2, <3>2
    <3> QED BY <3>1, <3>3 DEF Held, Hold, Trace
  <2> QED BY <2>1, <2>2
<1>11. ReservationExclusive'
  <2> SUFFICES ASSUME NEW v \in Workers \ {w}, guard[v].prepared,
                      NEW m \in (Elems(todo[v]) \cap batch) \ forced'
               PROVE  mapping[m] # 0
    BY <1>1, <1>4 DEF ReservationExclusive, Hold, Trace
  <2>1. m \notin forced /\ receipt[m] = "none"
    BY <1>9
  <2>2. Traced(m)
    BY <2>1, HeldTraced
  <2> QED BY <2>1, <2>2 DEF Traced
<1>12. RefusedUnexposed'
  <2>1. \A m \in batch \ forced' : mapping[m] # 0 \/ ~Exposed(m)
    BY <1>2, <1>9 DEF ExposedIsTraced, Traced, Hold, Trace
  <2> QED BY <1>1, <1>2, <1>4, <1>8, <2>1, ElemsType DEF RefusedUnexposed, Refused, Hold, Trace
<1>13. ExposedIsTraced'
  BY <1>1, <1>6, <1>8 DEF ExposedIsTraced, Hold, Trace
<1> QED BY <1>5, <1>10, <1>11, <1>12, <1>13 DEF Hold

\* The request exposes what the operation has reserved, and nobody else has
\* reserved it.
LEMMA IssueHolds ==
  ASSUME Trace, NEW w \in Workers, Issue(w)
  PROVE  Control' /\ Hold'
<1>1. /\ UNCHANGED <<mapping, receipt, target, orphans, protected, job, todo, guard, forced>>
      /\ pc[w] = "issue"
      /\ pc' = [pc EXCEPT ![w] = "calling"]
      /\ wire' = [wire EXCEPT ![w] = "sent"]
  BY DEF Issue, Goto, ledger, remote, members, history
<1>2. guard[w].prepared /\ wire[w] = "none"
  BY <1>1 DEF Trace, Control, ControlAt
<1>3. /\ pc'[w] = "calling" /\ wire'[w] = "sent"
      /\ \A v \in Workers \ {w} : pc'[v] = pc[v] /\ wire'[v] = wire[v]
  BY <1>1 DEF Trace, Typed, WorkerTypeOK
<1>4. Control'
  <2>1. Others(w)
    BY <1>1, <1>3 DEF Others
  <2>2. ControlAt(w)'
    BY <1>1, <1>2, <1>3 DEF ControlAt
  <2> QED BY <1>1, <2>1, <2>2, OthersControl DEF Trace
<1>5. ASSUME NEW m \in Msgs, Exposed(m)'
      PROVE  Exposed(m) \/ (m \in Elems(todo[w]) /\ ~Refused(w))
  BY <1>1, <1>3, <1>5 DEF Exposed, Elems, Refused
<1>6. Held' /\ ReservationExclusive'
  BY <1>1 DEF Held, ReservationExclusive, Hold, Trace
<1>7. RefusedUnexposed'
  <2> SUFFICES ASSUME NEW v \in Workers, guard[v].prepared, Refused(v),
                      NEW m \in Elems(todo[v]) \ forced, mapping[m] = 0, Exposed(m)'
               PROVE  FALSE
    BY <1>1 DEF RefusedUnexposed, Refused
  <2>1. m \in Msgs
    BY ElemsType DEF Trace
  <2>2. ~Exposed(m)
    BY DEF RefusedUnexposed, Hold, Trace
  <2>3. m \in Elems(todo[w]) /\ v # w
    BY <1>5, <2>1, <2>2
  <2> QED BY <1>2, <2>1, <2>3 DEF ReservationExclusive, Hold, Trace
<1>8. ExposedIsTraced'
  BY <1>1, <1>2, <1>5, HeldTraced DEF ExposedIsTraced, Traced, Hold, Trace
<1> QED BY <1>4, <1>6, <1>7, <1>8 DEF Hold

LEMMA AcceptHolds ==
  ASSUME Trace, NEW w \in Workers, Accept(w)
  PROVE  Control' /\ Hold'
<1>1. /\ UNCHANGED <<mapping, receipt, orphans, protected, pc, job, todo, guard, forced>>
      /\ target' = target \o todo[w]
      /\ wire[w] = "sent" /\ ~Refused(w)
      /\ wire' = [wire EXCEPT ![w] = "accepted"]
  BY DEF Accept, ledger, members, history
<1>2. Elems(target') = Elems(target) \union Elems(todo[w])
  BY <1>1, ElemsConcat DEF Trace, Typed, SharedTypeOK, WorkerTypeOK
<1>3. wire'[w] = "accepted" /\ \A v \in Workers \ {w} : wire'[v] = wire[v]
  BY <1>1 DEF Trace, Typed, WorkerTypeOK
<1>4. Control'
  BY <1>1, <1>3 DEF Control, ControlAt, Refused, Trace
<1>5. ASSUME NEW m \in Msgs, Exposed(m)'
      PROVE  Exposed(m)
  <2>1. CASE m \in Elems(target')
    BY <1>1, <1>2, <2>1 DEF Exposed
  <2>2. CASE \E o \in orphans' : m \in Elems(o)
    BY <1>1, <2>2 DEF Exposed
  <2>3. CASE \E v \in Workers : wire'[v] = "sent" /\ ~Refused(v)' /\ m \in Elems(todo'[v])
    <3>1. PICK v \in Workers : wire'[v] = "sent" /\ ~Refused(v)' /\ m \in Elems(todo'[v])
      BY <2>3
    <3>2. v # w
      BY <1>3, <3>1
    <3> QED BY <1>1, <1>3, <3>1, <3>2 DEF Exposed, Refused
  <2> QED BY <1>5, <2>1, <2>2, <2>3 DEF Exposed, Elems
<1>6. Calm
  BY <1>1, <1>5 DEF Calm, Traced
<1> QED BY <1>1, <1>4, <1>6, CalmHolds, LedgerHeld DEF Trace, Hold, ledger

LEMMA OrphanHolds ==
  ASSUME Trace, AcceptOrphan \/ LoseOrphan
  PROVE  Control' /\ Hold'
<1>1. UNCHANGED <<mapping, receipt, protected, pc, job, todo, guard, wire, forced>>
  BY DEF AcceptOrphan, LoseOrphan, ledger, members, request, history
<1>2. Control'
  BY <1>1 DEF Control, ControlAt, Refused, Trace
<1>3. ASSUME NEW m \in Msgs, Exposed(m)'
      PROVE  Exposed(m)
  <2>1. CASE AcceptOrphan
    <3>1. PICK o \in orphans : target' = target \o o /\ orphans' = orphans \ {o}
      BY <2>1 DEF AcceptOrphan
    <3>2. Elems(target') = Elems(target) \union Elems(o)
      BY <3>1, ElemsConcat DEF Trace, Typed, SharedTypeOK
    <3>3. CASE m \in Elems(target')
      BY <3>1, <3>2, <3>3 DEF Exposed
    <3>4. CASE \E p \in orphans' : m \in Elems(p)
      BY <3>1, <3>4 DEF Exposed
    <3>5. CASE \E v \in Workers : wire'[v] = "sent" /\ ~Refused(v)' /\ m \in Elems(todo'[v])
      BY <1>1, <3>5 DEF Exposed, Refused
    <3> QED BY <1>3, <3>3, <3>4, <3>5 DEF Exposed, Elems
  <2>2. CASE LoseOrphan
    BY <1>1, <1>3, <2>2 DEF LoseOrphan, Exposed, Elems, Refused
  <2> QED BY <2>1, <2>2
<1>4. Calm
  BY <1>1, <1>3 DEF Calm, Traced
<1> QED BY <1>1, <1>2, <1>4, CalmHolds, LedgerHeld DEF Trace, Hold, ledger

\* Deleting the receipts is safe because the refused copy never happened, no
\* older one is under way, and no other operation relies on them.
LEMMA ReleaseHolds ==
  ASSUME Trace, NEW w \in Workers, Release(w)
  PROVE  Control' /\ Hold'
<1>1. UNCHANGED <<mapping, target, orphans, protected, forced>> /\ pc[w] = "release"
  BY DEF Release, remote, history
<1>2. guard[w].prepared /\ Refused(w)
  BY <1>1 DEF Trace, Control, ControlAt
<1>3. Quiet(w) /\ ControlAt(w)'
  BY <1>1, FinishQuiet DEF Release, OrphanStep, Trace
<1>4. Control'
  BY <1>1, <1>3, OthersControl DEF Quiet, Trace
<1>5. ~guard'[w].prepared
  BY DEF Release, Finish, FreshGuard, Trace, Typed, WorkerTypeOK
<1>6. \A m \in Msgs : Traced(m) /\ m \notin Elems(todo[w]) => Traced(m)'
  <2>1. \A m \in Msgs : m \notin Elems(todo[w]) => receipt'[m] = receipt[m]
    BY DEF Release
  <2> QED BY <1>1, <2>1 DEF Traced
<1>7. \A m \in Msgs : mapping[m] # 0 => Traced(m)'
  BY <1>1 DEF Traced
<1>8. /\ wire'[w] = "none" /\ job' = job
      /\ \A v \in Workers \ {w} : guard'[v] = guard[v] /\ todo'[v] = todo[v] /\ wire'[v] = wire[v]
  BY DEF Release, Finish, Trace, Typed, WorkerTypeOK
<1>9. \A m \in Msgs : Exposed(m)' => Exposed(m)
  BY <1>1, <1>8 DEF Exposed, Elems, Refused
<1>10. Held'
  <2> SUFFICES ASSUME NEW v \in Workers \ {w}, guard[v].prepared, NEW m \in Elems(todo[v]) \ forced
               PROVE  mapping[m] # 0 \/ receipt'[m] = "sending"
    BY <1>1, <1>5, <1>8 DEF Held
  <2>1. m \in Msgs /\ (mapping[m] # 0 \/ receipt[m] = "sending")
    BY ElemsType DEF Held, Hold, Trace
  <2>2. CASE m \in Elems(todo[w])
    BY <1>2, <2>1, <2>2 DEF ReservationExclusive, Hold, Trace
  <2>3. CASE m \notin Elems(todo[w])
    BY <2>1, <2>3 DEF Release
  <2> QED BY <2>2, <2>3
<1>11. ReservationExclusive'
  BY <1>1, <1>5, <1>8 DEF ReservationExclusive, Hold, Trace
<1>12. RefusedUnexposed'
  <2> SUFFICES ASSUME NEW v \in Workers, guard'[v].prepared, Refused(v)',
                      NEW m \in Elems(todo'[v]) \ forced'
               PROVE  mapping'[m] # 0 \/ ~Exposed(m)'
    BY DEF RefusedUnexposed
  <2>1. v # w /\ guard[v].prepared /\ todo'[v] = todo[v]
    BY <1>5, <1>8
  <2>2. Refused(v) /\ m \in Elems(todo[v]) \ forced
    BY <1>1, <1>8, <2>1 DEF Refused
  <2>3. m \in Msgs
    BY <2>2, ElemsType DEF Trace
  <2>4. mapping[m] # 0 \/ ~Exposed(m)
    BY <2>1, <2>2 DEF RefusedUnexposed, Hold, Trace
  <2> QED BY <1>1, <1>9, <2>3, <2>4
<1>13. ExposedIsTraced'
  <2> SUFFICES ASSUME NEW m \in Msgs \ forced, Exposed(m)
               PROVE  Traced(m)'
    BY <1>1, <1>9 DEF ExposedIsTraced
  <2>1. Traced(m)
    BY DEF ExposedIsTraced, Hold, Trace
  <2>2. m \in Elems(todo[w]) => mapping[m] # 0
    BY <1>2 DEF RefusedUnexposed, Hold, Trace
  <2> QED BY <1>6, <1>7, <2>1, <2>2
<1> QED BY <1>4, <1>10, <1>11, <1>12, <1>13 DEF Hold

LEMMA ConfirmMemberHolds ==
  ASSUME Trace, NEW w \in Workers, ConfirmMember(w)
  PROVE  Control' /\ Hold'
<1> DEFINE m == todo[w][idx[w]]
<1>1. m \in Msgs /\ AnswerFor(w) \in Nat \ {0}
  BY ConfirmedId DEF ConfirmMember, Trace
<1>2. /\ UNCHANGED <<target, orphans, protected, pc, job, todo, guard, wire, forced>>
      /\ mapping' = [mapping EXCEPT ![m] = IF @ = 0 \/ job[w].force THEN AnswerFor(w) ELSE @]
      /\ receipt' = [receipt EXCEPT ![m] = "none"]
  BY DEF ConfirmMember, remote, request, history
<1>3. mapping'[m] # 0
  BY <1>1, <1>2 DEF Trace, Typed, SharedTypeOK
<1>4. \A n \in Msgs \ {m} : mapping'[n] = mapping[n] /\ receipt'[n] = receipt[n]
  BY <1>1, <1>2 DEF Trace, Typed, SharedTypeOK
<1>5. \A n \in Msgs : (mapping[n] # 0 => mapping'[n] # 0) /\ (Traced(n) => Traced(n)')
  BY <1>3, <1>4 DEF Traced
<1>6. Control'
  BY <1>2 DEF Control, ControlAt, Refused, Trace
<1>7. Calm
  BY <1>2, <1>5 DEF Calm, Exposed, Elems, Refused
<1>8. Held'
  <2> SUFFICES ASSUME NEW v \in Workers, guard[v].prepared, NEW n \in Elems(todo[v]) \ forced
               PROVE  mapping'[n] # 0 \/ receipt'[n] = "sending"
    BY <1>2 DEF Held
  <2>1. n \in Msgs /\ (mapping[n] # 0 \/ receipt[n] = "sending")
    BY ElemsType DEF Held, Hold, Trace
  <2> QED BY <1>3, <1>4, <2>1
<1> QED BY <1>6, <1>7, <1>8, CalmHolds DEF Trace

LEMMA MarkHolds ==
  ASSUME Trace, NEW w \in Workers, Mark(w) \/ MarkFails(w)
  PROVE  Control' /\ Hold'
<1>1. UNCHANGED <<mapping, remote, protected, forced>>
  BY DEF Mark, MarkFails, ledger, history
<1>2. (\E r \in Results : Finish(w, r)) \/ NextRound(w, DoubtfulGuard)
  BY DEF Mark, MarkFails, MarkError, Results
<1>3. ~DoubtfulGuard.prepared /\ ~DoubtfulGuard.hasResult
  BY DEF DoubtfulGuard, FreshGuard
<1>4. Quiet(w) /\ ControlAt(w)'
  BY <1>1, <1>2, <1>3, FinishQuiet, NextRoundQuiet DEF OrphanStep, remote, Trace
<1>5. \A m \in Msgs : receipt[m] # "none" => receipt'[m] # "none"
  BY DEF Mark, MarkFails, Marked, ledger
<1>6. \A m \in Msgs : (mapping[m] # 0 => mapping'[m] # 0) /\ (Traced(m) => Traced(m)')
  BY <1>1, <1>5 DEF Traced
<1>7. Calm
  BY <1>4, <1>6, QuietCalm DEF Trace
<1>8. guard[w].prepared
  BY DEF Mark, MarkFails, Trace, Control, ControlAt
<1>9. ~guard'[w].prepared
  BY <1>2, <1>3 DEF Finish, NextRound, GiveUp, AnotherRound, FreshGuard, Trace, Typed, WorkerTypeOK
<1>10. Held'
  <2> SUFFICES ASSUME NEW v \in Workers, guard'[v].prepared, NEW m \in Elems(todo'[v]) \ forced'
               PROVE  mapping[m] # 0 \/ receipt'[m] = "sending"
    BY <1>1 DEF Held
  <2>1. v # w
    BY <1>9
  <2>2. guard[v].prepared /\ todo'[v] = todo[v] /\ m \in Elems(todo[v]) \ forced
    BY <1>1, <1>7 DEF Calm
  <2>3. m \in Msgs /\ (mapping[m] # 0 \/ receipt[m] = "sending")
    BY <2>2, ElemsType DEF Held, Hold, Trace
  <2>4. CASE m \in Elems(todo[w])
    BY <1>8, <2>1, <2>2, <2>3, <2>4 DEF ReservationExclusive, Hold, Trace
  <2>5. CASE m \notin Elems(todo[w])
    BY <2>3, <2>5 DEF Mark, MarkFails, Marked, ledger
  <2> QED BY <2>4, <2>5
<1> QED BY <1>4, <1>7, <1>10, OthersControl, CalmHolds DEF Quiet, Trace

-----------------------------------------------------------------------------
(* The environment.                                                         *)

LEMMA StopHolds ==
  ASSUME Trace, RequestStop \/ ClearStop \/ UNCHANGED vars
  PROVE  Control' /\ Hold'
<1>1. UNCHANGED <<mapping, receipt, target, orphans, protected, pc, job, todo, guard, wire, forced>>
  BY DEF RequestStop, ClearStop, vars, ledger, remote, members, request, history
<1>2. Control'
  BY <1>1 DEF Control, ControlAt, Refused, Trace
<1>3. Calm
  BY <1>1 DEF Calm, Traced, Exposed, Elems, Refused
<1> QED BY <1>1, <1>2, <1>3, CalmHolds, LedgerHeld DEF Trace, Hold, ledger

LEMMA CrashHolds ==
  ASSUME Trace, Crash
  PROVE  Control' /\ Hold'
<1>1. /\ UNCHANGED <<mapping, receipt, target, protected, forced>>
      /\ pc'    = [w \in Workers |-> "idle"]
      /\ guard' = [w \in Workers |-> FreshGuard]
      /\ wire'  = [w \in Workers |-> "none"]
  BY DEF Crash, ledger, history
<1>2. PICK S \in SUBSET {w \in Workers : wire[w] = "sent" /\ ~Refused(w)} :
        orphans' = orphans \union {todo[w] : w \in S}
  BY DEF Crash
<1>3. ~FreshGuard.prepared /\ ~FreshGuard.hasResult
  BY DEF FreshGuard
<1>4. Control'
  BY <1>1, <1>3 DEF Control, ControlAt
<1>5. ASSUME NEW m \in Msgs, Exposed(m)'
      PROVE  Exposed(m)
  BY <1>1, <1>2, <1>5 DEF Exposed, Elems
<1>6. Calm
  BY <1>1, <1>3, <1>5 DEF Calm, Traced
<1> QED BY <1>1, <1>4, <1>6, CalmHolds, LedgerHeld DEF Trace, Hold, ledger

-----------------------------------------------------------------------------
(* The theorems.                                                            *)

LEMMA InitTrace == Init => Trace
<1> SUFFICES ASSUME Init PROVE Trace
  OBVIOUS
<1>1. Typed
  BY InitTyped
<1>2. ~FreshGuard.prepared /\ ~FreshGuard.hasResult
  BY DEF FreshGuard
<1>3. \A w \in Workers : pc[w] = "idle" /\ ~guard[w].prepared /\ ~guard[w].hasResult /\ wire[w] = "none"
  BY <1>2 DEF Init
<1>4. \A m \in Msgs : ~Exposed(m)
  BY <1>3 DEF Init, Exposed, Elems
<1>5. Control
  BY <1>3 DEF Control, ControlAt
<1>6. Hold
  BY <1>3, <1>4 DEF Hold, Held, ReservationExclusive, RefusedUnexposed, ExposedIsTraced
<1> QED BY <1>1, <1>5, <1>6 DEF Trace

LEMMA StepTrace ==
  ASSUME DeliveryAssumption, Trace, [Next]_vars
  PROVE  Trace'
<1>1. Typed'
  BY StepTyped DEF Trace
<1>2. ASSUME NEW w \in Workers, Work(w) PROVE Control' /\ Hold'
  BY <1>2, FilterHolds, CheckHolds, CheckedHolds, GuardEnterHolds, EndHolds, PrepareHolds,
     IssueHolds, StopWhileSendingHolds, ReleaseHolds, ClosedHolds, ConfirmMemberHolds, MarkHolds DEF Work
<1>3. ASSUME NEW w \in Workers, Answer(w) PROVE Control' /\ Hold'
  BY <1>3, ReplyHolds, ClosedHolds, NetworkErrorHolds, UnknownErrorHolds, EndHolds,
     RestrictedHolds DEF Answer
<1>4. Control' /\ Hold'
  BY <1>2, <1>3, StartOpHolds, AcceptHolds, OrphanHolds, StopHolds, CrashHolds DEF Next
<1> QED BY <1>1, <1>4 DEF Trace

LEMMA TraceInvariant == Spec => []Trace
<1>1. Init => Trace
  BY InitTrace
<1>2. Trace /\ [Next]_vars => Trace'
  BY DeliveryAssumption, StepTrace
<1> QED BY <1>1, <1>2, PTL DEF Spec

\* A message that is in the target, or may still get there, has a mapping or a
\* receipt, for any number of workers, messages, albums, crashes, stops and
\* retries: a rerun never takes for new what prepare_message_delivery reserved.
THEOREM TraceCorrect == Spec => []ExposedIsTraced
<1>1. Trace => ExposedIsTraced
  BY DEF Trace, Hold
<1> QED BY <1>1, TraceInvariant, PTL

\* Two operations that hold a reservation of one message are told apart by its
\* mapping or by force: the transaction of prepare_message_delivery excludes them.
THEOREM ExclusionCorrect == Spec => []ReservationExclusive
<1>1. Trace => ReservationExclusive
  BY DEF Trace, Hold
<1> QED BY <1>1, TraceInvariant, PTL

\* The step that UnconfirmedSticks asks for.
Sticks ==
  \A m \in Msgs : receipt[m] = "unconfirmed" /\ m \notin forced'
    => receipt'[m] = "unconfirmed" \/ mapping'[m] # 0

LEMMA PrepareSticks ==
  ASSUME Trace, NEW w \in Workers, Prepare(w)
  PROVE  Sticks
<1> SUFFICES ASSUME NEW m \in Msgs, receipt[m] = "unconfirmed", m \notin forced'
             PROVE  receipt'[m] = "unconfirmed"
  BY DEF Sticks
<1>1. m \notin Elems(todo[w])
  BY DEF Prepare, Reservable
<1> QED BY <1>1 DEF Prepare, Reserved

\* A receipt that may be deleted is one the operation holds: it reads sending.
LEMMA ReleaseSticks ==
  ASSUME Trace, NEW w \in Workers, Release(w)
  PROVE  Sticks
<1> SUFFICES ASSUME NEW m \in Msgs, receipt[m] = "unconfirmed", m \notin forced', mapping'[m] = 0
             PROVE  receipt'[m] = "unconfirmed"
  BY DEF Sticks
<1>1. mapping[m] = 0 /\ m \notin forced /\ guard[w].prepared
  BY DEF Release, history, Trace, Control, ControlAt
<1>2. m \notin Elems(todo[w])
  BY <1>1 DEF Held, Hold, Trace
<1> QED BY <1>2 DEF Release

LEMMA ConfirmMemberSticks ==
  ASSUME Trace, NEW w \in Workers, ConfirmMember(w)
  PROVE  Sticks
<1> DEFINE n == todo[w][idx[w]]
<1>1. n \in Msgs /\ AnswerFor(w) \in Nat \ {0}
  BY ConfirmedId DEF ConfirmMember, Trace
<1>2. mapping'[n] # 0
  BY <1>1 DEF ConfirmMember, Trace, Typed, SharedTypeOK
<1>3. \A m \in Msgs \ {n} : receipt'[m] = receipt[m]
  BY <1>1 DEF ConfirmMember, Trace, Typed, SharedTypeOK
<1> QED BY <1>2, <1>3 DEF Sticks

LEMMA MarkSticks ==
  ASSUME NEW w \in Workers, Mark(w)
  PROVE  Sticks
BY DEF Mark, Marked, Sticks

LEMMA LedgerSticks ==
  ASSUME UNCHANGED ledger
  PROVE  Sticks
BY DEF ledger, Sticks

LEMMA WorkSticks ==
  ASSUME Trace, NEW w \in Workers, Work(w)
  PROVE  Sticks
<1>1. CASE Prepare(w) \/ Release(w) \/ ConfirmMember(w) \/ Mark(w)
  BY <1>1, PrepareSticks, ReleaseSticks, ConfirmMemberSticks, MarkSticks
<1>2. CASE ~(Prepare(w) \/ Release(w) \/ ConfirmMember(w) \/ Mark(w))
  <2>1. CASE \/ Filter(w) \/ CheckReceipt(w) \/ CheckMapping(w) \/ Checked(w)
             \/ StopBeforeSend(w) \/ GuardEnter(w)
    BY <2>1, LedgerSticks DEF Filter, CheckReceipt, CheckMapping, Checked, StopBeforeSend, GuardEnter
  <2>2. CASE \/ MediaUnavailable(w) \/ PrepareRefused(w) \/ PrepareFails(w)
             \/ Issue(w) \/ StopWhileSending(w)
    BY <2>2, LedgerSticks DEF MediaUnavailable, PrepareRefused, PrepareFails, Issue, StopWhileSending
  <2>3. CASE \/ AnswerIncomplete(w) \/ ConfirmFails(w) \/ Confirmed(w) \/ LogFails(w) \/ MarkFails(w)
    BY <2>3, LedgerSticks DEF AnswerIncomplete, ConfirmFails, Confirmed, LogFails, MarkFails
  <2> QED BY <1>2, <2>1, <2>2, <2>3 DEF Work
<1> QED BY <1>1, <1>2

LEMMA StepSticks ==
  ASSUME Trace, Next
  PROVE  Sticks
<1>1. ASSUME NEW w \in Workers, StartOp(w) \/ Accept(w) PROVE Sticks
  BY <1>1, LedgerSticks DEF StartOp, Accept
<1>2. ASSUME NEW w \in Workers, Answer(w) PROVE Sticks
  BY <1>2, LedgerSticks DEF Answer, ReplyOk, ReplyPartial, Answered, ReplyUnparsable,
     NetworkError, UnknownError, FloodWait, Reject, Restricted
<1>3. CASE AcceptOrphan \/ LoseOrphan \/ RequestStop \/ ClearStop \/ Crash
  BY <1>3, LedgerSticks DEF AcceptOrphan, LoseOrphan, RequestStop, ClearStop, Crash
<1> QED BY <1>1, <1>2, <1>3, WorkSticks DEF Next

\* A delivery in doubt stays in doubt until it is confirmed or forced: no rerun,
\* retry, release, crash or concurrent operation makes it sendable again.
THEOREM DoubtCorrect == Spec => UnconfirmedSticks
<1>1. Trace /\ [Next]_vars => [Sticks]_vars
  BY StepSticks
<1> QED BY <1>1, TraceInvariant, PTL DEF Spec, UnconfirmedSticks, Sticks

-----------------------------------------------------------------------------
(* What is mapped is a copy: the inductive invariant of the refinement.     *)

IsCopy(i, m) == i \in DOMAIN target /\ target[i] = m

\* The ids of an accepted request are those of the copies, in the order of the
\* members; an answer that is complete is the whole list of them.
SoundAt(w) ==
  /\ wire[w] = "accepted" =>
       /\ Len(ids[w]) = Len(todo[w])
       /\ \A i \in DOMAIN todo[w] : IsCopy(ids[w][i], todo[w][i])
  /\ guard[w].hasResult /\ Complete(w) =>
       \A i \in DOMAIN todo[w] : IsCopy(guard[w].answer[i], todo[w][i])
  /\ pc[w] = "confirm" => guard[w].hasResult

Sound == MappingSound /\ \A w \in Workers : SoundAt(w)

LinkInv == Trace /\ Sound

-----------------------------------------------------------------------------
(* Steps that bring neither copies nor answers.                             *)

\* The channel keeps its messages.
Grows == \A i \in DOMAIN target : i \in DOMAIN target' /\ target'[i] = target[i]

\* What w knows of copies is what it knew before.
Kept(w) ==
  /\ wire'[w] = "accepted" =>
       wire[w] = "accepted" /\ ids'[w] = ids[w] /\ todo'[w] = todo[w]
  /\ guard'[w].hasResult => guard'[w] = guard[w] /\ todo'[w] = todo[w]
  /\ pc'[w] = "confirm" => guard'[w].hasResult

LEMMA KeptSound ==
  ASSUME NEW w \in Workers, SoundAt(w), Kept(w), Grows
  PROVE  SoundAt(w)'
<1>1. ASSUME wire'[w] = "accepted"
      PROVE  /\ Len(ids'[w]) = Len(todo'[w])
             /\ \A i \in DOMAIN todo'[w] :
                  ids'[w][i] \in DOMAIN target' /\ target'[ids'[w][i]] = todo'[w][i]
  BY <1>1 DEF SoundAt, Kept, IsCopy, Grows
<1>2. ASSUME guard'[w].hasResult, Complete(w)'
      PROVE  \A i \in DOMAIN todo'[w] :
               guard'[w].answer[i] \in DOMAIN target' /\ target'[guard'[w].answer[i]] = todo'[w][i]
  <2>1. guard'[w] = guard[w] /\ todo'[w] = todo[w]
    BY <1>2 DEF Kept
  <2>2. Complete(w)
    BY <1>2, <2>1 DEF Complete
  <2> QED BY <1>2, <2>1, <2>2 DEF SoundAt, IsCopy, Grows
<1>3. pc'[w] = "confirm" => guard'[w].hasResult
  BY DEF Kept
<1> QED BY <1>1, <1>2, <1>3 DEF SoundAt, IsCopy

LEMMA MappingKept ==
  ASSUME MappingSound, UNCHANGED mapping, Grows
  PROVE  MappingSound'
BY DEF MappingSound, Grows

LEMMA SameKept ==
  ASSUME NEW w \in Workers, SoundAt(w), pc'[w] = pc[w],
         UNCHANGED <<todo[w], guard[w], wire[w], ids[w]>>
  PROVE  Kept(w)
BY DEF Kept, SoundAt

\* A step of w says nothing about what the others know.
Apart(w) ==
  \A v \in Workers \ {w} :
    /\ pc'[v] = pc[v] /\ todo'[v] = todo[v] /\ guard'[v] = guard[v]
    /\ wire'[v] = wire[v] /\ ids'[v] = ids[v]

AllKept == \A w \in Workers : Kept(w)

LEMMA ApartKept ==
  ASSUME Sound, NEW w \in Workers, Apart(w), Kept(w)
  PROVE  AllKept
<1>1. ASSUME NEW v \in Workers \ {w} PROVE Kept(v)
  BY SameKept DEF Apart, Sound
<1> QED BY <1>1 DEF AllKept

LEMMA FinishKept ==
  ASSUME Typed, Sound, NEW w \in Workers, NEW r, Finish(w, r)
  PROVE  AllKept
<1>1. pc'[w] = "idle" /\ guard'[w] = FreshGuard /\ wire'[w] = "none"
  BY DEF Finish, Typed, WorkerTypeOK
<1>2. Apart(w)
  BY DEF Finish, Apart, Typed, WorkerTypeOK
<1>3. ~FreshGuard.hasResult
  BY DEF FreshGuard
<1> QED BY <1>1, <1>2, <1>3, ApartKept DEF Kept

LEMMA AnotherRoundKept ==
  ASSUME Typed, Sound, NEW w \in Workers, NEW g, AnotherRound(w, g),
         g.hasResult => g = guard[w]
  PROVE  AllKept
<1>1. UNCHANGED todo /\ pc'[w] = "send" /\ guard'[w] = g /\ wire'[w] = "none"
  BY DEF AnotherRound, Goto, CloseRequest, Typed, WorkerTypeOK
<1>2. Apart(w)
  BY DEF AnotherRound, Goto, CloseRequest, Apart, Typed, WorkerTypeOK
<1> QED BY <1>1, <1>2, ApartKept DEF Kept

LEMMA NextRoundKept ==
  ASSUME Typed, Sound, NEW w \in Workers, NEW g, NextRound(w, g),
         g.hasResult => g = guard[w]
  PROVE  AllKept
BY AnotherRoundKept, FinishKept DEF NextRound, GiveUp

\* A step to another label, the request closed or as it was.
LEMMA GotoKept ==
  ASSUME Typed, Sound, NEW w \in Workers, NEW label, Goto(w, label),
         UNCHANGED <<todo, guard>>, UNCHANGED request \/ CloseRequest(w),
         label = "confirm" => guard[w].hasResult
  PROVE  AllKept
<1>1. pc'[w] = label /\ \A v \in Workers \ {w} : pc'[v] = pc[v]
  BY DEF Goto, Typed, WorkerTypeOK
<1>2. /\ \A v \in Workers \ {w} : wire'[v] = wire[v] /\ ids'[v] = ids[v]
      /\ wire'[w] = "accepted" => wire[w] = "accepted" /\ ids'[w] = ids[w]
  BY DEF request, CloseRequest, Typed, WorkerTypeOK
<1>3. Apart(w) /\ Kept(w)
  BY <1>1, <1>2 DEF Apart, Kept
<1> QED BY <1>3, ApartKept

-----------------------------------------------------------------------------
(* The steps the ledger does not see.                                       *)

Unseen == UNCHANGED <<mapping, receipt, target, forced>>

LEMMA BeforeSendUnseen ==
  ASSUME LinkInv, NEW w \in Workers,
         StartOp(w) \/ Filter(w) \/ CheckReceipt(w) \/ CheckMapping(w) \/ Checked(w)
  PROVE  Unseen /\ AllKept
<1>1. Unseen
  BY DEF StartOp, Filter, CheckReceipt, CheckMapping, Checked, Unseen, ledger, remote, history
<1>2. ~guard[w].hasResult /\ wire[w] = "none"
  BY DEF StartOp, Filter, CheckReceipt, CheckMapping, Checked, LinkInv, Trace, Control, ControlAt
<1>3. ASSUME StartOp(w) \/ CheckReceipt(w) \/ CheckMapping(w) PROVE AllKept
  <2>1. /\ Apart(w)
        /\ pc'[w] \in {"filter", "check", "checkMapping"}
        /\ UNCHANGED <<guard, wire>>
    BY <1>3 DEF StartOp, CheckReceipt, CheckMapping, Apart, request, LinkInv, Trace, Typed,
       WorkerTypeOK
  <2>2. Kept(w)
    BY <1>2, <2>1 DEF Kept
  <2> QED BY <2>1, <2>2, ApartKept DEF LinkInv
<1>4. ASSUME Filter(w) PROVE AllKept
  <2>1. CASE Finish(w, "skipped")
    BY <2>1, FinishKept DEF LinkInv, Trace
  <2>2. CASE /\ Goto(w, IF Album(w) THEN "send" ELSE "check")
             /\ UNCHANGED <<members, guard, request, tries>>
    BY <2>2, GotoKept DEF LinkInv, Trace, members
  <2> QED BY <1>4, <2>1, <2>2 DEF Filter
<1>5. ASSUME Checked(w) PROVE AllKept
  <2>1. CASE Finish(w, Verdict(w))
    BY <2>1, FinishKept DEF LinkInv, Trace
  <2>2. CASE /\ Goto(w, IF Album(w) THEN "filter" ELSE "send")
             /\ UNCHANGED <<job, todo, blocked, guard, request, tries>>
    BY <2>2, GotoKept DEF LinkInv, Trace
  <2> QED BY <1>5, <2>1, <2>2 DEF Checked
<1> QED BY <1>1, <1>3, <1>4, <1>5

LEMMA EndUnseen ==
  ASSUME LinkInv, NEW w \in Workers,
         \/ StopBeforeSend(w) \/ MediaUnavailable(w) \/ PrepareRefused(w) \/ PrepareFails(w)
         \/ StopWhileSending(w) \/ Reject(w) \/ ConfirmFails(w) \/ Confirmed(w) \/ LogFails(w)
  PROVE  Unseen /\ AllKept
<1>1. Unseen
  BY DEF StopBeforeSend, MediaUnavailable, PrepareRefused, PrepareFails, StopWhileSending, Abandon,
         Reject, ConfirmFails, Confirmed, LogFails, Unseen, ledger, remote, history
<1>2. (\E r : Finish(w, r)) \/ NextRound(w, guard[w])
  BY DEF StopBeforeSend, MediaUnavailable, PrepareRefused, PrepareFails, StopWhileSending, Reject,
         ConfirmFails, Confirmed, LogFails, NextRound
<1> QED BY <1>1, <1>2, FinishKept, NextRoundKept DEF LinkInv, Trace

LEMMA GuardEnterUnseen ==
  ASSUME LinkInv, NEW w \in Workers, GuardEnter(w)
  PROVE  Unseen /\ AllKept
<1>1. Unseen
  BY DEF GuardEnter, Unseen, ledger, remote, history
<1>2. CASE Finish(w, "raised")
  BY <1>1, <1>2, FinishKept DEF LinkInv, Trace
<1>3. CASE guard[w].hasResult /\ Goto(w, "confirm") /\ UNCHANGED <<members, guard, request, tries>>
  BY <1>1, <1>3, GotoKept DEF LinkInv, Trace, members
<1>4. CASE Goto(w, "issue") /\ UNCHANGED <<members, guard, request, tries>>
  BY <1>1, <1>4, GotoKept DEF LinkInv, Trace, members
<1> QED BY <1>2, <1>3, <1>4 DEF GuardEnter

LEMMA ClosedUnseen ==
  ASSUME LinkInv, NEW w \in Workers,
         ReplyUnparsable(w) \/ FloodWait(w) \/ Restricted(w) \/ AnswerIncomplete(w)
  PROVE  Unseen /\ AllKept
<1>1. Unseen /\ UNCHANGED <<todo, guard>>
  BY DEF ReplyUnparsable, FloodWait, Restricted, AnswerIncomplete, Unseen, ledger, remote, history,
         members
<1>2. UNCHANGED request \/ CloseRequest(w)
  BY DEF ReplyUnparsable, FloodWait, Restricted, AnswerIncomplete
<1>3. \E label \in {"mark", "send", "release"} : Goto(w, label)
  BY DEF ReplyUnparsable, FloodWait, Restricted, AnswerIncomplete
<1> QED BY <1>1, <1>2, <1>3, GotoKept DEF LinkInv, Trace

LEMMA NetworkErrorUnseen ==
  ASSUME LinkInv, NEW w \in Workers, NetworkError(w)
  PROVE  Unseen /\ AllKept
<1>1. Unseen
  BY DEF NetworkError, Abandon, Unseen, ledger
<1>2. CASE Finish(w, "raised")
  BY <1>1, <1>2, FinishKept DEF LinkInv, Trace
<1>3. CASE CloseRequest(w) /\ Goto(w, "send") /\ UNCHANGED <<members, guard>>
  BY <1>1, <1>3, GotoKept DEF LinkInv, Trace, members
<1> QED BY <1>2, <1>3 DEF NetworkError

LEMMA UnknownErrorUnseen ==
  ASSUME LinkInv, NEW w \in Workers, UnknownError(w)
  PROVE  Unseen /\ AllKept
<1>1. Unseen
  BY DEF UnknownError, Abandon, Unseen, ledger
<1> QED BY <1>1, NextRoundKept DEF UnknownError, LinkInv, Trace

LEMMA IssueUnseen ==
  ASSUME LinkInv, NEW w \in Workers, Issue(w)
  PROVE  Unseen /\ AllKept
<1>1. Unseen
  BY DEF Issue, Unseen, ledger, remote, history
<1>2. /\ pc'[w] = "calling" /\ wire'[w] = "sent" /\ UNCHANGED <<todo, guard>>
      /\ Apart(w)
  BY DEF Issue, Goto, Apart, members, LinkInv, Trace, Typed, WorkerTypeOK
<1> QED BY <1>1, <1>2, ApartKept DEF Kept, LinkInv

LEMMA EnvironmentUnseen ==
  ASSUME LinkInv, LoseOrphan \/ RequestStop \/ ClearStop \/ UNCHANGED vars
  PROVE  Unseen /\ AllKept
<1>1. Unseen /\ UNCHANGED <<pc, todo, guard, wire, ids>>
  BY DEF LoseOrphan, RequestStop, ClearStop, Unseen, vars, ledger, remote, history, members, request
<1> QED BY <1>1, SameKept DEF AllKept, LinkInv, Sound

LEMMA CrashUnseen ==
  ASSUME LinkInv, Crash
  PROVE  Unseen /\ AllKept
<1>1. ~FreshGuard.hasResult
  BY DEF FreshGuard
<1> QED BY <1>1 DEF Crash, Unseen, ledger, history, AllKept, Kept

-----------------------------------------------------------------------------
(* The steps that bring a copy or an answer.                                *)

LEMMA AcceptSound ==
  ASSUME LinkInv, NEW w \in Workers, Accept(w)
  PROVE  Sound'
<1>1. /\ target' = target \o todo[w]
      /\ ids' = [ids EXCEPT ![w] = [i \in 1..Len(todo[w]) |-> Len(target) + i]]
      /\ wire' = [wire EXCEPT ![w] = "accepted"]
      /\ UNCHANGED <<mapping, pc, todo, guard>>
  BY DEF Accept, ledger, members
<1>2. target \in Seq(Msgs) /\ todo[w] \in Seq(Msgs)
  BY DEF LinkInv, Trace, Typed, SharedTypeOK, WorkerTypeOK
<1>3. Grows
  BY <1>1, <1>2 DEF Grows
<1>4. MappingSound'
  BY <1>1, <1>3, MappingKept DEF LinkInv, Sound
<1>5. ASSUME NEW v \in Workers \ {w} PROVE SoundAt(v)'
  <2>1. pc'[v] = pc[v] /\ UNCHANGED <<todo[v], guard[v], wire[v], ids[v]>>
    BY <1>1 DEF LinkInv, Trace, Typed, WorkerTypeOK
  <2> QED BY <1>3, <2>1, SameKept, KeptSound DEF LinkInv, Sound
<1>6. SoundAt(w)'
  <2>1. ids'[w] = [i \in 1..Len(todo[w]) |-> Len(target) + i]
    BY <1>1 DEF LinkInv, Trace, Typed, WorkerTypeOK
  <2>2. Len(ids'[w]) = Len(todo[w])
    BY <1>2, <2>1
  <2>3. ASSUME NEW i \in DOMAIN todo[w]
        PROVE  ids'[w][i] \in DOMAIN target' /\ target'[ids'[w][i]] = todo[w][i]
    <3>1. i \in 1..Len(todo[w]) /\ ids'[w][i] = Len(target) + i
      BY <1>2, <2>1
    <3> QED BY <1>1, <1>2, <3>1
  <2>4. ASSUME guard[w].hasResult, Complete(w), NEW i \in DOMAIN todo[w]
        PROVE  guard[w].answer[i] \in DOMAIN target' /\ target'[guard[w].answer[i]] = todo[w][i]
    BY <1>3, <2>4 DEF IsCopy, Grows, SoundAt, LinkInv, Sound
  <2>5. pc[w] = "confirm" => guard[w].hasResult
    BY DEF LinkInv, Sound, SoundAt
  <2>6. Complete(w)' <=> Complete(w)
    BY <1>1 DEF Complete
  <2> QED BY <1>1, <2>2, <2>3, <2>4, <2>5, <2>6 DEF SoundAt, IsCopy
<1> QED BY <1>4, <1>5, <1>6 DEF Sound

LEMMA AnsweredSound ==
  ASSUME LinkInv, NEW w \in Workers, wire[w] = "accepted", NEW a, Answered(w, a),
         (/\ Len(a) = Len(todo[w])
          /\ \A i \in DOMAIN a : a[i] > 0
          /\ \A i, j \in DOMAIN a : a[i] = a[j] => i = j) => a = ids[w]
  PROVE  Sound' /\ Unseen
<1>1. /\ guard' = [guard EXCEPT ![w] = AnsweredGuard(guard[w], a)]
      /\ CloseRequest(w) /\ Goto(w, "confirm")
      /\ UNCHANGED <<mapping, target, todo>> /\ Unseen
  BY DEF Answered, ledger, remote, members, history, Unseen
<1>2. Grows
  BY <1>1 DEF Grows
<1>3. MappingSound'
  BY <1>1, <1>2, MappingKept DEF LinkInv, Sound
<1>4. ASSUME NEW v \in Workers \ {w} PROVE SoundAt(v)'
  <2>1. pc'[v] = pc[v] /\ UNCHANGED <<todo[v], guard[v], wire[v], ids[v]>>
    BY <1>1 DEF Goto, CloseRequest, LinkInv, Trace, Typed, WorkerTypeOK
  <2> QED BY <1>2, <2>1, SameKept, KeptSound DEF LinkInv, Sound
<1>5. SoundAt(w)'
  <2>1. guard'[w] = AnsweredGuard(guard[w], a) /\ wire'[w] = "none" /\ todo'[w] = todo[w]
    BY <1>1 DEF CloseRequest, LinkInv, Trace, Typed, WorkerTypeOK
  <2>2. guard'[w].answer = a /\ guard'[w].hasResult
    BY <2>1 DEF AnsweredGuard
  <2>3. Complete(w)' => a = ids[w]
    BY <2>1, <2>2 DEF Complete
  <2>4. \A i \in DOMAIN todo[w] : IsCopy(ids[w][i], todo[w][i])
    BY DEF LinkInv, Sound, SoundAt
  <2>5. \A i, m : IsCopy(i, m)' <=> IsCopy(i, m)
    BY <1>1 DEF IsCopy
  <2> QED BY <2>1, <2>2, <2>3, <2>4, <2>5 DEF SoundAt
<1> QED BY <1>1, <1>3, <1>4, <1>5 DEF Sound

\* An answer without all members, with a zero or with a repeated id is not
\* complete.
LEMMA ReplySound ==
  ASSUME LinkInv, NEW w \in Workers, ReplyOk(w) \/ ReplyPartial(w)
  PROVE  Sound' /\ Unseen
<1>1. wire[w] = "accepted" /\ ids[w] \in Seq(Nat) /\ Len(ids[w]) = Len(todo[w])
  BY DEF ReplyOk, ReplyPartial, LinkInv, Sound, SoundAt, Trace, Typed, WorkerTypeOK
<1>2. CASE Answered(w, ids[w])
  BY <1>1, <1>2, AnsweredSound
<1>3. ASSUME NEW i \in 1..Len(ids[w]), NEW j \in 0..Len(ids[w]), <<i, j>> # <<1, Len(ids[w])>>,
             Answered(w, SubSeq(ids[w], i, j))
      PROVE  Sound' /\ Unseen
  <2>1. Len(SubSeq(ids[w], i, j)) # Len(ids[w])
    BY <1>1, <1>3
  <2> QED BY <1>1, <1>3, <2>1, AnsweredSound
<1>4. ASSUME NEW i \in 1..Len(ids[w]), NEW j \in 1..Len(ids[w]),
             Answered(w, [ids[w] EXCEPT ![i] = IF i = j THEN 0 ELSE ids[w][j]])
      PROVE  Sound' /\ Unseen
  <2> DEFINE a == [ids[w] EXCEPT ![i] = IF i = j THEN 0 ELSE ids[w][j]]
  <2>1. DOMAIN a = 1..Len(ids[w]) /\ a[i] = (IF i = j THEN 0 ELSE ids[w][j])
    BY <1>1
  <2>2. i # j => a[j] = ids[w][j]
    BY <1>1
  <2>3. ~(/\ \A k \in DOMAIN a : a[k] > 0
          /\ \A k, l \in DOMAIN a : a[k] = a[l] => k = l)
    BY <2>1, <2>2
  <2> QED BY <1>1, <1>4, <2>3, AnsweredSound
<1> QED BY <1>1, <1>2, <1>3, <1>4 DEF ReplyOk, ReplyPartial

-----------------------------------------------------------------------------
(* The other steps the ledger sees.                                         *)

LEMMA PrepareKept ==
  ASSUME LinkInv, NEW w \in Workers, Prepare(w)
  PROVE  UNCHANGED <<mapping, target>> /\ AllKept
<1>1. ~PreparedGuard.hasResult
  BY DEF PreparedGuard, FreshGuard
<1>2. /\ pc'[w] = "issue" /\ guard'[w] = PreparedGuard /\ UNCHANGED <<todo, wire, ids>>
      /\ Apart(w)
  BY DEF Prepare, Goto, Apart, members, request, LinkInv, Trace, Typed, WorkerTypeOK
<1> QED BY <1>1, <1>2, ApartKept DEF Prepare, remote, Kept, LinkInv

LEMMA MarkKept ==
  ASSUME LinkInv, NEW w \in Workers, Mark(w) \/ MarkFails(w) \/ Release(w)
  PROVE  UNCHANGED <<mapping, target, forced>> /\ AllKept
<1>1. UNCHANGED <<mapping, target, forced>>
  BY DEF Mark, MarkFails, Release, ledger, remote, history
<1>2. (\E r : Finish(w, r)) \/ NextRound(w, DoubtfulGuard)
  BY DEF Mark, MarkFails, MarkError, Release
<1>3. ~DoubtfulGuard.hasResult
  BY DEF DoubtfulGuard, FreshGuard
<1> QED BY <1>1, <1>2, <1>3, FinishKept, NextRoundKept DEF LinkInv, Trace

\* The id that is written is that of a copy of the member.
LEMMA ConfirmMemberSound ==
  ASSUME LinkInv, NEW w \in Workers, ConfirmMember(w)
  PROVE  Sound' /\ IsCopy(AnswerFor(w), todo[w][idx[w]])
<1> DEFINE m == todo[w][idx[w]]
<1>1. /\ UNCHANGED <<target, pc, todo, guard, wire, ids>>
      /\ mapping' = [mapping EXCEPT ![m] = IF @ = 0 \/ job[w].force THEN AnswerFor(w) ELSE @]
      /\ pc[w] = "confirm" /\ Complete(w) /\ ~AllRecorded(w)
  BY DEF ConfirmMember, remote, request
<1>2. idx[w] \in DOMAIN todo[w] /\ m \in Msgs
  BY <1>1, ConfirmedId DEF Complete, AllRecorded, LinkInv, Trace, Typed, WorkerTypeOK
<1>3. IsCopy(AnswerFor(w), m)
  BY <1>1, <1>2 DEF AnswerFor, LinkInv, Sound, SoundAt
<1>4. MappingSound'
  <2>1. \A n \in Msgs \ {m} : mapping'[n] = mapping[n]
    BY <1>1, <1>2 DEF LinkInv, Trace, Typed, SharedTypeOK
  <2>2. mapping'[m] = mapping[m] \/ mapping'[m] = AnswerFor(w)
    BY <1>1, <1>2 DEF LinkInv, Trace, Typed, SharedTypeOK
  <2> QED BY <1>1, <1>3, <2>1, <2>2 DEF MappingSound, IsCopy, LinkInv, Sound
<1>5. \A v \in Workers : SoundAt(v)'
  BY <1>1 DEF SoundAt, Complete, IsCopy, LinkInv, Sound
<1> QED BY <1>3, <1>4, <1>5 DEF Sound

LEMMA AcceptOrphanSound ==
  ASSUME LinkInv, AcceptOrphan
  PROVE  Sound'
<1>1. PICK o \in orphans : target' = target \o o
  BY DEF AcceptOrphan
<1>2. target \in Seq(Msgs) /\ o \in Seq(Msgs)
  BY DEF LinkInv, Trace, Typed, SharedTypeOK
<1>3. Grows
  BY <1>1, <1>2 DEF Grows
<1>4. UNCHANGED <<mapping, pc, todo, guard, wire, ids>>
  BY DEF AcceptOrphan, ledger, members, request
<1>5. AllKept
  BY <1>4, SameKept DEF AllKept, LinkInv, Sound
<1> QED BY <1>3, <1>4, <1>5, KeptSound, MappingKept DEF AllKept, LinkInv, Sound

LEMMA KeepSound ==
  ASSUME LinkInv, UNCHANGED <<mapping, target>>, AllKept
  PROVE  Sound'
<1>1. Grows
  BY DEF Grows
<1> QED BY <1>1, KeptSound, MappingKept DEF AllKept, LinkInv, Sound

-----------------------------------------------------------------------------
(* What the ledger sees.                                                    *)

LedgerStep == [Ledger!Next]_Ledger!vars

LEMMA UnseenStutter ==
  ASSUME Unseen
  PROVE  LedgerStep
BY DEF Unseen, LedgerStep, Ledger!vars, Status

LEMMA PrepareLedger ==
  ASSUME LinkInv, NEW w \in Workers, Prepare(w)
  PROVE  LedgerStep
<1> DEFINE batch == Elems(todo[w])
<1>1. /\ UNCHANGED <<mapping, target>> /\ batch \in SUBSET Msgs
      /\ receipt' = [m \in Msgs |-> IF m \in batch THEN "sending" ELSE receipt[m]]
      /\ forced' = IF job[w].force THEN forced \union batch ELSE forced
      /\ job[w].force \/ \A m \in batch : receipt[m] = "none"
  BY ElemsType DEF Prepare, Reservable, Reserved, remote, LinkInv, Trace
<1>2. \A m \in Msgs :
        Status(m)' = IF m \in batch /\ Status(m) = "open" THEN "inDoubt" ELSE Status(m)
  BY <1>1 DEF Status
<1>3. [m \in Msgs |-> Status(m)]' = Ledger!Move(batch, "open", "inDoubt")
  BY <1>2 DEF Ledger!Move
<1>4. CASE job[w].force
  BY <1>1, <1>3, <1>4 DEF Ledger!Override, Ledger!Next, LedgerStep
<1>5. CASE ~job[w].force
  <2>1. \A m \in batch : Status(m) # "inDoubt"
    BY <1>1, <1>5 DEF Status
  <2>2. Ledger!Reserve(batch)
    BY <1>1, <1>3, <1>5, <2>1 DEF Ledger!Reserve
  <2> QED BY <1>1, <2>2 DEF Ledger!Next, LedgerStep
<1> QED BY <1>4, <1>5

\* What is copied was exposed before, hence traced.
LEMMA PostLedger ==
  ASSUME LinkInv, NEW s \in Seq(Msgs), target' = target \o s,
         UNCHANGED <<mapping, receipt, forced>>,
         \A m \in Elems(s) : Exposed(m)
  PROVE  LedgerStep
<1>1. Elems(s) \in SUBSET Msgs
  BY DEF Elems
<1>2. Elems(target') = Elems(target) \union Elems(s)
  BY ElemsConcat DEF LinkInv, Trace, Typed, SharedTypeOK
<1>3. \A m \in Elems(s) \ forced : Status(m) # "open"
  BY <1>1 DEF Status, Traced, ExposedIsTraced, Hold, Trace, LinkInv
<1>4. Ledger!Post(Elems(s))
  BY <1>1, <1>2, <1>3 DEF Ledger!Post, Status
<1> QED BY <1>1, <1>4 DEF Ledger!Next, LedgerStep

LEMMA AcceptLedger ==
  ASSUME LinkInv, NEW w \in Workers, Accept(w)
  PROVE  LedgerStep
<1>1. todo[w] \in Seq(Msgs) /\ target' = target \o todo[w] /\ UNCHANGED <<mapping, receipt, forced>>
  BY DEF Accept, ledger, history, LinkInv, Trace, Typed, WorkerTypeOK
<1>2. \A m \in Elems(todo[w]) : Exposed(m)
  BY DEF Accept, Exposed
<1> QED BY <1>1, <1>2, PostLedger

LEMMA AcceptOrphanLedger ==
  ASSUME LinkInv, AcceptOrphan
  PROVE  LedgerStep
<1>1. PICK o \in orphans : target' = target \o o
  BY DEF AcceptOrphan
<1>2. o \in Seq(Msgs) /\ UNCHANGED <<mapping, receipt, forced>>
  BY DEF AcceptOrphan, ledger, history, LinkInv, Trace, Typed, SharedTypeOK
<1>3. \A m \in Elems(o) : Exposed(m)
  BY DEF Exposed
<1> QED BY <1>1, <1>2, <1>3, PostLedger

LEMMA ConfirmLedger ==
  ASSUME LinkInv, NEW w \in Workers, ConfirmMember(w)
  PROVE  LedgerStep
<1> DEFINE n == todo[w][idx[w]]
<1>1. n \in Msgs /\ AnswerFor(w) \in Nat \ {0}
  BY ConfirmedId DEF ConfirmMember, LinkInv, Trace
<1>2. /\ UNCHANGED <<target, forced>>
      /\ mapping' = [mapping EXCEPT ![n] = IF @ = 0 \/ job[w].force THEN AnswerFor(w) ELSE @]
      /\ receipt' = [receipt EXCEPT ![n] = "none"]
  BY DEF ConfirmMember, remote, history
<1>3. mapping'[n] # 0
  BY <1>1, <1>2 DEF LinkInv, Trace, Typed, SharedTypeOK
<1>4. \A m \in Msgs \ {n} : mapping'[m] = mapping[m] /\ receipt'[m] = receipt[m]
  BY <1>1, <1>2 DEF LinkInv, Trace, Typed, SharedTypeOK
<1>5. \A m \in Msgs : Status(m)' = IF m = n THEN "confirmed" ELSE Status(m)
  BY <1>3, <1>4 DEF Status
<1>6. [m \in Msgs |-> Status(m)]' = [[m \in Msgs |-> Status(m)] EXCEPT ![n] = "confirmed"]
  BY <1>5
<1>7. n \in Elems(target)
  BY ConfirmMemberSound DEF IsCopy, Elems
<1>8. Ledger!Confirm(n)
  BY <1>2, <1>6, <1>7 DEF Ledger!Confirm
<1> QED BY <1>1, <1>8 DEF Ledger!Next, LedgerStep

\* A doubt that grows from "sending" to "unconfirmed" is the same doubt.
LEMMA MarkLedger ==
  ASSUME LinkInv, NEW w \in Workers, Mark(w) \/ MarkFails(w)
  PROVE  LedgerStep
<1>1. UNCHANGED <<mapping, target, forced>>
  BY MarkKept
<1>2. \A m \in Msgs : receipt'[m] # "none" <=> receipt[m] # "none"
  BY DEF Mark, MarkFails, Marked, ledger
<1>3. \A m \in Msgs : Status(m)' = Status(m)
  BY <1>1, <1>2 DEF Status
<1> QED BY <1>1, <1>3 DEF LedgerStep, Ledger!vars

\* The members of a refused copy are in the target only if they are confirmed.
LEMMA ReleaseLedger ==
  ASSUME LinkInv, NEW w \in Workers, Release(w)
  PROVE  LedgerStep
<1> DEFINE batch == Elems(todo[w])
<1>1. UNCHANGED <<mapping, target, forced>>
  BY MarkKept
<1>2. CASE UNCHANGED receipt
  BY <1>1, <1>2, UnseenStutter DEF Unseen
<1>3. CASE receipt' = [m \in Msgs |-> IF m \in batch THEN "none" ELSE receipt[m]]
  <2>1. batch \in SUBSET Msgs /\ guard[w].prepared /\ Refused(w)
    BY ElemsType DEF Release, LinkInv, Trace, Control, ControlAt
  <2>2. \A m \in batch \ forced : m \in Elems(target) => Status(m) = "confirmed"
    BY <2>1 DEF RefusedUnexposed, Exposed, Status, LinkInv, Trace, Hold
  <2>3. \A m \in Msgs :
          Status(m)' = IF m \in batch /\ Status(m) = "inDoubt" THEN "open" ELSE Status(m)
    BY <1>1, <1>3 DEF Status
  <2>4. [m \in Msgs |-> Status(m)]' = Ledger!Move(batch, "inDoubt", "open")
    BY <2>3 DEF Ledger!Move
  <2>5. Ledger!Release(batch)
    BY <1>1, <2>1, <2>2, <2>4 DEF Ledger!Release
  <2> QED BY <2>1, <2>5 DEF Ledger!Next, LedgerStep
<1> QED BY <1>2, <1>3 DEF Release

-----------------------------------------------------------------------------
(* The theorems.                                                            *)

LEMMA UnseenHolds ==
  ASSUME LinkInv, Unseen /\ AllKept
  PROVE  Sound' /\ LedgerStep
BY KeepSound, UnseenStutter DEF Unseen

LEMMA WorkHolds ==
  ASSUME LinkInv, NEW w \in Workers, StartOp(w) \/ Work(w)
  PROVE  Sound' /\ LedgerStep
<1>1. CASE Prepare(w)
  BY <1>1, PrepareKept, KeepSound, PrepareLedger
<1>2. CASE Release(w)
  BY <1>2, MarkKept, KeepSound, ReleaseLedger
<1>3. CASE Mark(w) \/ MarkFails(w)
  BY <1>3, MarkKept, KeepSound, MarkLedger
<1>4. CASE ConfirmMember(w)
  BY <1>4, ConfirmMemberSound, ConfirmLedger
<1>5. CASE GuardEnter(w) \/ Issue(w) \/ AnswerIncomplete(w)
  BY <1>5, GuardEnterUnseen, IssueUnseen, ClosedUnseen, UnseenHolds
<1>6. CASE StartOp(w) \/ Filter(w) \/ CheckReceipt(w) \/ CheckMapping(w) \/ Checked(w)
  BY <1>6, BeforeSendUnseen, UnseenHolds
<1>7. CASE \/ StopBeforeSend(w) \/ MediaUnavailable(w) \/ PrepareRefused(w) \/ PrepareFails(w)
           \/ StopWhileSending(w) \/ ConfirmFails(w) \/ Confirmed(w) \/ LogFails(w)
  BY <1>7, EndUnseen, UnseenHolds
<1> QED BY <1>1, <1>2, <1>3, <1>4, <1>5, <1>6, <1>7 DEF Work

LEMMA AnswerHolds ==
  ASSUME LinkInv, NEW w \in Workers, Accept(w) \/ Answer(w)
  PROVE  Sound' /\ LedgerStep
<1>1. CASE Accept(w)
  BY <1>1, AcceptSound, AcceptLedger
<1>2. CASE ReplyOk(w) \/ ReplyPartial(w)
  BY <1>2, ReplySound, UnseenStutter
<1>3. CASE \/ ReplyUnparsable(w) \/ NetworkError(w) \/ UnknownError(w)
           \/ FloodWait(w) \/ Reject(w) \/ Restricted(w)
  BY <1>3, ClosedUnseen, NetworkErrorUnseen, UnknownErrorUnseen, EndUnseen, UnseenHolds
<1> QED BY <1>1, <1>2, <1>3 DEF Answer

LEMMA StepHolds ==
  ASSUME LinkInv, [Next]_vars
  PROVE  Sound' /\ LedgerStep
<1>1. CASE AcceptOrphan
  BY <1>1, AcceptOrphanSound, AcceptOrphanLedger
<1>2. CASE LoseOrphan \/ RequestStop \/ ClearStop \/ Crash \/ UNCHANGED vars
  BY <1>2, EnvironmentUnseen, CrashUnseen, UnseenHolds
<1> QED BY <1>1, <1>2, WorkHolds, AnswerHolds DEF Next

LEMMA InitSound == Init => Sound
<1> SUFFICES ASSUME Init PROVE Sound
  OBVIOUS
<1>1. ~FreshGuard.hasResult
  BY DEF FreshGuard
<1> QED BY <1>1 DEF Init, Sound, SoundAt, MappingSound

LEMMA LinkInvariant == Spec => []LinkInv
<1>1. Init => LinkInv
  BY InitTrace, InitSound DEF LinkInv
<1>2. LinkInv /\ [Next]_vars => LinkInv'
  BY DeliveryAssumption, StepTrace, StepHolds DEF LinkInv
<1> QED BY <1>1, <1>2, PTL DEF Spec

\* A mapping names a message of the target that is a copy of its source, for
\* any number of workers, messages and albums and whatever an answer lacks: an
\* answer that counts as complete is the list of the copies themselves.
THEOREM MappingCorrect == Spec => []MappingSound
<1>1. LinkInv => MappingSound
  BY DEF LinkInv, Sound
<1> QED BY <1>1, LinkInvariant, PTL

LEMMA InitLedger == Init => Ledger!Init
<1> SUFFICES ASSUME Init PROVE Ledger!Init
  OBVIOUS
<1> QED BY DEF Init, Ledger!Init, Status, Elems

\* Every step of the code is a step of the ledger or one it does not see:
\* groups are reserved whole, only what is in doubt or confirmed is posted, only
\* what was posted is confirmed, and a release opens nothing that was posted.
THEOREM LedgerCorrect == Spec => ImplementsLedger
<1>1. Init => Ledger!Init
  BY InitLedger
<1>2. LinkInv /\ [Next]_vars => [Ledger!Next]_Ledger!vars
  BY StepHolds DEF LedgerStep
<1> QED BY <1>1, <1>2, LinkInvariant, PTL DEF Spec, ImplementsLedger, Ledger!Spec
=============================================================================
