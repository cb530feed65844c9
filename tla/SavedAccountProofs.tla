------------------------- MODULE SavedAccountProofs -------------------------
(***************************************************************************)
(* Proofs about SavedAccount: types, the account that is bound, the account *)
(* an operation or a job works with, and the records of an account.  All of *)
(* them follow from one inductive invariant, IInv.                          *)
(***************************************************************************)
EXTENDS SavedAccount, TLAPS

-----------------------------------------------------------------------------
(* The inductive invariant.                                                 *)

Busy(l) == login[l] # "idle"

\* One request at a time changes the account, it has closed the gate, nobody is
\* behind the closed gate, and a process that is down has none.
GateClosed ==
  /\ \A l, k \in Logins : Busy(l) /\ Busy(k) => l = k
  /\ \A l \in Logins : Busy(l) => switching
  /\ switching => active = {}
  /\ \A o \in Ops : op[o] \notin {"idle", "found"} => o \in active
  /\ up = "down" => \A l \in Logins : ~Busy(l)

\* The published client is that of the session file and of the bound account. A
\* request that signs in or unlinks has no client beside it, and one that has
\* verified the account is about that of the session file.
Verified ==
  /\ client # None => client = session /\ account = client /\ auth = Nobody
  /\ \A l \in Logins :
       /\ login[l] \in {"sign", "unlink"} => client = None
       /\ login[l] = "sign" => who[l] \in Accounts
       /\ login[l] \in {"verify", "bind", "initialize"} => who[l] = session /\ session \in Accounts
       /\ login[l] = "initialize" => account = who[l]

\* Once a job has resolved its chat, only that account can be published.
JobBound ==
  /\ job # "none" => syncing
  /\ job \in {"next", "send", "save"} =>
       /\ jobChat \in Accounts /\ client \in {jobChat, None}
       /\ \A l \in Logins :
            /\ login[l] \notin {"sign", "unlink"}
            /\ login[l] \in {"connect", "verify", "bind", "initialize"} => session = jobChat
  /\ job \in {"send", "save"} => jobOwner = jobChat /\ jobMsg \in Msgs
  /\ job = "save" => jobId = <<jobChat, jobMsg>>

\* What an operation has found out is of the account it works with.
OpBound ==
  \A o \in Ops :
    /\ op[o] \in {"found", "locate", "post", "send", "save"} => msg[o] \in Msgs
    /\ op[o] = "send" => chat[o] \in Accounts /\ client \in {chat[o], None}
    /\ op[o] = "save" => chat[o] \in Accounts /\ account \in {chat[o], None} /\ id[o] = <<chat[o], msg[o]>>
    /\ op[o] = "reread" => id[o][1] \in Accounts /\ client \in {id[o][1], None}
    /\ op[o] = "edit" => chat[o] \in Accounts /\ id[o][1] = chat[o] /\ client \in {chat[o], None}

\* The old records are those of the account they were found to belong to, or
\* will be.
LegacyOwned ==
  /\ frozen = "unset" =>
       up = "down" /\ \A m \in Msgs : session # None => legacy[m] \in {NoId, <<session, m>>}
  /\ frozen \in Accounts => \A m \in Msgs : legacy[m] \in {NoId, <<frozen, m>>}

AccountInv == GateClosed /\ ClientVerified /\ Verified
WorkInv    == JobBound /\ OpBound
RecordInv  == LegacyOwned /\ OwnMappings /\ EditsOwn

IInv == TypeOK /\ AccountInv /\ WorkInv /\ RecordInv

USE DEF memory, gate, logins, ops, jobs, records, NoId
-----------------------------------------------------------------------------
(* Types.                                                                   *)

LEMMA FinishTypes ==
  ASSUME TypeOK, NEW l \in Logins, Finish(l)
  PROVE  /\ login' \in [Logins -> LoginLabels] /\ who' \in [Logins -> Accounts \union {None}]
         /\ switching' \in BOOLEAN /\ active' \subseteq Ops
BY DEF TypeOK, Finish, Released, LoginLabels

LEMMA SentTypes ==
  ASSUME NEW c \in Accounts \union {None}, NEW m \in Msgs
  PROVE  Sent(c, m) \in Ids
BY DEF Sent, Ids

LEMMA SavedTypes ==
  ASSUME TypeOK, NEW a \in Accounts, NEW m \in Msgs, NEW i \in Ids \union {NoId}
  PROVE  [mapping EXCEPT ![a][m] = IF @ = NoId THEN i ELSE @]
           \in [Accounts -> [Msgs -> Ids \union {NoId}]]
BY DEF TypeOK

-----------------------------------------------------------------------------
(* Requests to change the account: nobody is behind the gate, no job runs.  *)

LEMMA StartClientStep ==
  ASSUME IInv, StartClient
  PROVE  IInv'
<1>1. TypeOK'
  BY DEF IInv, TypeOK, LoginLabels, Awaited, Nobody, StartClient, MayChange
<1>2. AccountInv'
  BY DEF IInv, TypeOK, AccountInv, GateClosed, ClientVerified, Verified, Busy,
     Awaited, Nobody, StartClient, MayChange
<1>3. WorkInv'
  BY DEF IInv, TypeOK, AccountInv, GateClosed, ClientVerified, Verified, Busy,
     WorkInv, JobBound, OpBound, StartClient, MayChange
<1>4. RecordInv'
  BY DEF IInv, RecordInv, LegacyOwned, OwnMappings, EditsOwn, StartClient, MayChange
<1> QED BY <1>1, <1>2, <1>3, <1>4 DEF IInv

LEMMA BeginUserAuthStep ==
  ASSUME IInv, NEW l \in Logins \ {Startup}, NEW a \in Accounts, BeginUserAuth(l, a)
  PROVE  IInv'
<1>1. TypeOK'
  BY DEF IInv, TypeOK, LoginLabels, Awaited, Nobody, BeginUserAuth, Request,
     MayChange, ClientClosed, AuthCleared
<1>2. AccountInv'
  BY DEF IInv, TypeOK, AccountInv, GateClosed, ClientVerified, Verified, Busy,
     Awaited, Nobody, BeginUserAuth, Request, MayChange, ClientClosed, AuthCleared
<1>3. WorkInv'
  BY DEF IInv, TypeOK, AccountInv, GateClosed, ClientVerified, Verified, Busy,
     WorkInv, JobBound, OpBound, BeginUserAuth, Request, MayChange, ClientClosed,
     AuthCleared
<1>4. RecordInv'
  BY DEF IInv, RecordInv, LegacyOwned, OwnMappings, EditsOwn, BeginUserAuth,
     Request, MayChange, ClientClosed, AuthCleared
<1> QED BY <1>1, <1>2, <1>3, <1>4 DEF IInv

LEMMA CompleteUserAuthStep ==
  ASSUME IInv, NEW l \in Logins \ {Startup}, CompleteUserAuth(l)
  PROVE  IInv'
<1>1. TypeOK'
  BY SavedAssumption DEF IInv, TypeOK, LoginLabels, Awaited, Nobody,
     CompleteUserAuth, Request, MayChange
<1>2. AccountInv'
  BY DEF IInv, TypeOK, AccountInv, GateClosed, ClientVerified, Verified, Busy,
     Awaited, Nobody, CompleteUserAuth, Request, MayChange
<1>3. WorkInv'
  BY DEF IInv, TypeOK, AccountInv, GateClosed, ClientVerified, Verified, Busy,
     WorkInv, JobBound, OpBound, CompleteUserAuth, Request, MayChange
<1>4. RecordInv'
  BY DEF IInv, RecordInv, LegacyOwned, OwnMappings, EditsOwn, CompleteUserAuth,
     Request, MayChange
<1> QED BY <1>1, <1>2, <1>3, <1>4 DEF IInv

LEMMA CancelUserAuthStep ==
  ASSUME IInv, NEW l \in Logins \ {Startup}, CancelUserAuth(l)
  PROVE  IInv'
<1>1. TypeOK'
  BY DEF IInv, TypeOK, LoginLabels, Awaited, Nobody, CancelUserAuth, Request,
     MayChange, AuthCleared
<1>2. AccountInv'
  BY DEF IInv, TypeOK, AccountInv, GateClosed, ClientVerified, Verified, Busy,
     Awaited, Nobody, CancelUserAuth, Request, MayChange, AuthCleared
<1>3. WorkInv'
  BY DEF IInv, TypeOK, AccountInv, GateClosed, ClientVerified, Verified, Busy,
     WorkInv, JobBound, OpBound, CancelUserAuth, Request, MayChange, AuthCleared
<1>4. RecordInv'
  BY DEF IInv, RecordInv, LegacyOwned, OwnMappings, EditsOwn, CancelUserAuth,
     Request, MayChange, AuthCleared
<1> QED BY <1>1, <1>2, <1>3, <1>4 DEF IInv

LEMMA SwitchUserAccountStep ==
  ASSUME IInv, NEW l \in Logins \ {Startup}, SwitchUserAccount(l)
  PROVE  IInv'
<1>1. TypeOK'
  BY DEF IInv, TypeOK, LoginLabels, Awaited, Nobody, SwitchUserAccount, Request,
     MayChange, ClientClosed, AuthCleared
<1>2. AccountInv'
  BY DEF IInv, TypeOK, AccountInv, GateClosed, ClientVerified, Verified, Busy,
     Awaited, Nobody, SwitchUserAccount, Request, MayChange, ClientClosed,
     AuthCleared
<1>3. WorkInv'
  BY DEF IInv, TypeOK, AccountInv, GateClosed, ClientVerified, Verified, Busy,
     WorkInv, JobBound, OpBound, SwitchUserAccount, Request, MayChange,
     ClientClosed, AuthCleared
<1>4. RecordInv'
  BY DEF IInv, RecordInv, LegacyOwned, OwnMappings, EditsOwn, SwitchUserAccount,
     Request, MayChange, ClientClosed, AuthCleared
<1> QED BY <1>1, <1>2, <1>3, <1>4 DEF IInv
-----------------------------------------------------------------------------
(* Steps of a request: it is the only one, and nobody is behind the gate.   *)

LEMMA ConnectAuthorizedStep ==
  ASSUME IInv, NEW l \in Logins, ConnectAuthorized(l)
  PROVE  IInv'
<1>1. TypeOK'
  BY DEF IInv, TypeOK, LoginLabels, Awaited, Nobody, ConnectAuthorized, InLogin
<1>2. AccountInv'
  BY DEF IInv, TypeOK, AccountInv, GateClosed, ClientVerified, Verified, Busy,
     Awaited, Nobody, ConnectAuthorized, InLogin
<1>3. WorkInv'
  BY DEF IInv, TypeOK, AccountInv, GateClosed, ClientVerified, Verified, Busy,
     WorkInv, JobBound, OpBound, ConnectAuthorized, InLogin
<1>4. RecordInv'
  BY DEF IInv, RecordInv, LegacyOwned, OwnMappings, EditsOwn, ConnectAuthorized,
     InLogin
<1> QED BY <1>1, <1>2, <1>3, <1>4 DEF IInv

LEMMA ConnectUnauthorizedStep ==
  ASSUME IInv, NEW l \in Logins, ConnectUnauthorized(l)
  PROVE  IInv'
<1>1. TypeOK'
  <2>1. TypeOK /\ Finish(l)
    BY DEF IInv, ConnectUnauthorized
  <2>2. auth' \in Awaited \union {Nobody}
    BY <2>1 DEF TypeOK, ConnectUnauthorized, Discarded, ClientClosed, AuthCleared, Awaited
  <2>3. {client', account'} \subseteq Accounts \union {None}
    BY <2>1 DEF TypeOK, ConnectUnauthorized, Discarded, ClientClosed
  <2> QED BY <2>1, <2>2, <2>3, FinishTypes DEF TypeOK, ConnectUnauthorized, InLogin
<1>2. AccountInv'
  BY DEF IInv, TypeOK, AccountInv, GateClosed, ClientVerified, Verified, Busy,
     Awaited, Nobody, ConnectUnauthorized, InLogin, Finish, Released, Discarded,
     ClientClosed, AuthCleared
<1>3. WorkInv'
  BY DEF IInv, TypeOK, AccountInv, GateClosed, ClientVerified, Verified, Busy,
     WorkInv, JobBound, OpBound, ConnectUnauthorized, InLogin, Finish, Released,
     Discarded, ClientClosed, AuthCleared
<1>4. RecordInv'
  BY DEF IInv, RecordInv, LegacyOwned, OwnMappings, EditsOwn, ConnectUnauthorized,
     InLogin, Finish, Released, Discarded, ClientClosed, AuthCleared
<1> QED BY <1>1, <1>2, <1>3, <1>4 DEF IInv

LEMMA SignRefusedStep ==
  ASSUME IInv, NEW l \in Logins, SignRefused(l)
  PROVE  IInv'
<1>1. TypeOK'
  <2>1. TypeOK /\ Finish(l)
    BY DEF IInv, SignRefused
  <2> QED BY <2>1, FinishTypes DEF TypeOK, SignRefused, InLogin
<1>2. AccountInv'
  BY DEF IInv, TypeOK, AccountInv, GateClosed, ClientVerified, Verified, Busy,
     Awaited, Nobody, SignRefused, InLogin, Finish, Released
<1>3. WorkInv'
  BY DEF IInv, TypeOK, AccountInv, GateClosed, ClientVerified, Verified, Busy,
     WorkInv, JobBound, OpBound, SignRefused, InLogin, Finish, Released
<1>4. RecordInv'
  BY DEF IInv, RecordInv, LegacyOwned, OwnMappings, EditsOwn, SignRefused, InLogin,
     Finish, Released
<1> QED BY <1>1, <1>2, <1>3, <1>4 DEF IInv

LEMMA PasswordNeededStep ==
  ASSUME IInv, NEW l \in Logins, PasswordNeeded(l)
  PROVE  IInv'
<1>1. TypeOK'
  <2>1. TypeOK /\ Finish(l)
    BY DEF IInv, PasswordNeeded
  <2>2. auth \in Awaited
    BY <2>1 DEF TypeOK, PasswordNeeded, Nobody
  <2>3. auth' \in Awaited
    BY <2>2 DEF PasswordNeeded, Awaited
  <2> QED BY <2>1, <2>3, FinishTypes DEF TypeOK, PasswordNeeded, InLogin
<1>2. AccountInv'
  BY DEF IInv, TypeOK, AccountInv, GateClosed, ClientVerified, Verified, Busy,
     Awaited, Nobody, PasswordNeeded, InLogin, Finish, Released
<1>3. WorkInv'
  BY DEF IInv, TypeOK, AccountInv, GateClosed, ClientVerified, Verified, Busy,
     WorkInv, JobBound, OpBound, PasswordNeeded, InLogin, Finish, Released
<1>4. RecordInv'
  BY DEF IInv, RecordInv, LegacyOwned, OwnMappings, EditsOwn, PasswordNeeded,
     InLogin, Finish, Released
<1> QED BY <1>1, <1>2, <1>3, <1>4 DEF IInv

LEMMA SignedInStep ==
  ASSUME IInv, NEW l \in Logins, SignedIn(l)
  PROVE  IInv'
<1>1. TypeOK'
  BY DEF IInv, TypeOK, LoginLabels, Awaited, Nobody, SignedIn, InLogin, GoOn
<1>2. AccountInv'
  BY DEF IInv, TypeOK, AccountInv, GateClosed, ClientVerified, Verified, Busy,
     Awaited, Nobody, SignedIn, InLogin, GoOn
<1>3. WorkInv'
  BY DEF IInv, TypeOK, AccountInv, GateClosed, ClientVerified, Verified, Busy,
     WorkInv, JobBound, OpBound, SignedIn, InLogin, GoOn
<1>4. RecordInv'
  BY DEF IInv, RecordInv, LegacyOwned, OwnMappings, EditsOwn, SignedIn, InLogin,
     GoOn, TypeOK, AccountInv, GateClosed, Busy
<1> QED BY <1>1, <1>2, <1>3, <1>4 DEF IInv

LEMMA MigrateStep ==
  ASSUME IInv, NEW l \in Logins, Migrate(l)
  PROVE  IInv'
<1>1. TypeOK'
  BY DEF IInv, TypeOK, LoginLabels, Awaited, Nobody, Migrate, InLogin, GoOn, Claimed
<1>2. AccountInv'
  BY DEF IInv, TypeOK, AccountInv, GateClosed, ClientVerified, Verified, Busy,
     Awaited, Nobody, Migrate, InLogin, GoOn, Claimed
<1>3. WorkInv'
  BY DEF IInv, TypeOK, AccountInv, GateClosed, ClientVerified, Verified, Busy,
     WorkInv, JobBound, OpBound, Migrate, InLogin, GoOn, Claimed
<1>4. RecordInv'
  BY DEF IInv, RecordInv, LegacyOwned, OwnMappings, EditsOwn, Migrate, InLogin,
     GoOn, Claimed
<1> QED BY <1>1, <1>2, <1>3, <1>4 DEF IInv

LEMMA BindStep ==
  ASSUME IInv, NEW l \in Logins, Bind(l)
  PROVE  IInv'
<1>1. TypeOK'
  BY DEF IInv, TypeOK, LoginLabels, Awaited, Nobody, Bind, InLogin, GoOn
<1>2. AccountInv'
  BY DEF IInv, TypeOK, AccountInv, GateClosed, ClientVerified, Verified, Busy,
     Awaited, Nobody, Bind, InLogin, GoOn
<1>3. WorkInv'
  BY DEF IInv, TypeOK, AccountInv, GateClosed, ClientVerified, Verified, Busy,
     WorkInv, JobBound, OpBound, Bind, InLogin, GoOn
<1>4. RecordInv'
  BY DEF IInv, RecordInv, LegacyOwned, OwnMappings, EditsOwn, Bind, InLogin, GoOn
<1> QED BY <1>1, <1>2, <1>3, <1>4 DEF IInv

LEMMA PublishStep ==
  ASSUME IInv, NEW l \in Logins, Publish(l)
  PROVE  IInv'
<1>1. TypeOK'
  <2>1. TypeOK /\ Finish(l)
    BY DEF IInv, Publish
  <2> QED BY <2>1, FinishTypes DEF TypeOK, Publish, InLogin, AuthCleared
<1>2. AccountInv'
  BY DEF IInv, TypeOK, AccountInv, GateClosed, ClientVerified, Verified, Busy,
     Awaited, Nobody, Publish, InLogin, Finish, Released, AuthCleared
<1>3. WorkInv'
  BY DEF IInv, TypeOK, AccountInv, GateClosed, ClientVerified, Verified, Busy,
     WorkInv, JobBound, OpBound, Publish, InLogin, Finish, Released, AuthCleared
<1>4. RecordInv'
  BY DEF IInv, RecordInv, LegacyOwned, OwnMappings, EditsOwn, Publish, InLogin,
     Finish, Released, AuthCleared
<1> QED BY <1>1, <1>2, <1>3, <1>4 DEF IInv

LEMMA LoginFailsStep ==
  ASSUME IInv, NEW l \in Logins, LoginFails(l)
  PROVE  IInv'
<1>1. TypeOK'
  <2>1. TypeOK /\ Finish(l)
    BY DEF IInv, LoginFails
  <2> QED BY <2>1, FinishTypes DEF TypeOK, LoginFails, InLogin, Discarded, ClientClosed, AuthCleared
<1>2. AccountInv'
  BY DEF IInv, TypeOK, AccountInv, GateClosed, ClientVerified, Verified, Busy,
     Awaited, Nobody, LoginFails, InLogin, Finish, Released, Discarded,
     ClientClosed, AuthCleared
<1>3. WorkInv'
  BY DEF IInv, TypeOK, AccountInv, GateClosed, ClientVerified, Verified, Busy,
     WorkInv, JobBound, OpBound, LoginFails, InLogin, Finish, Released, Discarded,
     ClientClosed, AuthCleared
<1>4. RecordInv'
  BY DEF IInv, RecordInv, LegacyOwned, OwnMappings, EditsOwn, LoginFails, InLogin,
     Finish, Released, Discarded, ClientClosed, AuthCleared
<1> QED BY <1>1, <1>2, <1>3, <1>4 DEF IInv

LEMMA DisposedStep ==
  ASSUME IInv, NEW l \in Logins, Disposed(l)
  PROVE  IInv'
<1>1. TypeOK'
  <2>1. TypeOK /\ Finish(l)
    BY DEF IInv, Disposed
  <2> QED BY <2>1, FinishTypes DEF TypeOK, Disposed, InLogin
<1>2. AccountInv'
  BY DEF IInv, TypeOK, AccountInv, GateClosed, ClientVerified, Verified, Busy,
     Awaited, Nobody, Disposed, InLogin, Finish, Released
<1>3. WorkInv'
  BY DEF IInv, TypeOK, AccountInv, GateClosed, ClientVerified, Verified, Busy,
     WorkInv, JobBound, OpBound, Disposed, InLogin, Finish, Released
<1>4. RecordInv'
  BY DEF IInv, RecordInv, LegacyOwned, OwnMappings, EditsOwn, Disposed, InLogin,
     Finish, Released
<1> QED BY <1>1, <1>2, <1>3, <1>4 DEF IInv
-----------------------------------------------------------------------------
(* Posts and edits: as long as they are behind the gate, no account changes. *)

LEMMA BeginPostStep ==
  ASSUME IInv, NEW o \in Ops, NEW m \in Msgs, BeginPost(o, m)
  PROVE  IInv'
<1>1. TypeOK'
  BY DEF IInv, TypeOK, OpLabels, BeginPost, MayEnter, Enter, InOp, At
<1>2. AccountInv'
  BY DEF IInv, TypeOK, AccountInv, GateClosed, ClientVerified, Verified, Busy,
     BeginPost, MayEnter, Enter, InOp, At
<1>3. WorkInv'
  BY DEF IInv, TypeOK, AccountInv, GateClosed, ClientVerified, Verified, Busy,
     WorkInv, JobBound, OpBound, BeginPost, MayEnter, Enter, InOp, At
<1>4. RecordInv'
  BY DEF IInv, RecordInv, LegacyOwned, OwnMappings, EditsOwn, BeginPost, MayEnter,
     Enter, InOp, At
<1> QED BY <1>1, <1>2, <1>3, <1>4 DEF IInv

LEMMA FindCopiesStep ==
  ASSUME IInv, NEW o \in Ops, NEW m \in Msgs, FindCopies(o, m)
  PROVE  IInv'
<1>1. TypeOK'
  BY DEF IInv, TypeOK, OpLabels, FindCopies, InOp, At
<1>2. AccountInv'
  BY DEF IInv, TypeOK, AccountInv, GateClosed, ClientVerified, Verified, Busy,
     FindCopies, InOp, At
<1>3. WorkInv'
  BY DEF IInv, TypeOK, AccountInv, GateClosed, ClientVerified, Verified, Busy,
     WorkInv, JobBound, OpBound, FindCopies, InOp, At
<1>4. RecordInv'
  BY DEF IInv, RecordInv, LegacyOwned, OwnMappings, EditsOwn, FindCopies, InOp, At
<1> QED BY <1>1, <1>2, <1>3, <1>4 DEF IInv

LEMMA ResolveStep ==
  ASSUME IInv, NEW o \in Ops, Resolve(o)
  PROVE  IInv'
<1>1. TypeOK'
  BY DEF IInv, TypeOK, OpLabels, Resolve, InOp, At
<1>2. AccountInv'
  BY DEF IInv, TypeOK, AccountInv, GateClosed, ClientVerified, Verified, Busy,
     Resolve, InOp, At
<1>3. WorkInv'
  BY DEF IInv, TypeOK, AccountInv, GateClosed, ClientVerified, Verified, Busy,
     WorkInv, JobBound, OpBound, Resolve, InOp, At
<1>4. RecordInv'
  BY DEF IInv, RecordInv, LegacyOwned, OwnMappings, EditsOwn, Resolve, InOp, At
<1> QED BY <1>1, <1>2, <1>3, <1>4 DEF IInv

LEMMA SendStep ==
  ASSUME IInv, NEW o \in Ops, Send(o)
  PROVE  IInv'
<1>1. TypeOK'
  <2>1. TypeOK /\ op[o] = "send" /\ Sent(chat[o], msg[o]) \in Ids
    BY SentTypes DEF IInv, TypeOK, WorkInv, OpBound, Send
  <2> QED BY <2>1 DEF TypeOK, OpLabels, Send, InOp, At
<1>2. AccountInv'
  BY DEF IInv, TypeOK, AccountInv, GateClosed, ClientVerified, Verified, Busy, Send,
     InOp, At, Sent
<1>3. WorkInv'
  BY DEF IInv, TypeOK, AccountInv, GateClosed, ClientVerified, Verified, Busy,
     WorkInv, JobBound, OpBound, Send, InOp, At, Sent
<1>4. RecordInv'
  BY DEF IInv, RecordInv, LegacyOwned, OwnMappings, EditsOwn, Send, InOp, At, Sent
<1> QED BY <1>1, <1>2, <1>3, <1>4 DEF IInv

LEMMA SaveStep ==
  ASSUME IInv, NEW o \in Ops, Save(o)
  PROVE  IInv'
<1>1. TypeOK'
  <2>1. /\ TypeOK /\ account \in Accounts /\ msg[o] \in Msgs
        /\ id[o] \in Ids \union {NoId}
    BY DEF IInv, TypeOK, WorkInv, OpBound, Save
  <2>2. mapping' \in [Accounts -> [Msgs -> Ids \union {NoId}]]
    BY <2>1, SavedTypes DEF Save
  <2> QED BY <2>1, <2>2 DEF TypeOK, OpLabels, Save, InOp, At
<1>2. AccountInv'
  BY DEF IInv, TypeOK, AccountInv, GateClosed, ClientVerified, Verified, Busy, Save,
     InOp, At
<1>3. WorkInv'
  BY DEF IInv, TypeOK, AccountInv, GateClosed, ClientVerified, Verified, Busy,
     WorkInv, JobBound, OpBound, Save, InOp, At
<1>4. RecordInv'
  BY DEF IInv, RecordInv, LegacyOwned, OwnMappings, EditsOwn, Save, InOp, At,
     TypeOK, WorkInv, OpBound
<1> QED BY <1>1, <1>2, <1>3, <1>4 DEF IInv

LEMMA EnterEditStep ==
  ASSUME IInv, NEW o \in Ops, EnterEdit(o)
  PROVE  IInv'
<1>1. TypeOK'
  BY DEF IInv, TypeOK, OpLabels, EnterEdit, MayEnter, Enter, InOp, At
<1>2. AccountInv'
  BY DEF IInv, TypeOK, AccountInv, GateClosed, ClientVerified, Verified, Busy,
     EnterEdit, MayEnter, Enter, InOp, At
<1>3. WorkInv'
  BY DEF IInv, TypeOK, AccountInv, GateClosed, ClientVerified, Verified, Busy,
     WorkInv, JobBound, OpBound, EnterEdit, MayEnter, Enter, InOp, At
<1>4. RecordInv'
  BY DEF IInv, RecordInv, LegacyOwned, OwnMappings, EditsOwn, EnterEdit, MayEnter,
     Enter, InOp, At
<1> QED BY <1>1, <1>2, <1>3, <1>4 DEF IInv

LEMMA RereadStep ==
  ASSUME IInv, NEW o \in Ops, Reread(o)
  PROVE  IInv'
<1>1. TypeOK'
  <2>1. TypeOK /\ Located(o) \in Ids \union {NoId}
    BY DEF IInv, TypeOK, WorkInv, OpBound, Reread, Located
  <2> QED BY <2>1 DEF TypeOK, OpLabels, Reread, InOp, At
<1>2. AccountInv'
  BY DEF IInv, TypeOK, AccountInv, GateClosed, ClientVerified, Verified, Busy,
     Reread, Located, InOp, At
<1>3. WorkInv'
  <2>1. JobBound'
    BY DEF IInv, WorkInv, JobBound, Reread, InOp
  <2>2. o \in active /\ ~switching
    BY DEF IInv, AccountInv, GateClosed, Reread
  <2>3. account \in Accounts /\ Located(o) = <<account, msg[o]>>
    BY DEF IInv, TypeOK, WorkInv, OpBound, RecordInv, OwnMappings, Reread, Located
  <2>4. client \in {account, None}
    BY DEF IInv, AccountInv, ClientVerified
  <2>5. id'[o] = <<account, msg[o]>> /\ op'[o] = "reread"
    BY <2>3 DEF IInv, TypeOK, Reread, At
  <2>6. OpBound'
    BY <2>3, <2>4, <2>5 DEF IInv, TypeOK, WorkInv, OpBound, Reread, InOp, At
  <2> QED BY <2>1, <2>6 DEF WorkInv
<1>4. RecordInv'
  BY DEF IInv, RecordInv, LegacyOwned, OwnMappings, EditsOwn, Reread, Located, InOp,
     At
<1> QED BY <1>1, <1>2, <1>3, <1>4 DEF IInv

LEMMA EditStep ==
  ASSUME IInv, NEW o \in Ops, Edit(o)
  PROVE  IInv'
<1>1. TypeOK'
  BY DEF IInv, TypeOK, OpLabels, Edit, InOp, At
<1>2. AccountInv'
  BY DEF IInv, TypeOK, AccountInv, GateClosed, ClientVerified, Verified, Busy, Edit,
     InOp, At
<1>3. WorkInv'
  BY DEF IInv, TypeOK, AccountInv, GateClosed, ClientVerified, Verified, Busy,
     WorkInv, JobBound, OpBound, Edit, InOp, At
<1>4. RecordInv'
  BY DEF IInv, RecordInv, LegacyOwned, OwnMappings, EditsOwn, Edit, InOp, At,
     TypeOK, WorkInv, OpBound
<1> QED BY <1>1, <1>2, <1>3, <1>4 DEF IInv

LEMMA LeaveStep ==
  ASSUME IInv, NEW o \in Ops, Leave(o)
  PROVE  IInv'
<1>1. TypeOK'
  BY DEF IInv, TypeOK, OpLabels, Leave, InOp, At
<1>2. AccountInv'
  BY DEF IInv, TypeOK, AccountInv, GateClosed, ClientVerified, Verified, Busy,
     Leave, InOp, At
<1>3. WorkInv'
  BY DEF IInv, TypeOK, AccountInv, GateClosed, ClientVerified, Verified, Busy,
     WorkInv, JobBound, OpBound, Leave, InOp, At
<1>4. RecordInv'
  BY DEF IInv, RecordInv, LegacyOwned, OwnMappings, EditsOwn, Leave, InOp, At
<1> QED BY <1>1, <1>2, <1>3, <1>4 DEF IInv
-----------------------------------------------------------------------------
(* The history job.                                                         *)

LEMMA BeginJobStep ==
  ASSUME IInv, BeginJob
  PROVE  IInv'
<1>1. TypeOK'
  BY DEF IInv, TypeOK, JobLabels, BeginJob, InJob
<1>2. AccountInv'
  BY DEF IInv, AccountInv, GateClosed, ClientVerified, Verified, Busy, BeginJob,
     InJob
<1>3. WorkInv'
  BY DEF IInv, TypeOK, AccountInv, GateClosed, ClientVerified, Verified, Busy,
     WorkInv, JobBound, OpBound, BeginJob, InJob
<1>4. RecordInv'
  BY DEF IInv, RecordInv, LegacyOwned, OwnMappings, EditsOwn, BeginJob, InJob
<1> QED BY <1>1, <1>2, <1>3, <1>4 DEF IInv

LEMMA ResolveJobStep ==
  ASSUME IInv, ResolveJob
  PROVE  IInv'
<1>1. TypeOK'
  BY DEF IInv, TypeOK, JobLabels, ResolveJob, InJob
<1>2. AccountInv'
  BY DEF IInv, AccountInv, GateClosed, ClientVerified, Verified, Busy, ResolveJob,
     InJob
<1>3. WorkInv'
  BY DEF IInv, TypeOK, AccountInv, GateClosed, ClientVerified, Verified, Busy,
     WorkInv, JobBound, OpBound, ResolveJob, InJob
<1>4. RecordInv'
  BY DEF IInv, RecordInv, LegacyOwned, OwnMappings, EditsOwn, ResolveJob, InJob
<1> QED BY <1>1, <1>2, <1>3, <1>4 DEF IInv

LEMMA GuardJobStep ==
  ASSUME IInv, NEW m \in Msgs, GuardJob(m)
  PROVE  IInv'
<1>1. TypeOK'
  BY DEF IInv, TypeOK, JobLabels, GuardJob, InJob
<1>2. AccountInv'
  BY DEF IInv, AccountInv, GateClosed, ClientVerified, Verified, Busy, GuardJob,
     InJob
<1>3. WorkInv'
  BY DEF IInv, TypeOK, AccountInv, GateClosed, ClientVerified, Verified, Busy,
     WorkInv, JobBound, OpBound, GuardJob, InJob
<1>4. RecordInv'
  BY DEF IInv, RecordInv, LegacyOwned, OwnMappings, EditsOwn, GuardJob, InJob
<1> QED BY <1>1, <1>2, <1>3, <1>4 DEF IInv

LEMMA SendJobStep ==
  ASSUME IInv, SendJob
  PROVE  IInv'
<1>1. TypeOK'
  <2>1. TypeOK /\ Sent(jobChat, jobMsg) \in Ids
    BY SentTypes DEF IInv, TypeOK, WorkInv, JobBound, SendJob
  <2> QED BY <2>1 DEF TypeOK, JobLabels, SendJob, InJob
<1>2. AccountInv'
  BY DEF IInv, AccountInv, GateClosed, ClientVerified, Verified, Busy, SendJob,
     InJob, Sent
<1>3. WorkInv'
  BY DEF IInv, TypeOK, AccountInv, GateClosed, ClientVerified, Verified, Busy,
     WorkInv, JobBound, OpBound, SendJob, InJob, Sent
<1>4. RecordInv'
  BY DEF IInv, RecordInv, LegacyOwned, OwnMappings, EditsOwn, SendJob, InJob, Sent
<1> QED BY <1>1, <1>2, <1>3, <1>4 DEF IInv

LEMMA SaveJobStep ==
  ASSUME IInv, SaveJob
  PROVE  IInv'
<1>1. TypeOK'
  <2>1. /\ TypeOK /\ jobOwner \in Accounts /\ jobMsg \in Msgs
        /\ jobId \in Ids \union {NoId}
    BY DEF IInv, TypeOK, WorkInv, JobBound, SaveJob
  <2>2. mapping' \in [Accounts -> [Msgs -> Ids \union {NoId}]]
    BY <2>1, SavedTypes DEF SaveJob
  <2> QED BY <2>1, <2>2 DEF TypeOK, JobLabels, SaveJob, InJob
<1>2. AccountInv'
  BY DEF IInv, AccountInv, GateClosed, ClientVerified, Verified, Busy, SaveJob,
     InJob
<1>3. WorkInv'
  BY DEF IInv, TypeOK, AccountInv, GateClosed, ClientVerified, Verified, Busy,
     WorkInv, JobBound, OpBound, SaveJob, InJob
<1>4. RecordInv'
  BY DEF IInv, RecordInv, LegacyOwned, OwnMappings, EditsOwn, SaveJob, InJob,
     TypeOK, JobLabels, WorkInv, JobBound
<1> QED BY <1>1, <1>2, <1>3, <1>4 DEF IInv

LEMMA EndJobStep ==
  ASSUME IInv, EndJob
  PROVE  IInv'
<1>1. TypeOK'
  BY DEF IInv, TypeOK, JobLabels, EndJob, InJob
<1>2. AccountInv'
  BY DEF IInv, AccountInv, GateClosed, ClientVerified, Verified, Busy, EndJob, InJob
<1>3. WorkInv'
  BY DEF IInv, TypeOK, AccountInv, GateClosed, ClientVerified, Verified, Busy,
     WorkInv, JobBound, OpBound, EndJob, InJob
<1>4. RecordInv'
  BY DEF IInv, RecordInv, LegacyOwned, OwnMappings, EditsOwn, EndJob, InJob
<1> QED BY <1>1, <1>2, <1>3, <1>4 DEF IInv
-----------------------------------------------------------------------------
(* The process.                                                             *)

LEMMA StartStep ==
  ASSUME IInv, Start
  PROVE  IInv'
<1>1. TypeOK'
  BY DEF IInv, TypeOK, LoginLabels, OpLabels, JobLabels, Awaited, Nobody, Start,
     Frozen
<1>2. AccountInv'
  BY DEF IInv, TypeOK, AccountInv, GateClosed, ClientVerified, Verified, Busy,
     Start, Frozen
<1>3. WorkInv'
  BY DEF IInv, TypeOK, AccountInv, GateClosed, ClientVerified, Verified, Busy,
     WorkInv, JobBound, OpBound, Start, Frozen
<1>4. RecordInv'
  BY SavedAssumption DEF IInv, RecordInv, LegacyOwned, OwnMappings, EditsOwn, Start,
     Frozen, TypeOK
<1> QED BY <1>1, <1>2, <1>3, <1>4 DEF IInv

LEMMA ShutdownStep ==
  ASSUME IInv, Shutdown
  PROVE  IInv'
<1>1. TypeOK'
  BY DEF IInv, TypeOK, LoginLabels, OpLabels, JobLabels, Awaited, Nobody, Shutdown,
     ClientClosed, AuthCleared
<1>2. AccountInv'
  BY DEF IInv, TypeOK, AccountInv, GateClosed, ClientVerified, Verified, Busy,
     Shutdown, ClientClosed, AuthCleared
<1>3. WorkInv'
  BY DEF IInv, TypeOK, AccountInv, GateClosed, ClientVerified, Verified, Busy,
     WorkInv, JobBound, OpBound, Shutdown, ClientClosed, AuthCleared
<1>4. RecordInv'
  BY DEF IInv, RecordInv, LegacyOwned, OwnMappings, EditsOwn, Shutdown,
     ClientClosed, AuthCleared
<1> QED BY <1>1, <1>2, <1>3, <1>4 DEF IInv

LEMMA StopStep ==
  ASSUME IInv, Stop
  PROVE  IInv'
<1>1. TypeOK'
  <2>1. /\ login' \in [Logins -> LoginLabels] /\ who' \in [Logins -> Accounts \union {None}]
        /\ op' \in [Ops -> OpLabels] /\ job' \in JobLabels
    BY DEF Stop, Forgotten, LoginLabels, OpLabels, JobLabels
  <2>2. /\ up' \in {"down", "up", "closing"} /\ auth' \in Awaited \union {Nobody}
        /\ {client', account'} \subseteq Accounts \union {None}
        /\ switching' \in BOOLEAN /\ active' \subseteq Ops /\ syncing' \in BOOLEAN
    BY DEF Stop, Forgotten
  <2> QED BY <2>1, <2>2 DEF IInv, TypeOK, Stop
<1>2. AccountInv'
  BY DEF IInv, TypeOK, AccountInv, GateClosed, ClientVerified, Verified, Busy, Stop,
     Forgotten
<1>3. WorkInv'
  BY DEF IInv, TypeOK, AccountInv, GateClosed, ClientVerified, Verified, Busy,
     WorkInv, JobBound, OpBound, Stop, Forgotten
<1>4. RecordInv'
  BY DEF IInv, RecordInv, LegacyOwned, OwnMappings, EditsOwn, Stop, Forgotten
<1> QED BY <1>1, <1>2, <1>3, <1>4 DEF IInv
-----------------------------------------------------------------------------
(* The theorems.                                                            *)

LEMMA InitInv ==
  ASSUME Init
  PROVE  IInv
<1>1. TypeOK
  <2>1. legacy \in [Msgs -> Ids \union {NoId}]
    BY DEF Init, Ids
  <2>2. mapping \in [Accounts -> [Msgs -> Ids \union {NoId}]]
    BY DEF Init
  <2>3. login \in [Logins -> LoginLabels] /\ op \in [Ops -> OpLabels] /\ job \in JobLabels
    BY DEF Init, LoginLabels, OpLabels, JobLabels
  <2> QED BY <2>1, <2>2, <2>3 DEF Init, TypeOK
<1>2. AccountInv
  BY DEF Init, AccountInv, GateClosed, ClientVerified, Verified, Busy
<1>3. WorkInv
  BY DEF Init, WorkInv, JobBound, OpBound
<1>4. RecordInv
  BY SavedAssumption DEF Init, RecordInv, LegacyOwned, OwnMappings, EditsOwn
<1> QED BY <1>1, <1>2, <1>3, <1>4 DEF IInv

LEMMA StutterInv ==
  ASSUME IInv, UNCHANGED vars
  PROVE  IInv'
<1>1. TypeOK'
  BY DEF IInv, TypeOK, vars
<1>2. AccountInv'
  BY DEF IInv, AccountInv, GateClosed, ClientVerified, Verified, Busy, vars
<1>3. WorkInv'
  BY DEF IInv, WorkInv, JobBound, OpBound, vars
<1>4. RecordInv'
  BY DEF IInv, RecordInv, LegacyOwned, OwnMappings, EditsOwn, vars
<1> QED BY <1>1, <1>2, <1>3, <1>4 DEF IInv

LEMMA NextInv ==
  ASSUME IInv, [Next]_vars
  PROVE  IInv'
<1>1. ASSUME NEW l \in Logins \ {Startup}, RequestLogin(l) PROVE IInv'
  BY <1>1, BeginUserAuthStep, CompleteUserAuthStep, CancelUserAuthStep, SwitchUserAccountStep
     DEF RequestLogin
<1>2. ASSUME NEW l \in Logins, Login(l) PROVE IInv'
  BY <1>2, ConnectAuthorizedStep, ConnectUnauthorizedStep, SignRefusedStep, PasswordNeededStep,
     SignedInStep, MigrateStep, BindStep, PublishStep, LoginFailsStep, DisposedStep DEF Login
<1>3. ASSUME NEW o \in Ops, Operation(o) PROVE IInv'
  BY <1>3, BeginPostStep, FindCopiesStep, ResolveStep, SendStep, SaveStep, EnterEditStep,
     RereadStep, EditStep, LeaveStep DEF Operation
<1>4. ASSUME Job PROVE IInv'
  BY <1>4, BeginJobStep, ResolveJobStep, GuardJobStep, SendJobStep, SaveJobStep, EndJobStep DEF Job
<1> QED
  BY <1>1, <1>2, <1>3, <1>4, StartClientStep, StartStep, ShutdownStep, StopStep, StutterInv DEF Next

LEMMA InvCorrect == Spec => []IInv
BY InitInv, NextInv, PTL DEF Spec

\* The variables have their types, and the account that is bound is that of the
\* published client, in every reachable state, for any number of accounts,
\* requests, operations and messages.
THEOREM LoginCorrect == Spec => []LoginConsistent
<1>1. IInv => LoginConsistent
  BY DEF IInv, AccountInv, LoginConsistent
<1> QED BY <1>1, InvCorrect, PTL

\* No record of another account or of unknown owner reaches an account, and no
\* account edits in another one's chat.
THEOREM RecordsCorrect == Spec => []OwnRecords
<1>1. IInv => OwnRecords
  BY DEF IInv, RecordInv, OwnRecords
<1> QED BY <1>1, InvCorrect, PTL

\* A history job, which is not behind the gate, works with one account to its end.
THEOREM JobCorrect == Spec => []JobKeepsAccount
<1>1. IInv => JobKeepsAccount
  BY DEF IInv, WorkInv, JobBound, JobKeepsAccount
<1> QED BY <1>1, InvCorrect, PTL

\* No step of a request to change the account is taken while an operation is
\* behind the gate.
Held == active \intersect active' # {} /\ up' = "up" => UNCHANGED <<client, account>>

LEMMA HeldStep ==
  ASSUME IInv, Next
  PROVE  Held
<1> SUFFICES ASSUME active \intersect active' # {}, up' = "up"
             PROVE  UNCHANGED <<client, account>>
  BY DEF Held
<1>1. ASSUME NEW l \in Logins, Login(l) PROVE FALSE
  <2>1. Busy(l)
    BY <1>1 DEF Login, Busy, ConnectAuthorized, ConnectUnauthorized, SignRefused, PasswordNeeded,
                SignedIn, Migrate, Bind, Publish, LoginFails, Disposed
  <2> QED BY <2>1 DEF IInv, AccountInv, GateClosed
<1>2. ASSUME NEW l \in Logins, RequestLogin(l) PROVE FALSE
  BY <1>2 DEF RequestLogin, BeginUserAuth, CompleteUserAuth, CancelUserAuth, SwitchUserAccount,
              Request, MayChange
<1>3. ASSUME NEW o \in Ops, Operation(o) PROVE UNCHANGED memory
  BY <1>3 DEF Operation, BeginPost, FindCopies, Resolve, Send, Save, EnterEdit, Reread, Edit,
              Leave, InOp
<1>4. ASSUME Job PROVE UNCHANGED memory
  BY <1>4 DEF Job, BeginJob, ResolveJob, GuardJob, SendJob, SaveJob, EndJob, InJob
<1>5. CASE StartClient \/ Start
  BY <1>5 DEF StartClient, Start
<1>6. CASE Shutdown \/ Stop
  BY <1>6 DEF Shutdown, Stop
<1> QED BY <1>1, <1>2, <1>3, <1>4, <1>5, <1>6 DEF Next

\* An operation has one client and one account from its beginning to its end,
\* the shutdown of the process aside.
THEOREM HeldCorrect == Spec => AccountHeld
<1>1. IInv /\ [Next]_vars => [Held]_vars
  BY HeldStep
<1> QED BY <1>1, InvCorrect, PTL DEF Spec, AccountHeld, Held
=============================================================================
