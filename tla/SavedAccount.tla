---------------------------- MODULE SavedAccount ----------------------------
(***************************************************************************)
(* The auxiliary account and the records kept for its Saved Messages: the   *)
(* login of bot_engine.py (at start, by code, by password, cancelled,       *)
(* switched), the gate between account changes and the work on Saved        *)
(* Messages (services/sync_services.py), the records of database.py that    *)
(* belong to one account, and the old records that belonged to none.        *)
(*                                                                          *)
(* Posts and edits work under the gate, a history job only has is_syncing.  *)
(* What a post or a job does besides is in RealtimePost and Delivery, the   *)
(* poller is in PublicPoller.                                               *)
(***************************************************************************)
EXTENDS Integers, FiniteSets

CONSTANTS
  Accounts,  \* accounts a phone number may be registered to
  None,      \* no account, or no message
  Msgs,      \* messages of a source
  Ops,       \* posts and edits at work at the same time
  Logins,    \* requests to change the account at the same time
  Startup,   \* the one of them made by startup_task
  MaxLogins, \* bound: requests to change the account
  MaxOps,    \* bound: posts and edits
  MaxJobs,   \* bound: history jobs
  MaxStarts  \* bound: starts of the process

ASSUME SavedAssumption ==
  /\ None \notin Accounts /\ None \notin Msgs /\ "unset" \notin Accounts \union {None}
  /\ Startup \in Logins
  /\ {MaxLogins, MaxOps, MaxJobs, MaxStarts} \subseteq Nat

\* A message id is an id in the numbering of one chat.
Ids      == (Accounts \union {None}) \X Msgs
NoId     == <<None, None>>
Awaited  == [awaiting : {"code", "password"}, account : Accounts]
Nobody   == [awaiting |-> "none", account |-> None]

VARIABLES
  up,        \* "down", "up", or "closing" after close_user_client at shutdown
  session,   \* account the session file on disk is authorized for
  client,    \* account of pyro_user_app
  account,   \* _saved_message_account_id
  auth,      \* user_auth_state: what the pending client waits for
  switching, \* _saved_messages_account_switching
  active,    \* the operations _saved_messages_active_operations counts
  syncing,   \* sync_state["is_syncing"]
  login, who,        \* where a request is, and the account it is about
  op, msg, chat, id, \* where an operation is, its message, chat and copy
  job, jobMsg, jobChat, jobOwner, jobId, \* the same for the history job, and the
                     \* owner its DeliveryGuard took
  mapping,   \* saved_message_mappings: the id an account has for a message
  legacy,    \* the rows of message_mappings for Saved Messages
  frozen,    \* setting saved_messages_legacy_owner_id
  migrated,  \* setting saved_messages_legacy_migrated
  edits,     \* history: <<account that edits, chat, id>>
  used       \* how much of each bound is used

memory   == <<client, account, auth>>
gate     == <<switching, active>>
logins   == <<login, who>>
ops      == <<op, msg, chat, id>>
jobs     == <<job, jobMsg, jobChat, jobOwner, jobId, syncing>>
records  == <<mapping, legacy, frozen, migrated>>
vars     == <<up, session, memory, gate, logins, ops, jobs, records, edits, used>>

Count(b, max) == used[b] < max /\ used' = [used EXCEPT ![b] = @ + 1]

\* A message a client sends to a chat; the Saved Messages of an account can only
\* be reached with its own client.
Sent(c, m) == IF client = c THEN <<c, m>> ELSE <<None, m>>
-----------------------------------------------------------------------------
(* Changing the account.                                                    *)

\* _clear_user_auth_state
AuthCleared == Nobody

\* close_user_client up to the disposal, and _discard_user_client.
ClientClosed == client' = None /\ account' = None /\ auth' = AuthCleared

\* Mutant: the account stays bound.
DiscardedUnbound == client' = None /\ auth' = AuthCleared /\ UNCHANGED account

Discarded == ClientClosed

\* Mutant: a request that fails keeps the gate.
ReleasedUnlessFailed(l) == switching' = (login[l] # "initialize")

\* finish_saved_messages_account_switch, in a finally clause.
Released(l) == switching' = FALSE

Finish(l) ==
  /\ login' = [login EXCEPT ![l] = "idle"] /\ who' = [who EXCEPT ![l] = None]
  /\ Released(l)
  /\ UNCHANGED active

GoOn(l, label) == login' = [login EXCEPT ![l] = label] /\ UNCHANGED <<who, gate>>

\* Mutant: a running history job is not looked at.
MayChangeAnytime(cancel) == ~switching /\ active = {}

\* _begin_user_account_change and begin_saved_messages_account_switch. Nothing is
\* awaited between the two, and a refused request changes nothing.
MayChange(cancel) == (cancel \/ ~syncing) /\ ~switching /\ active = {}

Request(l, cancel, label, a) ==
  /\ up = "up" /\ login[l] = "idle" /\ MayChange(cancel)
  /\ Count("logins", MaxLogins)
  /\ switching' = TRUE
  /\ login' = [login EXCEPT ![l] = label] /\ who' = [who EXCEPT ![l] = a]
  /\ UNCHANGED <<up, session, active, ops, jobs, records, edits>>

\* start_user_client_if_authorized, once when the process starts. It does not
\* close a client that was published before it came to its turn.
StartClient ==
  /\ ~used["started"]
  /\ up = "up" /\ login[Startup] = "idle" /\ MayChange(FALSE)
  /\ used' = [used EXCEPT !["started"] = TRUE]
  /\ switching' = TRUE
  /\ login' = [login EXCEPT ![Startup] = "connect"]
  /\ UNCHANGED <<up, session, memory, active, who, ops, jobs, records, edits>>

\* begin_user_auth with a phone number
BeginUserAuth(l, a) == Request(l, FALSE, "connect", a) /\ ClientClosed

\* complete_user_auth and complete_user_password
CompleteUserAuth(l) ==
  /\ auth.awaiting # "none"
  /\ Request(l, FALSE, "sign", auth.account)
  /\ UNCHANGED memory

CancelUserAuth(l) ==
  /\ Request(l, TRUE, "dispose", None)
  /\ auth' = AuthCleared /\ UNCHANGED <<client, account>>

SwitchUserAccount(l) == Request(l, FALSE, "unlink", None) /\ ClientClosed

InLogin == UNCHANGED <<up, ops, jobs, edits, used>>

\* The session file is authorized already.
ConnectAuthorized(l) ==
  /\ login[l] = "connect" /\ session # None
  /\ login' = [login EXCEPT ![l] = "verify"] /\ who' = [who EXCEPT ![l] = session]
  /\ InLogin /\ UNCHANGED <<session, memory, gate, records>>

\* It is not: the start gives up, a login has a code sent.
ConnectUnauthorized(l) ==
  /\ login[l] = "connect" /\ session = None
  /\ IF who[l] = None THEN Discarded
     ELSE auth' = [awaiting |-> "code", account |-> who[l]] /\ UNCHANGED <<client, account>>
  /\ Finish(l)
  /\ InLogin /\ UNCHANGED <<session, records>>

\* A wrong code or password leaves the pending client for another try.
SignRefused(l) ==
  /\ login[l] = "sign"
  /\ Finish(l)
  /\ InLogin /\ UNCHANGED <<session, memory, records>>

PasswordNeeded(l) ==
  /\ login[l] = "sign" /\ auth.awaiting = "code"
  /\ auth' = [awaiting |-> "password", account |-> auth.account]
  /\ Finish(l)
  /\ InLogin /\ UNCHANGED <<session, client, account, records>>

SignedIn(l) ==
  /\ login[l] = "sign"
  /\ session' = who[l]
  /\ GoOn(l, "verify")
  /\ InLogin /\ UNCHANGED <<memory, records>>

Claimed(a) == frozen = a /\ ~migrated

\* The transaction of bind_saved_message_account: the old records are copied to
\* the account they were found to belong to, once; what it has already stays.
Migrate(l) ==
  /\ login[l] = "verify"
  /\ mapping' = [a \in Accounts |-> [m \in Msgs |->
       IF a = who[l] /\ Claimed(a) /\ mapping[a][m] = NoId THEN legacy[m] ELSE mapping[a][m]]]
  /\ migrated' = (migrated \/ Claimed(who[l]))
  /\ GoOn(l, "bind")
  /\ InLogin /\ UNCHANGED <<session, memory, legacy, frozen>>

\* After the commit the account is set ...
Bind(l) ==
  /\ login[l] = "bind"
  /\ account' = who[l]
  /\ GoOn(l, "initialize")
  /\ InLogin /\ UNCHANGED <<session, client, auth, records>>

\* ... and after client.initialize the client is published.
Publish(l) ==
  /\ login[l] = "initialize"
  /\ client' = who[l] /\ auth' = AuthCleared
  /\ Finish(l)
  /\ InLogin /\ UNCHANGED <<session, account, records>>

\* An error, a cancelled request, or the 30 seconds of the startup.
LoginFails(l) ==
  /\ login[l] \in {"connect", "verify", "bind", "initialize"}
  /\ Discarded
  /\ Finish(l)
  /\ InLogin /\ UNCHANGED <<session, records>>

\* The session files are deleted, or cannot be; a cancelled client is disposed of.
Disposed(l) ==
  /\ login[l] \in {"dispose", "unlink"}
  /\ session' \in {session, IF login[l] = "unlink" THEN None ELSE session}
  /\ Finish(l)
  /\ InLogin /\ UNCHANGED <<memory, records>>
-----------------------------------------------------------------------------
(* Posts and edits for Saved Messages.                                      *)

InOp == UNCHANGED <<up, session, memory, logins, jobs, legacy, frozen, migrated>>

At(o, label) == op' = [op EXCEPT ![o] = label]

\* Mutant: an account change is not looked at.
MayEnterAnytime == up = "up"

\* begin_saved_messages_operation; what is refused is dropped.
MayEnter == up = "up" /\ ~switching

Enter(o) == active' = active \union {o} /\ UNCHANGED switching

\* finish_saved_messages_operation, in a finally clause: the operation is done,
\* or something failed.
Leave(o) ==
  /\ op[o] \notin {"idle", "found"}
  /\ At(o, "idle")
  /\ active' = active \ {o}
  /\ UNCHANGED <<switching, msg, chat, id, mapping, edits, used>>
  /\ InOp

BeginPost(o, m) ==
  /\ op[o] = "idle" /\ MayEnter
  /\ Count("ops", MaxOps)
  /\ At(o, "post") /\ msg' = [msg EXCEPT ![o] = m]
  /\ Enter(o)
  /\ UNCHANGED <<chat, id, mapping, edits>>
  /\ InOp

\* resolve_destination_chat_id: the own id of the client that is logged in.
Resolve(o) ==
  /\ op[o] \in {"post", "reread"} /\ client # None
  /\ chat' = [chat EXCEPT ![o] = client]
  /\ At(o, IF op[o] = "post" THEN "send" ELSE "edit")
  /\ UNCHANGED <<gate, msg, id, mapping, edits, used>>
  /\ InOp

Send(o) ==
  /\ op[o] = "send" /\ client # None
  /\ id' = [id EXCEPT ![o] = Sent(chat[o], msg[o])]
  /\ At(o, "save")
  /\ UNCHANGED <<gate, msg, chat, mapping, edits, used>>
  /\ InOp

\* save_msg_mapping for the account that is bound now; INSERT OR IGNORE.
Save(o) ==
  /\ op[o] = "save" /\ account # None
  /\ mapping' = [mapping EXCEPT ![account][msg[o]] = IF @ = NoId THEN id[o] ELSE @]
  /\ At(o, "saved")
  /\ UNCHANGED <<gate, msg, chat, id, edits, used>>
  /\ InOp

\* handle_edited_post: get_all_target_msg_mappings is read before the gate, and
\* what it read is not used again.
FindCopies(o, m) ==
  /\ up = "up" /\ op[o] = "idle" /\ account # None
  /\ mapping[account][m] # NoId
  /\ Count("ops", MaxOps)
  /\ At(o, "found") /\ msg' = [msg EXCEPT ![o] = m] /\ id' = [id EXCEPT ![o] = mapping[account][m]]
  /\ UNCHANGED <<gate, chat, mapping, edits>>
  /\ InOp

EnterEdit(o) ==
  /\ op[o] = "found"
  /\ IF MayEnter THEN At(o, "locate") /\ Enter(o) ELSE At(o, "idle") /\ UNCHANGED gate
  /\ UNCHANGED <<msg, chat, id, mapping, edits, used>>
  /\ InOp

\* Mutant: the id found before the gate is used.
LocatedBefore(o) == id[o]

\* get_target_msg_id under the gate
Located(o) == IF account = None THEN NoId ELSE mapping[account][msg[o]]

Reread(o) ==
  /\ op[o] = "locate" /\ Located(o) # NoId
  /\ id' = [id EXCEPT ![o] = Located(o)]
  /\ At(o, "reread")
  /\ UNCHANGED <<gate, msg, chat, mapping, edits, used>>
  /\ InOp

Edit(o) ==
  /\ op[o] = "edit" /\ client # None
  /\ edits' = edits \union {<<client, chat[o], id[o]>>}
  /\ At(o, "edited")
  /\ UNCHANGED <<gate, msg, chat, id, mapping, used>>
  /\ InOp
-----------------------------------------------------------------------------
(* A history job with Saved Messages as its target.                         *)

InJob == UNCHANGED <<up, session, memory, gate, logins, ops, legacy, frozen, migrated, edits>>

BeginJob ==
  /\ up = "up" /\ ~syncing
  /\ Count("jobs", MaxJobs)
  /\ syncing' = TRUE /\ job' = "resolve"
  /\ UNCHANGED <<jobMsg, jobChat, jobOwner, jobId, mapping>>
  /\ InJob

\* The chat is resolved once for the whole job.
ResolveJob ==
  /\ job = "resolve" /\ client # None
  /\ jobChat' = client /\ job' = "next"
  /\ UNCHANGED <<syncing, jobMsg, jobOwner, jobId, mapping, used>>
  /\ InJob

\* The DeliveryGuard of a message takes the owner; without one it cannot reserve.
GuardJob(m) ==
  /\ job = "next" /\ account # None /\ mapping[account][m] = NoId
  /\ jobMsg' = m /\ jobOwner' = account /\ job' = "send"
  /\ UNCHANGED <<syncing, jobChat, jobId, mapping, used>>
  /\ InJob

SendJob ==
  /\ job = "send" /\ client # None
  /\ jobId' = Sent(jobChat, jobMsg) /\ job' = "save"
  /\ UNCHANGED <<syncing, jobMsg, jobChat, jobOwner, mapping, used>>
  /\ InJob

\* record_success for the owner of the guard
SaveJob ==
  /\ job = "save"
  /\ mapping' = [mapping EXCEPT ![jobOwner][jobMsg] = IF @ = NoId THEN jobId ELSE @]
  /\ job' = "next"
  /\ UNCHANGED <<syncing, jobMsg, jobChat, jobOwner, jobId, used>>
  /\ InJob

\* The job is finished or stopped, or something failed.
EndJob ==
  /\ job # "none"
  /\ job' = "none" /\ syncing' = FALSE
  /\ UNCHANGED <<jobMsg, jobChat, jobOwner, jobId, mapping, used>>
  /\ InJob
-----------------------------------------------------------------------------
(* The process.                                                             *)

\* Mutant: an owner that was not found is looked for again.
FrozenAgain(s) == IF frozen \in {"unset", None} THEN s ELSE frozen

\* _freeze_legacy_saved_owner: the owner of the old records is the account of the
\* session file when the new version first starts.
Frozen(s) == IF frozen # "unset" THEN frozen
             ELSE IF \E m \in Msgs : legacy[m] # NoId THEN s ELSE None

\* init_db
Start ==
  /\ up = "down"
  /\ used["starts"] < MaxStarts
  /\ used' = [used EXCEPT !["starts"] = @ + 1, !["started"] = FALSE]
  /\ up' = "up"
  /\ frozen' = Frozen(session)
  /\ UNCHANGED <<session, memory, gate, logins, ops, jobs, mapping, legacy, migrated, edits>>

\* shutdown closes the client whatever the gate says.
Shutdown ==
  /\ up = "up" /\ \A l \in Logins : login[l] = "idle"
  /\ up' = "closing"
  /\ ClientClosed
  /\ UNCHANGED <<session, gate, logins, ops, jobs, records, edits, used>>

Forgotten ==
  /\ client' = None /\ account' = None /\ auth' = Nobody
  /\ switching' = FALSE /\ active' = {} /\ syncing' = FALSE
  /\ login' = [l \in Logins |-> "idle"] /\ who' = [l \in Logins |-> None]
  /\ op' = [o \in Ops |-> "idle"] /\ job' = "none"

\* The process ends or dies, at any point of anything it does.
Stop ==
  /\ up # "down" /\ up' = "down"
  /\ Forgotten
  /\ UNCHANGED <<session, msg, chat, id, jobMsg, jobChat, jobOwner, jobId, records, edits, used>>
-----------------------------------------------------------------------------
\* The old records are those of the account of the session file, if there is one.
Init ==
  /\ up = "down"
  /\ session \in Accounts \union {None}
  /\ client = None /\ account = None /\ auth = Nobody
  /\ switching = FALSE /\ active = {} /\ syncing = FALSE
  /\ login = [l \in Logins |-> "idle"] /\ who = [l \in Logins |-> None]
  /\ op = [o \in Ops |-> "idle"] /\ job = "none"
  /\ msg = [o \in Ops |-> None] /\ chat = [o \in Ops |-> None] /\ id = [o \in Ops |-> NoId]
  /\ jobMsg = None /\ jobChat = None /\ jobOwner = None /\ jobId = NoId
  /\ mapping = [a \in Accounts |-> [m \in Msgs |-> NoId]]
  /\ \E a \in Accounts, S \in SUBSET Msgs :
       /\ session # None => a = session
       /\ legacy = [m \in Msgs |-> IF m \in S THEN <<a, m>> ELSE NoId]
  /\ frozen = "unset" /\ migrated = FALSE
  /\ edits = {}
  /\ used = [b \in {"logins", "ops", "jobs", "starts", "started"} |-> IF b = "started" THEN FALSE ELSE 0]

RequestLogin(l) ==
  \/ \E a \in Accounts : BeginUserAuth(l, a)
  \/ CompleteUserAuth(l) \/ CancelUserAuth(l) \/ SwitchUserAccount(l)

Login(l) ==
  \/ ConnectAuthorized(l) \/ ConnectUnauthorized(l)
  \/ SignRefused(l) \/ PasswordNeeded(l) \/ SignedIn(l)
  \/ Migrate(l) \/ Bind(l) \/ Publish(l) \/ LoginFails(l) \/ Disposed(l)

Operation(o) ==
  \/ \E m \in Msgs : BeginPost(o, m) \/ FindCopies(o, m)
  \/ Resolve(o) \/ Send(o) \/ Save(o)
  \/ EnterEdit(o) \/ Reread(o) \/ Edit(o) \/ Leave(o)

Job == BeginJob \/ ResolveJob \/ (\E m \in Msgs : GuardJob(m)) \/ SendJob \/ SaveJob \/ EndJob

Next ==
  \/ StartClient
  \/ \E l \in Logins \ {Startup} : RequestLogin(l)
  \/ \E l \in Logins : Login(l)
  \/ \E o \in Ops : Operation(o)
  \/ Job
  \/ Start \/ Shutdown \/ Stop

Spec == Init /\ [][Next]_vars

\* A request to change the account is answered, or fails.
FairSpec == Spec /\ \A l \in Logins : WF_vars(Login(l))
-----------------------------------------------------------------------------
(* Properties.                                                              *)

LoginLabels == {"idle", "connect", "sign", "verify", "bind", "initialize", "dispose", "unlink"}
OpLabels    == {"idle", "found", "post", "locate", "reread", "send", "edit", "save", "saved", "edited"}
JobLabels   == {"none", "resolve", "next", "send", "save"}

\* The variables hold values of their types; what is awaited has an account.
TypeOK ==
  /\ up \in {"down", "up", "closing"}
  /\ {session, client, account, jobChat, jobOwner} \subseteq Accounts \union {None}
  /\ auth \in Awaited \union {Nobody}
  /\ switching \in BOOLEAN /\ active \subseteq Ops /\ syncing \in BOOLEAN
  /\ login \in [Logins -> LoginLabels] /\ who \in [Logins -> Accounts \union {None}]
  /\ op \in [Ops -> OpLabels] /\ msg \in [Ops -> Msgs \union {None}]
  /\ chat \in [Ops -> Accounts \union {None}] /\ id \in [Ops -> Ids \union {NoId}]
  /\ job \in JobLabels /\ jobMsg \in Msgs \union {None} /\ jobId \in Ids \union {NoId}
  /\ mapping \in [Accounts -> [Msgs -> Ids \union {NoId}]] /\ legacy \in [Msgs -> Ids \union {NoId}]
  /\ frozen \in Accounts \union {None, "unset"} /\ migrated \in BOOLEAN
  /\ edits \subseteq (Accounts \union {None}) \X (Accounts \union {None}) \X (Ids \union {NoId})

\* The account that is bound is that of the published client; it is bound without
\* a client only while a login is about to publish one.
ClientVerified ==
  /\ client # None => account = client
  /\ client = None /\ account # None => \E l \in Logins : login[l] = "initialize"

\* The values have their types, and the bound account and the client agree.
LoginConsistent == TypeOK /\ ClientVerified

\* What an account has recorded for a message is the message's copy in its own
\* Saved Messages: no record of another account and none of unknown owner gets
\* there, through posts, jobs and the migration of old records, whatever account
\* changes, failures and restarts come between.
OwnMappings == \A a \in Accounts, m \in Msgs : mapping[a][m] \in {NoId, <<a, m>>}

\* An account only edits what it has sent to its own Saved Messages, though the
\* edit finds its message before it holds the gate.
EditsOwn == \A e \in edits : e[1] = e[2] /\ e[3][1] = e[1]

\* Accounts touch their own: what they record, and what they edit.
OwnRecords == OwnMappings /\ EditsOwn

\* While an operation holds the gate, and until the process shuts down, neither
\* the client nor the bound account changes.
AccountHeld ==
  [][active \intersect active' # {} /\ up' = "up" => UNCHANGED <<client, account>>]_vars

\* A job, which does not hold the gate, never works with another account than
\* the one whose chat it resolved at its start.
JobKeepsAccount == job \in {"next", "send", "save"} => client \in {jobChat, None}

\* The gate never stays closed after a login, however it ends.
SwitchEnds == switching ~> ~switching
=============================================================================
