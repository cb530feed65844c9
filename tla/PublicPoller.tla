---------------------------- MODULE PublicPoller ----------------------------
(***************************************************************************)
(* Polling one public channel for several targets, each with its own cursor *)
(* (sync_worker/realtime/public_poller.py and the rule and cursor tables of *)
(* database.py), while the user pauses, deletes and adds rules, runs a      *)
(* history job, or changes the account whose Saved Messages are a target.   *)
(*                                                                          *)
(* A delivery is one step here: Delivery models it.  It either reports an   *)
(* outcome the poller counts as processed, or it does not.                  *)
(***************************************************************************)
EXTENDS Integers, FiniteSets

CONSTANTS
  Targets,      \* target ids; -1 is Saved Messages
  Accounts,     \* ids of the auxiliary account
  MaxMsg,       \* bound: messages of the source
  AlbumOf,      \* album of a message, 0 if it is a lone one
  MaxChanges,   \* bound: what the user does, and crashes
  MaxFailures   \* bound: deliveries and database writes that fail

Saved == -1

ASSUME PollerAssumption ==
  /\ Targets \subseteq Nat \union {Saved}
  /\ IsFiniteSet(Targets)
  /\ Accounts \subseteq Nat \ {0}
  /\ {MaxMsg, MaxChanges, MaxFailures} \subseteq Nat
  /\ AlbumOf \in [1..MaxMsg -> Nat]

Msgs   == 1..MaxMsg
Owners == Accounts \union {0}

VARIABLES
  latest,     \* newest message of the source
  rule,       \* channel_mappings: "absent", "enabled" or "paused"
  cursor,     \* last_polled_message_id of a target, for Saved Messages of an owner
  account,    \* _saved_message_account_id, 0 when logged out
  client,     \* account of the published user client, 0 without one
  switching,  \* _saved_messages_account_switching
  syncing,    \* sync_state["is_syncing"]: a history job runs
  stopRequested, \* sync_state["stop_requested"], which every delivery looks at
  pc,         \* where the poller is
  user,       \* account of the client this pass works with
  owner,      \* owner its cursors were read for
  stale,      \* the account was switched during this pass
  group,      \* targets of this pass
  seen,       \* their cursors when they were read
  lo, hi,     \* messages of this pass that are left: lo..hi
  waiting,    \* targets left for the message group at lo
  paused,     \* paused_targets
  adding,     \* a rule being added: its target and starting point
  start,      \* history: starting point of the present rule
  handled,    \* history: messages processed or presumed to be, by target and receiving account
  renewed,    \* history: targets whose rule was added during this pass
  changes, failures

rules   == <<latest, rule, cursor, start>>
login   == <<account, client, switching>>
job     == <<syncing, stopRequested>>
pass    == <<user, owner, group, seen, hi>>
work    == <<lo, waiting, paused>>
since   == <<stale, renewed>>
history == <<handled>>
bounds  == <<changes, failures>>
vars    == <<rules, login, job, pc, pass, since, work, adding, history, bounds>>

NotAdding == [target |-> 0, from |-> -1]

Smallest(S) == CHOOSE x \in S : \A y \in S : x <= y
Largest(S)  == CHOOSE x \in S : \A y \in S : x >= y

\* get_mapping_owner_id: rows of Saved Messages belong to the account.
OwnerId(t) == IF t = Saved THEN account ELSE 0

\* group_messages: an album is one group, as far as it was loaded.
MessageGroup ==
  {m \in lo..hi : m = lo \/ (AlbumOf[lo] # 0 /\ \A k \in lo..m : AlbumOf[k] = AlbumOf[lo])}

\* Targets are taken in the order of their ids.
Current == Smallest(waiting)

\* begin_saved_messages_operation .. finish_saved_messages_operation
Held == /\ pc \in {"enabled", "sending", "moving"}
        /\ Current = Saved
-----------------------------------------------------------------------------
(* The poller.                                                              *)

\* The pass ends, after its last group or with an exception.
EndPass ==
  /\ pc' = "idle"
  /\ group' = {} /\ waiting' = {} /\ paused' = {}
  /\ lo' = 1 /\ hi' = 0
  /\ user' = 0 /\ owner' = 0 /\ stale' = FALSE /\ renewed' = {}
  /\ seen' = [t \in Targets |-> 0]

Fail == failures < MaxFailures /\ failures' = failures + 1

TakeClient ==
  /\ pc = "idle"
  /\ client # 0
  /\ user' = client
  /\ pc' = "listing"
  /\ UNCHANGED <<rules, login, job, owner, group, seen, hi, since, work, adding,
                 history, bounds>>

\* Mutant: the pass starts behind the most advanced target.
FirstNewLargest(S) == Largest({cursor[t][OwnerId(t)] : t \in S}) + 1

\* The pass starts behind the target that is furthest back.
FirstNew(S) == Smallest({cursor[t][OwnerId(t)] : t \in S}) + 1

\* get_public_user_mapping_groups: one query.
List ==
  LET enabled == {t \in Targets : rule[t] = "enabled"} IN
  /\ pc = "listing"
  /\ IF enabled = {} THEN EndPass ELSE
       /\ group' = enabled
       /\ seen'  = [t \in Targets |-> cursor[t][OwnerId(t)]]
       /\ owner' = account
       /\ lo'    = FirstNew(enabled)
       /\ pc'    = "loading"
       /\ UNCHANGED <<user, hi, since, waiting, paused>>
  /\ UNCHANGED <<rules, login, job, adding, history, bounds>>

\* load_public_channel_new_messages reads back to the cursor, page by page.
Load ==
  /\ pc = "loading"
  /\ \/ (syncing \/ latest < lo) /\ EndPass
     \/ /\ ~syncing /\ lo <= latest
        /\ hi' = latest
        /\ pc' = "group"
        /\ UNCHANGED <<user, owner, group, seen, since, lo, waiting, paused>>
  /\ UNCHANGED <<rules, login, job, adding, history, bounds>>

LoadFails ==
  /\ pc = "loading"
  /\ \/ Fail
     \/ stale /\ UNCHANGED failures
  /\ EndPass
  /\ UNCHANGED <<rules, login, job, adding, history, changes>>

NextGroup ==
  /\ pc = "group"
  /\ IF lo > hi \/ syncing THEN EndPass ELSE
       /\ waiting' = group
       /\ pc' = "target"
       /\ UNCHANGED <<pass, since, lo, paused>>
  /\ UNCHANGED <<rules, login, job, adding, history, bounds>>

GroupDone ==
  /\ pc = "target"
  /\ waiting = {}
  /\ lo' = Largest(MessageGroup) + 1
  /\ pc' = "group"
  /\ UNCHANGED <<rules, login, job, pass, since, waiting, paused, adding, history, bounds>>

\* On to the next target.
Skip ==
  /\ waiting' = waiting \ {Current}
  /\ pc' = "target"
  /\ UNCHANGED <<pass, since, lo>>

SkipPaused ==
  /\ pc = "target"
  /\ waiting # {} /\ Current \in paused
  /\ Skip
  /\ UNCHANGED <<rules, login, job, paused, adding, history, bounds>>

\* The client, the owner whose cursor was read and the present account agree.
OwnPass == account # 0 /\ user = account /\ owner = account

\* Saved Messages: the account cannot be switched from here to Skip or EndPass.
Admit ==
  /\ pc = "target"
  /\ waiting # {} /\ Current \notin paused
  /\ Current = Saved => ~switching /\ OwnPass
  /\ pc' = "enabled"
  /\ UNCHANGED <<rules, login, job, pass, since, work, adding, history, bounds>>

\* A client from before a switch is stopped, unless stopping it failed.
Refuse ==
  /\ pc = "target"
  /\ waiting # {} /\ Current \notin paused
  /\ Current = Saved
  /\ switching \/ ~OwnPass \/ stale
  /\ EndPass
  /\ UNCHANGED <<rules, login, job, adding, history, bounds>>

\* Mutant: a target found paused is asked again for the next group.
PausedForgotten == paused

\* A target that was found paused sits out the rest of the pass.
PausedWithCurrent == paused \union {Current}

\* For Saved Messages the chat is the account of the client.
Receiver == IF Current = Saved THEN user ELSE 0

\* Mutant: the cursor of the target is not looked at.
NewToAny == TRUE

\* The pass compares with the cursor it has read.
NewToTarget == Largest(MessageGroup) > seen[Current]

\* History: nothing of the group is new to the rule that asks for it.
BeforeStart == MessageGroup \subseteq (1..start[Current][Receiver]) \ handled[Current][Receiver]

\* is_channel_mapping_enabled, then the cursor the pass has read.
CheckEnabled ==
  /\ pc = "enabled"
  /\ \/ /\ rule[Current] # "enabled"
        /\ paused' = PausedWithCurrent
        /\ Skip
     \/ /\ rule[Current] = "enabled"
        /\ ~NewToTarget
        /\ Skip
        /\ UNCHANGED paused
     \/ /\ rule[Current] = "enabled"
        /\ NewToTarget
        /\ pc' = "sending"
        /\ UNCHANGED <<pass, since, work>>
  /\ UNCHANGED <<rules, login, job, adding, handled, bounds>>

\* _process_public_target: the delivery ends in PROCESSED_SYNC_RESULTS.
Processed ==
  /\ pc = "sending"
  /\ handled' = [handled EXCEPT ![Current][Receiver] = @ \union MessageGroup]
  /\ pc' = "moving"
  /\ UNCHANGED <<rules, login, job, pass, since, work, adding, bounds>>

\* Any other result, and any exception, ends the pass for every target.  While a
\* stop is asked for, safe_execute cancels whatever a delivery sends.
SendFails ==
  /\ pc = "sending"
  /\ \/ Fail
     \/ (stale \/ stopRequested) /\ UNCHANGED failures
  /\ EndPass
  /\ UNCHANGED <<rules, login, job, adding, history, changes>>

\* Mutants: the cursor is set whatever it was, and to the next message.
MovedTo(m) ==
  IF rule[Current] = "enabled" THEN [cursor EXCEPT ![Current][OwnerId(Current)] = m] ELSE cursor
MovedPast(m) ==
  IF rule[Current] = "enabled" /\ cursor[Current][OwnerId(Current)] < m + 1
    THEN [cursor EXCEPT ![Current][OwnerId(Current)] = m + 1] ELSE cursor

\* update_public_user_poll_position: never back, and not while paused.
Moved(m) ==
  IF rule[Current] = "enabled" /\ cursor[Current][OwnerId(Current)] < m
    THEN [cursor EXCEPT ![Current][OwnerId(Current)] = m] ELSE cursor

Move ==
  /\ pc = "moving"
  /\ cursor' = Moved(Largest(MessageGroup))
  /\ Skip
  /\ UNCHANGED <<latest, rule, start, login, job, paused, adding, history, bounds>>

MoveFails ==
  /\ pc = "moving"
  /\ Fail
  /\ EndPass
  /\ UNCHANGED <<rules, login, job, adding, history, changes>>
-----------------------------------------------------------------------------
(* The user, the source and the machine.                                    *)

Change == changes < MaxChanges /\ changes' = changes + 1

Post ==
  /\ latest < MaxMsg
  /\ latest' = latest + 1
  /\ UNCHANGED <<rule, cursor, start, login, job, pc, pass, since, work, adding,
                 history, bounds>>

\* update_channel_mapping: enabled is 0 or 1.
Toggle(t) ==
  /\ Change
  /\ rule[t] # "absent"
  /\ rule' = [rule EXCEPT ![t] = IF @ = "enabled" THEN "paused" ELSE "enabled"]
  /\ UNCHANGED <<latest, cursor, start, login, job, pc, pass, since, work, adding,
                 history, failures>>

\* delete_channel_mapping: the cursors of Saved Messages are in another table.
Delete(t) ==
  /\ Change
  /\ rule[t] # "absent"
  /\ rule' = [rule EXCEPT ![t] = "absent"]
  /\ UNCHANGED <<latest, cursor, start, login, job, pc, pass, since, work, adding,
                 history, failures>>

\* add_mapping asks for the newest message, which is 0 without a client, ...
BeginAdd(t) ==
  /\ Change
  /\ adding = NotAdding
  /\ rule[t] = "absent"
  /\ t = Saved => client # 0
  /\ adding' = [target |-> t, from |-> IF client # 0 THEN latest ELSE 0]
  /\ UNCHANGED <<rules, login, job, pc, pass, since, work, history, failures>>

\* History: a pass that goes on with the cursor it has read takes what is before
\* it as dealt with, also for a rule that was added again to start before it.
Presumed(t) == IF t \in group THEN adding.from + 1 .. seen[t] ELSE {}

\* ... and then stores the rule; for Saved Messages, under the present account.
FinishAdd ==
  LET t == adding.target  o == OwnerId(t) IN
  /\ adding # NotAdding
  /\ adding' = NotAdding
  /\ IF t = Saved /\ account = 0 THEN UNCHANGED <<rule, cursor, start, renewed, handled>> ELSE
       /\ rule'   = [rule EXCEPT ![t] = "enabled"]
       /\ cursor' = [cursor EXCEPT ![t][o] = adding.from]
       /\ start'  = [start EXCEPT ![t][o] = adding.from]
       /\ renewed' = IF pc \in {"idle", "listing"} THEN renewed ELSE renewed \union {t}
       /\ handled' = [handled EXCEPT ![t][o] = @ \union Presumed(t)]
  /\ UNCHANGED <<latest, login, job, pc, pass, stale, work, bounds>>

StartSync ==
  /\ Change
  /\ ~syncing /\ client # 0
  /\ syncing' = TRUE
  /\ stopRequested' = FALSE
  /\ UNCHANGED <<rules, login, pc, pass, since, work, adding, history, failures>>

\* stop_sync
RequestStop ==
  /\ Change
  /\ syncing /\ ~stopRequested
  /\ stopRequested' = TRUE
  /\ UNCHANGED <<rules, login, syncing, pc, pass, since, work, adding, history, failures>>

EndSync ==
  /\ syncing
  /\ syncing' = FALSE
  /\ stopRequested' = FALSE
  /\ UNCHANGED <<rules, login, pc, pass, since, work, adding, history, bounds>>

\* _begin_user_account_change
SwitchAllowed == ~syncing /\ ~switching /\ ~Held

\* ... then close_user_client, in one go.
BeginSwitch ==
  /\ Change
  /\ SwitchAllowed
  /\ switching' = TRUE
  /\ account' = 0 /\ client' = 0
  /\ stale' = (pc # "idle") /\ UNCHANGED renewed
  /\ UNCHANGED <<rules, job, pc, pass, work, adding, history, failures>>

\* _finalize_user_client: bind_saved_message_account, ...
Bind(a) ==
  /\ switching /\ account = 0
  /\ account' = a
  /\ UNCHANGED <<rules, client, switching, job, pc, pass, since, work, adding,
                 history, bounds>>

\* ... initialize and publish, or discard.
Publish ==
  /\ switching /\ account # client
  /\ \/ client' = account /\ UNCHANGED account
     \/ account' = 0 /\ UNCHANGED client
  /\ switching' = FALSE
  /\ UNCHANGED <<rules, job, pc, pass, since, work, adding, history, bounds>>

\* A switch that ends without a login.
EndSwitch ==
  /\ switching /\ account = 0
  /\ switching' = FALSE
  /\ UNCHANGED <<rules, account, client, job, pc, pass, since, work, adding,
                 history, bounds>>

\* The poller is cancelled and the client closed.
Down ==
  /\ Change
  /\ EndPass
  /\ account' = 0 /\ client' = 0 /\ switching' = FALSE
  /\ syncing' = FALSE
  /\ adding' = NotAdding
  /\ UNCHANGED <<rules, history, failures>>

\* Only the database outlives the process.
Crash == Down /\ stopRequested' = FALSE

\* _force_cleanup and the next turn of serve_until_stopped, in the same process:
\* the stop that the clean-up asks for is not taken back.  The server waits for
\* a running job before it cleans up.
RestartInPlace == Down /\ ~syncing /\ stopRequested' = TRUE

\* start_user_client_if_authorized, at startup.
Restore(a) ==
  /\ account = 0 /\ client = 0 /\ ~switching /\ ~syncing
  /\ switching' = TRUE
  /\ account' = a
  /\ UNCHANGED <<rules, client, job, pc, pass, since, work, adding, history, bounds>>

Init ==
  /\ latest = 0
  /\ rule    = [t \in Targets |-> "enabled"]
  /\ cursor  = [t \in Targets |-> [o \in Owners |-> 0]]
  /\ start   = [t \in Targets |-> [o \in Owners |-> 0]]
  /\ handled = [t \in Targets |-> [o \in Owners |-> {}]]
  /\ account = 0 /\ client = 0
  /\ switching = FALSE /\ syncing = FALSE /\ stopRequested = FALSE
  /\ pc = "idle"
  /\ user = 0 /\ owner = 0 /\ stale = FALSE /\ renewed = {}
  /\ group = {} /\ waiting = {} /\ paused = {}
  /\ lo = 1 /\ hi = 0
  /\ seen = [t \in Targets |-> 0]
  /\ adding = NotAdding
  /\ changes = 0 /\ failures = 0

Poll ==
  \/ TakeClient \/ List \/ Load \/ LoadFails \/ NextGroup \/ GroupDone
  \/ SkipPaused \/ Admit \/ Refuse \/ CheckEnabled
  \/ Processed \/ SendFails \/ Move \/ MoveFails

Login == \E a \in Accounts : Bind(a) \/ Restore(a)

Next ==
  \/ Poll
  \/ Post
  \/ \E t \in Targets : Toggle(t) \/ Delete(t) \/ BeginAdd(t)
  \/ FinishAdd \/ StartSync \/ RequestStop \/ EndSync
  \/ BeginSwitch \/ Login \/ Publish \/ EndSwitch \/ Crash \/ RestartInPlace

Spec == Init /\ [][Next]_vars

\* The poller is a task of its own and a history job ends.
FairSpec == Spec /\ WF_vars(Poll) /\ WF_vars(EndSync)
-----------------------------------------------------------------------------
(* Properties.                                                              *)

\* Every variable has its type; the targets and messages of a pass are of the
\* mapping groups and of the history the poller has loaded.
TypeOK ==
  /\ latest \in 0..MaxMsg
  /\ rule \in [Targets -> {"absent", "enabled", "paused"}]
  /\ cursor \in [Targets -> [Owners -> 0..MaxMsg]]
  /\ start  \in [Targets -> [Owners -> 0..MaxMsg]]
  /\ handled \in [Targets -> [Owners -> SUBSET Msgs]]
  /\ {account, client, user, owner} \subseteq Owners
  /\ {switching, syncing, stopRequested, stale} \subseteq BOOLEAN
  /\ pc \in {"idle", "listing", "loading", "group", "target", "enabled", "sending", "moving"}
  /\ group \subseteq Targets /\ renewed \subseteq Targets /\ waiting \subseteq group /\ paused \subseteq group
  /\ seen \in [Targets -> 0..MaxMsg]
  /\ lo \in 1..MaxMsg + 1 /\ hi \in 0..MaxMsg
  /\ pc \in {"enabled", "sending", "moving"} => waiting # {}
  /\ adding \in [target : Targets \union {0}, from : -1..MaxMsg]
  /\ changes \in 0..MaxChanges /\ failures \in 0..MaxFailures

\* The cursor of a rule passes a message only when the delivery to that target,
\* and for Saved Messages to that account, has dealt with it: no pause, failure,
\* history job, account switch, new rule or crash makes a message fall through.
CursorCovers ==
  \A t \in Targets : rule[t] # "absent" =>
    \A o \in Owners : start[t][o] + 1 .. cursor[t][o] \subseteq handled[t][o]

\* A cursor goes back only when a rule is stored with its own starting point.
CursorNeverBack ==
  [][\A t \in Targets : \A o \in Owners :
       cursor'[t][o] < cursor[t][o] => adding.target = t /\ adding' = NotAdding]_vars

\* A target that stays enabled while an account stays logged in gets every
\* message, whatever was interrupted before, once no stop is asked for: after a
\* restart in place (main.py _force_cleanup) the stop stands, and every delivery
\* of the poller fails in safe_execute, until a history job has been started.
CatchesUp ==
  \A t \in Targets :
    <>[](rule[t] = "enabled" /\ client # 0 /\ account = client /\ ~stopRequested)
      => <>[](cursor[t][OwnerId(t)] >= latest)

\* Nothing is sent to a target from before the starting point of its rule, though
\* the pass starts behind the target that is furthest back. The exception is a
\* rule that is added again during the pass: the pass keeps the old cursor.
StartRespected == pc = "sending" /\ BeforeStart => Current \in renewed
=============================================================================
