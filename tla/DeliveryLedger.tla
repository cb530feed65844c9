--------------------------- MODULE DeliveryLedger ---------------------------
(***************************************************************************)
(* What the receipts and mappings promise, without operations, requests or  *)
(* failures: a message is open, in doubt or confirmed.  It is put in doubt  *)
(* before it can appear in the target, it is confirmed only if it did       *)
(* appear, and it becomes open again only if it never did.                  *)
(***************************************************************************)
CONSTANT Msgs

VARIABLES
  status,      \* of every source message: "open", "inDoubt" or "confirmed"
  posted,      \* messages with a copy in the target
  overridden   \* messages a forced operation took over: their doubt is waived

vars == <<status, posted, overridden>>

TypeOK ==
  /\ status \in [Msgs -> {"open", "inDoubt", "confirmed"}]
  /\ posted \subseteq Msgs
  /\ overridden \subseteq Msgs

Move(S, from, to) == [m \in Msgs |-> IF m \in S /\ status[m] = from THEN to ELSE status[m]]

\* A whole group is reserved at once, and only if none of it is in doubt.
Reserve(S) ==
  /\ \A m \in S : status[m] # "inDoubt"
  /\ status' = Move(S, "open", "inDoubt")
  /\ UNCHANGED <<posted, overridden>>

\* A forced operation reserves whatever it finds.
Override(S) ==
  /\ status' = Move(S, "open", "inDoubt")
  /\ overridden' = overridden \union S
  /\ UNCHANGED posted

Post(S) ==
  /\ \A m \in S \ overridden : status[m] # "open"
  /\ posted' = posted \union S
  /\ UNCHANGED <<status, overridden>>

Confirm(m) ==
  /\ m \in posted
  /\ status' = [status EXCEPT ![m] = "confirmed"]
  /\ UNCHANGED <<posted, overridden>>

Release(S) ==
  /\ \A m \in S \ overridden : m \in posted => status[m] = "confirmed"
  /\ status' = Move(S, "inDoubt", "open")
  /\ UNCHANGED <<posted, overridden>>

Init ==
  /\ status = [m \in Msgs |-> "open"]
  /\ posted = {}
  /\ overridden = {}

Next ==
  \/ \E S \in SUBSET Msgs : Reserve(S) \/ Override(S) \/ Post(S) \/ Release(S)
  \/ \E m \in Msgs : Confirm(m)

Spec == Init /\ [][Next]_vars
=============================================================================
