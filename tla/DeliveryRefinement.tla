------------------------- MODULE DeliveryRefinement -------------------------
(* Delivery implements DeliveryLedger.                                      *)
EXTENDS Delivery

\* A mapping outranks a receipt: a repeated or forced delivery of a confirmed
\* message does not open it again.
Status(m) == IF mapping[m] # 0 THEN "confirmed"
             ELSE IF receipt[m] # "none" THEN "inDoubt" ELSE "open"

Ledger == INSTANCE DeliveryLedger
            WITH status     <- [m \in Msgs |-> Status(m)],
                 posted     <- Elems(target),
                 overridden <- forced

\* Every behaviour of the code, read through Status, is one the ledger allows:
\* posted messages are in doubt or confirmed, groups are reserved whole, and a
\* release never opens a message that was posted.
ImplementsLedger == Ledger!Spec
=============================================================================
