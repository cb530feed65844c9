----------------------------- MODULE MCDelivery -----------------------------
(* Small instances of Delivery: an album of two messages, read whole or in  *)
(* part, and a lone message.                                                *)
EXTENDS DeliveryRefinement, TLC

CONSTANTS m1, m2, m3

Symmetric   == Permutations(Workers)
AlbumOnly   == {<<m1, m2>>}

\* A poll that saw one member of an album, and a later one that saw both.
SplitGroups == {<<m1>>, <<m1, m2>>}
\* The same, beside a lone message.
MixedGroups == SplitGroups \cup {<<m3>>}
=============================================================================
