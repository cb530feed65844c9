--------------------------- MODULE MCPublicPoller ---------------------------
(* Small instances of PublicPoller: messages 2 and 3 form an album.          *)
EXTENDS PublicPoller

SavedAndChannel == {Saved, 1}
SavedOnly       == {Saved}
AlbumAtTwo      == [m \in Msgs |-> IF m \in {2, 3} THEN 1 ELSE 0]
=============================================================================
