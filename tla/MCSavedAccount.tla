--------------------------- MODULE MCSavedAccount ---------------------------
(* A small instance of SavedAccount. *)
EXTENDS SavedAccount

CONSTANTS a1, a2
=============================================================================
