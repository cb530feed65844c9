---------------------------- MODULE MCUploadPool ----------------------------
(* A small instance of UploadPool. *)
EXTENDS UploadPool

CONSTANTS p1, job

\* Off, and on with a longer window.
MCLimits == {[threshold |-> 0, window |-> 1], [threshold |-> 3, window |-> 2]}
=============================================================================
