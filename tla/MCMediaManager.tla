--------------------------- MODULE MCMediaManager ---------------------------
(* TLC instances of MediaManager. *)
EXTENDS MediaManager
=============================================================================
