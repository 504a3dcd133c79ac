----------------------------- MODULE MCRescanner ----------------------------
(* The instance of Rescanner that TLC checks; its constants are in the .cfg. *)
EXTENDS Rescanner
=============================================================================
