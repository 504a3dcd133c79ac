----------------------------- MODULE MCTranscode -----------------------------
(* TLC instances of Transcode. *)
EXTENDS Transcode
=============================================================================
