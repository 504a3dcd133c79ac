---------------------------- MODULE MCMediaTurns ----------------------------
(* TLC instance of MediaTurns. *)
EXTENDS MediaTurns, TLC

CallerSymmetry == Permutations(Callers)
=============================================================================
