--------------------------- MODULE MCCoverLoader ---------------------------
(* TLC instances of CoverLoader. *)
EXTENDS CoverLoader, TLC

RequestSymmetry == Permutations(Requests)
=============================================================================
