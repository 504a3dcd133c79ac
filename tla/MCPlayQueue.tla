---------------------------- MODULE MCPlayQueue -----------------------------
(* TLC instances of PlayQueue. *)
EXTENDS PlayQueue, TLC

Symmetry == Permutations(Requests) \cup Permutations(Tokens) \cup Permutations(Paths)
=============================================================================
