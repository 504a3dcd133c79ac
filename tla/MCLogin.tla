------------------------------- MODULE MCLogin -------------------------------
(* Instances of Login for TLC. *)
EXTENDS Login, TLC

Symmetry ==
  Permutations(Clients) \cup Permutations(Attempts) \cup Permutations(Tokens)
=============================================================================
