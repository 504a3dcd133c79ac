----------------------------- MODULE MCLibrary ------------------------------
(* An instance of Library for TLC: two legacy paths that name one library  *)
(* path, and a path that never had a legacy record.                        *)
EXTENDS Library, TLC

CONSTANTS a, b

RelativeToA == [k \in Legacy |-> a]

Symmetry == Permutations(Requests) \cup Permutations(Tags)
=============================================================================
