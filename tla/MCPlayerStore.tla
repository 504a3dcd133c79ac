---------------------------- MODULE MCPlayerStore ----------------------------
(* Two calls in progress at once, an earlier and a later one, and two tracks.*)
EXTENDS PlayerStore, TLC

Symmetry == Permutations(Calls) \cup Permutations(Tracks)
==============================================================================
