---------------------------- MODULE LibraryPaths ----------------------------
(***************************************************************************)
(* The paths of media files relative to the music directory, the only      *)
(* identity a file has in the server, and index.Index as the set of them.  *)
(***************************************************************************)
EXTENDS FiniteSets

CONSTANTS
  Paths,    \* media paths a scan may find
  NoPath    \* no media path

ASSUME PathsAssumption ==
  /\ IsFiniteSet(Paths)
  /\ NoPath \notin Paths

(* The nil *Index: not a set of paths. *)
NoIndex == {NoPath}

Indexes == (SUBSET Paths) \cup {NoIndex}
=============================================================================
