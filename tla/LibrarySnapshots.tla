-------------------------- MODULE LibrarySnapshots --------------------------
(***************************************************************************)
(* What the Rescanner promises its clients: a published pair of index and  *)
(* generation that changes as one, where the generation rises exactly when *)
(* the set of paths changes.  Rescanner implements this module (property   *)
(* ImplementsSnapshots there); PlayQueue is built on it.                   *)
(***************************************************************************)
EXTENDS Naturals, LibraryPaths

VARIABLES
  current,      \* the published Index
  generation    \* status.Generation

libraryVars == <<current, generation>>

SnapshotsInit ==
  /\ current = NoIndex
  /\ generation = 0

Publish(paths) ==
  /\ current' = paths
  /\ generation' = IF paths = current THEN generation ELSE generation + 1

SnapshotsSpec ==
  SnapshotsInit /\ [][\E paths \in SUBSET Paths : Publish(paths)]_libraryVars
=============================================================================
