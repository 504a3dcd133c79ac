------------------------------ MODULE TagStore ------------------------------
(***************************************************************************)
(* internal/tags/store.go: tags in two bbolt buckets, files (path -> its   *)
(* tags) and tags (tag -> the paths that carry it), both JSON arrays.      *)
(* Every write is one bbolt.Update transaction, so it happens completely   *)
(* or not at all, also when the process dies, and no two overlap.          *)
(*                                                                         *)
(* AddTag looks for duplicates in the files bucket only; the tags bucket   *)
(* is appended to blindly.  The model therefore keeps a set per file but   *)
(* counts, per tag, how often a path is listed.  An empty array is an      *)
(* absent key in both buckets.                                             *)
(***************************************************************************)
EXTENDS Integers, LibraryPaths

CONSTANTS
  Legacy,     \* absolute paths below the legacy music root
  Relative,   \* Relative[k]: the library path that the legacy path k names
  Tags

ASSUME TagStoreAssumption ==
  /\ Paths \cap Legacy = {}
  /\ Relative \in [Legacy -> Paths]

Keys == Paths \cup Legacy

VARIABLES
  files,    \* files[k]: the tags of k
  listed    \* listed[t][k]: how often the array of t lists k

tagVars == <<files, listed>>

TagTypeOK ==
  /\ files \in [Keys -> SUBSET Tags]
  /\ listed \in [Tags -> [Keys -> Nat]]

(* The database of an earlier run, which may still hold absolute paths and  *)
(* may hold, for the same file, its relative path as well.                  *)
TagInit ==
  /\ files \in [Keys -> SUBSET Tags]
  /\ listed = [t \in Tags |-> [k \in Keys |-> IF t \in files[k] THEN 1 ELSE 0]]

(* removeFromSlice drops the first occurrence only; appendUnique adds one   *)
(* when there is none.                                                      *)
Removed(n) == IF n = 0 THEN 0 ELSE n - 1

Ensured(n) == IF n = 0 THEN 1 ELSE n

-----------------------------------------------------------------------------
(* Mutation: the duplicate check is dropped.                                *)
MayAddAnyway(k, t) == TRUE

MayAdd(k, t) == t \notin files[k]

AddTag(k, t) ==
  /\ MayAdd(k, t)
  /\ files' = [files EXCEPT ![k] = @ \cup {t}]
  /\ listed' = [listed EXCEPT ![t][k] = @ + 1]

RemoveTag(k, t) ==
  /\ files' = [files EXCEPT ![k] = @ \ {t}]
  /\ listed' = [listed EXCEPT ![t][k] = Removed(@)]

(* removeFileEntry: the path leaves every tag it carries.                   *)
DeleteOrphan(k, online) ==
  /\ k \notin online
  /\ files[k] # {}
  /\ files' = [files EXCEPT ![k] = {}]
  /\ listed' = [t \in Tags |->
                  IF t \in files[k] THEN [listed[t] EXCEPT ![k] = Removed(@)]
                  ELSE listed[t]]

(* Mutation: a record is left alone when its relative path has tags.        *)
MigratingFresh(known) ==
  {k \in Legacy : files[k] # {} /\ Relative[k] \in known /\ files[Relative[k]] = {}}

(* MigrateToRelativePaths: every legacy record whose relative path is known *)
(* moves there.  The code goes record by record; the merged result does not *)
(* depend on the order.                                                     *)
Migrating(known) == {k \in Legacy : files[k] # {} /\ Relative[k] \in known}

Sources(k, known) == {m \in Migrating(known) : Relative[m] = k}

Merged(k, known) == files[k] \cup UNION {files[m] : m \in Sources(k, known)}

(* updateTagFileReference, for every tag of a merged record.                *)
Relisted(t, k, known) ==
  IF k \in Migrating(known) /\ t \in Merged(Relative[k], known) THEN Removed(listed[t][k])
  ELSE IF Sources(k, known) # {} /\ t \in Merged(k, known) THEN Ensured(listed[t][k])
  ELSE listed[t][k]

Migrate(known) ==
  /\ files' = [k \in Keys |-> IF k \in Migrating(known) THEN {} ELSE Merged(k, known)]
  /\ listed' = [t \in Tags |-> [k \in Keys |-> Relisted(t, k, known)]]

-----------------------------------------------------------------------------
(* The two buckets say the same, and no path is listed twice for a tag, so  *)
(* the counts shown for a tag are the numbers of its files.  Only the       *)
(* duplicate check in the other bucket and the transactions keep it so.     *)
BucketsAgree ==
  \A k \in Keys, t \in Tags : listed[t][k] = IF t \in files[k] THEN 1 ELSE 0
=============================================================================
