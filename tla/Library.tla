------------------------------ MODULE Library -------------------------------
(***************************************************************************)
(* The library as the HTTP API sees it: the Rescanner's snapshot together  *)
(* with the tag store.  main installs MigrateToRelativePaths as the hook   *)
(* that runs before a snapshot is published; the handlers of               *)
(* internal/api add and remove tags against the snapshot their request was *)
(* admitted with, and delete graveyard records inside WithSnapshot.  The   *)
(* process may die at any time; only the database survives.                *)
(***************************************************************************)
EXTENDS Rescanner, TagStore

VARIABLE
  job    \* the <<path, tag>> handleRemoveTag has found and is about to remove

vars == <<rescannerVars, tagVars, job>>

NoJob == <<>>

LibraryTypeOK ==
  /\ TypeOK
  /\ TagTypeOK
  /\ job \in [Requests -> {NoJob} \cup (Paths \X Tags)]

LibraryInit ==
  /\ Init
  /\ TagInit
  /\ job = [c \in Requests |-> NoJob]

(* The hook of main: migrate against the paths of the scan about to be      *)
(* published.                                                               *)
BeforePublish ==
  /\ HookSucceeds
  /\ Migrate(scanned)
  /\ UNCHANGED job

Ready(c) == pc[c] = "admitted" /\ job[c] = NoJob

HandleAddTag(c, k, t) ==
  /\ Ready(c)
  /\ k \in seen[c].index
  /\ AddTag(k, t)
  /\ Respond(c)
  /\ UNCHANGED job

(* handleRemoveTag reads in one transaction and removes in another.         *)
FindTag(c, k, t) ==
  /\ Ready(c)
  /\ k \in seen[c].index
  /\ t \in files[k]
  /\ job' = [job EXCEPT ![c] = <<k, t>>]
  /\ UNCHANGED <<rescannerVars, tagVars>>

RemoveFoundTag(c) ==
  /\ job[c] # NoJob
  /\ RemoveTag(job[c][1], job[c][2])
  /\ job' = [job EXCEPT ![c] = NoJob]
  /\ Respond(c)

(* handleDeleteGraveyard: the check against the snapshot WithSnapshot gave  *)
(* and the deletion are one transaction.                                    *)
HandleDeleteGraveyard(c, k) ==
  /\ pc[c] = "inside"
  /\ DeleteOrphan(k, seen[c].index)
  /\ LeaveSnapshot(c)
  /\ UNCHANGED job

(* Any other answer: not found, duplicate, online, or a handler that only   *)
(* reads.                                                                   *)
HandleOther(c) ==
  /\ job[c] = NoJob
  /\ Respond(c) \/ LeaveSnapshot(c)
  /\ UNCHANGED <<tagVars, job>>

LibraryOwnStep ==
  /\ OwnStep
  /\ \A c \in Requests : job[c] # NoJob => pc'[c] = pc[c]
  /\ UNCHANGED <<tagVars, job>>

(* The process dies and is started again on the same database.              *)
Crash ==
  /\ main # "starting"
  /\ state' = "initializing" /\ ready' = FALSE /\ generation' = 0 /\ current' = NoIndex
  /\ trigger' = FALSE /\ runner' = "none" /\ scanned' = NoIndex
  /\ stopping' = FALSE /\ cancelled' = FALSE /\ main' = "starting"
  /\ readers' = {} /\ pc' = [c \in Requests |-> "idle"]
  /\ seen' = [c \in Requests |-> Unseen] /\ job' = [c \in Requests |-> NoJob]
  /\ UNCHANGED tagVars

LibraryNext ==
  \/ LibraryOwnStep \/ BeforePublish \/ Crash
  \/ \E c \in Requests :
       \/ \E k \in Paths, t \in Tags : HandleAddTag(c, k, t) \/ FindTag(c, k, t)
       \/ RemoveFoundTag(c) \/ HandleOther(c)
       \/ \E k \in Keys : HandleDeleteGraveyard(c, k)

LibrarySpec == LibraryInit /\ [][LibraryNext]_vars
-----------------------------------------------------------------------------
(* Properties.                                                              *)

(* No record of an online file stays behind under its old absolute path     *)
(* once a snapshot is published, over failing hooks and restarts: the       *)
(* graveyard shows no file that is in fact online, and no tag is hidden.    *)
OnlineIsMigrated ==
  current # NoIndex => \A k \in Legacy : Relative[k] \in current => files[k] = {}

(* An online file loses a tag only to the request that removes this tag:    *)
(* no graveyard deletion with an outdated idea of the library, and no       *)
(* migration, takes it.                                                     *)
OnlineKeepsTags ==
  [][\A k \in Paths, t \in Tags :
       k \in current /\ t \in files[k] \ files'[k]
         => \E c \in Requests : job[c] = <<k, t>> /\ job'[c] = NoJob]_vars

(* A legacy record ends in the graveyard deletion a user asked for, or all  *)
(* of its tags are on its relative path afterwards, merged with the ones    *)
(* that were there.                                                         *)
MigrationLosesNothing ==
  [][\A k \in Legacy :
       files[k] # files'[k] =>
         \/ files[k] \cup files[Relative[k]] \subseteq files'[Relative[k]]
         \/ \E c \in Requests : pc[c] = "inside" /\ pc'[c] = "idle"]_vars

(* To its users the library is one relation of files and tags, TaggedFiles, *)
(* read here from the tags bucket, which AddTag appends to blindly and from *)
(* which the others drop one occurrence only.                               *)
Promise == INSTANCE TaggedFiles WITH
  online <- IF current = NoIndex THEN {} ELSE current,
  tagged <- {p \in Keys \X Tags : listed[p[2]][p[1]] > 0}

(* Every step of scans, transactions, handlers and crashes is a step of     *)
(* that relation or invisible.                                              *)
ImplementsTaggedFiles == Promise!Spec
=============================================================================
