--------------------------- MODULE LibraryProofs ----------------------------
(***************************************************************************)
(* Proofs about Library, for any finite sets of paths and requests, any    *)
(* legacy paths and tags, and any bound on the generations: first about    *)
(* the Rescanner alone (Spec), then about its composition with the tag     *)
(* store (LibrarySpec), whose crash is the one step that is not a step of  *)
(* the Rescanner and leads back to its initial state.                      *)
(*                                                                         *)
(* What the Rescanner's properties lean on (RInv): the flags follow main   *)
(* through its sequence, an Index that has been found is not the nil one,  *)
(* readiness means a published Index, and publishMu is held by the         *)
(* requests inside WithSnapshot or by the publisher, never by both.        *)
(***************************************************************************)
EXTENDS Library, FiniteSetTheorems, TLAPS

Triggering == {c \in Requests : pc[c] = "trigger"}

Lifecycle ==
  /\ stopping <=> main \notin {"starting", "serving"}
  /\ cancelled => stopping
  /\ main = "starting" =>
       runner = "none" /\ state = "initializing" /\ ~trigger /\ Triggering = {}

FoundPaths ==
  /\ ready => current # NoIndex
  /\ runner \in {"found", "locking", "hook", "publish"} => scanned \in SUBSET Paths

PublishLock ==
  /\ \A c \in Requests : c \in readers <=> pc[c] = "inside"
  /\ runner \in {"hook", "publish"} => readers = {}

Control == TypeOK /\ Lifecycle /\ FoundPaths /\ PublishLock

RInv == Control /\ OneClaim /\ SnapshotHeld /\ GenerationNamesPaths

-----------------------------------------------------------------------------
(* Helpers.                                                                 *)

LEMMA IndexFacts ==
  /\ NoIndex \notin SUBSET Paths
  /\ SUBSET Paths \subseteq Indexes
  /\ NoIndex \in Indexes
<1>1. NoPath \in NoIndex /\ NoPath \notin Paths
  BY PathsAssumption DEF NoIndex
<1>2. NoIndex \notin SUBSET Paths
  BY <1>1
<1> QED BY <1>2 DEF Indexes

LEMMA TriggeringFacts ==
  /\ IsFiniteSet(Triggering)
  /\ Cardinality(Triggering) \in Nat
  /\ Cardinality(Triggering) = 0 <=> Triggering = {}
BY RescannerAssumption, FS_Subset, FS_CardinalityType, FS_EmptySet DEF Triggering

LEMMA ClaimsSplit ==
  Claims = Cardinality(Triggering) + (IF trigger THEN 1 ELSE 0)
             + (IF runner \in Working THEN 1 ELSE 0)
BY DEF Claims, Triggering

(* A step of a request that neither claims nor triggers. *)
LEMMA SameTriggering ==
  ASSUME TypeOK, NEW c \in Requests, NEW s \in PCs,
         pc' = [pc EXCEPT ![c] = s], s # "trigger", pc[c] # "trigger"
  PROVE  Triggering' = Triggering
BY DEF Triggering, TypeOK

-----------------------------------------------------------------------------
(* The control invariant.                                                   *)

LEMMA InitControl == Init => Control
<1> SUFFICES ASSUME Init PROVE Control
  OBVIOUS
<1>1. Unseen \in Views
  BY IndexFacts DEF Unseen, Views
<1>2. TypeOK
  BY <1>1, IndexFacts DEF Init, TypeOK, States, Runners, Mains, PCs
<1>3. Lifecycle /\ FoundPaths /\ PublishLock
  BY DEF Init, Lifecycle, FoundPaths, PublishLock, Triggering
<1> QED BY <1>2, <1>3 DEF Control

LEMMA RunnerControl ==
  ASSUME Control, Perform \/ Tick \/ HookSucceeds
  PROVE  Control'
<1> USE IndexFacts DEF Control, TypeOK, Lifecycle, FoundPaths, PublishLock, Triggering,
        States, Runners, Mains, RunnerGoes, status, mainVars, requestVars
<1>1. CASE TakeTrigger
  BY <1>1 DEF TakeTrigger
<1>2. CASE Tick
  BY <1>2 DEF Tick, ClaimScan
<1>3. CASE Exit
  BY <1>3 DEF Exit
<1>4. ASSUME NEW paths \in SUBSET Paths, ScanFinds(paths)
      PROVE  Control'
  BY <1>4 DEF ScanFinds
<1>5. CASE ScanFails \/ ScanCancelled \/ Discard \/ Proceed \/ LockPublish \/ HookSucceeds
  BY <1>5 DEF ScanFails, ScanCancelled, Discard, Proceed, LockPublish, HookSucceeds
<1>6. CASE RecordScanError
  BY <1>6 DEF RecordScanError, ReadyAfterError
<1>8. CASE HookFails
  BY <1>8 DEF HookFails, ReadyAfterError
<1>7. CASE Publish
  BY <1>7 DEF Publish
<1> QED BY <1>1, <1>2, <1>3, <1>4, <1>5, <1>6, <1>7, <1>8 DEF Perform

LEMMA RequestControl ==
  ASSUME Control, NEW c \in Requests,
         \/ Rescan(c) \/ SendTrigger(c) \/ Admit(c) \/ EnterSnapshot(c)
         \/ Respond(c) \/ LeaveSnapshot(c)
  PROVE  Control'
<1> USE IndexFacts DEF Control, TypeOK, Lifecycle, FoundPaths, PublishLock, Triggering,
        States, PCs, Views, Unseen, status, runVars, mainVars
<1>1. CASE Rescan(c)
  BY <1>1 DEF Rescan, MayRescan, Busy, ClaimScan
<1>2. CASE SendTrigger(c)
  BY <1>2 DEF SendTrigger
<1>3. CASE Admit(c)
  BY <1>3 DEF Admit, ViewReady
<1>4. CASE EnterSnapshot(c)
  BY <1>4 DEF EnterSnapshot
<1>5. CASE Respond(c) \/ LeaveSnapshot(c)
  BY <1>5 DEF Respond, LeaveSnapshot
<1> QED BY <1>1, <1>2, <1>3, <1>4, <1>5

LEMMA MainControl ==
  ASSUME Control, MainStep
  PROVE  Control'
<1> USE DEF Control, TypeOK, Lifecycle, FoundPaths, PublishLock, Triggering,
        Runners, Mains, MainGoes, RunnerGoes, status, runVars, requestVars
<1>1. CASE Start
  BY <1>1 DEF Start
<1>2. CASE BeginShutdown
  BY <1>2 DEF BeginShutdown
<1>3. CASE FailReadiness
  BY <1>3 DEF FailReadiness
<1>4. CASE Stop
  BY <1>4 DEF Stop
<1>5. CASE StopReturns
  BY <1>5 DEF StopReturns
<1> QED BY <1>1, <1>2, <1>3, <1>4, <1>5 DEF MainStep

-----------------------------------------------------------------------------
(* One owner per announced scan.                                            *)

LEMMA RunnerClaim ==
  ASSUME Control, OneClaim, Perform \/ Tick \/ HookSucceeds
  PROVE  OneClaim'
<1>0. Triggering' = Triggering /\ main' = main /\ stopping' = stopping
  BY DEF Perform, TakeTrigger, Tick, Exit, ScanFinds, ScanFails, ScanCancelled, RecordScanError,
     Discard, Proceed, LockPublish, HookFails, HookSucceeds, Publish, Triggering,
     mainVars, requestVars
<1>a. Cardinality(Triggering') = Cardinality(Triggering) /\ Cardinality(Triggering) \in Nat
  BY <1>0, TriggeringFacts
<1> DEFINE N == Cardinality(Triggering)
<1>b. /\ Claims = N + (IF trigger THEN 1 ELSE 0) + (IF runner \in Working THEN 1 ELSE 0)
      /\ Claims' = N + (IF trigger' THEN 1 ELSE 0) + (IF runner' \in Working THEN 1 ELSE 0)
  BY <1>0, <1>a, ClaimsSplit DEF Claims, Triggering, Working
<1> HIDE DEF N
<1>c. N \in Nat
  BY <1>a DEF N
<1> USE <1>0, <1>b, <1>c DEF OneClaim, Busy, Control, TypeOK, Lifecycle, RunnerGoes, Working, status
<1>1. CASE TakeTrigger \/ Tick
  BY <1>1 DEF TakeTrigger, Tick, Busy, ClaimScan
<1>2. CASE Exit \/ ScanCancelled \/ Discard
  BY <1>2 DEF Exit, ScanCancelled, Discard
<1>3. CASE (\E paths \in SUBSET Paths : ScanFinds(paths)) \/ ScanFails \/ Proceed
           \/ LockPublish \/ HookSucceeds
  BY <1>3 DEF ScanFinds, ScanFails, Proceed, LockPublish, HookSucceeds
<1>4. CASE RecordScanError \/ HookFails \/ Publish
  BY <1>4 DEF RecordScanError, HookFails, Publish
<1> QED BY <1>1, <1>2, <1>3, <1>4 DEF Perform

LEMMA RequestClaim ==
  ASSUME Control, OneClaim, NEW c \in Requests,
         \/ Rescan(c) \/ SendTrigger(c) \/ Admit(c) \/ EnterSnapshot(c)
         \/ Respond(c) \/ LeaveSnapshot(c)
  PROVE  OneClaim'
<1>a. /\ IsFiniteSet(Triggering) /\ Cardinality(Triggering) \in Nat
      /\ Claims = Cardinality(Triggering) + (IF trigger THEN 1 ELSE 0)
                    + (IF runner \in Working THEN 1 ELSE 0)
      /\ Claims' = Cardinality(Triggering') + (IF trigger' THEN 1 ELSE 0)
                    + (IF runner' \in Working THEN 1 ELSE 0)
  BY TriggeringFacts, ClaimsSplit DEF Claims, Triggering, Working
<1> USE DEF OneClaim, Busy, Control, TypeOK, Lifecycle, status, runVars, mainVars
<1>1. CASE Rescan(c)
  <2>1. Triggering' = Triggering \cup {c} /\ c \notin Triggering
    BY <1>1 DEF Rescan, Triggering
  <2>2. Cardinality(Triggering') = Cardinality(Triggering) + 1
    BY <1>a, <2>1, FS_AddElement
  <2> QED BY <1>1, <1>a, <2>2 DEF Rescan, MayRescan, ClaimScan
<1>2. CASE SendTrigger(c)
  <2>1. Triggering' = Triggering \ {c} /\ c \in Triggering
    BY <1>2 DEF SendTrigger, Triggering
  <2>2. Cardinality(Triggering') = Cardinality(Triggering) - 1
    BY <1>a, <2>1, FS_RemoveElement
  <2>3. Cardinality(Triggering) # 0
    BY <1>a, <2>1, FS_EmptySet
  <2> QED BY <1>2, <1>a, <2>2, <2>3 DEF SendTrigger
<1>3. CASE Admit(c) \/ EnterSnapshot(c) \/ Respond(c) \/ LeaveSnapshot(c)
  <2>1. Triggering' = Triggering
    BY <1>3 DEF Admit, EnterSnapshot, Respond, LeaveSnapshot, Triggering
  <2> QED BY <1>3, <1>a, <2>1 DEF Admit, EnterSnapshot, Respond, LeaveSnapshot
<1> QED BY <1>1, <1>2, <1>3

LEMMA MainClaim ==
  ASSUME Control, OneClaim, MainStep
  PROVE  OneClaim'
<1>a. /\ Triggering' = Triggering /\ trigger' = trigger /\ Cardinality(Triggering) \in Nat
      /\ Triggering = {} => Cardinality(Triggering) = 0
      /\ Claims = Cardinality(Triggering) + (IF trigger THEN 1 ELSE 0)
                    + (IF runner \in Working THEN 1 ELSE 0)
      /\ Claims' = Cardinality(Triggering) + (IF trigger' THEN 1 ELSE 0)
                    + (IF runner' \in Working THEN 1 ELSE 0)
  BY TriggeringFacts, ClaimsSplit
     DEF Claims, Triggering, Working, MainStep, Start, BeginShutdown, FailReadiness, Stop,
         StopReturns, runVars, requestVars
<1> USE <1>a DEF OneClaim, Busy, Control, TypeOK, Lifecycle, MainGoes, RunnerGoes, Working,
        status, runVars
<1>1. CASE Start
  BY <1>1 DEF Start
<1>2. CASE BeginShutdown \/ FailReadiness \/ Stop \/ StopReturns
  BY <1>2 DEF BeginShutdown, FailReadiness, Stop, StopReturns
<1> QED BY <1>1, <1>2 DEF MainStep

-----------------------------------------------------------------------------
(* Snapshots.                                                               *)

Captured == {seen[c] : c \in Requests} \cup {[index |-> current, generation |-> generation]}

(* Every step either publishes, leaving what requests have captured alone,  *)
(* or lets requests capture nothing but the published pair.                 *)
LEMMA StepKinds ==
  ASSUME Control, [Next]_rescannerVars
  PROVE  \/ Publish
         \/ /\ UNCHANGED <<current, generation>>
            /\ \A c \in Requests :
                 seen'[c] \in {seen[c], Unseen, [index |-> current, generation |-> generation]}
<1> USE DEF Control, TypeOK, status, mainVars, runVars, requestVars
<1>1. CASE Perform \/ Tick \/ HookSucceeds
  BY <1>1 DEF Perform, TakeTrigger, Tick, Exit, ScanFinds, ScanFails, ScanCancelled,
     RecordScanError, Discard, Proceed, LockPublish, HookFails, HookSucceeds
<1>2. CASE MainStep
  BY <1>2 DEF MainStep, Start, BeginShutdown, FailReadiness, Stop, StopReturns
<1>3. ASSUME NEW c \in Requests,
             \/ Rescan(c) \/ SendTrigger(c) \/ Admit(c) \/ EnterSnapshot(c)
             \/ Respond(c) \/ LeaveSnapshot(c)
      PROVE  /\ UNCHANGED <<current, generation>>
             /\ \A d \in Requests :
                  seen'[d] \in {seen[d], Unseen, [index |-> current, generation |-> generation]}
  BY <1>3 DEF Rescan, SendTrigger, Admit, EnterSnapshot, Respond, LeaveSnapshot
<1>4. CASE UNCHANGED rescannerVars
  BY <1>4 DEF rescannerVars
<1> QED BY <1>1, <1>2, <1>3, <1>4 DEF Next, OwnStep, HandlerStep

LEMMA GenerationStep ==
  ASSUME Control, GenerationNamesPaths, [Next]_rescannerVars
  PROVE  GenerationNamesPaths'
<1> DEFINE pair == [index |-> current, generation |-> generation]
           next == [index |-> current', generation |-> generation']
<1>0. \A v, w \in Captured \ {Unseen} :
        /\ v.generation = w.generation => v.index = w.index
        /\ v.generation <= generation
  BY DEF GenerationNamesPaths, Captured
<1>1. \A v \in Captured : v.generation \in Nat
  BY DEF Captured, Control, TypeOK, Views
<1>2. CASE Publish
  <2>1. Captured' \ {Unseen} \subseteq (Captured \ {Unseen}) \cup {next}
    BY <1>2 DEF Captured, Publish, requestVars
  <2>2. (next = pair /\ generation' = generation) \/ generation' = generation + 1
    BY <1>2 DEF Publish, SamePaths
  <2>3. CASE next = pair /\ generation' = generation
    <3>1. Captured' = Captured
      BY <1>2, <2>3 DEF Captured, Publish, requestVars
    <3> QED BY <1>0, <2>3, <3>1 DEF GenerationNamesPaths, Captured
  <2>4. CASE generation' = generation + 1
    <3>1. \A v \in Captured \ {Unseen} : v.generation <= generation /\ v.generation # generation'
      BY <1>0, <1>1, <2>4 DEF Control, TypeOK
    <3>2. \A v, w \in Captured' \ {Unseen} :
            /\ v.generation = w.generation => v.index = w.index
            /\ v.generation <= generation'
      BY <1>0, <1>1, <2>1, <2>4, <3>1 DEF Control, TypeOK
    <3> QED BY <3>2 DEF GenerationNamesPaths, Captured
  <2> QED BY <2>2, <2>3, <2>4
<1>3. CASE /\ UNCHANGED <<current, generation>>
           /\ \A c \in Requests : seen'[c] \in {seen[c], Unseen, pair}
  <2>1. Captured' \ {Unseen} \subseteq Captured \ {Unseen}
    BY <1>3 DEF Captured
  <2>2. \A v, w \in Captured' \ {Unseen} :
          /\ v.generation = w.generation => v.index = w.index
          /\ v.generation <= generation'
    BY <1>0, <1>3, <2>1
  <2> QED BY <2>2 DEF GenerationNamesPaths, Captured
<1> QED BY <1>2, <1>3, StepKinds

LEMMA SnapshotHeldStep ==
  ASSUME Control, SnapshotHeld, Next
  PROVE  SnapshotHeld'
<1> USE DEF Control, TypeOK, PublishLock, SnapshotHeld, status, mainVars, runVars, requestVars
<1>1. CASE Publish
  BY <1>1 DEF Publish, RunnerGoes
<1>2. CASE (Perform /\ ~Publish) \/ Tick \/ HookSucceeds
  BY <1>2 DEF Perform, TakeTrigger, Tick, Exit, ScanFinds, ScanFails, ScanCancelled,
     RecordScanError, Discard, Proceed, LockPublish, HookFails, HookSucceeds
<1>3. CASE MainStep
  BY <1>3 DEF MainStep, Start, BeginShutdown, FailReadiness, Stop, StopReturns
<1>4. ASSUME NEW c \in Requests,
             \/ Rescan(c) \/ SendTrigger(c) \/ Admit(c) \/ EnterSnapshot(c)
             \/ Respond(c) \/ LeaveSnapshot(c)
      PROVE  SnapshotHeld'
  BY <1>4 DEF Rescan, SendTrigger, Admit, EnterSnapshot, Respond, LeaveSnapshot
<1> QED BY <1>1, <1>2, <1>3, <1>4 DEF Next, OwnStep, HandlerStep

-----------------------------------------------------------------------------
(* The theorems.                                                            *)

LEMMA InitRInv == Init => RInv
<1> SUFFICES ASSUME Init PROVE RInv
  OBVIOUS
<1>1. Control
  BY InitControl
<1>2. OneClaim
  <2>1. Triggering = {} /\ Cardinality(Triggering) = 0
    BY TriggeringFacts DEF Init, Triggering
  <2>2. Claims = 0
    BY <2>1, ClaimsSplit DEF Init, Working
  <2> QED BY <2>2 DEF OneClaim, Init
<1>3. SnapshotHeld /\ GenerationNamesPaths
  BY DEF Init, SnapshotHeld, GenerationNamesPaths, Unseen
<1> QED BY <1>1, <1>2, <1>3 DEF RInv

LEMMA StepRInv == RInv /\ [Next]_rescannerVars => RInv'
<1> SUFFICES ASSUME RInv, [Next]_rescannerVars PROVE RInv'
  OBVIOUS
<1>1. GenerationNamesPaths'
  BY GenerationStep DEF RInv
<1>2. CASE Next
  <2>1. Control' /\ OneClaim'
    BY <1>2, RunnerControl, RequestControl, MainControl, RunnerClaim, RequestClaim, MainClaim
       DEF RInv, Next, OwnStep, HandlerStep
  <2> QED BY <1>1, <1>2, <2>1, SnapshotHeldStep DEF RInv
<1>3. CASE UNCHANGED rescannerVars
  BY <1>1, <1>3 DEF RInv, Control, TypeOK, Lifecycle, FoundPaths, PublishLock, Triggering, OneClaim,
     Claims, Busy, SnapshotHeld, rescannerVars, status, runVars, mainVars, requestVars
<1> QED BY <1>2, <1>3

(* The inductive invariant holds in every reachable state.                  *)
THEOREM RescannerInvariant == Spec => []RInv
BY InitRInv, StepRInv, PTL DEF Spec

(* Every announced scan has exactly one owner, over claims, triggers,       *)
(* ticks, errors and the shutdown.                                          *)
THEOREM ScansHaveOneOwner == Spec => []OneClaim
<1>1. RInv => OneClaim
  BY DEF RInv
<1> QED BY <1>1, RescannerInvariant, PTL

(* What requests captured at a generation is the path set of the generation.*)
THEOREM GenerationsIdentify == Spec => []GenerationNamesPaths
<1>1. RInv => GenerationNamesPaths
  BY DEF RInv
<1> QED BY <1>1, RescannerInvariant, PTL

(* Publication never happens inside WithSnapshot.                           *)
THEOREM SnapshotsAreHeld == Spec => []SnapshotHeld
<1>1. RInv => SnapshotHeld
  BY DEF RInv
<1> QED BY <1>1, RescannerInvariant, PTL

(* Scans, failed or not, do not make a ready library unavailable.           *)
THEOREM ReadinessLasts == Spec => StaysReady
<1>1. ASSUME RInv, [Next]_rescannerVars
      PROVE  ready /\ ~ready' => stopping
  <2> USE DEF RInv, Control, Lifecycle, FoundPaths, status, mainVars, runVars, requestVars
  <2>1. CASE Perform \/ Tick \/ HookSucceeds
    BY <1>1, <2>1 DEF Perform, TakeTrigger, Tick, Exit, ScanFinds, ScanFails, ScanCancelled,
       RecordScanError, Discard, Proceed, LockPublish, HookFails, HookSucceeds, Publish,
       ReadyAfterError
  <2>2. CASE MainStep
    BY <1>1, <2>2 DEF MainStep, MainGoes, Start, BeginShutdown, FailReadiness, Stop, StopReturns
  <2>3. ASSUME NEW c \in Requests,
               \/ Rescan(c) \/ SendTrigger(c) \/ Admit(c) \/ EnterSnapshot(c)
               \/ Respond(c) \/ LeaveSnapshot(c)
        PROVE  ready' = ready
    BY <2>3 DEF Rescan, SendTrigger, Admit, EnterSnapshot, Respond, LeaveSnapshot
  <2>4. CASE UNCHANGED rescannerVars
    BY <2>4 DEF rescannerVars
  <2> QED BY <1>1, <2>1, <2>2, <2>3, <2>4 DEF Next, OwnStep, HandlerStep
<1> QED BY <1>1, RescannerInvariant, PTL DEF Spec, StaysReady

(* After BeginShutdown has raised the flag nobody is admitted.              *)
THEOREM AdmissionEnds == Spec => NoneAdmittedAfterSignal
<1> DEFINE A == \A c \in Requests : pc[c] # "admitted" /\ pc'[c] = "admitted"
                  => main \in {"starting", "serving"}
<1>1. ASSUME RInv, [Next]_rescannerVars
      PROVE  A
  <2> USE DEF RInv, Control, TypeOK, Lifecycle, status, mainVars, runVars, requestVars
  <2>1. CASE Perform \/ Tick \/ HookSucceeds \/ MainStep
    BY <2>1 DEF Perform, TakeTrigger, Tick, Exit, ScanFinds, ScanFails, ScanCancelled,
       RecordScanError, Discard, Proceed, LockPublish, HookFails, HookSucceeds, Publish,
       MainStep, Start, BeginShutdown, FailReadiness, Stop, StopReturns
  <2>2. ASSUME NEW c \in Requests, Admit(c)
        PROVE  A
    BY <1>1, <2>2 DEF Admit, ViewReady
  <2>3. ASSUME NEW c \in Requests,
               \/ Rescan(c) \/ SendTrigger(c) \/ EnterSnapshot(c)
               \/ Respond(c) \/ LeaveSnapshot(c)
        PROVE  A
    BY <1>1, <2>3 DEF Rescan, SendTrigger, EnterSnapshot, Respond, LeaveSnapshot
  <2>4. CASE UNCHANGED rescannerVars
    BY <2>4 DEF rescannerVars
  <2> QED BY <1>1, <2>1, <2>2, <2>3, <2>4 DEF Next, OwnStep, HandlerStep
<1> QED BY <1>1, RescannerInvariant, PTL DEF Spec, NoneAdmittedAfterSignal

(* The Rescanner implements LibrarySnapshots.                               *)
THEOREM SnapshotsImplemented == Spec => ImplementsSnapshots
<1>1. Init => Snapshots!SnapshotsInit
  BY DEF Init, Snapshots!SnapshotsInit, Snapshots!NoIndex, NoIndex
<1>2. ASSUME RInv, [Next]_rescannerVars
      PROVE  [\E paths \in SUBSET Paths : Snapshots!Publish(paths)]_(Snapshots!libraryVars)
  <2>1. CASE Publish
    <3>1. scanned \in SUBSET Paths /\ scanned # NoIndex
      BY <1>2, <2>1, IndexFacts DEF RInv, Control, FoundPaths, Publish, RunnerGoes
    <3>2. Snapshots!Publish(scanned)
      BY <2>1, <3>1 DEF Publish, SamePaths, Snapshots!Publish
    <3> QED BY <3>1, <3>2
  <2>2. CASE UNCHANGED <<current, generation>>
    BY <2>2 DEF Snapshots!libraryVars
  <2> QED BY <1>2, <2>1, <2>2, StepKinds DEF RInv
<1> QED BY <1>1, <1>2, RescannerInvariant, PTL DEF Spec, ImplementsSnapshots, Snapshots!SnapshotsSpec
-----------------------------------------------------------------------------
(* The Rescanner and the tag store together.                                *)

(* Once the hook has committed, the Index about to be published is migrated.*)
Migrated(paths) == \A k \in Legacy : Relative[k] \in paths => files[k] = {}

Jobs == job \in [Requests -> {NoJob} \cup (Paths \X Tags)]

LInv ==
  /\ RInv
  /\ TagTypeOK
  /\ Jobs
  /\ BucketsAgree
  /\ OnlineIsMigrated
  /\ runner = "publish" => Migrated(scanned)

-----------------------------------------------------------------------------
(* A transaction of the tag store keeps the two buckets in agreement.       *)

LEMMA AddAgrees ==
  ASSUME TagTypeOK, BucketsAgree, NEW k \in Keys, NEW t \in Tags, AddTag(k, t)
  PROVE  TagTypeOK' /\ BucketsAgree'
BY DEF TagTypeOK, BucketsAgree, AddTag, MayAdd

LEMMA RemoveAgrees ==
  ASSUME TagTypeOK, BucketsAgree, NEW k \in Keys, NEW t \in Tags, RemoveTag(k, t)
  PROVE  TagTypeOK' /\ BucketsAgree'
BY DEF TagTypeOK, BucketsAgree, RemoveTag, Removed

LEMMA DeleteAgrees ==
  ASSUME TagTypeOK, BucketsAgree, NEW k \in Keys, NEW online, DeleteOrphan(k, online)
  PROVE  TagTypeOK' /\ BucketsAgree'
BY DEF TagTypeOK, BucketsAgree, DeleteOrphan, Removed

LEMMA MigrateAgrees ==
  ASSUME TagTypeOK, BucketsAgree, NEW known \in SUBSET Paths, Migrate(known)
  PROVE  TagTypeOK' /\ BucketsAgree'
<1>1. \A k \in Keys : Merged(k, known) \in SUBSET Tags
  BY TagStoreAssumption DEF TagTypeOK, Merged, Sources, Migrating, Keys
<1>2. \A k \in Migrating(known) : Sources(k, known) = {}
  BY TagStoreAssumption DEF Sources, Migrating
<1>3. \A k \in Migrating(known) : files[k] \subseteq Merged(Relative[k], known)
  BY DEF Merged, Sources
<1>4. \A k \in Keys, t \in Tags : listed[t][k] = (IF t \in files[k] THEN 1 ELSE 0)
  BY DEF BucketsAgree
<1>5. ASSUME NEW k \in Keys, NEW t \in Tags
      PROVE  Relisted(t, k, known) =
               IF k \notin Migrating(known) /\ t \in Merged(k, known) THEN 1 ELSE 0
  <2>1. CASE k \in Migrating(known)
    BY <1>2, <1>3, <1>4, <2>1 DEF Relisted, Removed
  <2>2. CASE k \notin Migrating(known) /\ Sources(k, known) = {}
    <3>1. Merged(k, known) = files[k]
      BY <2>2 DEF Merged
    <3> QED BY <1>4, <2>2, <3>1 DEF Relisted
  <2>3. CASE k \notin Migrating(known) /\ Sources(k, known) # {}
    <3>1. files[k] \subseteq Merged(k, known)
      BY DEF Merged
    <3> QED BY <1>4, <2>3, <3>1 DEF Relisted, Ensured
  <2> QED BY <2>1, <2>2, <2>3
<1>6. TagTypeOK'
  BY <1>1, <1>5 DEF Migrate, TagTypeOK
<1>7. ASSUME NEW k \in Keys, NEW t \in Tags
      PROVE  listed'[t][k] = IF t \in files'[k] THEN 1 ELSE 0
  BY <1>5 DEF Migrate
<1> QED BY <1>6, <1>7 DEF BucketsAgree

-----------------------------------------------------------------------------
(* Steps of Library.                                                        *)

(* What a step does to the Rescanner. *)
LEMMA RescannerSteps ==
  ASSUME LibraryNext
  PROVE  [Next]_rescannerVars \/ Crash
BY DEF LibraryNext, LibraryOwnStep, BeforePublish, HandleAddTag, FindTag, RemoveFoundTag,
   HandleOther, HandleDeleteGraveyard, Next, HandlerStep

(* A crash leads to an initial state of the Rescanner. *)
LEMMA CrashRInv ==
  ASSUME Crash
  PROVE  RInv'
<1>1. Init'
  BY DEF Crash, Init
<1>2. (Init => RInv)'
  BY InitRInv, PTL
<1> QED BY <1>1, <1>2

(* What a step does to the tags: nothing, or one transaction. *)
LEMMA TagSteps ==
  ASSUME RInv, Jobs, [LibraryNext]_vars
  PROVE  \/ UNCHANGED tagVars
         \/ \E k \in Paths, t \in Tags : AddTag(k, t) /\ UNCHANGED <<current, runner, scanned>>
         \/ /\ \E k \in Paths, t \in Tags, c \in Requests :
                 RemoveTag(k, t) /\ job[c] = <<k, t>> /\ job'[c] = NoJob
            /\ UNCHANGED <<current, runner, scanned>>
         \/ /\ \E k \in Keys, c \in Requests :
                 pc[c] = "inside" /\ pc'[c] = "idle" /\ DeleteOrphan(k, seen[c].index)
            /\ UNCHANGED <<current, runner, scanned>>
         \/ scanned \in SUBSET Paths /\ Migrate(scanned) /\ UNCHANGED <<current, scanned>>
<1> USE DEF status, runVars
<1>1. CASE LibraryOwnStep \/ Crash \/ UNCHANGED vars
  BY <1>1 DEF LibraryOwnStep, Crash, vars
<1>2. CASE BeforePublish
  BY <1>2 DEF BeforePublish, HookSucceeds, RunnerGoes, RInv, Control, FoundPaths
<1>3. ASSUME NEW c \in Requests, NEW k \in Paths, NEW t \in Tags,
             HandleAddTag(c, k, t) \/ FindTag(c, k, t)
      PROVE  (AddTag(k, t) /\ UNCHANGED <<current, runner, scanned>>) \/ UNCHANGED tagVars
  BY <1>3 DEF HandleAddTag, FindTag, Respond
<1>4. ASSUME NEW c \in Requests, RemoveFoundTag(c)
      PROVE  /\ \E k \in Paths, t \in Tags :
                  RemoveTag(k, t) /\ job[c] = <<k, t>> /\ job'[c] = NoJob
             /\ UNCHANGED <<current, runner, scanned>>
  <2>1. PICK k \in Paths, t \in Tags : job[c] = <<k, t>>
    BY <1>4 DEF RemoveFoundTag, Jobs
  <2>2. RemoveTag(k, t) /\ job'[c] = NoJob
    BY <1>4, <2>1 DEF RemoveFoundTag, Jobs
  <2> QED BY <1>4, <2>1, <2>2 DEF RemoveFoundTag, Respond
<1>5. ASSUME NEW c \in Requests, HandleOther(c)
      PROVE  UNCHANGED tagVars
  BY <1>5 DEF HandleOther
<1>6. ASSUME NEW c \in Requests, NEW k \in Keys, HandleDeleteGraveyard(c, k)
      PROVE  /\ pc[c] = "inside" /\ pc'[c] = "idle" /\ DeleteOrphan(k, seen[c].index)
             /\ UNCHANGED <<current, runner, scanned>>
  BY <1>6 DEF HandleDeleteGraveyard, LeaveSnapshot, RInv, Control, TypeOK
<1> QED BY <1>1, <1>2, <1>3, <1>4, <1>5, <1>6 DEF LibraryNext

LEMMA JobsStep ==
  ASSUME Jobs, [LibraryNext]_vars
  PROVE  Jobs'
<1> USE DEF Jobs
<1>1. CASE LibraryOwnStep \/ BeforePublish \/ Crash \/ UNCHANGED vars
  BY <1>1 DEF LibraryOwnStep, BeforePublish, Crash, vars
<1>2. ASSUME NEW c \in Requests, NEW k \in Paths, NEW t \in Tags,
             HandleAddTag(c, k, t) \/ FindTag(c, k, t)
      PROVE  Jobs'
  BY <1>2 DEF HandleAddTag, FindTag
<1>3. ASSUME NEW c \in Requests,
             RemoveFoundTag(c) \/ HandleOther(c) \/ \E k \in Keys : HandleDeleteGraveyard(c, k)
      PROVE  Jobs'
  BY <1>3 DEF RemoveFoundTag, HandleOther, HandleDeleteGraveyard
<1> QED BY <1>1, <1>2, <1>3 DEF LibraryNext

LEMMA BucketsStep ==
  ASSUME RInv, Jobs, TagTypeOK, BucketsAgree, [LibraryNext]_vars
  PROVE  TagTypeOK' /\ BucketsAgree'
<1>1. CASE UNCHANGED tagVars
  BY <1>1 DEF tagVars, TagTypeOK, BucketsAgree
<1>2. CASE \E k \in Paths, t \in Tags : AddTag(k, t) \/ RemoveTag(k, t)
  BY <1>2, AddAgrees, RemoveAgrees DEF Keys
<1>3. CASE \E k \in Keys, c \in Requests : DeleteOrphan(k, seen[c].index)
  BY <1>3, DeleteAgrees
<1>4. CASE scanned \in SUBSET Paths /\ Migrate(scanned)
  BY <1>4, MigrateAgrees
<1> QED BY <1>1, <1>2, <1>3, <1>4, TagSteps

-----------------------------------------------------------------------------
(* Migration.                                                               *)

(* No legacy path is the relative path of another. *)
LEMMA LegacyMerge ==
  ASSUME NEW k \in Legacy, NEW known
  PROVE  Sources(k, known) = {} /\ Merged(k, known) = files[k]
BY TagStoreAssumption DEF Sources, Migrating, Merged

(* What has been migrated stays so: tags are added to library paths only.   *)
LEMMA MigratedStays ==
  ASSUME RInv, Jobs, TagTypeOK, [LibraryNext]_vars, NEW k \in Legacy, files[k] = {}
  PROVE  files'[k] = {}
<1>0. k \in Keys /\ k \notin Paths
  BY TagStoreAssumption DEF Keys
<1>1. CASE UNCHANGED tagVars
  BY <1>1 DEF tagVars
<1>2. CASE \E p \in Paths, t \in Tags : AddTag(p, t) \/ RemoveTag(p, t)
  BY <1>0, <1>2 DEF AddTag, RemoveTag, TagTypeOK
<1>3. CASE \E p \in Keys, c \in Requests : DeleteOrphan(p, seen[c].index)
  BY <1>0, <1>3 DEF DeleteOrphan, TagTypeOK
<1>4. CASE Migrate(scanned)
  BY <1>0, <1>4, LegacyMerge DEF Migrate
<1> QED BY <1>1, <1>2, <1>3, <1>4, TagSteps

LEMMA MigratedStep ==
  ASSUME LInv, [LibraryNext]_vars
  PROVE  OnlineIsMigrated' /\ (runner = "publish" => Migrated(scanned))'
<1> USE DEF LInv
<1>0. \A k \in Legacy : files[k] = {} => files'[k] = {}
  BY MigratedStays
<1>1. CASE BeforePublish
  <2>1. current' = current /\ scanned' = scanned /\ Migrate(scanned)
    BY <1>1 DEF BeforePublish, HookSucceeds, status
  <2>2. ASSUME NEW k \in Legacy, Relative[k] \in scanned
        PROVE  files'[k] = {}
    <3>1. k \in Keys
      BY DEF Keys
    <3>2. CASE files[k] = {}
      BY <1>0, <3>2
    <3>3. CASE files[k] # {}
      BY <2>1, <2>2, <3>1, <3>3 DEF Migrate, Migrating
    <3> QED BY <3>2, <3>3
  <2> QED BY <1>0, <2>1, <2>2 DEF OnlineIsMigrated, Migrated
<1>2. CASE Crash
  BY <1>2 DEF Crash, OnlineIsMigrated
<1>3. CASE Publish
  BY <1>0, <1>3 DEF Publish, RunnerGoes, OnlineIsMigrated, Migrated
<1>4. CASE current' = current /\ (runner' = "publish" => runner = "publish" /\ scanned' = scanned)
  BY <1>0, <1>4 DEF OnlineIsMigrated, Migrated
<1>5. BeforePublish \/ Crash \/ Publish
      \/ (current' = current /\ (runner' = "publish" => runner = "publish" /\ scanned' = scanned))
  <2> USE DEF status, runVars, mainVars, requestVars
  <2>1. CASE LibraryOwnStep
    <3>1. CASE Perform \/ Tick
      BY <3>1 DEF Perform, TakeTrigger, Tick, Exit, ScanFinds, ScanFails, ScanCancelled,
         RecordScanError, Discard, Proceed, LockPublish, HookFails, RunnerGoes
    <3>2. CASE MainStep
      BY <3>2 DEF MainStep, Start, BeginShutdown, FailReadiness, Stop, StopReturns, RunnerGoes
    <3>3. CASE \E c \in Requests : Rescan(c) \/ SendTrigger(c) \/ Admit(c) \/ EnterSnapshot(c)
      BY <3>3 DEF Rescan, SendTrigger, Admit, EnterSnapshot
    <3> QED BY <2>1, <3>1, <3>2, <3>3 DEF LibraryOwnStep, OwnStep
  <2>2. CASE UNCHANGED vars
    BY <2>2 DEF vars, rescannerVars
  <2>3. ASSUME NEW c \in Requests,
               \/ \E k \in Paths, t \in Tags : HandleAddTag(c, k, t) \/ FindTag(c, k, t)
               \/ RemoveFoundTag(c) \/ HandleOther(c)
               \/ \E k \in Keys : HandleDeleteGraveyard(c, k)
        PROVE  UNCHANGED <<current, runner, scanned>>
    BY <2>3 DEF HandleAddTag, FindTag, RemoveFoundTag, HandleOther, HandleDeleteGraveyard,
       Respond, LeaveSnapshot, rescannerVars
  <2> QED BY <2>1, <2>2, <2>3 DEF LibraryNext
<1> QED BY <1>1, <1>2, <1>3, <1>4, <1>5

-----------------------------------------------------------------------------
(* The theorems.                                                            *)

LEMMA InitLInv == LibraryInit => LInv
<1> SUFFICES ASSUME LibraryInit PROVE LInv
  OBVIOUS
<1>1. RInv /\ current = NoIndex /\ runner = "none"
  BY InitRInv DEF LibraryInit, Init
<1>2. TagTypeOK /\ BucketsAgree
  BY DEF LibraryInit, TagInit, TagTypeOK, BucketsAgree
<1>3. Jobs
  BY DEF LibraryInit, Jobs
<1> QED BY <1>1, <1>2, <1>3 DEF LInv, OnlineIsMigrated

LEMMA StepLInv == LInv /\ [LibraryNext]_vars => LInv'
<1> SUFFICES ASSUME LInv, [LibraryNext]_vars PROVE LInv'
  OBVIOUS
<1>1. RInv'
  <2>1. CASE Crash
    BY <2>1, CrashRInv
  <2>2. CASE ~Crash
    BY <2>2, RescannerSteps, StepRInv DEF LInv, vars
  <2> QED BY <2>1, <2>2
<1>2. Jobs' /\ TagTypeOK' /\ BucketsAgree'
  BY JobsStep, BucketsStep DEF LInv
<1> QED BY <1>1, <1>2, MigratedStep DEF LInv

(* The inductive invariant holds in every reachable state.                  *)
THEOREM LibraryInvariant == LibrarySpec => []LInv
BY InitLInv, StepLInv, PTL DEF LibrarySpec

(* The two buckets of the tag store agree after every transaction.          *)
THEOREM BucketsAlwaysAgree == LibrarySpec => []BucketsAgree
<1>1. LInv => BucketsAgree
  BY DEF LInv
<1> QED BY <1>1, LibraryInvariant, PTL

(* No online file has tags under its old path, over failing hooks and       *)
(* crashes.                                                                 *)
THEOREM PublishedIsMigrated == LibrarySpec => []OnlineIsMigrated
<1>1. LInv => OnlineIsMigrated
  BY DEF LInv
<1> QED BY <1>1, LibraryInvariant, PTL

(* An online file loses a tag only to the request to remove this tag.       *)
THEOREM OnlineTagsAreSafe == LibrarySpec => OnlineKeepsTags
<1> DEFINE A == \A k \in Paths, t \in Tags :
                  k \in current /\ t \in files[k] \ files'[k]
                    => \E c \in Requests : job[c] = <<k, t>> /\ job'[c] = NoJob
<1>1. ASSUME LInv, [LibraryNext]_vars
      PROVE  A
  <2> SUFFICES ASSUME NEW k \in Paths, NEW t \in Tags, k \in current,
                      t \in files[k], t \notin files'[k]
               PROVE  \E c \in Requests : job[c] = <<k, t>> /\ job'[c] = NoJob
    OBVIOUS
  <2>0. k \in Keys /\ k \notin Legacy
    BY TagStoreAssumption DEF Keys
  <2>1. ~UNCHANGED tagVars
    BY DEF tagVars
  <2>2. ASSUME NEW p \in Paths, NEW u \in Tags, AddTag(p, u)
        PROVE  FALSE
    BY <1>1, <2>0, <2>2 DEF AddTag, LInv, TagTypeOK
  <2>3. ASSUME NEW p \in Paths, NEW u \in Tags, NEW c \in Requests,
               RemoveTag(p, u), job[c] = <<p, u>>, job'[c] = NoJob
        PROVE  job[c] = <<k, t>>
    BY <1>1, <2>0, <2>3 DEF RemoveTag, LInv, TagTypeOK
  <2>4. ASSUME NEW p \in Keys, NEW c \in Requests, pc[c] = "inside",
               DeleteOrphan(p, seen[c].index)
        PROVE  FALSE
    <3>1. seen[c].index = current
      BY <1>1, <2>4 DEF LInv, RInv, SnapshotHeld
    <3> QED BY <1>1, <2>0, <2>4, <3>1 DEF DeleteOrphan, LInv, TagTypeOK
  <2>5. ASSUME Migrate(scanned)
        PROVE  FALSE
    <3>1. k \notin Migrating(scanned)
      BY <2>0 DEF Migrating
    <3> QED BY <2>0, <2>5, <3>1 DEF Migrate, Merged
  <2> QED BY <1>1, <2>1, <2>2, <2>3, <2>4, <2>5, TagSteps DEF LInv
<1> QED BY <1>1, LibraryInvariant, PTL DEF LibrarySpec, OnlineKeepsTags

(* A legacy record is deleted by a user or merged into its relative path.   *)
THEOREM MigrationIsLossless == LibrarySpec => MigrationLosesNothing
<1> DEFINE A == \A k \in Legacy :
                  files[k] # files'[k] =>
                    \/ files[k] \cup files[Relative[k]] \subseteq files'[Relative[k]]
                    \/ \E c \in Requests : pc[c] = "inside" /\ pc'[c] = "idle"
<1>1. ASSUME LInv, [LibraryNext]_vars
      PROVE  A
  <2> SUFFICES ASSUME NEW k \in Legacy, files[k] # files'[k]
               PROVE  \/ files[k] \cup files[Relative[k]] \subseteq files'[Relative[k]]
                      \/ \E c \in Requests : pc[c] = "inside" /\ pc'[c] = "idle"
    OBVIOUS
  <2>0. k \in Keys /\ k \notin Paths /\ Relative[k] \in Keys /\ Relative[k] \notin Legacy
    BY TagStoreAssumption DEF Keys
  <2>1. ~UNCHANGED tagVars
    BY DEF tagVars
  <2>2. ASSUME NEW p \in Paths, NEW t \in Tags, AddTag(p, t) \/ RemoveTag(p, t)
        PROVE  FALSE
    BY <1>1, <2>0, <2>2 DEF AddTag, RemoveTag, LInv, TagTypeOK
  <2>3. ASSUME Migrate(scanned)
        PROVE  files[k] \cup files[Relative[k]] \subseteq files'[Relative[k]]
    <3>1. Merged(k, scanned) = files[k]
      BY LegacyMerge
    <3>2. k \in Migrating(scanned)
      BY <2>0, <2>3, <3>1 DEF Migrate
    <3>3. Relative[k] \notin Migrating(scanned)
      BY <2>0 DEF Migrating
    <3>4. files'[Relative[k]] = Merged(Relative[k], scanned)
      BY <2>0, <2>3, <3>3 DEF Migrate
    <3> QED BY <3>2, <3>4 DEF Merged, Sources
  <2> QED BY <1>1, <2>1, <2>2, <2>3, TagSteps DEF LInv
<1> QED BY <1>1, LibraryInvariant, PTL DEF LibrarySpec, MigrationLosesNothing

-----------------------------------------------------------------------------
(* The library as one relation of files and tags.                           *)

Pairs(f) == {p \in Keys \X Tags : p[2] \in f[p[1]]}

(* The relation read from the tags bucket is the one in the files bucket.   *)
LEMMA ListedPairs ==
  ASSUME BucketsAgree
  PROVE  {p \in Keys \X Tags : listed[p[2]][p[1]] > 0} = Pairs(files)
<1> SUFFICES ASSUME NEW p \in Keys \X Tags
             PROVE  listed[p[2]][p[1]] > 0 <=> p[2] \in files[p[1]]
  BY DEF Pairs
<1>1. p[1] \in Keys /\ p[2] \in Tags
  OBVIOUS
<1> QED BY <1>1 DEF BucketsAgree

LEMMA RenamedPairs ==
  ASSUME TagTypeOK, NEW known \in SUBSET Paths, Migrate(known)
  PROVE  Pairs(files') = {<<Promise!Renamed(p[1], known), p[2]>> : p \in Pairs(files)}
<1> DEFINE To(k) == Promise!Renamed(k, known)
<1> USE TagStoreAssumption DEF Keys
<1>1. ASSUME NEW k \in Keys, NEW t \in Tags, t \in files[k]
      PROVE  To(k) \in Keys /\ t \in files'[To(k)]
  <2>1. CASE k \in Legacy /\ Relative[k] \in known
    <3>1. To(k) = Relative[k] /\ Relative[k] \in Paths /\ Relative[k] \notin Migrating(known)
      BY <2>1 DEF Promise!Renamed, Migrating
    <3>2. k \in Sources(Relative[k], known)
      BY <1>1, <2>1 DEF Sources, Migrating
    <3>3. t \in Merged(Relative[k], known)
      BY <1>1, <3>2 DEF Merged
    <3> QED BY <3>1, <3>3 DEF Migrate
  <2>2. CASE ~(k \in Legacy /\ Relative[k] \in known)
    <3>1. To(k) = k
      BY <2>2 DEF Promise!Renamed
    <3>2. k \notin Migrating(known)
      BY <2>2 DEF Migrating
    <3> QED BY <1>1, <3>1, <3>2 DEF Migrate, Merged
  <2> QED BY <2>1, <2>2
<1>2. ASSUME NEW k \in Keys, NEW t \in Tags, t \in files'[k]
      PROVE  \E m \in Keys : t \in files[m] /\ To(m) = k
  <2>1. k \notin Migrating(known) /\ t \in Merged(k, known)
    BY <1>2 DEF Migrate
  <2>2. CASE t \in files[k]
    <3>1. To(k) = k
      BY <2>1, <2>2 DEF Promise!Renamed, Migrating
    <3> QED BY <2>2, <3>1
  <2>3. CASE \E m \in Sources(k, known) : t \in files[m]
    <3>1. PICK m \in Sources(k, known) : t \in files[m]
      BY <2>3
    <3>2. m \in Keys /\ To(m) = k
      BY <3>1 DEF Sources, Migrating, Promise!Renamed
    <3> QED BY <3>1, <3>2
  <2> QED BY <2>1, <2>2, <2>3 DEF Merged
<1>3. ASSUME NEW q \in Pairs(files')
      PROVE  \E p \in Pairs(files) : q = <<To(p[1]), p[2]>>
  <2>1. q = <<q[1], q[2]>> /\ q[1] \in Keys /\ q[2] \in Tags /\ q[2] \in files'[q[1]]
    BY <1>3 DEF Pairs
  <2>2. PICK m \in Keys : q[2] \in files[m] /\ To(m) = q[1]
    BY <1>2, <2>1
  <2>3. <<m, q[2]>> \in Pairs(files)
    BY <2>1, <2>2 DEF Pairs
  <2> QED BY <2>1, <2>2, <2>3
<1>4. ASSUME NEW p \in Pairs(files)
      PROVE  <<To(p[1]), p[2]>> \in Pairs(files')
  <2>1. p[1] \in Keys /\ p[2] \in Tags /\ p[2] \in files[p[1]]
    BY <1>4 DEF Pairs
  <2> QED BY <1>1, <2>1 DEF Pairs
<1> QED BY <1>3, <1>4

(* The files clients are shown change with a publication and at a restart,  *)
(* neither of which touches a tag.                                          *)
LEMMA OnlineSteps ==
  ASSUME LInv, [LibraryNext]_vars
  PROVE  \/ current' = current
         \/ scanned \in SUBSET Paths /\ Migrated(scanned) /\ current' = scanned
            /\ UNCHANGED tagVars
         \/ current' = NoIndex /\ UNCHANGED tagVars
<1> USE DEF LInv
<1>1. UNCHANGED tagVars \/ current' = current
  BY TagSteps
<1>2. CASE Crash
  BY <1>2 DEF Crash
<1>3. CASE [Next]_rescannerVars
  <2>1. CASE Publish
    BY <1>1, <2>1 DEF Publish, RunnerGoes, RInv, Control, FoundPaths
  <2> QED BY <1>3, <2>1, StepKinds DEF RInv
<1> QED BY <1>2, <1>3, RescannerSteps DEF vars

(* The library implements TaggedFiles: whatever interleaving of scans,      *)
(* handlers, crashes and transactions, its users see one relation.          *)
THEOREM LibraryImplemented == LibrarySpec => ImplementsTaggedFiles
<1>1. ASSUME LInv, LibraryInit
      PROVE  Promise!Init
  <2>1. current = NoIndex
    BY <1>1 DEF LibraryInit, Init
  <2> QED BY <2>1 DEF Promise!Init, Promise!Records, Keys
<1>2. ASSUME LInv, LInv', [LibraryNext]_vars
      PROVE  [Promise!Next]_(Promise!vars)
  <2> DEFINE Online == IF current = NoIndex THEN {} ELSE current
             Tagged == {p \in Keys \X Tags : listed[p[2]][p[1]] > 0}
  <2>1. Tagged = Pairs(files) /\ Tagged' = Pairs(files')
    <3>1. (BucketsAgree => Tagged = Pairs(files))'
      BY ListedPairs, PTL
    <3> QED BY <1>2, <3>1, ListedPairs DEF LInv, Pairs
  <2>2. TagTypeOK
    BY <1>2 DEF LInv
  <2>3. CASE UNCHANGED tagVars
    <3>1. Tagged' = Tagged
      BY <2>3 DEF tagVars
    <3>2. CASE current' = current
      BY <3>1, <3>2 DEF Promise!vars
    <3>3. CASE scanned \in SUBSET Paths /\ Migrated(scanned) /\ current' = scanned
      <4>1. ASSUME NEW k \in Legacy, Relative[k] \in scanned
            PROVE  Promise!TagsOf(k) = {}
        <5>1. \A t \in Tags : <<k, t>> \notin Pairs(files)
          BY <3>3, <4>1 DEF Migrated, Pairs
        <5> QED BY <2>1, <5>1 DEF Promise!TagsOf
      <4>2. Online' = scanned
        BY <3>3, IndexFacts
      <4>3. Promise!Publish(scanned)
        BY <3>1, <4>1, <4>2 DEF Promise!Publish
      <4> QED BY <3>3, <4>3 DEF Promise!Next
    <3>4. CASE current' = NoIndex
      <4>1. Promise!Restart
        BY <3>1, <3>4 DEF Promise!Restart
      <4> QED BY <4>1 DEF Promise!Next
    <3> QED BY <1>2, <3>2, <3>3, <3>4, OnlineSteps
  <2>4. ASSUME NEW k \in Paths, NEW t \in Tags, AddTag(k, t), current' = current
        PROVE  Promise!Next
    <3>1. Pairs(files') = Pairs(files) \cup {<<k, t>>}
      BY <2>2, <2>4 DEF AddTag, TagTypeOK, Pairs, Keys
    <3>2. Promise!Add(k, t)
      BY <2>1, <2>4, <3>1 DEF Promise!Add
    <3> QED BY <3>2 DEF Promise!Next
  <2>5. ASSUME NEW k \in Paths, NEW t \in Tags, RemoveTag(k, t), current' = current
        PROVE  Promise!Next
    <3>1. Pairs(files') = Pairs(files) \ {<<k, t>>}
      BY <2>2, <2>5 DEF RemoveTag, TagTypeOK, Pairs, Keys
    <3>2. Promise!Remove(k, t)
      BY <2>1, <2>5, <3>1 DEF Promise!Remove
    <3> QED BY <3>2 DEF Promise!Next
  <2>6. ASSUME NEW k \in Keys, NEW c \in Requests, pc[c] = "inside",
               DeleteOrphan(k, seen[c].index), current' = current
        PROVE  Promise!Next
    <3>1. Pairs(files') = {p \in Pairs(files) : p[1] # k}
      BY <2>2, <2>6 DEF DeleteOrphan, TagTypeOK, Pairs
    <3>2. k \notin current
      BY <1>2, <2>6 DEF DeleteOrphan, LInv, RInv, SnapshotHeld
    <3>3. Promise!Forget(k)
      BY <2>1, <2>6, <3>1, <3>2 DEF Promise!Forget
    <3> QED BY <3>3 DEF Promise!Next, Promise!Records, Keys
  <2>7. ASSUME scanned \in SUBSET Paths, Migrate(scanned), current' = current
        PROVE  Promise!Next
    <3>1. PICK known \in SUBSET Paths : known = scanned
      BY <2>7
    <3>2. Migrate(known)
      BY <2>7, <3>1
    <3>3. Promise!Rename(known)
      BY <2>1, <2>2, <2>7, <3>2, RenamedPairs DEF Promise!Rename
    <3> QED BY <3>3 DEF Promise!Next
  <2> QED BY <1>2, <2>3, <2>4, <2>5, <2>6, <2>7, TagSteps DEF LInv
<1> QED BY <1>1, <1>2, LibraryInvariant, PTL DEF LibrarySpec, ImplementsTaggedFiles, Promise!Spec
=============================================================================
