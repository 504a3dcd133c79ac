----------------------------- MODULE Rescanner ------------------------------
(***************************************************************************)
(* internal/index/rescan.go: the owner of the published library snapshot.  *)
(* One goroutine (run) scans the music directory, on start, on a timer or  *)
(* because a request called Rescan, and publishes what it found; HTTP      *)
(* requests read the snapshot, ask for scans and hold publication off with *)
(* WithSnapshot; main starts it and shuts it down.  Three locks: statusMu  *)
(* guards the status and the pointer for single steps, publishMu is held   *)
(* by the publisher over the tag migration hook and shared by              *)
(* WithSnapshot, lifecycleMu orders Start and Stop.                        *)
(*                                                                         *)
(* An Index is its set of paths: ScanContext walks in lexical order, so    *)
(* the set determines the slice.  The disk is whatever a scan finds.  The  *)
(* texts of scanError and the time of lastScan only go to the status page  *)
(* and are left out.                                                       *)
(***************************************************************************)
EXTENDS Naturals, FiniteSets, LibraryPaths

CONSTANTS
  Requests,       \* HTTP request goroutines
  MaxGeneration   \* bound: the path set changes at most this often

ASSUME RescannerAssumption ==
  /\ IsFiniteSet(Requests)
  /\ MaxGeneration \in Nat

VARIABLES
  state,        \* status.State
  ready,        \* status.LibraryReady
  generation,   \* status.Generation
  current,      \* the published Index
  trigger,      \* the one-place trigger channel is full
  runner,       \* where the goroutine of run stands
  scanned,      \* the Index the running performScan has found
  readers,      \* requests inside WithSnapshot
  stopping,     \* the atomic flag
  cancelled,    \* the context of run is cancelled
  main,         \* where main stands in its start and shutdown sequence
  pc,           \* where each request stands
  seen          \* the pair (Index, generation) each request works with

status == <<state, ready, generation, current>>
runVars == <<trigger, runner, scanned>>
mainVars == <<stopping, cancelled, main>>
requestVars == <<readers, pc, seen>>
rescannerVars == <<status, runVars, mainVars, requestVars>>

States == {"initializing", "scanning", "idle", "error"}

Runners ==
  {"none",      \* run has not been started
   "select",    \* waiting for a trigger, a tick or cancellation
   "scan",      \* in performScan, walking the tree
   "failed",    \* the walk failed and the context was alive: recordScanError is next
   "found",     \* the walk succeeded
   "locking",   \* not stopping: in publishMu.Lock, waiting for the readers inside
   "hook",      \* holding publishMu, in beforePublish
   "publish",   \* holding publishMu, the hook has committed
   "exited"}    \* done is closed

Mains == {"starting", "serving", "signalled", "draining", "stopping", "stopped"}

PCs == {"idle",
        "trigger",    \* Rescan has set the state and unlocked, the send is next
        "admitted",   \* past withLibraryReady
        "inside"}     \* inside WithSnapshot, holding publishMu for reading

Views == [index : Indexes, generation : Nat]

Unseen == [index |-> NoIndex, generation |-> 0]

TypeOK ==
  /\ state \in States
  /\ ready \in BOOLEAN
  /\ generation \in Nat
  /\ current \in Indexes
  /\ trigger \in BOOLEAN
  /\ runner \in Runners
  /\ scanned \in Indexes
  /\ readers \in SUBSET Requests
  /\ stopping \in BOOLEAN
  /\ cancelled \in BOOLEAN
  /\ main \in Mains
  /\ pc \in [Requests -> PCs]
  /\ seen \in [Requests -> Views]

(* NewRescanner(cfg, nil, hook), as main calls it.                          *)
Init ==
  /\ state = "initializing"
  /\ ready = FALSE
  /\ generation = 0
  /\ current = NoIndex
  /\ trigger = FALSE
  /\ runner = "none"
  /\ scanned = NoIndex
  /\ readers = {}
  /\ stopping = FALSE
  /\ cancelled = FALSE
  /\ main = "starting"
  /\ pc = [c \in Requests |-> "idle"]
  /\ seen = [c \in Requests |-> Unseen]

-----------------------------------------------------------------------------
(* The goroutine of run.                                                    *)

Busy == state \in {"initializing", "scanning"}

(* What beginScan and Rescan write.                                         *)
ClaimScan == state' = IF current = NoIndex THEN "initializing" ELSE "scanning"

RunnerGoes(from, to) == runner = from /\ runner' = to

TakeTrigger ==
  /\ RunnerGoes("select", "scan")
  /\ trigger
  /\ trigger' = FALSE
  /\ UNCHANGED <<status, scanned, mainVars, requestVars>>

(* A tick scans only when there is a snapshot and no scan is claimed.       *)
Tick ==
  /\ RunnerGoes("select", "scan")
  /\ current # NoIndex
  /\ ~Busy
  /\ ClaimScan
  /\ UNCHANGED <<ready, generation, current, trigger, scanned, mainVars, requestVars>>

Exit ==
  /\ RunnerGoes("select", "exited")
  /\ cancelled
  /\ UNCHANGED <<status, trigger, scanned, mainVars, requestVars>>

(* ScanContext returns the complete tree, an error, or, cancelled, nothing. *)
ScanFinds(paths) ==
  /\ RunnerGoes("scan", "found")
  /\ paths = current \/ generation < MaxGeneration
  /\ scanned' = paths
  /\ UNCHANGED <<status, trigger, mainVars, requestVars>>

ScanFails ==
  /\ RunnerGoes("scan", "failed")
  /\ ~cancelled
  /\ UNCHANGED <<status, trigger, scanned, mainVars, requestVars>>

ScanCancelled ==
  /\ RunnerGoes("scan", "select")
  /\ cancelled
  /\ UNCHANGED <<status, trigger, scanned, mainVars, requestVars>>

(* Mutation: a failed scan makes the library unavailable.                   *)
ReadyAfterErrorNever == FALSE

ReadyAfterError == current # NoIndex

RecordScanError ==
  /\ RunnerGoes("failed", "select")
  /\ state' = "error"
  /\ ready' = ReadyAfterError
  /\ UNCHANGED <<generation, current, trigger, scanned, mainVars, requestVars>>

Discard ==
  /\ RunnerGoes("found", "select")
  /\ stopping \/ cancelled
  /\ scanned' = NoIndex
  /\ UNCHANGED <<status, trigger, mainVars, requestVars>>

Proceed ==
  /\ RunnerGoes("found", "locking")
  /\ ~stopping
  /\ ~cancelled
  /\ UNCHANGED <<status, trigger, scanned, mainVars, requestVars>>

(* Mutation: publication does not wait for the readers of WithSnapshot.     *)
LockPublishAtOnce ==
  /\ RunnerGoes("locking", "hook")
  /\ UNCHANGED <<status, trigger, scanned, mainVars, requestVars>>

LockPublish ==
  /\ RunnerGoes("locking", "hook")
  /\ readers = {}
  /\ UNCHANGED <<status, trigger, scanned, mainVars, requestVars>>

(* Mutation: a failing hook only gives the lock back.                       *)
HookFailsSilently ==
  /\ RunnerGoes("hook", "select")
  /\ scanned' = NoIndex
  /\ UNCHANGED <<status, trigger, mainVars, requestVars>>

HookFails ==
  /\ RunnerGoes("hook", "select")
  /\ state' = "error"
  /\ ready' = ReadyAfterError
  /\ scanned' = NoIndex
  /\ UNCHANGED <<generation, current, trigger, mainVars, requestVars>>

HookSucceeds ==
  /\ RunnerGoes("hook", "publish")
  /\ UNCHANGED <<status, trigger, scanned, mainVars, requestVars>>

(* Mutation: only the numbers of files are compared.                        *)
SamePathsByCount(a, b) == Cardinality(a) = Cardinality(b)

SamePaths(a, b) == a = b

(* The status, the pointer and the generation change under one statusMu.    *)
Publish ==
  /\ RunnerGoes("publish", "select")
  /\ current' = scanned
  /\ state' = "idle"
  /\ ready' = TRUE
  /\ generation' = IF current # NoIndex /\ SamePaths(current, scanned)
                   THEN generation ELSE generation + 1
  /\ scanned' = NoIndex
  /\ UNCHANGED <<trigger, mainVars, requestVars>>

Perform ==
  \/ TakeTrigger \/ Exit
  \/ \E paths \in SUBSET Paths : ScanFinds(paths)
  \/ ScanFails \/ ScanCancelled \/ RecordScanError
  \/ Discard \/ Proceed \/ LockPublish \/ HookFails \/ Publish

-----------------------------------------------------------------------------
(* Requests.                                                                *)

(* Mutation: Rescan only refuses during the first scan.                     *)
MayRescanWhileScanning == state # "initializing"

MayRescan == ~Busy

(* Rescan: claim the scan under statusMu, send the trigger after unlocking. *)
Rescan(c) ==
  /\ pc[c] = "idle"
  /\ MayRescan
  /\ ClaimScan
  /\ pc' = [pc EXCEPT ![c] = "trigger"]
  /\ UNCHANGED <<ready, generation, current, runVars, mainVars, readers, seen>>

(* A full channel takes the default branch and changes nothing.             *)
SendTrigger(c) ==
  /\ pc[c] = "trigger"
  /\ trigger' = TRUE
  /\ pc' = [pc EXCEPT ![c] = "idle"]
  /\ UNCHANGED <<status, runner, scanned, mainVars, readers, seen>>

(* Mutation: View does not look at stopping.                                *)
ViewReadyUnmasked == ready

ViewReady == ready /\ ~stopping

(* withLibraryReady: one View, kept for the whole request.                  *)
Admit(c) ==
  /\ pc[c] = "idle"
  /\ ViewReady
  /\ current # NoIndex
  /\ pc' = [pc EXCEPT ![c] = "admitted"]
  /\ seen' = [seen EXCEPT ![c] = [index |-> current, generation |-> generation]]
  /\ UNCHANGED <<status, runVars, mainVars, readers>>

Respond(c) ==
  /\ pc[c] = "admitted"
  /\ pc' = [pc EXCEPT ![c] = "idle"]
  /\ seen' = [seen EXCEPT ![c] = Unseen]
  /\ UNCHANGED <<status, runVars, mainVars, readers>>

(* WithSnapshot: publishMu for reading, which sync.RWMutex refuses while a  *)
(* writer holds it or waits for it, then the pair as it is now.             *)
EnterSnapshot(c) ==
  /\ pc[c] = "admitted"
  /\ runner \notin {"locking", "hook", "publish"}
  /\ readers' = readers \cup {c}
  /\ pc' = [pc EXCEPT ![c] = "inside"]
  /\ seen' = [seen EXCEPT ![c] = [index |-> current, generation |-> generation]]
  /\ UNCHANGED <<status, runVars, mainVars>>

LeaveSnapshot(c) ==
  /\ pc[c] = "inside"
  /\ readers' = readers \ {c}
  /\ pc' = [pc EXCEPT ![c] = "idle"]
  /\ seen' = [seen EXCEPT ![c] = Unseen]
  /\ UNCHANGED <<status, runVars, mainVars>>

-----------------------------------------------------------------------------
(* main: start, then the shutdown sequence.                                 *)

MainGoes(from, to) == main = from /\ main' = to

(* Start: run begins with a scan, for there is no snapshot yet.             *)
Start ==
  /\ MainGoes("starting", "serving")
  /\ RunnerGoes("none", "scan")
  /\ UNCHANGED <<status, trigger, scanned, stopping, cancelled, requestVars>>

(* BeginShutdown: the flag without a lock, then the status.                 *)
BeginShutdown ==
  /\ MainGoes("serving", "signalled")
  /\ stopping' = TRUE
  /\ UNCHANGED <<status, runVars, cancelled, requestVars>>

FailReadiness ==
  /\ MainGoes("signalled", "draining")
  /\ ready' = FALSE
  /\ UNCHANGED <<state, generation, current, runVars, stopping, cancelled, requestVars>>

(* Mutation: Stop waits without cancelling.                                 *)
StopWithoutCancel ==
  /\ MainGoes("draining", "stopping")
  /\ stopping' = TRUE
  /\ UNCHANGED <<status, runVars, cancelled, requestVars>>

(* srv.Shutdown has returned, perhaps at its deadline; Stop cancels the run *)
(* and waits for it.                                                        *)
Stop ==
  /\ MainGoes("draining", "stopping")
  /\ stopping' = TRUE
  /\ cancelled' = TRUE
  /\ UNCHANGED <<status, runVars, requestVars>>

StopReturns ==
  /\ MainGoes("stopping", "stopped")
  /\ runner = "exited"
  /\ UNCHANGED <<status, runVars, stopping, cancelled, requestVars>>

MainStep == Start \/ BeginShutdown \/ FailReadiness \/ Stop \/ StopReturns

(* Everything except the steps that belong to a handler or to the hook.     *)
OwnStep ==
  \/ Perform \/ Tick \/ MainStep
  \/ \E c \in Requests : Rescan(c) \/ SendTrigger(c) \/ Admit(c) \/ EnterSnapshot(c)

HandlerStep == \E c \in Requests : Respond(c) \/ LeaveSnapshot(c)

Next == OwnStep \/ HookSucceeds \/ HandlerStep

Spec == Init /\ [][Next]_rescannerVars

(* The walk and the hook end, every goroutine makes progress, and main goes *)
(* on once signalled, at its 30 second deadline at the latest.  Nothing     *)
(* makes a tick, a request or the signal happen.                            *)
LiveSpec ==
  /\ Spec
  /\ WF_rescannerVars(Perform \/ HookSucceeds)
  /\ \A c \in Requests :
       WF_rescannerVars(SendTrigger(c)) /\ WF_rescannerVars(LeaveSnapshot(c))
  /\ WF_rescannerVars(Start \/ FailReadiness \/ Stop \/ StopReturns)
-----------------------------------------------------------------------------
(* Properties.                                                              *)

Working == {"scan", "failed", "found", "locking", "hook", "publish"}

(* Who is responsible for the scan that the status announces.               *)
Claims ==
  Cardinality({c \in Requests : pc[c] = "trigger"})
    + (IF trigger THEN 1 ELSE 0) + (IF runner \in Working THEN 1 ELSE 0)

(* The status "initializing" or "scanning" is a claim with exactly one      *)
(* owner: the running scan, the full trigger channel, or the request that   *)
(* is about to fill it.  So two scans never overlap, an accepted Rescan     *)
(* never meets a full channel, and no error path leaves the status          *)
(* "scanning" behind, which would refuse every later Rescan and tick.       *)
OneClaim ==
  /\ Claims <= 1
  /\ Claims = 1 => Busy
  /\ Busy /\ ~stopping /\ main # "starting" => Claims = 1

(* A generation names one path set: whatever requests captured and however  *)
(* long ago, equal generations mean equal paths, and none is ahead of the   *)
(* status.  Play queues share snapshots by generation and depend on it.     *)
GenerationNamesPaths ==
  LET captured == {seen[c] : c \in Requests} \cup {[index |-> current, generation |-> generation]}
  IN  \A v, w \in captured \ {Unseen} :
        /\ v.generation = w.generation => v.index = w.index
        /\ v.generation <= generation

(* WithSnapshot's promise: while fn runs, the pair it was given is the      *)
(* published one.                                                           *)
SnapshotHeld ==
  \A c \in Requests :
    pc[c] = "inside" => seen[c] = [index |-> current, generation |-> generation]

(* Failed and cancelled scans cost nothing: once the library is ready it    *)
(* stays ready until the shutdown, whatever the scans do.                   *)
StaysReady == [][ready /\ ~ready' => stopping]_rescannerVars

(* From the moment BeginShutdown has raised the flag no request is admitted *)
(* any more, also when a publication that had passed the stopping check     *)
(* sets LibraryReady again behind BeginShutdown's back.                     *)
NoneAdmittedAfterSignal ==
  [][\A c \in Requests : pc[c] # "admitted" /\ pc'[c] = "admitted"
       => main \in {"starting", "serving"}]_rescannerVars

(* Every announced scan ends, in a publication or an error, unless the      *)
(* server shuts down.                                                       *)
ScanEnds == Busy /\ main # "starting" ~> (~Busy \/ stopping)

(* A signalled server stops: Stop never waits for ever for the run, which   *)
(* may be in a scan, in the hook or waiting for publishMu.                  *)
StopEnds == main = "signalled" ~> main = "stopped"

(* Clients may rely on the pair alone: it implements LibrarySnapshots, over *)
(* errors, discarded scans and the shutdown.                                *)
Snapshots == INSTANCE LibrarySnapshots

ImplementsSnapshots == Snapshots!SnapshotsSpec
=============================================================================
