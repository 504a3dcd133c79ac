------------------------------ MODULE Transcode ------------------------------
(***************************************************************************)
(* internal/stream/transcode.go and handleStream: one ffmpeg per listener, *)
(* copied to the response.  A request is three concurrent parties: its     *)
(* handler, which waits for a lane, copies and reaps; a watcher goroutine, *)
(* which ends a process that has not got a first byte out in time; and the *)
(* process.  Around them a client hangs up or stops reading, the startup   *)
(* deadline passes and the manager shuts down.                             *)
(*                                                                         *)
(* The manager is taken by its promise, MediaLanes, which MediaManager     *)
(* implements.  A request is served once; a client that wants more sends   *)
(* another.  What the handler kept of it goes when it has answered.  HEAD  *)
(* and native files start no process and are left out.                     *)
(***************************************************************************)
EXTENDS Naturals, FiniteSets

CONSTANTS
  Requests,
  Places,       \* the size of the transcode lane
  MaxOutput     \* bound: pieces of output a process may write

ASSUME TranscodeAssumption ==
  /\ IsFiniteSet(Requests)
  /\ Places \in Nat \ {0}
  /\ MaxOutput \in Nat

VARIABLES
  waiting, holding, lane, open,   \* the manager's side, see MediaLanes
  pc,          \* where the handler of each request stands
  ctxDone,     \* requests whose own context has ended
  killed,      \* requests whose task context Shutdown cancelled
  cancelled,   \* requests for which cancelProcess has been called
  process,     \* the ffmpeg of each request
  output,      \* pieces it has written so far
  pipe,        \* requests with output in the pipe
  stalled,     \* clients that have stopped reading
  late,        \* requests whose startup deadline has passed
  watcher,     \* the watcher goroutine of each request
  timedOut,    \* startupTimedOut
  committed,   \* committed: a Write returned a positive count
  firstWrite,  \* requests whose firstWrite channel is closed
  copyErr,
  sent,        \* commitTrackingWriter.committed
  answer       \* what the client got: "ended" is a response without an error status

manager == <<waiting, holding, lane, open>>
events  == <<ctxDone, killed, stalled, late>>
media   == <<process, output, pipe>>
startup == <<watcher, timedOut, firstWrite>>
reply   == <<committed, copyErr, sent>>

vars == <<manager, pc, events, cancelled, media, startup, reply, answer>>

Manager == INSTANCE MediaLanes WITH
  Callers <- Requests, Lanes <- {"transcode"}, LaneSize <- [l \in {"transcode"} |-> Places]

Init ==
  /\ Manager!Init
  /\ pc = [r \in Requests |-> "new"]
  /\ ctxDone = {} /\ killed = {} /\ stalled = {} /\ late = {}
  /\ cancelled = {}
  /\ process = [r \in Requests |-> "none"]
  /\ output = [r \in Requests |-> 0]
  /\ pipe = {}
  /\ watcher = [r \in Requests |-> "none"]
  /\ timedOut = {} /\ firstWrite = {}
  /\ committed = {} /\ sent = {}
  /\ copyErr = [r \in Requests |-> "nil"]
  /\ answer = [r \in Requests |-> "none"]

At(r, here) == pc[r] = here

Go(r, there) == pc' = [pc EXCEPT ![r] = there]

(* processCtx: a child of the task's context and of the request's.          *)
ProcessContextDone(r) == r \in ctxDone \cup killed \cup cancelled

Dead(r) == process[r] \in {"ok", "failed", "killed"}

(* handleStream: an error that is not a cancellation is answered unless the *)
(* response has begun; otherwise the response just ends.                    *)
AnswerTo(r, e) ==
  IF e \in {"nil", "canceled"} \/ r \in sent THEN "ended"
  ELSE IF e = "busy" THEN "503" ELSE IF e = "timeout" THEN "504" ELSE "500"

(* TranscodeAtWithConfig returns e and handleStream answers; the request's  *)
(* contexts go with it.                                                     *)
Returns(r, e) ==
  /\ answer' = [answer EXCEPT ![r] = AnswerTo(r, e)]
  /\ Go(r, "done")
  /\ ctxDone' = ctxDone \ {r}
  /\ killed' = killed \ {r}
  /\ stalled' = stalled \ {r}
  /\ late' = late \ {r}

BeforeProcess == UNCHANGED <<cancelled, media, startup, reply>>

-----------------------------------------------------------------------------
(* Waiting for the lane.                                                    *)

Enter(r) ==
  /\ At(r, "new") /\ r \notin ctxDone
  /\ Manager!Enter(r, "transcode")
  /\ Go(r, "launch")
  /\ UNCHANGED <<events, answer>> /\ BeforeProcess

Wait(r) ==
  /\ At(r, "new") /\ r \notin ctxDone
  /\ Manager!Wait(r, "transcode")
  /\ Go(r, "wait")
  /\ UNCHANGED <<events, answer>> /\ BeforeProcess

(* The context has ended, the manager is closing, or the queue is full.     *)
Refused(r) ==
  /\ At(r, "new")
  /\ \E e \in {"canceled", "shutdown", "busy"} :
       /\ e = "canceled" => r \in ctxDone
       /\ e = "shutdown" => ~open
       /\ e = "busy" => open /\ ~Manager!Room("transcode")
       /\ Returns(r, e)
  /\ UNCHANGED manager /\ BeforeProcess

Admit(r) ==
  /\ Manager!Admit(r)
  /\ UNCHANGED <<pc, events, answer>> /\ BeforeProcess

Admitted(r) ==
  /\ At(r, "wait") /\ r \in holding
  /\ Go(r, "launch")
  /\ UNCHANGED <<manager, events, answer>> /\ BeforeProcess

(* The wait ends by the request's context, by the timer or by Shutdown; a   *)
(* place granted meanwhile is given back.                                   *)
StopsWaiting(r) ==
  /\ At(r, "wait")
  /\ \E e \in {"canceled", "busy", "shutdown"} :
       /\ e = "canceled" => r \in ctxDone
       /\ e = "shutdown" => r \notin waiting \cup holding
       /\ Returns(r, e)
  /\ \/ Manager!Withdraw(r)
     \/ Manager!Release(r)
     \/ r \notin waiting \cup holding /\ UNCHANGED manager
  /\ BeforeProcess

-----------------------------------------------------------------------------
(* The process and its watcher.                                             *)

(* cmd.Start: process, timer and watcher start together.                    *)
Launch(r) ==
  /\ At(r, "launch") /\ ~ProcessContextDone(r)
  /\ process' = [process EXCEPT ![r] = "running"]
  /\ watcher' = [watcher EXCEPT ![r] = "watching"]
  /\ Go(r, "read")
  /\ UNCHANGED <<manager, events, cancelled, output, pipe, timedOut, firstWrite, reply, answer>>

(* No pipe, no ffmpeg, or a context that has ended already; the deferred    *)
(* Done gives the lane back.                                                *)
LaunchFails(r) ==
  /\ At(r, "launch")
  /\ Returns(r, IF ProcessContextDone(r) THEN "canceled" ELSE "failed")
  /\ Manager!Release(r)
  /\ BeforeProcess

ProcessWrites(r) ==
  /\ process[r] = "running" /\ r \notin pipe /\ output[r] < MaxOutput
  /\ output' = [output EXCEPT ![r] = @ + 1]
  /\ pipe' = pipe \cup {r}
  /\ UNCHANGED <<manager, pc, events, cancelled, process, startup, reply, answer>>

ProcessExits(r) ==
  /\ process[r] = "running"
  /\ \E how \in {"ok", "failed"} : process' = [process EXCEPT ![r] = how]
  /\ UNCHANGED <<manager, pc, events, cancelled, output, pipe, startup, reply, answer>>

(* exec.CommandContext kills the process when its context ends.             *)
ProcessKilled(r) ==
  /\ process[r] = "running" /\ ProcessContextDone(r)
  /\ process' = [process EXCEPT ![r] = "killed"]
  /\ UNCHANGED <<manager, pc, events, cancelled, output, pipe, startup, reply, answer>>

(* Mutation: the watcher notes the timeout and leaves the process alone.    *)
CancelledByWatcherNot(r) == cancelled

CancelledByWatcher(r) == cancelled \cup {r}

(* The select of the watcher: any branch that is ready.                     *)
WatcherTimesOut(r) ==
  /\ watcher[r] = "watching" /\ r \in late
  /\ watcher' = [watcher EXCEPT ![r] = "ended"]
  /\ timedOut' = timedOut \cup {r}
  /\ cancelled' = CancelledByWatcher(r)
  /\ UNCHANGED <<manager, pc, events, media, firstWrite, reply, answer>>

WatcherLeaves(r) ==
  /\ watcher[r] = "watching"
  /\ r \in firstWrite \/ pc[r] \in {"result", "done"}
  /\ watcher' = [watcher EXCEPT ![r] = "ended"]
  /\ UNCHANGED <<manager, pc, events, cancelled, media, timedOut, firstWrite, reply, answer>>

-----------------------------------------------------------------------------
(* The copy loop.                                                           *)

ReadData(r) ==
  /\ At(r, "read") /\ r \in pipe
  /\ pipe' = pipe \ {r}
  /\ Go(r, "write")
  /\ UNCHANGED <<manager, events, cancelled, process, output, startup, reply, answer>>

EndOfOutput(r) ==
  /\ At(r, "read") /\ r \notin pipe /\ Dead(r)
  /\ Go(r, "stop")
  /\ UNCHANGED <<manager, events, cancelled, media, startup, reply, answer>>

ReadFails(r) ==
  /\ At(r, "read")
  /\ copyErr' = [copyErr EXCEPT ![r] = "failed"]
  /\ Go(r, "stop")
  /\ UNCHANGED <<manager, events, cancelled, media, startup, committed, sent, answer>>

(* SetWriteDeadline before each Write: the startup deadline until the first *)
(* success, then one that the idle limit lets pass at any time.             *)
WriteDeadlinePassed(r) == r \in committed \/ r \in late

(* w.Write returns a positive count, without or with an error.  A short     *)
(* write into the server's buffer succeeds whatever the deadline.           *)
WriteSome(r, e) ==
  /\ At(r, "write") /\ r \notin stalled
  /\ committed' = committed \cup {r}
  /\ sent' = sent \cup {r}
  /\ copyErr' = [copyErr EXCEPT ![r] = e]
  /\ Go(r, IF r \notin committed THEN "first" ELSE IF e = "nil" THEN "read" ELSE "stop")
  /\ UNCHANGED <<manager, events, cancelled, media, startup, answer>>

(* w.Write returns nothing but an error: the header counts as sent.         *)
WriteNothing(r) ==
  /\ At(r, "write")
  /\ WriteDeadlinePassed(r) \/ r \in ctxDone
  /\ sent' = sent \cup {r}
  /\ copyErr' = [copyErr EXCEPT ![r] = "failed"]
  /\ Go(r, "stop")
  /\ UNCHANGED <<manager, events, cancelled, media, startup, committed, answer>>

(* firstOnce: tell the watcher, then go on or leave the loop.               *)
CloseFirstWrite(r) ==
  /\ At(r, "first")
  /\ firstWrite' = firstWrite \cup {r}
  /\ Go(r, IF copyErr[r] = "nil" THEN "read" ELSE "stop")
  /\ UNCHANGED <<manager, events, cancelled, media, watcher, timedOut, reply, answer>>

-----------------------------------------------------------------------------
(* Reaping and answering.                                                   *)

(* Out of the loop: terminate first ...                                     *)
StopProcess(r) ==
  /\ At(r, "stop")
  /\ cancelled' = IF copyErr[r] # "nil" \/ r \in ctxDone THEN cancelled \cup {r} ELSE cancelled
  /\ Go(r, "reap")
  /\ UNCHANGED <<manager, events, media, startup, reply, answer>>

(* Mutation: the handler does not wait for the process.                     *)
ReapedUnseen(r) == TRUE

Reaped(r) == Dead(r)

(* ... then Wait, then close processDone.                                   *)
Reap(r) ==
  /\ At(r, "reap") /\ Reaped(r)
  /\ Go(r, "result")
  /\ UNCHANGED <<manager, events, cancelled, media, startup, reply, answer>>

(* Mutation: a canceled context is looked at before the startup timeout.    *)
ResultContextFirst(r) ==
  IF r \in ctxDone \cup killed \/ r \in cancelled THEN "canceled"
  ELSE IF copyErr[r] # "nil" THEN copyErr[r]
  ELSE IF process[r] = "ok" THEN "nil" ELSE "failed"

Result(r) ==
  IF r \in timedOut \ committed THEN "timeout"
  ELSE IF copyErr[r] # "nil" THEN copyErr[r]
  ELSE IF r \in ctxDone THEN "canceled"
  ELSE IF process[r] = "ok" THEN "nil"
  ELSE IF r \in killed THEN "canceled" ELSE "failed"

(* The deferred Done gives the lane back; a dead process is forgotten with   *)
(* the locals.                                                              *)
Return(r) ==
  /\ At(r, "result")
  /\ Returns(r, Result(r))
  /\ Manager!Release(r)
  /\ cancelled' = cancelled \ {r}
  /\ process' = [process EXCEPT ![r] = IF Dead(r) THEN "none" ELSE @]
  /\ output' = [output EXCEPT ![r] = 0]
  /\ pipe' = pipe \ {r}
  /\ timedOut' = timedOut \ {r} /\ firstWrite' = firstWrite \ {r}
  /\ committed' = committed \ {r} /\ sent' = sent \ {r}
  /\ copyErr' = [copyErr EXCEPT ![r] = "nil"]
  /\ UNCHANGED watcher

-----------------------------------------------------------------------------
(* Events.                                                                  *)

Active(r) == pc[r] # "done"

ClientLeaves(r) ==
  /\ Active(r) /\ r \notin ctxDone
  /\ ctxDone' = ctxDone \cup {r}
  /\ UNCHANGED <<manager, pc, killed, stalled, late, cancelled, media, startup, reply, answer>>

ClientStalls(r) ==
  /\ pc[r] \in {"read", "write", "first"} /\ r \notin stalled \cup ctxDone
  /\ stalled' = stalled \cup {r}
  /\ UNCHANGED <<manager, pc, ctxDone, killed, late, cancelled, media, startup, reply, answer>>

StartupPasses(r) ==
  /\ watcher[r] = "watching" \/ r \notin committed
  /\ Active(r) /\ process[r] # "none" /\ r \notin late
  /\ late' = late \cup {r}
  /\ UNCHANGED <<manager, pc, ctxDone, killed, stalled, cancelled, media, startup, reply, answer>>

(* Manager.Shutdown: the waiters are refused, every task is cancelled.      *)
ManagerCloses ==
  /\ Manager!Close
  /\ killed' = killed \cup holding
  /\ UNCHANGED <<pc, ctxDone, stalled, late, cancelled, media, startup, reply, answer>>

HandlerStep(r) ==
  \/ Enter(r) \/ Wait(r) \/ Refused(r) \/ Admitted(r)
  \/ Launch(r) \/ LaunchFails(r)
  \/ ReadData(r) \/ EndOfOutput(r) \/ CloseFirstWrite(r)
  \/ WriteSome(r, "nil") \/ WriteSome(r, "failed") \/ WriteNothing(r)
  \/ StopProcess(r) \/ Reap(r) \/ Return(r)

WatcherStep(r) == WatcherTimesOut(r) \/ WatcherLeaves(r)

Next ==
  \/ \E r \in Requests :
       \/ HandlerStep(r) \/ Admit(r) \/ StopsWaiting(r) \/ ReadFails(r)
       \/ WatcherStep(r)
       \/ ProcessWrites(r) \/ ProcessExits(r) \/ ProcessKilled(r)
       \/ ClientLeaves(r) \/ ClientStalls(r) \/ StartupPasses(r)
  \/ ManagerCloses

Spec == Init /\ [][Next]_vars

(* Goroutines that can step do, a killed process dies and the clock runs.   *)
(* A process owes nobody output or an exit, and a client owes no reading.   *)
FairSpec ==
  /\ Spec
  /\ \A r \in Requests :
       /\ WF_vars(HandlerStep(r))
       /\ WF_vars(WatcherStep(r))
       /\ WF_vars(ProcessKilled(r))
       /\ WF_vars(StartupPasses(r))

-----------------------------------------------------------------------------
(* Properties.                                                              *)

(* No ffmpeg outlives its place in the lane: whichever of timeout, failed   *)
(* write, hang-up or shutdown ends a stream, the lane is given back only    *)
(* after the process is dead, so the lane really bounds the processes.      *)
ProcessesWithinLane ==
  /\ \A r \in Requests : process[r] = "running" => r \in holding
  /\ Cardinality({r \in Requests : process[r] = "running"}) <= Places

(* The answer fits what happened, whichever of the killed process, the      *)
(* failed copy and the ended context the handler hears of first.  An error  *)
(* status is given only while nothing of the response has gone out; without *)
(* one the response had begun, the client had left, the manager had shut    *)
(* down or the process had ended well; and a process stopped for its        *)
(* silence is answered with 504.                                            *)
AnswerFits ==
  \A r \in Requests : At(r, "result") =>
    /\ AnswerTo(r, Result(r)) # "ended" => r \notin sent
    /\ AnswerTo(r, Result(r)) = "ended" => r \in sent \cup ctxDone \cup killed \/ process[r] = "ok"
    /\ process[r] = "killed" /\ copyErr[r] = "nil" /\ r \notin sent \cup ctxDone \cup killed
         => AnswerTo(r, Result(r)) = "504"

(* A stream that has begun, whose handler is not held up by its client.     *)
Flowing(r) == r \in committed \ (ctxDone \cup killed) /\ ~At(r, "write")

(* A place in the lane carries a stream that flows or it comes back: when   *)
(* nothing is written by the startup deadline, when the client has gone or  *)
(* has stopped reading, and when the manager closes, whatever ffmpeg does.  *)
LaneComesBack == \A r \in Requests : r \in holding ~> r \notin holding \/ Flowing(r)
=============================================================================
