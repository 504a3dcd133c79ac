---------------------------- MODULE MediaManager ----------------------------
(***************************************************************************)
(* internal/mediaexec/manager.go: the process-wide manager that every      *)
(* ffmpeg or ffprobe invocation passes through.  A caller asks for a task  *)
(* with Start and gives its lane back with Task.Done.  Start admits it at  *)
(* once, queues it, or refuses it; a queued caller blocks in a select on   *)
(* its result channel, its request context and a timer.  One mutex         *)
(* protects the manager, but contexts end, timers fire and results are     *)
(* received without it, also between two iterations of the scheduling loop *)
(* that runs under it.                                                     *)
(*                                                                         *)
(* A caller stands for one goroutine inside Start .. Done, and names both  *)
(* its waiter and its task; when the call is over it may make another.     *)
(* Refusals (queue full, shutting down, context already ended) return with *)
(* nothing changed and so are stuttering steps.                            *)
(***************************************************************************)
EXTENDS Naturals, FiniteSets

CONSTANTS
  Callers,            \* goroutines that call Start
  MaxSessions,        \* ManagerConfig.MaxSessions
  AuxReserved,        \* ManagerConfig.AuxReserved; 0 selects the shared lane
  TranscodeWaiters,   \* ManagerConfig.TranscodeWaiters
  AuxWaiters,         \* ManagerConfig.AuxWaiters
  HighBurst           \* AuxHigh starts that may pass a waiting render; 4 in the code

(* What NewManager accepts (it panics on anything else), and the literal of *)
(* peekAuxLocked.                                                           *)
ASSUME ConfigAssumption ==
  /\ IsFiniteSet(Callers)
  /\ MaxSessions \in Nat \ {0}
  /\ AuxReserved \in Nat
  /\ AuxReserved < MaxSessions
  /\ TranscodeWaiters \in Nat
  /\ AuxWaiters \in Nat
  /\ HighBurst \in Nat \ {0}

Kinds == {"Transcode", "AuxHigh", "AuxRender"}

(***************************************************************************)
(* The three counters activeTranscode, activeAux and activeShared are one  *)
(* function over lanes.  With no reservation every kind shares one lane.   *)
(***************************************************************************)
Lanes == {"transcode", "aux", "shared"}

Lane(k) == IF AuxReserved = 0 THEN "shared"
           ELSE IF k = "Transcode" THEN "transcode" ELSE "aux"

LaneSize ==
  [l \in Lanes |-> IF l = "aux" THEN AuxReserved
                  ELSE IF (l = "shared") = (AuxReserved = 0) THEN MaxSessions - AuxReserved
                  ELSE 0]

VARIABLES
  mu,         \* the holder of Manager.mu while scheduleLocked runs: {} or {caller}
  pc,         \* where each caller stands in Start .. Done
  kind,       \* the kind each caller asked for
  ctxDone,    \* callers whose request context has ended
  killed,     \* callers whose task context Shutdown cancelled
  queued,     \* callers whose waiter has queued = TRUE, that is, is in a queue
  ahead,      \* ahead[c]: the queued waiters with a smaller seq than c's
  result,     \* what the one-place result channel of each waiter holds
  count,      \* activeTranscode, activeAux, activeShared
  highStreak, \* AuxHigh starts since the last AuxRender start, up to HighBurst
  active,     \* callers whose task is in the active map
  wg,         \* the WaitGroup's counter
  closing,
  drain       \* the Shutdown call: "none", "waiting", "drained", "timedOut"

vars == <<mu, pc, kind, ctxDone, killed, queued, ahead, result, count,
          highStreak, active, wg, closing, drain>>

PCs == {"idle",      \* no call in progress
        "select",    \* blocked in Start on result, context and timer
        "abandon",   \* took the context or timer branch, not yet in cancelWaiter
        "unqueue",   \* in cancelWaiter's scheduleLocked, holding mu
        "drain",     \* in cancelWaiter after a raced grant, about to receive it
        "drop",      \* about to give the raced task back
        "task",      \* Start returned a task, Done not yet called
        "finish",    \* in finish's scheduleLocked, holding mu
        "wgDone"}    \* out of the mutex, about to call wg.Done

TypeOK ==
  /\ mu \in SUBSET Callers
  /\ pc \in [Callers -> PCs]
  /\ kind \in [Callers -> Kinds \cup {"none"}]
  /\ ctxDone \in SUBSET Callers
  /\ killed \in SUBSET Callers
  /\ queued \in SUBSET Callers
  /\ ahead \in [Callers -> SUBSET Callers]
  /\ result \in [Callers -> {"empty", "task", "error"}]
  /\ count \in [Lanes -> Nat]
  /\ highStreak \in 0..HighBurst
  /\ active \in SUBSET Callers
  /\ wg \in Nat
  /\ closing \in BOOLEAN
  /\ drain \in {"none", "waiting", "drained", "timedOut"}

Init ==
  /\ mu = {}
  /\ pc = [c \in Callers |-> "idle"]
  /\ kind = [c \in Callers |-> "none"]
  /\ ctxDone = {}
  /\ killed = {}
  /\ queued = {}
  /\ ahead = [c \in Callers |-> {}]
  /\ result = [c \in Callers |-> "empty"]
  /\ count = [l \in Lanes |-> 0]
  /\ highStreak = 0
  /\ active = {}
  /\ wg = 0
  /\ closing = FALSE
  /\ drain = "none"

-----------------------------------------------------------------------------
(* Queues.  seq is only ever compared, so the model keeps the comparison.   *)

OfKind(k) == {w \in queued : kind[w] = k}

InLane(l) == {w \in queued : Lane(kind[w]) = l}

(* Mutation: the newest waiter is taken instead of the oldest.             *)
Newest(S) == {w \in S : \A v \in S \ {w} : v \in ahead[w]}

First(S) == {w \in S : ahead[w] \cap S = {}}

(* Mutation: the limit compared with <= instead of <.                      *)
RoomOffByOne(l) == count[l] <= LaneSize[l]

Room(l) == count[l] < LaneSize[l]

CanStartImmediately(k) == Room(Lane(k)) /\ InLane(Lane(k)) = {}

CanQueue(k) ==
  IF k = "Transcode"
  THEN Cardinality(OfKind("Transcode")) < TranscodeWaiters
  ELSE Cardinality(OfKind("AuxHigh") \cup OfKind("AuxRender")) < AuxWaiters

(* Mutation: after a burst only a render may go, also when none waits.      *)
PeekAuxHardBurst ==
  IF OfKind("AuxHigh") # {} /\ highStreak < HighBurst
  THEN First(OfKind("AuxHigh"))
  ELSE First(OfKind("AuxRender"))

(* Mutation: AuxHigh always before AuxRender.                               *)
PeekAuxNoBurst ==
  IF OfKind("AuxHigh") # {} THEN First(OfKind("AuxHigh")) ELSE First(OfKind("AuxRender"))

(* peekAuxLocked: after HighBurst AuxHigh starts a waiting render goes first. *)
PeekAux ==
  IF OfKind("AuxHigh") # {} /\ (highStreak < HighBurst \/ OfKind("AuxRender") = {})
  THEN First(OfKind("AuxHigh"))
  ELSE First(OfKind("AuxRender"))

(* Mutation: the auxiliary candidate always goes before the transcode.       *)
NextSharedAuxFirst == IF PeekAux # {} THEN PeekAux ELSE First(OfKind("Transcode"))

(* nextSharedLocked: the earlier of the auxiliary candidate and the first   *)
(* transcode.                                                               *)
NextShared == First(PeekAux \cup First(OfKind("Transcode")))

(* Dedicated lanes: transcodes first, then the auxiliary lane.              *)
NextDedicated ==
  IF Room("transcode") /\ OfKind("Transcode") # {}
  THEN First(OfKind("Transcode"))
  ELSE IF Room("aux") THEN PeekAux ELSE {}

(* The waiter the next iteration of scheduleLocked grants: at most one.     *)
NextWaiter ==
  IF closing THEN {}
  ELSE IF AuxReserved # 0 THEN NextDedicated
  ELSE IF Room("shared") THEN NextShared ELSE {}

Unqueue(c) ==
  /\ queued' = queued \ {c}
  /\ ahead' = [w \in Callers |-> IF w = c THEN {} ELSE ahead[w] \ {c}]

(* startLocked *)
StartLocked(c, k) ==
  /\ count' = [count EXCEPT ![Lane(k)] = @ + 1]
  /\ highStreak' = IF k = "AuxRender" THEN 0
                   ELSE IF k = "AuxHigh" /\ highStreak < HighBurst THEN highStreak + 1
                   ELSE highStreak
  /\ active' = active \cup {c}
  /\ wg' = wg + 1

(* Mutation: finish always gives back an auxiliary place.                   *)
ReleasedWrongLane(k) == [count EXCEPT !["aux"] = @ - 1]

Released(k) == [count EXCEPT ![Lane(k)] = @ - 1]

(* The call is over; its context and kind go with it. *)
CallReturns(c) ==
  /\ kind' = [kind EXCEPT ![c] = "none"]
  /\ ctxDone' = ctxDone \ {c}
  /\ killed' = killed \ {c}

-----------------------------------------------------------------------------
(* Start.  The lanes, queues and counters are read and written under mu.    *)

(* Mutation: Start does not look at closing.                                *)
MayStartClosing(c) == pc[c] = "idle" /\ mu = {}

MayStart(c) == pc[c] = "idle" /\ mu = {} /\ ~closing

(* Admitted at once: lane room and nobody of the lane waiting.              *)
StartNow(c, k) ==
  /\ MayStart(c)
  /\ CanStartImmediately(k)
  /\ StartLocked(c, k)
  /\ kind' = [kind EXCEPT ![c] = k]
  /\ pc' = [pc EXCEPT ![c] = "task"]
  /\ UNCHANGED <<mu, ctxDone, killed, queued, ahead, result, closing, drain>>

(* Queued behind every waiter there is: the new seq is the largest.         *)
Enqueue(c, k) ==
  /\ MayStart(c)
  /\ ~CanStartImmediately(k)
  /\ CanQueue(k)
  /\ queued' = queued \cup {c}
  /\ ahead' = [ahead EXCEPT ![c] = queued]
  /\ kind' = [kind EXCEPT ![c] = k]
  /\ pc' = [pc EXCEPT ![c] = "select"]
  /\ UNCHANGED <<mu, ctxDone, killed, result, count, highStreak, active, wg,
                 closing, drain>>

(* The three branches of the select.  When several are ready Go picks one,  *)
(* so a caller may give up although its grant is already in the channel.    *)
ReceiveTask(c) ==
  /\ pc[c] = "select"
  /\ result[c] = "task"
  /\ result' = [result EXCEPT ![c] = "empty"]
  /\ pc' = [pc EXCEPT ![c] = "task"]
  /\ UNCHANGED <<mu, kind, ctxDone, killed, queued, ahead, count, highStreak,
                 active, wg, closing, drain>>

ReceiveError(c) ==
  /\ pc[c] = "select"
  /\ result[c] = "error"
  /\ result' = [result EXCEPT ![c] = "empty"]
  /\ pc' = [pc EXCEPT ![c] = "idle"]
  /\ CallReturns(c)
  /\ UNCHANGED <<mu, queued, ahead, count, highStreak, active, wg, closing, drain>>

GiveUp(c) ==
  /\ pc[c] = "select"
  /\ pc' = [pc EXCEPT ![c] = "abandon"]
  /\ UNCHANGED <<mu, kind, ctxDone, killed, queued, ahead, result, count,
                 highStreak, active, wg, closing, drain>>

ContextWins(c) == c \in ctxDone /\ GiveUp(c)

TimerFires(c) == GiveUp(c)

(* cancelWaiter while the waiter is still queued: leave the queue and run   *)
(* scheduleLocked under the same lock.                                      *)
CancelQueued(c) ==
  /\ pc[c] = "abandon"
  /\ mu = {}
  /\ c \in queued
  /\ Unqueue(c)
  /\ mu' = {c}
  /\ pc' = [pc EXCEPT ![c] = "unqueue"]
  /\ UNCHANGED <<kind, ctxDone, killed, result, count, highStreak, active, wg,
                 closing, drain>>

(* Mutation: a waiter that is no longer queued is simply forgotten.         *)
CancelRacedForgets(c) ==
  /\ pc[c] = "abandon"
  /\ mu = {}
  /\ c \notin queued
  /\ pc' = [pc EXCEPT ![c] = "idle"]
  /\ CallReturns(c)
  /\ UNCHANGED <<mu, queued, ahead, result, count, highStreak, active, wg,
                 closing, drain>>

(* cancelWaiter after the waiter was granted, failed or shut down.          *)
CancelRaced(c) ==
  /\ pc[c] = "abandon"
  /\ mu = {}
  /\ c \notin queued
  /\ pc' = [pc EXCEPT ![c] = "drain"]
  /\ UNCHANGED <<mu, kind, ctxDone, killed, queued, ahead, result, count,
                 highStreak, active, wg, closing, drain>>

DrainTask(c) ==
  /\ pc[c] = "drain"
  /\ result[c] = "task"
  /\ result' = [result EXCEPT ![c] = "empty"]
  /\ pc' = [pc EXCEPT ![c] = "drop"]
  /\ UNCHANGED <<mu, kind, ctxDone, killed, queued, ahead, count, highStreak,
                 active, wg, closing, drain>>

DrainError(c) ==
  /\ pc[c] = "drain"
  /\ result[c] = "error"
  /\ result' = [result EXCEPT ![c] = "empty"]
  /\ pc' = [pc EXCEPT ![c] = "idle"]
  /\ CallReturns(c)
  /\ UNCHANGED <<mu, queued, ahead, count, highStreak, active, wg, closing, drain>>

-----------------------------------------------------------------------------
(* Task.Done and the scheduler.                                             *)

(* finish, called through Task.Done at most once per task (doneOnce).       *)
Finish(c) ==
  /\ pc[c] \in {"task", "drop"}
  /\ mu = {}
  /\ c \in active
  /\ active' = active \ {c}
  /\ count' = Released(kind[c])
  /\ mu' = {c}
  /\ pc' = [pc EXCEPT ![c] = "finish"]
  /\ UNCHANGED <<kind, ctxDone, killed, queued, ahead, result, highStreak, wg,
                 closing, drain>>

(* One iteration of scheduleLocked: grantLocked hands the waiter a task, or *)
(* the error of a context that ended while it was queued.                   *)
GrantTask(w) ==
  /\ mu # {}
  /\ w \in NextWaiter
  /\ w \notin ctxDone
  /\ Unqueue(w)
  /\ result' = [result EXCEPT ![w] = "task"]
  /\ StartLocked(w, kind[w])
  /\ UNCHANGED <<mu, pc, kind, ctxDone, killed, closing, drain>>

GrantError(w) ==
  /\ mu # {}
  /\ w \in NextWaiter
  /\ w \in ctxDone
  /\ Unqueue(w)
  /\ result' = [result EXCEPT ![w] = "error"]
  /\ UNCHANGED <<mu, pc, kind, ctxDone, killed, count, highStreak, active, wg,
                 closing, drain>>

(* scheduleLocked finds nothing more to grant and the mutex is released.    *)
ScheduledByFinish(c) ==
  /\ c \in mu
  /\ pc[c] = "finish"
  /\ NextWaiter = {}
  /\ mu' = {}
  /\ pc' = [pc EXCEPT ![c] = "wgDone"]
  /\ UNCHANGED <<kind, ctxDone, killed, queued, ahead, result, count, highStreak,
                 active, wg, closing, drain>>

ScheduledByCancel(c) ==
  /\ c \in mu
  /\ pc[c] = "unqueue"
  /\ NextWaiter = {}
  /\ mu' = {}
  /\ pc' = [pc EXCEPT ![c] = "idle"]
  /\ CallReturns(c)
  /\ UNCHANGED <<queued, ahead, result, count, highStreak, active, wg, closing, drain>>

WaitGroupDone(c) ==
  /\ pc[c] = "wgDone"
  /\ wg' = wg - 1
  /\ pc' = [pc EXCEPT ![c] = "idle"]
  /\ CallReturns(c)
  /\ UNCHANGED <<mu, queued, ahead, result, count, highStreak, active, closing, drain>>

-----------------------------------------------------------------------------
(* Shutdown and the environment.                                            *)

(* Mutation: the queues are dropped and nobody is told.                     *)
ShutdownAnswersNobody == result

ShutdownAnswers == [c \in Callers |-> IF c \in queued THEN "error" ELSE result[c]]

(* Mutation: only tasks that a caller has already received are cancelled.   *)
ShutdownCancelsReceived == {c \in active : pc[c] = "task"}

ShutdownCancels == active

(* The first call fails every waiter and cancels every task; any call then  *)
(* waits for the WaitGroup or for its own context.                          *)
ShutdownFirst ==
  /\ mu = {}
  /\ ~closing
  /\ closing' = TRUE
  /\ result' = ShutdownAnswers
  /\ queued' = {}
  /\ ahead' = [c \in Callers |-> {}]
  /\ killed' = ShutdownCancels
  /\ drain' = "waiting"
  /\ UNCHANGED <<mu, pc, kind, ctxDone, count, highStreak, active, wg>>

ShutdownAgain ==
  /\ mu = {}
  /\ closing
  /\ drain = "timedOut"
  /\ drain' = "waiting"
  /\ UNCHANGED <<mu, pc, kind, ctxDone, killed, queued, ahead, result, count,
                 highStreak, active, wg, closing>>

ShutdownReturns(answer) ==
  /\ drain = "waiting"
  /\ drain' = answer
  /\ UNCHANGED <<mu, pc, kind, ctxDone, killed, queued, ahead, result, count,
                 highStreak, active, wg, closing>>

ShutdownDrained == wg = 0 /\ ShutdownReturns("drained")

ShutdownTimesOut == ShutdownReturns("timedOut")

(* A client hangs up, or a request context reaches its deadline.  Nobody    *)
(* looks at the context once the call is being wound up.                    *)
ContextEnds(c) ==
  /\ pc[c] \in {"select", "abandon", "task"}
  /\ c \notin ctxDone
  /\ ctxDone' = ctxDone \cup {c}
  /\ UNCHANGED <<mu, pc, kind, killed, queued, ahead, result, count, highStreak,
                 active, wg, closing, drain>>

StartStep(c) ==
  \/ \E k \in Kinds : StartNow(c, k) \/ Enqueue(c, k)
  \/ ReceiveTask(c) \/ ReceiveError(c)

CancelStep(c) ==
  \/ CancelQueued(c) \/ CancelRaced(c) \/ DrainTask(c) \/ DrainError(c)

ScheduleStep(c) ==
  \/ GrantTask(c) \/ GrantError(c)
  \/ ScheduledByFinish(c) \/ ScheduledByCancel(c)

CallerStep(c) ==
  StartStep(c) \/ CancelStep(c) \/ ScheduleStep(c) \/ Finish(c) \/ WaitGroupDone(c)

ShutdownStep ==
  ShutdownFirst \/ ShutdownAgain \/ ShutdownDrained \/ ShutdownTimesOut

Next ==
  \/ \E c \in Callers : CallerStep(c) \/ ContextWins(c) \/ TimerFires(c) \/ ContextEnds(c)
  \/ ShutdownStep

Spec == Init /\ [][Next]_vars
-----------------------------------------------------------------------------
(* Fairness.                                                                *)

(* Every goroutine that can step does; a blocked mutex acquisition succeeds *)
(* when the mutex is free again and again, which Go's starvation mode gives *)
(* (hence the strong form); a process whose context ended dies and its      *)
(* caller calls Done (exec.CommandContext).                                 *)
RuntimeFairness ==
  /\ \A c \in Callers :
       /\ WF_vars(ReceiveTask(c) \/ ReceiveError(c) \/ DrainTask(c) \/ DrainError(c)
                  \/ WaitGroupDone(c))
       /\ SF_vars(CancelQueued(c) \/ CancelRaced(c))
       /\ SF_vars((pc[c] = "drop" \/ c \in ctxDone \cup killed) /\ Finish(c))
  /\ WF_vars(\E c \in Callers : ScheduleStep(c))

(* Every wait is bounded by the timer, but a task may run for ever.         *)
TimedSpec ==
  Spec /\ RuntimeFairness /\ \A c \in Callers : WF_vars(TimerFires(c))

(* A busy server whose callers are patient: no wait times out, no client    *)
(* hangs up and nobody shuts it down, but every task ends.                  *)
BusyNext == \E c \in Callers : CallerStep(c)

BusySpec ==
  /\ Init /\ [][BusyNext]_vars
  /\ RuntimeFairness
  /\ \A c \in Callers : SF_vars(Finish(c))

-----------------------------------------------------------------------------
(* Properties.                                                              *)

Holders(l) == {c \in active : Lane(kind[c]) = l}

(* Each lane counter is the number of tasks of that lane in the active map, *)
(* and never exceeds the lane: the hard limit on concurrent processes that  *)
(* the manager exists for, over every race of grant, cancellation and Done. *)
LanesExact ==
  \A l \in Lanes : count[l] = Cardinality(Holders(l)) /\ count[l] <= LaneSize[l]

(* Every task in the active map has exactly one caller that will call Done: *)
(* one that runs it, or one whose result channel holds it and who has not   *)
(* stopped looking.  A grant that races a timeout or a cancellation would   *)
(* otherwise leak its lane for the life of the process.                     *)
NoOrphanTask ==
  active = {c \in Callers : \/ pc[c] \in {"task", "drop"}
                            \/ /\ result[c] = "task"
                               /\ pc[c] \in {"select", "abandon", "drain"}}

(* A blocked caller is either in a queue with an empty channel or out of it *)
(* with its answer in the channel: no wakeup is lost, and grantLocked and   *)
(* Shutdown never block on a full channel while they hold the mutex.        *)
AnsweredOnce ==
  \A c \in Callers :
    /\ c \in queued => pc[c] \in {"select", "abandon"} /\ result[c] = "empty"
    /\ pc[c] \in {"select", "abandon", "drain"} => (c \in queued <=> result[c] = "empty")

(* Whenever the mutex is free, a lane with waiters is full: no path through *)
(* Done, timeout, cancellation or an expired waiter leaves a free lane and  *)
(* a sleeping waiter, whom nothing would wake.                              *)
WorkConserving ==
  mu = {} /\ ~closing => \A l \in Lanes : InLane(l) # {} => ~Room(l)

(* When Shutdown has reported success nothing runs, nothing waits and       *)
(* nothing can start any more: no wg.Add follows a finished wg.Wait.        *)
DrainedIsFinal ==
  drain = "drained" =>
    /\ closing /\ wg = 0 /\ active = {} /\ queued = {}
    /\ \A c \in Callers : pc[c] \notin {"task", "drop", "finish", "wgDone"}

(* First come, first served within a kind: a step that gives c a task does  *)
(* not pass over a waiter of the same kind that queued before c, or that    *)
(* was queued when c came straight in.                                      *)
NoOvertaking ==
  [][\A c, d \in Callers :
       c \in active' \ active /\ d \in queued \cap queued' /\ kind[d] = kind'[c]
         => c \in queued /\ d \notin ahead[c]]_vars

(* No process of any kind starts in the lane of a waiting transcode before  *)
(* it, unless it has waited longer: in the shared lane covers and metadata  *)
(* do not get in front of a listener.                                       *)
ListenersKeepTheirPlace ==
  [][\A c, d \in Callers :
       /\ c \in active' \ active
       /\ d \in OfKind("Transcode") /\ d \in queued' /\ Lane(kind'[c]) = Lane("Transcode")
       => c \in queued /\ d \notin ahead[c]]_vars

(* The manager implements the lanes of MediaLanes: a caller waits there     *)
(* while its waiter is queued and holds a place while its task is in the    *)
(* active map.                                                              *)
Promise == INSTANCE MediaLanes WITH
  waiting  <- queued,
  holding  <- active,
  lane     <- [c \in Callers |-> IF c \in queued \cup active THEN Lane(kind[c]) ELSE "none"],
  open     <- ~closing

(* Every step of the manager is a step of the promised lanes or invisible:  *)
(* nobody is queued for a lane with room, nobody enters past a waiter, a    *)
(* place is taken and given back once, and Shutdown empties the queues and  *)
(* closes the door in one step.                                             *)
ImplementsLanes == Promise!Spec

(* Every Start returns, whatever the running tasks do: the timer ends the   *)
(* wait and the cancellation path never blocks.                             *)
EveryStartReturns ==
  \A c \in Callers : pc[c] \in {"select", "abandon", "drain"}
                       ~> pc[c] \in {"idle", "task", "drop"}

(* Shutdown ends every task: none is missed by the cancellation, also not   *)
(* one granted but not yet received.                                        *)
ShutdownEndsTasks == closing ~> (active = {} /\ wg = 0)

(* No waiter starves while tasks keep ending: in particular an endless      *)
(* stream of AuxHigh requests does not keep a render, or in the shared lane *)
(* a transcode, waiting for ever.                                           *)
NoStarvation == \A c \in Callers : c \in queued ~> c \notin queued
=============================================================================
