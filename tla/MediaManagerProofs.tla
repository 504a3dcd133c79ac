------------------------- MODULE MediaManagerProofs -------------------------
(***************************************************************************)
(* Proofs about MediaManager, for any finite set of callers and any        *)
(* configuration NewManager accepts.                                       *)
(*                                                                         *)
(* The properties of the module are not inductive on their own.  IInv adds *)
(* what they lean on: a waiting caller knows its kind, the mutex holder is *)
(* the caller in scheduleLocked, a result is only in the channel of a      *)
(* caller that will look at it, the queues are strictly ordered by seq,    *)
(* and the WaitGroup counts the active tasks and those between finish and  *)
(* wg.Done.                                                                *)
(***************************************************************************)
EXTENDS MediaTurns, FiniteSetTheorems, TLAPS

KindKnown == \A c \in Callers : kind[c] = "none" <=> pc[c] = "idle"

MutexHeld ==
  /\ \A c \in Callers : pc[c] \in {"unqueue", "finish"} <=> c \in mu
  /\ \A c, d \in mu : c = d

ResultRead ==
  \A c \in Callers : result[c] # "empty" => pc[c] \in {"select", "abandon", "drain"}

QueueOrder ==
  /\ \A c \in Callers : ahead[c] \subseteq queued /\ c \notin ahead[c]
  /\ \A c \in Callers : c \notin queued => ahead[c] = {}
  /\ \A c, d \in Callers : d \in ahead[c] => ahead[d] \subseteq ahead[c]
  /\ \A c, d \in queued : c # d => c \in ahead[d] \/ d \in ahead[c]

Unfinished == active \cup {c \in Callers : pc[c] \in {"finish", "wgDone"}}

ShutdownState ==
  /\ closing => queued = {}
  /\ drain = "none" <=> ~closing
  /\ wg = Cardinality(Unfinished)
  /\ drain = "drained" => Unfinished = {}

Control == TypeOK /\ KindKnown /\ MutexHeld /\ ResultRead /\ NoOrphanTask /\ AnsweredOnce

IInv == Control /\ LanesExact /\ ShutdownState /\ QueueOrder /\ WorkConserving

-----------------------------------------------------------------------------
(* Helpers.                                                                 *)

LEMMA LaneFacts ==
  /\ \A k \in Kinds : Lane(k) \in Lanes
  /\ LaneSize \in [Lanes -> Nat]
BY ConfigAssumption DEF Lanes, Lane, LaneSize, Kinds

LEMMA FiniteCallers ==
  ASSUME NEW S \in SUBSET Callers
  PROVE  IsFiniteSet(S) /\ Cardinality(S) \in Nat
BY ConfigAssumption, FS_Subset, FS_CardinalityType

LEMMA AddCaller ==
  ASSUME NEW S \in SUBSET Callers, NEW c \in Callers, c \notin S
  PROVE  Cardinality(S \cup {c}) = Cardinality(S) + 1
BY FiniteCallers, FS_AddElement

LEMMA DropCaller ==
  ASSUME NEW S \in SUBSET Callers, NEW c \in Callers, c \in S
  PROVE  Cardinality(S \ {c}) = Cardinality(S) - 1 /\ Cardinality(S) > 0
<1>1. Cardinality(S \ {c}) = Cardinality(S) - 1
  BY FiniteCallers, FS_RemoveElement
<1>2. Cardinality(S \ {c}) \in Nat /\ Cardinality(S) \in Nat
  BY FiniteCallers
<1> QED BY <1>1, <1>2

(* The waiter the scheduler grants is queued, and only while open.          *)
LEMMA NextWaiterQueued ==
  ASSUME NEW w \in NextWaiter
  PROVE  w \in queued /\ ~closing /\ Room(Lane(kind[w]))
BY DEF NextWaiter, NextDedicated, NextShared, PeekAux, First, OfKind, Lane

(* What a step can be: one action of one caller, or one of Shutdown.        *)
LEMMA StepCases ==
  ASSUME Next
  PROVE  \/ \E c \in Callers, k \in Kinds : StartNow(c, k) \/ Enqueue(c, k)
         \/ \E c \in Callers : \/ ReceiveTask(c) \/ ReceiveError(c) \/ GiveUp(c)
                               \/ CancelQueued(c) \/ CancelRaced(c)
                               \/ DrainTask(c) \/ DrainError(c) \/ Finish(c)
                               \/ GrantTask(c) \/ GrantError(c)
                               \/ ScheduledByFinish(c) \/ ScheduledByCancel(c)
                               \/ WaitGroupDone(c) \/ ContextEnds(c)
         \/ ShutdownFirst \/ ShutdownAgain
         \/ ShutdownReturns("drained") /\ wg = 0
         \/ ShutdownReturns("timedOut")
BY DEF Next, CallerStep, StartStep, CancelStep, ScheduleStep, ShutdownStep,
       ContextWins, TimerFires, ShutdownDrained, ShutdownTimesOut

-----------------------------------------------------------------------------
(* Control: where callers stand, who holds the mutex, where results are.    *)

ControlTypes ==
  /\ mu \in SUBSET Callers
  /\ pc \in [Callers -> PCs]
  /\ kind \in [Callers -> Kinds \cup {"none"}]
  /\ ctxDone \in SUBSET Callers
  /\ killed \in SUBSET Callers
  /\ queued \in SUBSET Callers
  /\ ahead \in [Callers -> SUBSET Callers]
  /\ result \in [Callers -> {"empty", "task", "error"}]
  /\ highStreak \in 0..HighBurst
  /\ active \in SUBSET Callers
  /\ closing \in BOOLEAN
  /\ drain \in {"none", "waiting", "drained", "timedOut"}

LEMMA ControlStep ==
  ASSUME Control, [Next]_vars
  PROVE  (ControlTypes /\ KindKnown /\ MutexHeld /\ ResultRead /\ NoOrphanTask /\ AnsweredOnce)'
<1> DEFINE Goal == ControlTypes /\ KindKnown /\ MutexHeld /\ ResultRead /\ NoOrphanTask /\ AnsweredOnce
<1> USE DEF Control, ControlTypes, TypeOK, PCs, KindKnown, MutexHeld, ResultRead, NoOrphanTask,
            AnsweredOnce
<1>1. ASSUME NEW c \in Callers, NEW k \in Kinds, StartNow(c, k)
      PROVE  Goal'
  BY <1>1, ConfigAssumption DEF StartNow, MayStart, StartLocked, Kinds
<1>2. ASSUME NEW c \in Callers, NEW k \in Kinds, Enqueue(c, k)
      PROVE  Goal'
  BY <1>2 DEF Enqueue, MayStart, Kinds
<1>3. ASSUME NEW c \in Callers, ReceiveTask(c) \/ GiveUp(c) \/ CancelRaced(c) \/ DrainTask(c)
      PROVE  Goal'
  BY <1>3 DEF ReceiveTask, GiveUp, CancelRaced, DrainTask
<1>4. ASSUME NEW c \in Callers, ReceiveError(c) \/ DrainError(c)
      PROVE  Goal'
  BY <1>4 DEF ReceiveError, DrainError, CallReturns
<1>5. ASSUME NEW c \in Callers, CancelQueued(c)
      PROVE  Goal'
  BY <1>5 DEF CancelQueued, Unqueue
<1>6. ASSUME NEW c \in Callers, Finish(c)
      PROVE  Goal'
  BY <1>6 DEF Finish
<1>7. ASSUME NEW c \in Callers, GrantTask(c)
      PROVE  Goal'
  <2>1. c \in queued /\ kind[c] \in Kinds
    BY <1>7, NextWaiterQueued DEF GrantTask, Kinds
  <2> QED BY <1>7, <2>1, ConfigAssumption DEF GrantTask, Unqueue, StartLocked, Kinds
<1>8. ASSUME NEW c \in Callers, GrantError(c)
      PROVE  Goal'
  <2>1. c \in queued
    BY <1>8, NextWaiterQueued DEF GrantError
  <2> QED BY <1>8, <2>1 DEF GrantError, Unqueue
<1>9. ASSUME NEW c \in Callers, ScheduledByFinish(c)
      PROVE  Goal'
  BY <1>9 DEF ScheduledByFinish
<1>10. ASSUME NEW c \in Callers, ScheduledByCancel(c) \/ WaitGroupDone(c)
      PROVE  Goal'
  BY <1>10 DEF ScheduledByCancel, WaitGroupDone, CallReturns
<1>11. ASSUME NEW c \in Callers, ContextEnds(c)
      PROVE  Goal'
  BY <1>11 DEF ContextEnds
<1>12. ASSUME ShutdownFirst
       PROVE  Goal'
  BY <1>12 DEF ShutdownFirst, ShutdownAnswers, ShutdownCancels
<1>13. ASSUME NEW answer \in {"drained", "timedOut"}, ShutdownAgain \/ ShutdownReturns(answer)
       PROVE  Goal'
  BY <1>13 DEF ShutdownAgain, ShutdownReturns
<1>14. CASE UNCHANGED vars
  BY <1>14 DEF vars
<1> QED
  BY <1>1, <1>2, <1>3, <1>4, <1>5, <1>6, <1>7, <1>8, <1>9, <1>10, <1>11, <1>12, <1>13, <1>14,
     StepCases

-----------------------------------------------------------------------------
(* The lanes: counters equal the tasks in the map and stay within bounds.   *)

LEMMA LanesGain ==
  ASSUME Control, LanesExact, NEW c \in Callers, NEW k \in Kinds,
         c \notin active, StartLocked(c, k), Room(Lane(k)),
         \A d \in active : kind'[d] = kind[d], kind'[c] = k
  PROVE  LanesExact' /\ count' \in [Lanes -> Nat]
<1> DEFINE gained == Lane(k)
<1>1. gained \in Lanes /\ LaneSize \in [Lanes -> Nat]
  BY LaneFacts
<1>2. count' = [count EXCEPT ![gained] = @ + 1] /\ active' = active \cup {c}
  BY DEF StartLocked
<1>3. ASSUME NEW l \in Lanes
      PROVE  Holders(l) \in SUBSET Callers /\ c \notin Holders(l)
  BY DEF Holders, Control, TypeOK
<1>4. Holders(gained)' = Holders(gained) \cup {c}
  BY <1>2 DEF Holders
<1>5. \A l \in Lanes \ {gained} : Holders(l)' = Holders(l)
  BY <1>2 DEF Holders
<1>6. Cardinality(Holders(gained) \cup {c}) = Cardinality(Holders(gained)) + 1
  BY <1>1, <1>3, AddCaller
<1>7. count[gained] < LaneSize[gained]
  BY DEF Room
<1>8. count \in [Lanes -> Nat]
  BY DEF Control, TypeOK
<1>9. LaneSize[gained] \in Nat
  BY <1>1
<1> HIDE DEF gained
<1>10. count' \in [Lanes -> Nat]
  BY <1>1, <1>2, <1>8
<1>11. ASSUME NEW l \in Lanes
       PROVE  count'[l] = Cardinality(Holders(l)') /\ count'[l] <= LaneSize[l]
  <2>1. CASE l = gained
    BY <1>1, <1>2, <1>4, <1>6, <1>7, <1>8, <1>9, <2>1 DEF LanesExact
  <2>2. CASE l # gained
    BY <1>1, <1>2, <1>5, <1>8, <2>2 DEF LanesExact
  <2> QED BY <2>1, <2>2
<1> QED BY <1>10, <1>11 DEF LanesExact

LEMMA LanesLoss ==
  ASSUME Control, LanesExact, NEW c \in Callers, Finish(c)
  PROVE  LanesExact' /\ count' \in [Lanes -> Nat]
<1>0. PICK k \in Kinds : k = kind[c]
  BY DEF Finish, Control, TypeOK, KindKnown
<1> DEFINE lost == Lane(k)
<1>1. c \in active
  BY DEF Finish
<1>2. lost \in Lanes /\ LaneSize \in [Lanes -> Nat]
  BY LaneFacts
<1>3. count' = [count EXCEPT ![lost] = @ - 1] /\ active' = active \ {c} /\ kind' = kind
  BY <1>0 DEF Finish, Released
<1>4. ASSUME NEW l \in Lanes
      PROVE  Holders(l) \in SUBSET Callers
  BY DEF Holders, Control, TypeOK
<1>5. Holders(lost)' = Holders(lost) \ {c} /\ c \in Holders(lost)
  BY <1>0, <1>1, <1>3 DEF Holders
<1>6. \A l \in Lanes \ {lost} : Holders(l)' = Holders(l)
  BY <1>0, <1>3 DEF Holders
<1>7. /\ Cardinality(Holders(lost) \ {c}) = Cardinality(Holders(lost)) - 1
      /\ Cardinality(Holders(lost)) > 0
  BY <1>2, <1>4, <1>5, DropCaller
<1>8. count \in [Lanes -> Nat] /\ LaneSize[lost] \in Nat
  BY <1>2 DEF Control, TypeOK
<1> HIDE DEF lost
<1>9. count[lost] = Cardinality(Holders(lost)) /\ count[lost] <= LaneSize[lost]
  BY <1>2 DEF LanesExact
<1>10. count' \in [Lanes -> Nat]
  BY <1>2, <1>3, <1>7, <1>8, <1>9
<1>11. ASSUME NEW l \in Lanes
       PROVE  count'[l] = Cardinality(Holders(l)') /\ count'[l] <= LaneSize[l]
  <2>1. CASE l = lost
    <3>1. count'[lost] = count[lost] - 1 /\ count[lost] \in Nat
      BY <1>2, <1>3, <1>8
    <3>2. Cardinality(Holders(lost)') = count[lost] - 1
      BY <1>5, <1>7, <1>9
    <3> QED BY <1>8, <1>9, <2>1, <3>1, <3>2
  <2>2. CASE l # lost
    BY <1>2, <1>3, <1>6, <1>8, <2>2 DEF LanesExact
  <2> QED BY <2>1, <2>2
<1> QED BY <1>10, <1>11 DEF LanesExact

LEMMA LanesSame ==
  ASSUME Control, LanesExact, UNCHANGED <<count, active>>,
         \A c \in active : kind'[c] = kind[c]
  PROVE  LanesExact' /\ count' \in [Lanes -> Nat]
<1>1. \A l \in Lanes : Holders(l)' = Holders(l)
  BY DEF Holders
<1> QED BY <1>1 DEF LanesExact, Control, TypeOK

LEMMA LanesStep ==
  ASSUME Control, LanesExact, [Next]_vars
  PROVE  LanesExact' /\ count' \in [Lanes -> Nat]
<1> DEFINE Goal == LanesExact' /\ count' \in [Lanes -> Nat]
<1>1. ASSUME NEW c \in Callers, NEW k \in Kinds, StartNow(c, k)
      PROVE  Goal
  <2>1. /\ c \notin active
        /\ StartLocked(c, k) /\ Room(Lane(k))
        /\ \A d \in active : kind'[d] = kind[d]
        /\ kind'[c] = k
    BY <1>1 DEF StartNow, MayStart, CanStartImmediately, Control, NoOrphanTask, TypeOK
  <2> QED BY <2>1, LanesGain
<1>2. ASSUME NEW c \in Callers, GrantTask(c)
      PROVE  Goal
  <2>1. c \in queued /\ Room(Lane(kind[c]))
    BY <1>2, NextWaiterQueued DEF GrantTask
  <2>2. c \notin active /\ kind[c] \in Kinds
    BY <2>1 DEF Control, NoOrphanTask, AnsweredOnce, KindKnown, TypeOK
  <2>3. StartLocked(c, kind[c]) /\ kind' = kind
    BY <1>2 DEF GrantTask
  <2> QED BY <2>1, <2>2, <2>3, LanesGain
<1>3. ASSUME NEW c \in Callers, Finish(c)
      PROVE  Goal
  BY <1>3, LanesLoss
<1>4. ASSUME NEW c \in Callers, NEW k \in Kinds, Enqueue(c, k)
      PROVE  Goal
  <2>1. c \notin active
    BY <1>4 DEF Enqueue, MayStart, Control, NoOrphanTask, ResultRead, TypeOK
  <2> QED BY <1>4, <2>1, LanesSame DEF Enqueue, Control, TypeOK
<1>5. ASSUME NEW c \in Callers,
             ReceiveError(c) \/ DrainError(c) \/ ScheduledByCancel(c) \/ WaitGroupDone(c)
      PROVE  Goal
  <2>1. c \notin active
    BY <1>5 DEF ReceiveError, DrainError, ScheduledByCancel, WaitGroupDone, Control, NoOrphanTask
  <2>2. UNCHANGED <<count, active>> /\ CallReturns(c)
    BY <1>5 DEF ReceiveError, DrainError, ScheduledByCancel, WaitGroupDone
  <2> QED BY <2>1, <2>2, LanesSame DEF CallReturns, Control, TypeOK
<1>6. ASSUME NEW c \in Callers,
             \/ ReceiveTask(c) \/ GiveUp(c) \/ CancelQueued(c) \/ CancelRaced(c) \/ DrainTask(c)
             \/ GrantError(c) \/ ScheduledByFinish(c) \/ ContextEnds(c)
      PROVE  Goal
  <2>1. UNCHANGED <<count, active, kind>>
    BY <1>6 DEF ReceiveTask, GiveUp, CancelQueued, CancelRaced, DrainTask, GrantError,
                ScheduledByFinish, ContextEnds
  <2> QED BY <2>1, LanesSame
<1>7. ASSUME NEW answer, ShutdownFirst \/ ShutdownAgain \/ ShutdownReturns(answer)
      PROVE  Goal
  BY <1>7, LanesSame DEF ShutdownFirst, ShutdownAgain, ShutdownReturns
<1>8. CASE UNCHANGED vars
  BY <1>8, LanesSame DEF vars
<1> QED
  BY <1>1, <1>2, <1>3, <1>4, <1>5, <1>6, <1>7, <1>8, StepCases

-----------------------------------------------------------------------------
(* The WaitGroup and Shutdown.                                              *)

LEMMA ShutdownStateSame ==
  ASSUME ShutdownState, closing' = closing, drain' = drain, wg' = wg,
         Unfinished' = Unfinished, closing => queued' = {}
  PROVE  ShutdownState'
BY DEF ShutdownState

LEMMA ShutdownStateStep ==
  ASSUME Control, ShutdownState, [Next]_vars
  PROVE  ShutdownState' /\ wg' \in Nat
<1>1. Unfinished \in SUBSET Callers /\ wg = Cardinality(Unfinished)
  BY DEF Unfinished, Control, TypeOK, ShutdownState
<1>2. ASSUME NEW c \in Callers, c \notin Unfinished, Unfinished' = Unfinished \cup {c},
             wg' = wg + 1, ~closing, UNCHANGED <<closing, drain>>
      PROVE  ShutdownState'
  <2>1. Cardinality(Unfinished \cup {c}) = Cardinality(Unfinished) + 1
    BY <1>1, <1>2, AddCaller
  <2> QED BY <1>1, <1>2, <2>1 DEF ShutdownState
<1>3. ASSUME NEW c \in Callers, NEW k \in Kinds, StartNow(c, k)
      PROVE  ShutdownState'
  <2>1. c \notin Unfinished
    BY <1>3 DEF StartNow, MayStart, Unfinished, Control, NoOrphanTask, ResultRead, TypeOK
  <2>2. Unfinished' = Unfinished \cup {c}
    BY <1>3, <2>1 DEF StartNow, MayStart, StartLocked, Unfinished, Control, TypeOK
  <2>3. wg' = wg + 1 /\ ~closing /\ UNCHANGED <<closing, drain>>
    BY <1>3 DEF StartNow, MayStart, StartLocked
  <2> QED BY <1>2, <2>1, <2>2, <2>3
<1>4. ASSUME NEW c \in Callers, GrantTask(c)
      PROVE  ShutdownState'
  <2>1. c \in queued /\ ~closing
    BY <1>4, NextWaiterQueued DEF GrantTask
  <2>2. c \notin Unfinished
    BY <2>1 DEF Unfinished, Control, NoOrphanTask, AnsweredOnce
  <2>3. Unfinished' = Unfinished \cup {c} /\ wg' = wg + 1 /\ UNCHANGED <<closing, drain>>
    BY <1>4 DEF GrantTask, StartLocked, Unfinished
  <2> QED BY <1>2, <2>1, <2>2, <2>3
<1>5. ASSUME NEW c \in Callers, WaitGroupDone(c)
      PROVE  ShutdownState'
  <2>1. c \in Unfinished
    BY <1>5 DEF WaitGroupDone, Unfinished
  <2>2. Unfinished' = Unfinished \ {c} /\ wg' = wg - 1 /\ UNCHANGED <<closing, drain, queued>>
    BY <1>5 DEF WaitGroupDone, Unfinished, Control, NoOrphanTask, TypeOK
  <2>3. Cardinality(Unfinished \ {c}) = Cardinality(Unfinished) - 1
    BY <1>1, <2>1, DropCaller
  <2> QED BY <1>1, <2>1, <2>2, <2>3 DEF ShutdownState
<1>6. ASSUME NEW c \in Callers, NEW k \in Kinds, Enqueue(c, k)
      PROVE  ShutdownState'
  <2>1. Unfinished' = Unfinished /\ ~closing
    BY <1>6 DEF Enqueue, MayStart, Unfinished, Control, TypeOK
  <2> QED BY <1>6, <2>1, ShutdownStateSame DEF Enqueue
<1>7. ASSUME NEW c \in Callers, Finish(c) \/ ScheduledByFinish(c)
      PROVE  ShutdownState'
  <2>1. Unfinished' = Unfinished /\ UNCHANGED <<closing, drain, wg, queued>>
    BY <1>7 DEF Finish, ScheduledByFinish, Unfinished, Control, TypeOK
  <2> QED BY <2>1, ShutdownStateSame DEF ShutdownState
<1>8. ASSUME NEW c \in Callers,
             \/ ReceiveTask(c) \/ ReceiveError(c) \/ GiveUp(c) \/ CancelRaced(c) \/ DrainTask(c)
             \/ DrainError(c) \/ ScheduledByCancel(c) \/ ContextEnds(c)
      PROVE  ShutdownState'
  <2>1. UNCHANGED <<closing, drain, wg, queued, active>>
    BY <1>8 DEF ReceiveTask, ReceiveError, GiveUp, CancelRaced, DrainTask, DrainError,
                ScheduledByCancel, ContextEnds
  <2>2. {d \in Callers : pc'[d] \in {"finish", "wgDone"}}
          = {d \in Callers : pc[d] \in {"finish", "wgDone"}}
    BY <1>8 DEF ReceiveTask, ReceiveError, GiveUp, CancelRaced, DrainTask, DrainError,
                ScheduledByCancel, ContextEnds, Control, TypeOK
  <2> QED BY <2>1, <2>2, ShutdownStateSame DEF ShutdownState, Unfinished
<1>9. ASSUME NEW c \in Callers, CancelQueued(c) \/ GrantError(c)
      PROVE  ShutdownState'
  <2>1. UNCHANGED <<closing, drain, wg, active>> /\ queued' \subseteq queued
    BY <1>9 DEF CancelQueued, GrantError, Unqueue
  <2>2. {d \in Callers : pc'[d] \in {"finish", "wgDone"}}
          = {d \in Callers : pc[d] \in {"finish", "wgDone"}}
    BY <1>9 DEF CancelQueued, GrantError, Control, TypeOK
  <2> QED BY <2>1, <2>2, ShutdownStateSame DEF ShutdownState, Unfinished
<1>10. ASSUME ShutdownFirst
       PROVE  ShutdownState'
  BY <1>10 DEF ShutdownFirst, ShutdownState, Unfinished
<1>11. ASSUME ShutdownAgain \/ ShutdownReturns("timedOut")
       PROVE  ShutdownState'
  BY <1>11 DEF ShutdownAgain, ShutdownReturns, ShutdownState, Unfinished
<1>12. ASSUME ShutdownReturns("drained"), wg = 0
       PROVE  ShutdownState'
  <2>1. Unfinished = {}
    BY <1>1, <1>12, FiniteCallers, FS_EmptySet
  <2> QED BY <1>12, <2>1 DEF ShutdownReturns, ShutdownState, Unfinished
<1>13. ASSUME UNCHANGED vars
       PROVE  ShutdownState'
  BY <1>13 DEF vars, ShutdownState, Unfinished
<1>14. ShutdownState'
  BY <1>3, <1>4, <1>5, <1>6, <1>7, <1>8, <1>9, <1>10, <1>11, <1>12, <1>13, StepCases
<1>15. (active \in SUBSET Callers)'
  BY ControlStep DEF ControlTypes
<1>16. (Unfinished \in SUBSET Callers)'
  BY <1>15 DEF Unfinished
<1> QED
  BY <1>14, <1>16, FiniteCallers DEF ShutdownState

-----------------------------------------------------------------------------
(* The queues.                                                              *)

LEMMA QueueOrderStep ==
  ASSUME Control, QueueOrder, [Next]_vars
  PROVE  QueueOrder'
<1> USE DEF Control, TypeOK
<1>1. ASSUME NEW c \in Callers, Unqueue(c)
      PROVE  QueueOrder'
  BY <1>1 DEF Unqueue, QueueOrder
<1>2. ASSUME NEW c \in Callers, NEW k \in Kinds, Enqueue(c, k)
      PROVE  QueueOrder'
  <2>1. c \notin queued
    BY <1>2 DEF Enqueue, MayStart, AnsweredOnce
  <2>2. queued' = queued \cup {c} /\ ahead' = [ahead EXCEPT ![c] = queued]
    BY <1>2 DEF Enqueue
  <2> QED BY <2>1, <2>2 DEF QueueOrder
<1>3. ASSUME NEW c \in Callers, CancelQueued(c) \/ GrantTask(c) \/ GrantError(c)
      PROVE  QueueOrder'
  BY <1>1, <1>3 DEF CancelQueued, GrantTask, GrantError
<1>4. ASSUME ShutdownFirst
      PROVE  QueueOrder'
  BY <1>4 DEF ShutdownFirst, QueueOrder
<1>5. ASSUME UNCHANGED <<queued, ahead>>
      PROVE  QueueOrder'
  BY <1>5 DEF QueueOrder
<1>6. ASSUME NEW c \in Callers, NEW k \in Kinds, StartNow(c, k)
      PROVE  QueueOrder'
  BY <1>5, <1>6 DEF StartNow
<1>7. ASSUME NEW c \in Callers,
             \/ ReceiveTask(c) \/ ReceiveError(c) \/ GiveUp(c) \/ CancelRaced(c)
             \/ DrainTask(c) \/ DrainError(c) \/ Finish(c) \/ ScheduledByFinish(c)
             \/ ScheduledByCancel(c) \/ WaitGroupDone(c) \/ ContextEnds(c)
      PROVE  QueueOrder'
  BY <1>5, <1>7 DEF ReceiveTask, ReceiveError, GiveUp, CancelRaced, DrainTask, DrainError,
                    Finish, ScheduledByFinish, ScheduledByCancel, WaitGroupDone, ContextEnds
<1>8. ASSUME NEW answer, ShutdownAgain \/ ShutdownReturns(answer)
      PROVE  QueueOrder'
  BY <1>5, <1>8 DEF ShutdownAgain, ShutdownReturns
<1>9. ASSUME UNCHANGED vars
      PROVE  QueueOrder'
  BY <1>5, <1>9 DEF vars
<1> QED
  BY <1>2, <1>3, <1>4, <1>6, <1>7, <1>8, <1>9, StepCases

(* A non-empty set of queued waiters has an oldest one: seq orders them and *)
(* there are finitely many.                                                 *)
LEMMA FirstExists ==
  ASSUME Control, QueueOrder, NEW S \in SUBSET queued, S # {}
  PROVE  First(S) # {}
<1> DEFINE T == {ahead[w] \cap S : w \in S}
           R == StrictSubsetOrdering(Callers)
<1>1. S \subseteq Callers /\ \A w \in S : ahead[w] \in SUBSET Callers
  BY DEF Control, TypeOK
<1>2. IsWellFoundedOn(R, SUBSET Callers)
  BY FS_StrictSubsetOrderingWellFounded, FS_FiniteSubsetsOfFinite, ConfigAssumption
<1>3. T \subseteq SUBSET Callers /\ T # {}
  BY <1>1
<1>4. PICK x \in T : \A y \in T : <<y, x>> \notin R
  <2> HIDE DEF T, R
  <2> QED BY <1>2, <1>3, WFMin
<1>5. PICK w \in S : x = ahead[w] \cap S
  OBVIOUS
<1>6. ASSUME NEW v \in ahead[w] \cap S
      PROVE  FALSE
  <2>1. ahead[v] \subseteq ahead[w] /\ v \notin ahead[v]
    BY <1>1, <1>6 DEF QueueOrder
  <2>2. ahead[v] \cap S \in T /\ ahead[v] \cap S \subseteq x /\ ahead[v] \cap S # x
    BY <1>5, <1>6, <2>1
  <2>3. <<ahead[v] \cap S, x>> \in R
    BY <1>3, <2>2 DEF StrictSubsetOrdering
  <2> QED BY <1>4, <2>2, <2>3
<1> QED BY <1>6 DEF First

(* scheduleLocked stops only when no lane has both room and a waiter.       *)
LEMMA SchedulerStops ==
  ASSUME Control, QueueOrder, ~closing, NextWaiter = {}, NEW l \in Lanes, InLane(l) # {}
  PROVE  ~Room(l)
<1>1. \A S \in SUBSET queued : S # {} => First(S) # {}
  BY FirstExists
<1>2. OfKind("AuxHigh") # {} \/ OfKind("AuxRender") # {} => PeekAux # {}
  BY <1>1 DEF PeekAux, OfKind
<1>3. \A w \in queued : w \in OfKind("Transcode") \cup OfKind("AuxHigh") \cup OfKind("AuxRender")
  BY DEF OfKind, Control, TypeOK, KindKnown, AnsweredOnce, Kinds
<1>4. CASE AuxReserved = 0
  <2>1. l = "shared"
    BY <1>4 DEF InLane, Lane
  <2>2. queued # {}
    BY DEF InLane
  <2>3. PeekAux \cup First(OfKind("Transcode")) # {}
    BY <1>1, <1>2, <1>3, <2>2 DEF OfKind
  <2>4. PeekAux \cup First(OfKind("Transcode")) \in SUBSET queued
    BY DEF PeekAux, First, OfKind
  <2>5. NextShared # {}
    BY <1>1, <2>3, <2>4 DEF NextShared
  <2> QED BY <1>4, <2>1, <2>5 DEF NextWaiter
<1>5. CASE AuxReserved # 0
  <2>1. NextDedicated = {}
    BY <1>5 DEF NextWaiter
  <2>2. CASE l = "transcode"
    <3>1. OfKind("Transcode") # {}
      BY <1>3, <1>5, <2>2 DEF InLane, Lane, OfKind
    <3>2. First(OfKind("Transcode")) # {}
      BY <1>1, <3>1 DEF OfKind
    <3> QED BY <2>1, <2>2, <3>1, <3>2 DEF NextDedicated
  <2>3. CASE l = "aux"
    <3>1. OfKind("AuxHigh") # {} \/ OfKind("AuxRender") # {}
      BY <1>3, <1>5, <2>3 DEF InLane, Lane, OfKind
    <3>2. OfKind("Transcode") # {} => First(OfKind("Transcode")) # {}
      BY <1>1 DEF OfKind
    <3> QED BY <1>2, <2>1, <2>3, <3>1, <3>2 DEF NextDedicated
  <2>4. l # "shared"
    BY <1>5 DEF InLane, Lane
  <2> QED BY <2>2, <2>3, <2>4 DEF Lanes
<1> QED BY <1>4, <1>5

LEMMA WorkConservingStep ==
  ASSUME Control, QueueOrder, WorkConserving, [Next]_vars
  PROVE  WorkConserving'
<1> USE DEF Control, TypeOK
<1>1. ASSUME UNCHANGED <<mu, queued, count, closing>>, \A w \in queued : kind'[w] = kind[w]
      PROVE  WorkConserving'
  BY <1>1 DEF WorkConserving, InLane, Room
<1>2. ASSUME NEW c \in Callers, NEW k \in Kinds, StartNow(c, k)
      PROVE  WorkConserving'
  <2>1. c \notin queued /\ UNCHANGED <<mu, queued, closing>> /\ kind' = [kind EXCEPT ![c] = k]
    BY <1>2 DEF StartNow, MayStart, AnsweredOnce
  <2>2. \A l \in Lanes : InLane(l)' = InLane(l)
    BY <2>1 DEF InLane
  <2>3. Lane(k) \in Lanes
    BY LaneFacts
  <2>4. \A l \in Lanes : count'[l] = count[l] \/ l = Lane(k)
    BY <1>2, <2>3 DEF StartNow, StartLocked
  <2>5. InLane(Lane(k)) = {}
    BY <1>2 DEF StartNow, CanStartImmediately
  <2> QED BY <2>1, <2>2, <2>4, <2>5 DEF WorkConserving, Room
<1>3. ASSUME NEW c \in Callers, NEW k \in Kinds, Enqueue(c, k)
      PROVE  WorkConserving'
  <2>1. /\ c \notin queued /\ queued' = queued \cup {c} /\ UNCHANGED <<mu, count, closing>>
        /\ kind' = [kind EXCEPT ![c] = k] /\ mu = {} /\ ~closing
    BY <1>3 DEF Enqueue, MayStart, AnsweredOnce
  <2>2. \A l \in Lanes : l # Lane(k) => InLane(l)' = InLane(l)
    BY <2>1 DEF InLane
  <2>3. ~Room(Lane(k))
    BY <1>3, <2>1, LaneFacts DEF Enqueue, CanStartImmediately, WorkConserving
  <2> QED BY <2>1, <2>2, <2>3 DEF WorkConserving, Room
<1>4. ASSUME NEW c \in Callers, ReceiveError(c) \/ DrainError(c) \/ WaitGroupDone(c)
      PROVE  WorkConserving'
  <2>1. c \notin queued
    BY <1>4 DEF ReceiveError, DrainError, WaitGroupDone, AnsweredOnce
  <2> QED BY <1>1, <1>4, <2>1 DEF ReceiveError, DrainError, WaitGroupDone, CallReturns
<1>5. ASSUME NEW c \in Callers,
             ReceiveTask(c) \/ GiveUp(c) \/ CancelRaced(c) \/ DrainTask(c) \/ ContextEnds(c)
      PROVE  WorkConserving'
  BY <1>1, <1>5 DEF ReceiveTask, GiveUp, CancelRaced, DrainTask, ContextEnds
<1>6. ASSUME NEW c \in Callers, CancelQueued(c) \/ GrantTask(c) \/ GrantError(c) \/ Finish(c)
      PROVE  WorkConserving'
  BY <1>6 DEF CancelQueued, GrantTask, GrantError, Finish, WorkConserving
<1>7. ASSUME NEW c \in Callers, ScheduledByFinish(c)
      PROVE  WorkConserving'
  <2>1. NextWaiter = {} /\ UNCHANGED <<queued, count, closing, kind>>
    BY <1>7 DEF ScheduledByFinish
  <2> QED BY <2>1, SchedulerStops DEF WorkConserving, InLane, Room
<1>8. ASSUME NEW c \in Callers, ScheduledByCancel(c)
      PROVE  WorkConserving'
  <2>1. c \notin queued
    BY <1>8 DEF ScheduledByCancel, AnsweredOnce
  <2>2. /\ NextWaiter = {} /\ UNCHANGED <<queued, count, closing>>
        /\ \A w \in queued : kind'[w] = kind[w]
    BY <1>8, <2>1 DEF ScheduledByCancel, CallReturns
  <2>3. \A l \in Lanes : InLane(l)' = InLane(l)
    BY <2>2 DEF InLane
  <2> QED BY <2>2, <2>3, SchedulerStops DEF WorkConserving, Room
<1>9. ASSUME ShutdownFirst
      PROVE  WorkConserving'
  BY <1>9 DEF ShutdownFirst, WorkConserving
<1>10. ASSUME NEW answer, ShutdownAgain \/ ShutdownReturns(answer)
       PROVE  WorkConserving'
  BY <1>1, <1>10 DEF ShutdownAgain, ShutdownReturns
<1>11. ASSUME UNCHANGED vars
       PROVE  WorkConserving'
  BY <1>1, <1>11 DEF vars
<1> QED
  BY <1>2, <1>3, <1>4, <1>5, <1>6, <1>7, <1>8, <1>9, <1>10, <1>11, StepCases

-----------------------------------------------------------------------------
(* The theorems.                                                            *)

LEMMA InitIInv == Init => IInv
<1> SUFFICES ASSUME Init PROVE IInv
  OBVIOUS
<1>1. Control /\ QueueOrder /\ WorkConserving
  <2>1. TypeOK
    <3>1. 0 \in 0..HighBurst
      BY ConfigAssumption
    <3>2. /\ pc \in [Callers -> PCs] /\ kind \in [Callers -> Kinds \cup {"none"}]
          /\ ahead \in [Callers -> SUBSET Callers] /\ count \in [Lanes -> Nat]
          /\ result \in [Callers -> {"empty", "task", "error"}]
      BY DEF Init, PCs
    <3> QED BY <3>1, <3>2 DEF Init, TypeOK
  <2>2. KindKnown /\ MutexHeld /\ ResultRead /\ NoOrphanTask /\ AnsweredOnce
    BY DEF Init, KindKnown, MutexHeld, ResultRead, NoOrphanTask, AnsweredOnce
  <2>3. QueueOrder /\ WorkConserving
    BY DEF Init, QueueOrder, WorkConserving, InLane
  <2> QED BY <2>1, <2>2, <2>3 DEF Control
<1>2. LanesExact
  <2>1. \A l \in Lanes : Holders(l) = {} /\ count[l] = 0 /\ LaneSize[l] \in Nat
    BY LaneFacts DEF Init, Holders
  <2> QED BY <2>1, FS_EmptySet DEF LanesExact
<1>3. ShutdownState
  <2>1. Unfinished = {}
    BY DEF Init, Unfinished
  <2> QED BY <2>1, FS_EmptySet DEF Init, ShutdownState
<1> QED BY <1>1, <1>2, <1>3 DEF IInv

LEMMA StepIInv == IInv /\ [Next]_vars => IInv'
<1> SUFFICES ASSUME IInv, [Next]_vars PROVE IInv'
  OBVIOUS
<1>1. Control /\ LanesExact /\ ShutdownState /\ QueueOrder /\ WorkConserving
  BY DEF IInv
<1>2. LanesExact' /\ (count \in [Lanes -> Nat])' /\ ShutdownState' /\ (wg \in Nat)'
  BY <1>1, LanesStep, ShutdownStateStep
<1>3. (ControlTypes /\ KindKnown /\ MutexHeld /\ ResultRead /\ NoOrphanTask /\ AnsweredOnce)'
  BY <1>1, ControlStep
<1>4. Control'
  BY <1>2, <1>3 DEF Control, ControlTypes, TypeOK
<1> QED BY <1>1, <1>2, <1>4, QueueOrderStep, WorkConservingStep DEF IInv

(* The inductive invariant holds in every reachable state.                  *)
THEOREM InvariantHolds == Spec => []IInv
BY InitIInv, StepIInv, PTL DEF Spec

(* Start, Done, the scheduler, cancellation and Shutdown keep every         *)
(* variable in its type; in particular no counter goes below zero.          *)
THEOREM TypeCorrect == Spec => []TypeOK
<1>1. IInv => TypeOK
  BY DEF IInv, Control
<1> QED BY <1>1, InvariantHolds, PTL

(* The hard limit: the lane counters are exact and within the lanes.        *)
THEOREM LaneLimit == Spec => []LanesExact
<1>1. IInv => LanesExact
  BY DEF IInv
<1> QED BY <1>1, InvariantHolds, PTL

(* No task is ever without a caller that gives its place back.              *)
THEOREM NoLeak == Spec => []NoOrphanTask
<1>1. IInv => NoOrphanTask
  BY DEF IInv, Control
<1> QED BY <1>1, InvariantHolds, PTL

(* No wakeup is lost and no send on a result channel blocks.                *)
THEOREM NoLostWakeup == Spec => []AnsweredOnce
<1>1. IInv => AnsweredOnce
  BY DEF IInv, Control
<1> QED BY <1>1, InvariantHolds, PTL

(* With the mutex free, nobody waits for a lane with room.                  *)
THEOREM NoIdleLane == Spec => []WorkConserving
<1>1. IInv => WorkConserving
  BY DEF IInv
<1> QED BY <1>1, InvariantHolds, PTL

(* After a successful Shutdown nothing runs and nothing will.               *)
THEOREM ShutdownIsFinal == Spec => []DrainedIsFinal
<1>1. ASSUME IInv, drain = "drained"
      PROVE  closing /\ wg = 0 /\ active = {} /\ queued = {}
             /\ \A c \in Callers : pc[c] \notin {"task", "drop", "finish", "wgDone"}
  <2>1. closing /\ queued = {} /\ Unfinished = {} /\ wg = Cardinality(Unfinished)
    BY <1>1 DEF IInv, ShutdownState
  <2>2. wg = 0
    BY <2>1, FS_EmptySet
  <2> QED BY <1>1, <2>1, <2>2 DEF Unfinished, IInv, Control, NoOrphanTask
<1>2. IInv => DrainedIsFinal
  BY <1>1 DEF DrainedIsFinal
<1> QED BY <1>2, InvariantHolds, PTL

-----------------------------------------------------------------------------
(* Order of service.                                                        *)

LEMMA GrantsOldestOfKind ==
  ASSUME NEW w \in NextWaiter, NEW d \in queued, kind[d] = kind[w]
  PROVE  d \notin ahead[w]
<1>1. PeekAux \subseteq First(OfKind("AuxHigh")) \/ PeekAux \subseteq First(OfKind("AuxRender"))
  BY DEF PeekAux
<1>2. NextShared \subseteq PeekAux \cup First(OfKind("Transcode"))
  BY DEF NextShared, First
<1>3. w \in PeekAux \/ w \in First(OfKind("Transcode"))
  BY <1>2 DEF NextWaiter, NextDedicated
<1>4. PICK k \in Kinds : w \in First(OfKind(k))
  BY <1>1, <1>3 DEF Kinds
<1> QED BY <1>4 DEF First, OfKind

(* A step that starts a task either admits its caller at once, and nobody   *)
(* waits in its lane, or grants the caller the scheduler has chosen.        *)
LEMMA HowTasksStart ==
  ASSUME Control, [Next]_vars, NEW c \in active' \ active
  PROVE  \/ c \notin queued /\ StartNow(c, kind'[c]) /\ kind'[c] \in Kinds
         \/ GrantTask(c) /\ c \in queued /\ kind'[c] = kind[c] /\ kind[c] \in Kinds
<1> USE DEF Control, TypeOK
<1>1. ASSUME NEW e \in Callers, NEW k \in Kinds, StartNow(e, k)
      PROVE  c \notin queued /\ StartNow(c, kind'[c]) /\ kind'[c] \in Kinds
  <2>1. c = e /\ kind'[c] = k /\ pc[c] = "idle"
    BY <1>1 DEF StartNow, StartLocked, MayStart
  <2> QED BY <1>1, <2>1 DEF AnsweredOnce
<1>2. ASSUME NEW e \in Callers, GrantTask(e)
      PROVE  GrantTask(c) /\ c \in queued /\ kind'[c] = kind[c] /\ kind[c] \in Kinds
  <2>1. c = e /\ kind'[c] = kind[c]
    BY <1>2 DEF GrantTask, StartLocked
  <2>2. c \in queued
    BY <1>2, <2>1, NextWaiterQueued DEF GrantTask
  <2> QED BY <1>2, <2>1, <2>2 DEF KindKnown, AnsweredOnce
<1>3. ASSUME NEW e \in Callers, NEW k \in Kinds, Enqueue(e, k)
      PROVE  FALSE
  BY <1>3 DEF Enqueue
<1>4. ASSUME NEW e \in Callers,
             \/ ReceiveTask(e) \/ ReceiveError(e) \/ GiveUp(e) \/ CancelQueued(e) \/ CancelRaced(e)
             \/ DrainTask(e) \/ DrainError(e) \/ Finish(e) \/ GrantError(e) \/ ScheduledByFinish(e)
             \/ ScheduledByCancel(e) \/ WaitGroupDone(e) \/ ContextEnds(e)
      PROVE  FALSE
  BY <1>4 DEF ReceiveTask, ReceiveError, GiveUp, CancelQueued, CancelRaced, DrainTask, DrainError,
              Finish, GrantError, ScheduledByFinish, ScheduledByCancel, WaitGroupDone, ContextEnds
<1>5. ASSUME NEW answer, ShutdownFirst \/ ShutdownAgain \/ ShutdownReturns(answer)
      PROVE  FALSE
  BY <1>5 DEF ShutdownFirst, ShutdownAgain, ShutdownReturns
<1>6. ASSUME UNCHANGED vars
      PROVE  FALSE
  BY <1>6 DEF vars
<1> QED BY <1>1, <1>2, <1>3, <1>4, <1>5, <1>6, StepCases

(* First come, first served within a kind, by every path that starts one.   *)
THEOREM ServedInOrder == Spec => NoOvertaking
<1> DEFINE A == \A c, d \in Callers :
                  c \in active' \ active /\ d \in queued \cap queued' /\ kind[d] = kind'[c]
                    => c \in queued /\ d \notin ahead[c]
<1>1. ASSUME IInv, [Next]_vars
      PROVE  A
  <2> SUFFICES ASSUME NEW c \in active' \ active, NEW d \in queued, kind[d] = kind'[c]
               PROVE  c \in queued /\ d \notin ahead[c]
    OBVIOUS
  <2>1. CASE StartNow(c, kind'[c])
    <3>1. d \in InLane(Lane(kind'[c]))
      BY DEF InLane
    <3> QED BY <2>1, <3>1 DEF StartNow, CanStartImmediately
  <2>2. CASE GrantTask(c) /\ c \in queued /\ kind'[c] = kind[c]
    BY <2>2, GrantsOldestOfKind DEF GrantTask
  <2> QED BY <1>1, <2>1, <2>2, HowTasksStart DEF IInv
<1>2. IInv /\ [Next]_vars => [A]_vars
  BY <1>1
<1> QED BY <1>2, InvariantHolds, PTL DEF Spec, NoOvertaking

(* In the shared lane the scheduler takes nobody before the first transcode *)
(* but an older waiter; in dedicated lanes only transcodes share its lane.  *)
LEMMA GrantsNobodyBeforeTranscode ==
  ASSUME Control, QueueOrder, NEW w \in NextWaiter, kind[w] \in Kinds,
         NEW d \in OfKind("Transcode"), Lane(kind[w]) = Lane("Transcode")
  PROVE  d \notin ahead[w]
<1>1. CASE kind[w] = "Transcode"
  BY <1>1, GrantsOldestOfKind DEF OfKind
<1>2. CASE kind[w] # "Transcode"
  <2> SUFFICES ASSUME d \in ahead[w] PROVE FALSE
    OBVIOUS
  <2> DEFINE older == ahead[w] \cap OfKind("Transcode")
  <2>1. w \in queued /\ w \in Callers
    BY NextWaiterQueued DEF Control, TypeOK
  <2>2. older \in SUBSET queued /\ older # {}
    BY DEF OfKind
  <2>3. PICK f \in older : ahead[f] \cap older = {}
    BY <2>2, FirstExists DEF First
  <2>4. f \in Callers /\ ahead[f] \subseteq ahead[w]
    BY <2>1, <2>3 DEF QueueOrder, Control, TypeOK
  <2>5. f \in First(OfKind("Transcode"))
    BY <2>3, <2>4 DEF First
  <2>6. AuxReserved = 0 /\ w \in NextShared
    BY <1>2 DEF Lane, NextWaiter, Kinds
  <2> QED BY <2>3, <2>5, <2>6 DEF NextShared, First
<1> QED BY <1>1, <1>2

(* No step starts a process in the lane of a waiting transcode before it,   *)
(* unless its caller has waited longer.                                     *)
THEOREM ListenersServedInTurn == Spec => ListenersKeepTheirPlace
<1> DEFINE A == \A c, d \in Callers :
                  /\ c \in active' \ active
                  /\ d \in OfKind("Transcode") /\ d \in queued' /\ Lane(kind'[c]) = Lane("Transcode")
                  => c \in queued /\ d \notin ahead[c]
<1>1. ASSUME IInv, [Next]_vars
      PROVE  A
  <2> SUFFICES ASSUME NEW c \in active' \ active, NEW d \in OfKind("Transcode"),
                      Lane(kind'[c]) = Lane("Transcode")
               PROVE  c \in queued /\ d \notin ahead[c]
    OBVIOUS
  <2>1. CASE StartNow(c, kind'[c])
    <3>1. d \in InLane(Lane(kind'[c]))
      BY DEF InLane, OfKind
    <3> QED BY <2>1, <3>1 DEF StartNow, CanStartImmediately
  <2>2. CASE GrantTask(c) /\ c \in queued /\ kind'[c] = kind[c] /\ kind[c] \in Kinds
    BY <1>1, <2>2, GrantsNobodyBeforeTranscode DEF GrantTask, IInv
  <2> QED BY <1>1, <2>1, <2>2, HowTasksStart DEF IInv
<1>2. IInv /\ [Next]_vars => [A]_vars
  BY <1>1
<1> QED BY <1>2, InvariantHolds, PTL DEF Spec, ListenersKeepTheirPlace

-----------------------------------------------------------------------------
(* The bound on how often a waiting render is passed.                       *)

Renders == OfKind("AuxRender")

AuxQueue == OfKind("AuxHigh") \cup OfKind("AuxRender")

Ahead(w) == ahead[w] \cap Renders

(* A render that has been passed still has room for the rest of the present *)
(* burst and one burst for every render ahead of it.                        *)
TurnsInv ==
  /\ passed \in [Callers -> Nat]
  /\ Cardinality(AuxQueue) <= AuxWaiters
  /\ \A w \in Renders :
       passed[w] = 0 \/ passed[w] + (HighBurst - highStreak) + HighBurst * Cardinality(Ahead(w))
                          <= HighBurst * (AuxWaiters - 1)

LEMMA OneMoreBurst ==
  ASSUME NEW n \in Nat
  PROVE  HighBurst * (n + 1) = HighBurst * n + HighBurst /\ HighBurst * n \in Nat
BY ConfigAssumption

LEMMA NoFewerBursts ==
  ASSUME NEW m \in Int, NEW n \in Int, m <= n
  PROVE  HighBurst * m <= HighBurst * n /\ HighBurst * m \in Int /\ HighBurst * n \in Int
BY ConfigAssumption

(* What a step does to the queues: at most one caller enters, the kinds and *)
(* the order of those that stay are kept.                                   *)
LEMMA QueuesChange ==
  ASSUME Control, QueueOrder, [Next]_vars
  PROVE  /\ \A w \in queued \cap queued' : kind'[w] = kind[w] /\ ahead'[w] = ahead[w] \cap queued'
         /\ \/ queued' \subseteq queued
            \/ \E c \in Callers, k \in Kinds : Enqueue(c, k)
<1> USE DEF Control, TypeOK, QueueOrder
<1> DEFINE Kept == \A w \in queued \cap queued' :
                     kind'[w] = kind[w] /\ ahead'[w] = ahead[w] \cap queued'
<1>1. ASSUME NEW c \in Callers, NEW k \in Kinds, StartNow(c, k)
      PROVE  Kept /\ queued' \subseteq queued
  BY <1>1 DEF StartNow, MayStart, AnsweredOnce
<1>2. ASSUME NEW c \in Callers, NEW k \in Kinds, Enqueue(c, k)
      PROVE  Kept
  BY <1>2 DEF Enqueue, MayStart, AnsweredOnce
<1>3. ASSUME NEW c \in Callers,
             ReceiveError(c) \/ DrainError(c) \/ ScheduledByCancel(c) \/ WaitGroupDone(c)
      PROVE  Kept /\ queued' \subseteq queued
  <2>1. c \notin queued
    BY <1>3 DEF ReceiveError, DrainError, ScheduledByCancel, WaitGroupDone, AnsweredOnce
  <2>2. UNCHANGED <<queued, ahead>> /\ CallReturns(c)
    BY <1>3 DEF ReceiveError, DrainError, ScheduledByCancel, WaitGroupDone
  <2> QED BY <2>1, <2>2 DEF CallReturns
<1>4. ASSUME NEW c \in Callers, CancelQueued(c) \/ GrantTask(c) \/ GrantError(c)
      PROVE  Kept /\ queued' \subseteq queued
  <2>1. Unqueue(c) /\ kind' = kind
    BY <1>4 DEF CancelQueued, GrantTask, GrantError
  <2> QED BY <2>1 DEF Unqueue
<1>5. ASSUME NEW c \in Callers,
             \/ ReceiveTask(c) \/ GiveUp(c) \/ CancelRaced(c) \/ DrainTask(c) \/ Finish(c)
             \/ ScheduledByFinish(c) \/ ContextEnds(c)
      PROVE  Kept /\ queued' \subseteq queued
  BY <1>5 DEF ReceiveTask, GiveUp, CancelRaced, DrainTask, Finish, ScheduledByFinish, ContextEnds
<1>6. ASSUME NEW answer, ShutdownFirst \/ ShutdownAgain \/ ShutdownReturns(answer)
      PROVE  Kept /\ queued' \subseteq queued
  BY <1>6 DEF ShutdownFirst, ShutdownAgain, ShutdownReturns
<1>7. ASSUME UNCHANGED vars
      PROVE  Kept /\ queued' \subseteq queued
  BY <1>7 DEF vars
<1> QED BY <1>1, <1>2, <1>3, <1>4, <1>5, <1>6, <1>7, StepCases

LEMMA StreakChanges ==
  ASSUME Control, [Next]_vars
  PROVE  highStreak' = highStreak \/ Starts("AuxHigh") \/ Starts("AuxRender")
<1> USE DEF Control, TypeOK
<1>1. ASSUME NEW c \in Callers, NEW k \in Kinds, StartNow(c, k)
      PROVE  highStreak' = highStreak \/ Starts("AuxHigh") \/ Starts("AuxRender")
  <2>1. c \in active' \ active /\ kind'[c] = k
    BY <1>1 DEF StartNow, MayStart, StartLocked, NoOrphanTask, ResultRead
  <2> QED BY <1>1, <2>1 DEF StartNow, StartLocked, Starts, Kinds
<1>2. ASSUME NEW c \in Callers, GrantTask(c)
      PROVE  highStreak' = highStreak \/ Starts("AuxHigh") \/ Starts("AuxRender")
  <2>1. c \in queued
    BY <1>2, NextWaiterQueued DEF GrantTask
  <2>2. c \in active' \ active /\ kind'[c] = kind[c]
    BY <1>2, <2>1 DEF GrantTask, StartLocked, NoOrphanTask, AnsweredOnce
  <2> QED BY <1>2, <2>2 DEF GrantTask, StartLocked, Starts
<1>3. ASSUME NEW c \in Callers, NEW k \in Kinds, Enqueue(c, k)
      PROVE  highStreak' = highStreak
  BY <1>3 DEF Enqueue
<1>4. ASSUME NEW e \in Callers,
             \/ ReceiveTask(e) \/ ReceiveError(e) \/ GiveUp(e) \/ CancelQueued(e) \/ CancelRaced(e)
             \/ DrainTask(e) \/ DrainError(e) \/ Finish(e) \/ GrantError(e) \/ ScheduledByFinish(e)
             \/ ScheduledByCancel(e) \/ WaitGroupDone(e) \/ ContextEnds(e)
      PROVE  highStreak' = highStreak
  BY <1>4 DEF ReceiveTask, ReceiveError, GiveUp, CancelQueued, CancelRaced, DrainTask, DrainError,
              Finish, GrantError, ScheduledByFinish, ScheduledByCancel, WaitGroupDone, ContextEnds
<1>5. ASSUME NEW answer, ShutdownFirst \/ ShutdownAgain \/ ShutdownReturns(answer)
      PROVE  highStreak' = highStreak
  BY <1>5 DEF ShutdownFirst, ShutdownAgain, ShutdownReturns
<1>6. ASSUME UNCHANGED vars
      PROVE  highStreak' = highStreak
  BY <1>6 DEF vars
<1> QED BY <1>1, <1>2, <1>3, <1>4, <1>5, <1>6, StepCases

LEMMA AuxQueueStep ==
  ASSUME Control, QueueOrder, [Next]_vars, Cardinality(AuxQueue) <= AuxWaiters
  PROVE  Cardinality(AuxQueue)' <= AuxWaiters
<1>1. AuxQueue \in SUBSET Callers /\ IsFiniteSet(AuxQueue) /\ Cardinality(AuxQueue) \in Nat
  BY FiniteCallers DEF AuxQueue, OfKind, Control, TypeOK
<1>2. \A w \in queued \cap queued' : kind'[w] = kind[w]
  BY QueuesChange
<1>3. CASE queued' \subseteq queued
  <2>1. AuxQueue' \subseteq AuxQueue
    BY <1>2, <1>3 DEF AuxQueue, OfKind
  <2>2. Cardinality(AuxQueue') <= Cardinality(AuxQueue) /\ Cardinality(AuxQueue') \in Nat
    BY <1>1, <2>1, FS_Subset, FS_CardinalityType
  <2> QED BY <1>1, <2>2, ConfigAssumption
<1>4. ASSUME NEW c \in Callers, NEW k \in Kinds, Enqueue(c, k)
      PROVE  Cardinality(AuxQueue') <= AuxWaiters
  <2>1. /\ c \notin queued /\ queued' = queued \cup {c} /\ kind'[c] = k
        /\ c \notin AuxQueue
    BY <1>4 DEF Enqueue, MayStart, Control, AnsweredOnce, TypeOK, AuxQueue, OfKind
  <2>2. CASE k = "Transcode"
    <3>1. AuxQueue' = AuxQueue
      BY <1>2, <2>1, <2>2 DEF AuxQueue, OfKind
    <3> QED BY <3>1
  <2>3. CASE k # "Transcode"
    <3>1. AuxQueue' = AuxQueue \cup {c}
      BY <1>2, <2>1, <2>3 DEF AuxQueue, OfKind, Kinds
    <3>2. Cardinality(AuxQueue) < AuxWaiters
      BY <1>4, <2>3 DEF Enqueue, CanQueue, AuxQueue
    <3>3. Cardinality(AuxQueue \cup {c}) = Cardinality(AuxQueue) + 1
      BY <1>1, <2>1, AddCaller
    <3> QED BY <1>1, <3>1, <3>2, <3>3, ConfigAssumption
  <2> QED BY <2>2, <2>3
<1> QED BY <1>3, <1>4, QueuesChange

(* While a render waits, an AuxHigh starts only as part of a burst, and a   *)
(* render only from in front.                                               *)
LEMMA AuxStarts ==
  ASSUME Control, QueueOrder, [Next]_vars, NEW w \in Renders, w \in queued',
         NEW c \in active' \ active, kind'[c] # "Transcode"
  PROVE  /\ c \in queued /\ c \notin queued' /\ kind[c] = kind'[c] /\ c # w
         /\ kind[c] = "AuxHigh" => highStreak < HighBurst /\ highStreak' = highStreak + 1
         /\ kind[c] = "AuxRender" => c \in ahead[w] /\ highStreak' = 0
<1>1. CASE StartNow(c, kind'[c]) /\ kind'[c] \in Kinds
  <2>1. w \in InLane(Lane(kind'[c]))
    BY <1>1 DEF InLane, Renders, OfKind, Lane, Kinds
  <2> QED BY <1>1, <2>1 DEF StartNow, CanStartImmediately
<1>2. CASE GrantTask(c) /\ c \in queued /\ kind'[c] = kind[c] /\ kind[c] \in Kinds
  <2>1. c \in NextWaiter /\ c \notin queued'
    BY <1>2 DEF GrantTask, Unqueue
  <2>2. /\ c \in Callers /\ w \in Callers /\ w \in queued /\ kind[w] = "AuxRender" /\ c # w
        /\ highStreak \in Nat
    BY <1>2, <2>1, ConfigAssumption DEF Control, TypeOK, Renders, OfKind
  <2>3. ASSUME kind[c] = "AuxHigh"
        PROVE  highStreak < HighBurst /\ highStreak' = highStreak + 1
    <3>1. c \in PeekAux
      BY <2>1, <2>3 DEF NextWaiter, NextDedicated, NextShared, First, OfKind
    <3>2. highStreak < HighBurst
      BY <2>3, <3>1 DEF PeekAux, First, OfKind, Renders
    <3> QED BY <1>2, <2>3, <3>2 DEF GrantTask, StartLocked
  <2>4. ASSUME kind[c] = "AuxRender"
        PROVE  c \in ahead[w] /\ highStreak' = 0
    <3>1. w \notin ahead[c]
      BY <2>1, <2>2, <2>4, GrantsOldestOfKind
    <3>2. c \in ahead[w]
      BY <1>2, <2>2, <3>1 DEF QueueOrder
    <3> QED BY <1>2, <2>4, <3>2 DEF GrantTask, StartLocked
  <2> QED BY <1>2, <2>1, <2>2, <2>3, <2>4
<1> QED BY <1>1, <1>2, HowTasksStart

LEMMA TurnsStep ==
  ASSUME IInv, TurnsInv, TurnsNext
  PROVE  TurnsInv'
<1>1. Control /\ QueueOrder /\ [Next]_vars /\ Cardinality(AuxQueue) <= AuxWaiters
  BY DEF IInv, TurnsInv, TurnsNext
<1>2. (passed \in [Callers -> Nat])'
  BY DEF TurnsInv, TurnsNext
<1>3. Cardinality(AuxQueue)' <= AuxWaiters
  BY <1>1, AuxQueueStep
<1> DEFINE Left(w) == passed[w] + (HighBurst - highStreak) + HighBurst * Cardinality(Ahead(w))
           Bound == HighBurst * (AuxWaiters - 1)
<1>4. ASSUME NEW w \in Renders', passed'[w] # 0
      PROVE  Left(w)' <= Bound
  <2>1. w \in Callers /\ w \in queued \cap queued' /\ w \in Renders
    <3>1. IInv'
      BY <1>1, StepIInv
    <3>2. w \in Callers /\ w \in queued' /\ kind'[w] = "AuxRender"
      BY <3>1 DEF Renders, OfKind, IInv, Control, TypeOK
    <3>3. w \in queued \cap queued'
      BY <1>4, <3>2 DEF TurnsNext, OfKind
    <3>4. kind[w] = "AuxRender"
      BY <1>1, <3>2, <3>3, QueuesChange
    <3> QED BY <3>2, <3>3, <3>4 DEF Renders, OfKind
  <2>2. Ahead(w) \in SUBSET Callers /\ Ahead(w)' = Ahead(w) \cap queued'
    <3>1. Ahead(w)' \subseteq Ahead(w) \cap queued'
      BY <1>1, <2>1, QueuesChange DEF Ahead, Renders, OfKind, QueueOrder
    <3>2. Ahead(w) \cap queued' \subseteq Ahead(w)'
      BY <1>1, <2>1, QueuesChange DEF Ahead, Renders, OfKind, QueueOrder
    <3> QED BY <1>1, <2>1, <3>1, <3>2 DEF Ahead, Control, TypeOK
  <2> DEFINE n == Cardinality(Ahead(w))
             m == Cardinality(Ahead(w)')
  <2>3. n \in Nat /\ m \in Nat /\ m <= n
    BY <2>2, FiniteCallers, FS_Subset, FS_CardinalityType
  <2>4. /\ passed[w] \in Nat /\ highStreak \in 0..HighBurst /\ HighBurst \in Nat \ {0}
        /\ AuxWaiters \in Nat /\ Bound \in Int /\ HighBurst * n \in Nat /\ HighBurst * m \in Nat
    BY <1>1, <2>1, <2>3, ConfigAssumption, OneMoreBurst, NoFewerBursts DEF TurnsInv, Control, TypeOK
  <2>5. HighBurst * m <= HighBurst * n
    BY <2>3, NoFewerBursts
  <2>6. passed[w] = 0 \/ passed[w] + (HighBurst - highStreak) + HighBurst * n <= Bound
    BY <2>1 DEF TurnsInv
  <2> HIDE DEF n, m, Bound
  <2>7. CASE Starts("AuxHigh")
    <3>1. PICK c \in active' \ active : kind'[c] = "AuxHigh"
      BY <2>7 DEF Starts
    <3>2. c \in queued /\ kind[c] = "AuxHigh" /\ highStreak < HighBurst /\ highStreak' = highStreak + 1
      BY <1>1, <2>1, <3>1, AuxStarts
    <3>3. passed'[w] = passed[w] + 1
      BY <2>1, <2>7 DEF TurnsNext, Renders
    <3>4. n + 2 <= AuxWaiters
      <4>1. /\ w \notin Ahead(w) /\ c \in Callers /\ c \notin Ahead(w) \cup {w}
            /\ Ahead(w) \cup {w} \cup {c} \subseteq AuxQueue
        BY <1>1, <2>1, <3>2 DEF Ahead, AuxQueue, Renders, OfKind, QueueOrder, Control, TypeOK
      <4>2. Cardinality(Ahead(w) \cup {w}) = n + 1
        BY <2>1, <2>2, <4>1, AddCaller DEF n
      <4>3. Cardinality(Ahead(w) \cup {w} \cup {c}) = n + 2
        BY <2>1, <2>2, <2>3, <4>1, <4>2, AddCaller
      <4>4. AuxQueue \in SUBSET Callers /\ IsFiniteSet(AuxQueue) /\ Cardinality(AuxQueue) \in Nat
        BY <1>1, FiniteCallers DEF AuxQueue, OfKind, Control, TypeOK
      <4>5. Cardinality(Ahead(w) \cup {w} \cup {c}) <= Cardinality(AuxQueue)
        BY <4>1, <4>4, FS_Subset
      <4> QED BY <1>1, <2>3, <2>4, <4>3, <4>4, <4>5
    <3>5. HighBurst * n + HighBurst <= Bound
      <4>1. HighBurst * (n + 1) <= Bound
        BY <2>3, <2>4, <3>4, NoFewerBursts DEF Bound
      <4> QED BY <2>3, <4>1, OneMoreBurst
    <3> QED BY <2>4, <2>5, <2>6, <3>2, <3>3, <3>5 DEF m
  <2>8. CASE ~Starts("AuxHigh") /\ Starts("AuxRender")
    <3>1. PICK c \in active' \ active : kind'[c] = "AuxRender"
      BY <2>8 DEF Starts
    <3>2. /\ c \in queued /\ c \notin queued' /\ kind[c] = "AuxRender" /\ c \in ahead[w]
          /\ highStreak' = 0
      BY <1>1, <2>1, <3>1, AuxStarts
    <3>3. passed'[w] = passed[w]
      BY <2>1, <2>8 DEF TurnsNext, Renders
    <3>4. m + 1 <= n
      <4>1. c \in Callers /\ c \in Ahead(w) /\ Ahead(w)' \subseteq Ahead(w) \ {c}
        BY <1>1, <2>2, <3>2 DEF Ahead, Renders, OfKind, Control, TypeOK
      <4>2. Cardinality(Ahead(w) \ {c}) = n - 1 /\ IsFiniteSet(Ahead(w) \ {c})
        BY <2>2, <4>1, DropCaller, FiniteCallers DEF n
      <4>3. m <= n - 1
        BY <4>1, <4>2, FS_Subset DEF m
      <4> QED BY <2>3, <4>3
    <3>5. HighBurst * m + HighBurst <= HighBurst * n
      <4>1. HighBurst * (m + 1) <= HighBurst * n
        BY <2>3, <3>4, NoFewerBursts
      <4> QED BY <2>3, <4>1, OneMoreBurst
    <3> QED BY <1>4, <2>4, <2>6, <3>2, <3>3, <3>5 DEF m
  <2>9. CASE ~Starts("AuxHigh") /\ ~Starts("AuxRender")
    <3>1. passed'[w] = passed[w] /\ highStreak' = highStreak
      BY <1>1, <2>1, <2>9, StreakChanges DEF TurnsNext, Renders
    <3> QED BY <1>4, <2>4, <2>5, <2>6, <3>1 DEF m
  <2> QED BY <2>7, <2>8, <2>9
<1> HIDE DEF Left
<1>5. ASSUME NEW w \in Renders'
      PROVE  passed'[w] = 0 \/ Left(w)' <= Bound
  BY <1>4
<1> QED BY <1>2, <1>3, <1>5 DEF TurnsInv, Left

(* A waiting render is passed by at most HighBurst processes for each other *)
(* place of its queue, whoever comes, gives up or fails meanwhile.          *)
THEOREM RendersPassedBoundedly == TurnsSpec => []RendersGetTheirTurn
<1>1. TurnsInit => IInv /\ TurnsInv
  <2> SUFFICES ASSUME TurnsInit PROVE IInv /\ TurnsInv
    OBVIOUS
  <2>1. AuxQueue = {} /\ Renders = {} /\ passed \in [Callers -> Nat]
    BY DEF TurnsInit, Init, AuxQueue, Renders, OfKind
  <2> QED BY <2>1, InitIInv, FS_EmptySet, ConfigAssumption DEF TurnsInit, TurnsInv
<1>2. IInv /\ TurnsInv /\ [TurnsNext]_<<vars, passed>> => (IInv /\ TurnsInv)'
  <2>1. CASE TurnsNext
    BY <2>1, StepIInv, TurnsStep DEF TurnsNext
  <2>2. CASE UNCHANGED <<vars, passed>>
    <3>1. IInv => IInv'
      BY <2>2, StepIInv
    <3>2. UNCHANGED <<AuxQueue, Renders, highStreak, passed>> /\ \A w : Ahead(w)' = Ahead(w)
      BY <2>2 DEF vars, AuxQueue, Renders, OfKind, Ahead
    <3> QED BY <3>1, <3>2 DEF TurnsInv
  <2> QED BY <2>1, <2>2
<1>3. IInv /\ TurnsInv => RendersGetTheirTurn
  <2> SUFFICES ASSUME IInv, TurnsInv, NEW w \in Renders
               PROVE  passed[w] <= HighBurst * (AuxWaiters - 1)
    BY DEF RendersGetTheirTurn, Renders
  <2>1. /\ w \in Callers /\ w \in AuxQueue /\ highStreak \in 0..HighBurst /\ passed[w] \in Nat
        /\ Ahead(w) \in SUBSET Callers /\ AuxQueue \in SUBSET Callers
    BY DEF IInv, Control, TypeOK, TurnsInv, Renders, AuxQueue, OfKind, Ahead
  <2>2. Cardinality(Ahead(w)) \in Nat /\ HighBurst * Cardinality(Ahead(w)) \in Nat
    BY <2>1, FiniteCallers, OneMoreBurst
  <2>3. AuxWaiters - 1 \in Nat
    <3>1. Cardinality({w}) <= Cardinality(AuxQueue) /\ Cardinality({w}) = 1
      <4>1. {w} \in SUBSET AuxQueue /\ IsFiniteSet(AuxQueue)
        BY <2>1, FiniteCallers
      <4> QED BY <4>1, FS_Subset, FS_Singleton
    <3>2. Cardinality(AuxQueue) \in Nat /\ Cardinality(AuxQueue) <= AuxWaiters
      BY <2>1, FiniteCallers DEF TurnsInv
    <3> QED BY <3>1, <3>2, ConfigAssumption
  <2>4. HighBurst * (AuxWaiters - 1) \in Nat
    BY <2>3, OneMoreBurst
  <2> QED BY <2>1, <2>2, <2>4, ConfigAssumption DEF TurnsInv
<1> QED BY <1>1, <1>2, <1>3, PTL DEF TurnsSpec

-----------------------------------------------------------------------------
(* The manager implements MediaLanes.                                       *)

LaneOf == [c \in Callers |-> IF c \in queued \cup active THEN Lane(kind[c]) ELSE "none"]

(* A step that keeps the members of the lanes and their kinds is invisible. *)
LEMMA Invisible ==
  ASSUME UNCHANGED <<queued, active, closing>>, \A c \in queued \cup active : kind'[c] = kind[c]
  PROVE  UNCHANGED Promise!vars
<1>1. LaneOf' = LaneOf
  BY DEF LaneOf
<1> QED BY <1>1 DEF LaneOf, Promise!vars

LEMMA PromisedRoom ==
  ASSUME Control, LanesExact, NEW l \in Lanes
  PROVE  Promise!Room(l) <=> Room(l)
<1>1. Promise!InLane(active, l) = Holders(l)
  BY DEF Promise!InLane, Holders, Control, TypeOK
<1>2. Promise!Cardinality(Holders(l)) = Cardinality(Holders(l))
  BY DEF Promise!Cardinality, Cardinality
<1> QED BY <1>1, <1>2 DEF Promise!Room, Room, LanesExact

THEOREM LanesImplemented == Spec => ImplementsLanes
<1>1. Init => Promise!Init
  BY DEF Init, Promise!Init
<1>2. ASSUME IInv, [Next]_vars
      PROVE  [Promise!Next]_Promise!vars
  <2> USE DEF IInv, Control, TypeOK
  <2>1. ASSUME NEW c \in Callers, NEW k \in Kinds, StartNow(c, k)
        PROVE  Promise!Enter(c, Lane(k))
    <3>1. Lane(k) \in Lanes /\ c \notin queued \cup active
      BY <1>2, <2>1, LaneFacts DEF StartNow, MayStart, NoOrphanTask, AnsweredOnce
    <3>2. Promise!InLane(queued, Lane(k)) = {}
      BY <1>2, <2>1 DEF StartNow, CanStartImmediately, InLane, Promise!InLane
    <3>3. Promise!Room(Lane(k))
      BY <1>2, <2>1, <3>1, PromisedRoom DEF StartNow, CanStartImmediately
    <3>4. LaneOf' = [LaneOf EXCEPT ![c] = Lane(k)]
      BY <1>2, <2>1, <3>1 DEF StartNow, StartLocked, LaneOf
    <3> QED BY <2>1, <3>1, <3>2, <3>3, <3>4 DEF StartNow, MayStart, StartLocked, LaneOf, Promise!Enter
  <2>2. ASSUME NEW c \in Callers, NEW k \in Kinds, Enqueue(c, k)
        PROVE  Promise!Wait(c, Lane(k))
    <3>1. Lane(k) \in Lanes /\ c \notin queued \cup active
      BY <1>2, <2>2, LaneFacts DEF Enqueue, MayStart, NoOrphanTask, AnsweredOnce
    <3>2. ~Room(Lane(k))
      BY <1>2, <2>2, <3>1 DEF Enqueue, MayStart, CanStartImmediately, WorkConserving
    <3>3. ~Promise!Room(Lane(k))
      BY <1>2, <3>1, <3>2, PromisedRoom
    <3>4. LaneOf' = [LaneOf EXCEPT ![c] = Lane(k)]
      BY <1>2, <2>2, <3>1 DEF Enqueue, LaneOf
    <3> QED BY <2>2, <3>1, <3>3, <3>4 DEF Enqueue, MayStart, LaneOf, Promise!Wait
  <2>3. ASSUME NEW c \in Callers, GrantTask(c)
        PROVE  Promise!Admit(c)
    <3>1. c \in queued /\ ~closing /\ Room(Lane(kind[c]))
      BY <2>3, NextWaiterQueued DEF GrantTask
    <3>2. Lane(kind[c]) \in Lanes
      BY <1>2, <3>1, LaneFacts DEF KindKnown, AnsweredOnce
    <3>3. LaneOf[c] = Lane(kind[c]) /\ Promise!Room(LaneOf[c])
      BY <1>2, <3>1, <3>2, PromisedRoom DEF LaneOf
    <3>4. LaneOf' = LaneOf
      BY <2>3, <3>1 DEF GrantTask, Unqueue, StartLocked, LaneOf
    <3> QED BY <2>3, <3>1, <3>3, <3>4 DEF GrantTask, Unqueue, StartLocked, LaneOf, Promise!Admit
  <2>4. ASSUME NEW c \in Callers, CancelQueued(c) \/ GrantError(c)
        PROVE  Promise!Withdraw(c)
    <3>1. c \in queued /\ c \notin active
      BY <1>2, <2>4, NextWaiterQueued DEF CancelQueued, GrantError, NoOrphanTask, AnsweredOnce
    <3>2. LaneOf' = [LaneOf EXCEPT ![c] = "none"]
      BY <2>4, <3>1 DEF CancelQueued, GrantError, Unqueue, LaneOf
    <3> QED BY <2>4, <3>1, <3>2 DEF CancelQueued, GrantError, Unqueue, LaneOf, Promise!Withdraw
  <2>5. ASSUME NEW c \in Callers, Finish(c)
        PROVE  Promise!Release(c)
    <3>1. c \in active /\ c \notin queued
      BY <1>2, <2>5 DEF Finish, AnsweredOnce
    <3>2. LaneOf' = [LaneOf EXCEPT ![c] = "none"]
      BY <2>5, <3>1 DEF Finish, LaneOf
    <3> QED BY <2>5, <3>1, <3>2 DEF Finish, LaneOf, Promise!Release
  <2>6. ASSUME ShutdownFirst
        PROVE  Promise!Close
    <3>1. LaneOf' = [c \in Callers |-> IF c \in active THEN LaneOf[c] ELSE "none"]
      BY <2>6 DEF ShutdownFirst, LaneOf
    <3> QED BY <2>6, <3>1 DEF ShutdownFirst, LaneOf, Promise!Close
  <2>7. ASSUME NEW c \in Callers,
               ReceiveError(c) \/ DrainError(c) \/ ScheduledByCancel(c) \/ WaitGroupDone(c)
        PROVE  UNCHANGED Promise!vars
    <3>1. c \notin queued \cup active
      BY <1>2, <2>7 DEF ReceiveError, DrainError, ScheduledByCancel, WaitGroupDone, NoOrphanTask,
                        AnsweredOnce
    <3>2. UNCHANGED <<queued, active, closing>> /\ CallReturns(c)
      BY <2>7 DEF ReceiveError, DrainError, ScheduledByCancel, WaitGroupDone
    <3> QED BY <1>2, <3>1, <3>2, Invisible DEF CallReturns
  <2>8. ASSUME NEW c \in Callers,
               \/ ReceiveTask(c) \/ GiveUp(c) \/ CancelRaced(c) \/ DrainTask(c)
               \/ ScheduledByFinish(c) \/ ContextEnds(c)
        PROVE  UNCHANGED Promise!vars
    BY <2>8, Invisible DEF ReceiveTask, GiveUp, CancelRaced, DrainTask, ScheduledByFinish, ContextEnds
  <2>9. ASSUME NEW answer, ShutdownAgain \/ ShutdownReturns(answer)
        PROVE  UNCHANGED Promise!vars
    BY <2>9, Invisible DEF ShutdownAgain, ShutdownReturns
  <2>10. ASSUME UNCHANGED vars
         PROVE  UNCHANGED Promise!vars
    BY <2>10, Invisible DEF vars
  <2>11. \A k \in Kinds : Lane(k) \in Lanes
    BY LaneFacts
  <2> QED BY <1>2, <2>1, <2>2, <2>3, <2>4, <2>5, <2>6, <2>7, <2>8, <2>9, <2>10, <2>11, StepCases
          DEF Promise!Next
<1> QED BY <1>1, <1>2, InvariantHolds, PTL DEF Spec, ImplementsLanes, Promise!Spec
=============================================================================
