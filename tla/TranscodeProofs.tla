--------------------------- MODULE TranscodeProofs ---------------------------
(***************************************************************************)
(* Proofs about Transcode, for any finite set of requests, any size of the *)
(* lane and any amount of output.  The lane is the manager's promise; what *)
(* has to be shown of the handler is that it keeps its side: the process   *)
(* lives between Launch and Reap, the place is held from Enter or Admit to *)
(* Return, and the reasons a process is killed for are still there when    *)
(* the result is made.                                                     *)
(***************************************************************************)
EXTENDS Transcode, FiniteSetTheorems, TLAPS

Copying == {"read", "write", "first", "stop", "reap"}

Types ==
  /\ waiting \subseteq Requests /\ holding \subseteq Requests
  /\ lane \in [Requests -> {"transcode", "none"}]
  /\ pc \in [Requests -> Copying \cup {"new", "wait", "launch", "result", "done"}]
  /\ process \in [Requests -> {"none", "running", "ok", "failed", "killed"}]
  /\ copyErr \in [Requests -> {"nil", "failed"}]

LaneKept ==
  /\ waiting \cap holding = {}
  /\ \A r \in waiting \cup holding : lane[r] = "transcode"
  /\ Cardinality(holding) <= Places

Handler ==
  \A r \in Requests :
    /\ pc[r] \in Copying \cup {"launch", "result"} => r \in holding
    /\ pc[r] \in Copying => process[r] # "none"
    /\ pc[r] = "result" => Dead(r)
    /\ pc[r] \in {"new", "wait", "launch", "done"} => process[r] = "none"
    /\ r \in waiting => pc[r] = "wait"
    /\ r \in holding => pc[r] \notin {"new", "done"}

(* Why a process may have been cancelled or killed, and while it matters.   *)
Reasons ==
  \A r \in Requests :
    /\ r \in late \cup cancelled => pc[r] \in Copying \cup {"result"}
    /\ copyErr[r] # "nil" => pc[r] \in {"first", "stop", "reap", "result"}
    /\ process[r] = "killed" => ProcessContextDone(r)
    /\ r \in cancelled => r \in timedOut \cup ctxDone \/ copyErr[r] # "nil"
    /\ r \in committed => r \in sent

TInv == Types /\ LaneKept /\ Handler

-----------------------------------------------------------------------------
(* The manager's steps keep the lane within its size.                       *)

LEMMA FiniteHolding ==
  ASSUME NEW S, S \subseteq Requests
  PROVE  IsFiniteSet(S) /\ Cardinality(S) \in Nat
BY TranscodeAssumption, FS_Subset, FS_CardinalityType

LEMMA AllInLane ==
  ASSUME Types, LaneKept
  PROVE  Manager!InLane(holding, "transcode") = holding
BY DEF Types, LaneKept, Manager!InLane

LEMMA OneMoreHolds ==
  ASSUME Types, LaneKept, NEW r \in Requests, Manager!Room("transcode"), holding' = holding \cup {r}
  PROVE  Cardinality(holding') <= Places
<1> USE TranscodeAssumption
<1>1. Cardinality(holding) < Places
  <2>1. Manager!Cardinality(holding) < Places
    BY AllInLane DEF Manager!Room
  <2>2. Manager!Cardinality(holding) = Cardinality(holding)
    BY DEF Manager!Cardinality, Cardinality
  <2> QED  BY <2>1, <2>2
<1>2. CASE r \in holding
  <2>1. holding' = holding  BY <1>2
  <2> QED  BY <2>1 DEF LaneKept
<1>3. CASE r \notin holding
  <2>1. Cardinality(holding') = Cardinality(holding) + 1
    BY <1>3, FiniteHolding, FS_AddElement DEF Types
  <2> QED  BY <1>1, <2>1, FiniteHolding DEF Types
<1> QED  BY <1>2, <1>3

LEMMA FewerHold ==
  ASSUME Types, LaneKept, holding' \subseteq holding
  PROVE  Cardinality(holding') <= Places
<1>1. Cardinality(holding') <= Cardinality(holding) /\ Cardinality(holding') \in Nat
  BY FiniteHolding, FS_Subset, FS_CardinalityType DEF Types
<1> QED  BY <1>1, FiniteHolding, TranscodeAssumption DEF Types, LaneKept

LEMMA EnterKeeps ==
  ASSUME TInv, NEW r \in Requests, Manager!Enter(r, "transcode")
  PROVE  LaneKept' /\ holding' = holding \cup {r} /\ waiting' = waiting
         /\ holding' \subseteq Requests /\ lane' \in [Requests -> {"transcode", "none"}]
  BY OneMoreHolds DEF TInv, Types, LaneKept, Manager!Enter

LEMMA WaitKeeps ==
  ASSUME TInv, NEW r \in Requests, Manager!Wait(r, "transcode")
  PROVE  LaneKept' /\ holding' = holding /\ waiting' = waiting \cup {r}
         /\ lane' \in [Requests -> {"transcode", "none"}]
  BY DEF TInv, Types, LaneKept, Manager!Wait

LEMMA AdmitKeeps ==
  ASSUME TInv, NEW r \in Requests, Manager!Admit(r)
  PROVE  LaneKept' /\ holding' = holding \cup {r} /\ waiting' = waiting \ {r}
         /\ r \in waiting /\ lane' = lane
<1>1. lane[r] = "transcode" /\ r \in waiting
  BY DEF TInv, LaneKept, Manager!Admit
<1> QED  BY <1>1, OneMoreHolds DEF TInv, Types, LaneKept, Manager!Admit

LEMMA WithdrawKeeps ==
  ASSUME TInv, NEW r \in Requests, Manager!Withdraw(r)
  PROVE  LaneKept' /\ holding' = holding /\ waiting' = waiting \ {r} /\ r \in waiting
         /\ lane' \in [Requests -> {"transcode", "none"}]
  BY DEF TInv, Types, LaneKept, Manager!Withdraw

LEMMA ReleaseKeeps ==
  ASSUME TInv, NEW r \in Requests, Manager!Release(r)
  PROVE  LaneKept' /\ holding' = holding \ {r} /\ waiting' = waiting /\ r \in holding
         /\ lane' \in [Requests -> {"transcode", "none"}]
  BY FewerHold DEF TInv, Types, LaneKept, Manager!Release

LEMMA CloseKeeps ==
  ASSUME TInv, Manager!Close
  PROVE  LaneKept' /\ holding' = holding /\ waiting' = {}
         /\ lane' \in [Requests -> {"transcode", "none"}]
  BY DEF TInv, Types, LaneKept, Manager!Close

-----------------------------------------------------------------------------
LEMMA InitTInv == Init => TInv /\ Reasons
<1> SUFFICES ASSUME Init PROVE TInv /\ Reasons  OBVIOUS
<1>1. Types
  BY DEF Init, Types, Manager!Init
<1>2. LaneKept
  BY FS_EmptySet, TranscodeAssumption DEF Init, LaneKept, Manager!Init
<1>3. Handler /\ Reasons
  BY DEF Init, Handler, Reasons, Manager!Init, Copying
<1> QED  BY <1>1, <1>2, <1>3 DEF TInv

(* A step that leaves the manager alone. *)
LEMMA ManagerUntouched ==
  ASSUME LaneKept, UNCHANGED manager
  PROVE  LaneKept'
BY DEF LaneKept, manager

LEMMA TStep ==
  ASSUME TInv, [Next]_vars
  PROVE  TInv'
<1> USE DEF At, Go, Copying
<1>1. ASSUME NEW r \in Requests, Enter(r)  PROVE TInv'
  BY <1>1, EnterKeeps DEF Enter, TInv, Types, Handler, BeforeProcess, media, reply, events, Dead
<1>2. ASSUME NEW r \in Requests, Wait(r)  PROVE TInv'
  BY <1>2, WaitKeeps DEF Wait, TInv, Types, Handler, BeforeProcess, media, reply, events, Dead
<1>3. ASSUME NEW r \in Requests, Refused(r)  PROVE TInv'
  BY <1>3, ManagerUntouched
     DEF Refused, Returns, TInv, Types, Handler, BeforeProcess, media, reply, manager, Dead
<1>4. ASSUME NEW r \in Requests, Admit(r)  PROVE TInv'
  BY <1>4, AdmitKeeps DEF Admit, TInv, Types, Handler, BeforeProcess, media, reply, events, Dead
<1>5. ASSUME NEW r \in Requests, Admitted(r)  PROVE TInv'
  BY <1>5, ManagerUntouched
     DEF Admitted, TInv, Types, LaneKept, Handler, BeforeProcess, media, reply, events, manager, Dead
<1>6. ASSUME NEW r \in Requests, StopsWaiting(r)  PROVE TInv'
  <2>1. CASE Manager!Withdraw(r)
    BY <1>6, <2>1, WithdrawKeeps
       DEF StopsWaiting, Returns, TInv, Types, LaneKept, Handler, BeforeProcess, media, reply, Dead
  <2>2. CASE Manager!Release(r)
    BY <1>6, <2>2, ReleaseKeeps
       DEF StopsWaiting, Returns, TInv, Types, LaneKept, Handler, BeforeProcess, media, reply, Dead
  <2>3. CASE r \notin waiting \cup holding /\ UNCHANGED manager
    BY <1>6, <2>3, ManagerUntouched
       DEF StopsWaiting, Returns, TInv, Types, Handler, BeforeProcess, media, reply, manager, Dead
  <2> QED  BY <1>6, <2>1, <2>2, <2>3 DEF StopsWaiting
<1>7. ASSUME NEW r \in Requests, Launch(r)  PROVE TInv'
  BY <1>7, ManagerUntouched DEF Launch, TInv, Types, Handler, reply, manager, Dead
<1>8. ASSUME NEW r \in Requests, LaunchFails(r)  PROVE TInv'
  BY <1>8, ReleaseKeeps
     DEF LaunchFails, Returns, TInv, Types, Handler, BeforeProcess, media, reply, Dead
<1>9. ASSUME NEW r \in Requests, Return(r)  PROVE TInv'
  BY <1>9, ReleaseKeeps DEF Return, Returns, TInv, Types, Handler, Dead
<1>10. ASSUME NEW r \in Requests, ProcessWrites(r) \/ ProcessExits(r) \/ ProcessKilled(r)
       PROVE  TInv'
  BY <1>10, ManagerUntouched
     DEF ProcessWrites, ProcessExits, ProcessKilled, TInv, Types, Handler, reply, manager, Dead
<1>11. ASSUME NEW r \in Requests, WatcherStep(r)  PROVE TInv'
  BY <1>11, ManagerUntouched
     DEF WatcherStep, WatcherTimesOut, WatcherLeaves, TInv, Types, Handler, reply, manager, media, Dead
<1>12. ASSUME NEW r \in Requests, ReadData(r) \/ EndOfOutput(r) \/ ReadFails(r)  PROVE TInv'
  BY <1>12, ManagerUntouched
     DEF ReadData, EndOfOutput, ReadFails, TInv, Types, Handler, reply, manager, media, Dead
<1>13. ASSUME NEW r \in Requests, WriteSome(r, "nil") \/ WriteSome(r, "failed")  PROVE TInv'
  BY <1>13, ManagerUntouched DEF WriteSome, TInv, Types, Handler, manager, media, Dead
<1>14. ASSUME NEW r \in Requests, WriteNothing(r) \/ CloseFirstWrite(r)  PROVE TInv'
  BY <1>14, ManagerUntouched
     DEF WriteNothing, CloseFirstWrite, TInv, Types, Handler, reply, manager, media, Dead
<1>15. ASSUME NEW r \in Requests, StopProcess(r) \/ Reap(r)  PROVE TInv'
  BY <1>15, ManagerUntouched
     DEF StopProcess, Reap, Reaped, TInv, Types, Handler, reply, manager, media, Dead
<1>16. ASSUME NEW r \in Requests, ClientLeaves(r) \/ ClientStalls(r) \/ StartupPasses(r)
       PROVE  TInv'
  BY <1>16, ManagerUntouched
     DEF ClientLeaves, ClientStalls, StartupPasses, TInv, Types, Handler, reply, manager, media, Dead
<1>17. CASE ManagerCloses
  BY <1>17, CloseKeeps DEF ManagerCloses, TInv, Types, Handler, reply, media, Dead
<1>18. CASE UNCHANGED vars
  BY <1>18, ManagerUntouched DEF vars, TInv, Types, Handler, reply, manager, media, Dead
<1> QED
  BY <1>1, <1>2, <1>3, <1>4, <1>5, <1>6, <1>7, <1>8, <1>9, <1>10, <1>11, <1>12, <1>13,
     <1>14, <1>15, <1>16, <1>17, <1>18 DEF Next, HandlerStep

(* What killed or cancelled a process is on record until Return.            *)
LEMMA ReasonsStep ==
  ASSUME TInv, Reasons, [Next]_vars
  PROVE  Reasons'
<1> USE DEF At, Go, Copying, ProcessContextDone
<1>1. ASSUME NEW r \in Requests,
             Enter(r) \/ Wait(r) \/ Admit(r) \/ Admitted(r)  PROVE Reasons'
  BY <1>1 DEF Enter, Wait, Admit, Admitted, Reasons, BeforeProcess, media, reply, events, startup,
              TInv, Types
<1>2. ASSUME NEW r \in Requests, Refused(r) \/ StopsWaiting(r) \/ LaunchFails(r)  PROVE Reasons'
  <2>1. process[r] = "none" /\ r \notin cancelled /\ pc[r] \in {"new", "wait", "launch"}
    BY <1>2 DEF Refused, StopsWaiting, LaunchFails, TInv, Handler, Reasons
  <2>2. /\ pc' = [pc EXCEPT ![r] = "done"]
        /\ ctxDone' = ctxDone \ {r} /\ killed' = killed \ {r} /\ late' = late \ {r}
        /\ BeforeProcess
    BY <1>2 DEF Refused, StopsWaiting, LaunchFails, Returns
  <2> QED  BY <2>1, <2>2 DEF Reasons, BeforeProcess, media, reply, startup, TInv, Types
<1>3. ASSUME NEW r \in Requests, Launch(r)  PROVE Reasons'
  BY <1>3 DEF Launch, Reasons, reply, events, TInv, Types
<1>4. ASSUME NEW r \in Requests, Return(r)  PROVE Reasons'
  <2>1. Dead(r)
    BY <1>4 DEF Return, TInv, Handler
  <2> QED  BY <1>4, <2>1 DEF Return, Returns, Reasons, TInv, Types
<1>5. ASSUME NEW r \in Requests, ProcessWrites(r) \/ ProcessExits(r) \/ ProcessKilled(r)
      PROVE  Reasons'
  BY <1>5 DEF ProcessWrites, ProcessExits, ProcessKilled, Reasons, reply, events, startup, TInv, Types
<1>6. ASSUME NEW r \in Requests, WatcherStep(r)  PROVE Reasons'
  BY <1>6 DEF WatcherStep, WatcherTimesOut, WatcherLeaves, CancelledByWatcher, Reasons, reply,
              events, media
<1>7. ASSUME NEW r \in Requests, ReadData(r) \/ EndOfOutput(r) \/ ReadFails(r)  PROVE Reasons'
  BY <1>7 DEF ReadData, EndOfOutput, ReadFails, Reasons, reply, events, media, startup, TInv, Types
<1>8. ASSUME NEW r \in Requests, NEW e \in {"nil", "failed"}, WriteSome(r, e)  PROVE Reasons'
  BY <1>8 DEF WriteSome, Reasons, events, media, startup, TInv, Types
<1>9. ASSUME NEW r \in Requests, WriteNothing(r) \/ CloseFirstWrite(r)  PROVE Reasons'
  BY <1>9 DEF WriteNothing, CloseFirstWrite, Reasons, events, media, startup, reply, TInv, Types
<1>10. ASSUME NEW r \in Requests, StopProcess(r) \/ Reap(r)  PROVE Reasons'
  BY <1>10 DEF StopProcess, Reap, Reasons, events, media, startup, reply, TInv, Types
<1>11. ASSUME NEW r \in Requests, ClientLeaves(r) \/ ClientStalls(r)  PROVE Reasons'
  BY <1>11 DEF ClientLeaves, ClientStalls, Reasons, media, startup, reply
<1>12. ASSUME NEW r \in Requests, StartupPasses(r)  PROVE Reasons'
  BY <1>12 DEF StartupPasses, Reasons, media, startup, reply, TInv, Types, Handler
<1>13. CASE ManagerCloses
  BY <1>13 DEF ManagerCloses, Reasons, media, startup, reply
<1>14. CASE UNCHANGED vars
  BY <1>14 DEF vars, Reasons, events, media, startup, reply
<1> QED
  BY <1>1, <1>2, <1>3, <1>4, <1>5, <1>6, <1>7, <1>8, <1>9, <1>10, <1>11, <1>12, <1>13, <1>14
     DEF Next, HandlerStep

-----------------------------------------------------------------------------
(* The invariant: the lane is kept, every process belongs to a place, and   *)
(* the reasons for its end are on record.                                   *)
THEOREM TranscodeInvariant == Spec => [](TInv /\ Reasons)
<1>1. TInv /\ Reasons /\ [Next]_vars => (TInv /\ Reasons)'
  BY TStep, ReasonsStep
<1> QED  BY InitTInv, <1>1, PTL DEF Spec

(* No ffmpeg runs without its place in the lane, so there are never more of *)
(* them than the lane has places.                                           *)
THEOREM ProcessesStayWithinLane == Spec => []ProcessesWithinLane
<1>1. TInv => ProcessesWithinLane
  <2> SUFFICES ASSUME TInv PROVE ProcessesWithinLane  OBVIOUS
  <2>1. \A r \in Requests : process[r] = "running" => r \in holding
    BY DEF TInv, Types, Handler, Copying, Dead
  <2> DEFINE Running == {r \in Requests : process[r] = "running"}
  <2>2. Running \subseteq holding /\ IsFiniteSet(holding)
    BY <2>1, FiniteHolding DEF TInv, Types
  <2>3. Cardinality(Running) <= Cardinality(holding)
        /\ Cardinality(Running) \in Nat /\ Cardinality(holding) \in Nat
    BY <2>2, FS_Subset, FS_CardinalityType
  <2>4. Cardinality(Running) <= Places
    BY <2>3, TranscodeAssumption DEF TInv, LaneKept
  <2> QED  BY <2>1, <2>4 DEF ProcessesWithinLane
<1> QED  BY TranscodeInvariant, <1>1, PTL

(* The answer of handleStream fits the fate of the process, in whatever     *)
(* order the timer, the client, the manager and ffmpeg come in.             *)
THEOREM AnswersAlwaysFit == Spec => []AnswerFits
<1>1. TInv /\ Reasons => AnswerFits
  <2> SUFFICES ASSUME TInv, Reasons, NEW r \in Requests, At(r, "result")
               PROVE  /\ AnswerTo(r, Result(r)) # "ended" => r \notin sent
                      /\ AnswerTo(r, Result(r)) = "ended" =>
                           r \in sent \cup ctxDone \cup killed \/ process[r] = "ok"
                      /\ process[r] = "killed" /\ copyErr[r] = "nil"
                           /\ r \notin sent \cup ctxDone \cup killed
                         => AnswerTo(r, Result(r)) = "504"
    BY DEF AnswerFits
  <2>1. Dead(r) /\ copyErr[r] \in {"nil", "failed"}
    BY DEF TInv, Types, Handler, At
  <2>2. AnswerTo(r, Result(r)) # "ended" => r \notin sent
    BY DEF AnswerTo
  <2>3. AnswerTo(r, Result(r)) = "ended" =>
          r \in sent \cup ctxDone \cup killed \/ process[r] = "ok"
    BY <2>1 DEF AnswerTo, Result
  <2>4. ASSUME process[r] = "killed", copyErr[r] = "nil", r \notin sent \cup ctxDone \cup killed
        PROVE  AnswerTo(r, Result(r)) = "504"
    <3>1. r \in timedOut \ committed
      BY <2>4 DEF Reasons, ProcessContextDone
    <3> QED  BY <2>4, <3>1 DEF AnswerTo, Result
  <2> QED  BY <2>2, <2>3, <2>4
<1> QED  BY TranscodeInvariant, <1>1, PTL
=============================================================================
