------------------------------ MODULE MediaTurns ------------------------------
(***************************************************************************)
(* The order in which MediaManager serves kinds that share a lane.  The    *)
(* count of starts that pass a waiter is history: it adds no behaviour to  *)
(* the manager and takes none away.                                        *)
(***************************************************************************)
EXTENDS MediaManager, Integers

VARIABLE
  passed   \* passed[w]: AuxHigh processes started since the render w was queued

Starts(k) == \E c \in active' \ active : kind'[c] = k

TurnsInit == Init /\ passed = [c \in Callers |-> 0]

TurnsNext ==
  /\ Next
  /\ passed' = [w \in Callers |->
                  IF w \notin OfKind("AuxRender") \cap queued' THEN 0
                  ELSE IF Starts("AuxHigh") THEN passed[w] + 1 ELSE passed[w]]

TurnsSpec == TurnsInit /\ [][TurnsNext]_<<vars, passed>>

-----------------------------------------------------------------------------
(* A render that waits is passed by a bounded number of AuxHigh processes,  *)
(* however many keep coming and whoever ahead of it gives up: by a burst    *)
(* before each render ahead and one before itself.  The queue holds it and  *)
(* an AuxHigh to pass it, so at most AuxWaiters - 2 renders are ahead then. *)
RendersGetTheirTurn ==
  \A w \in OfKind("AuxRender") : passed[w] <= HighBurst * (AuxWaiters - 1)
=============================================================================
