----------------------------- MODULE MediaLanes -----------------------------
(***************************************************************************)
(* What internal/mediaexec promises its callers, without queues, channels, *)
(* counters or locks: lanes of fixed size that callers hold one place of.  *)
(* A caller waits only for a full lane, nobody enters a lane past a waiter *)
(* of it, and after Close nobody waits and nobody enters.                  *)
(***************************************************************************)
EXTENDS Naturals, FiniteSets

CONSTANTS Callers, Lanes, LaneSize   \* LaneSize \in [Lanes -> Nat]

VARIABLES
  waiting,   \* callers blocked for a place
  holding,   \* callers that hold one
  lane,      \* the lane each of them asked for, "none" for the others
  open

vars == <<waiting, holding, lane, open>>

InLane(S, l) == {c \in S : lane[c] = l}

Room(l) == Cardinality(InLane(holding, l)) < LaneSize[l]

Init ==
  /\ waiting = {}
  /\ holding = {}
  /\ lane = [c \in Callers |-> "none"]
  /\ open = TRUE

Enter(c, l) ==
  /\ open
  /\ c \notin waiting \cup holding
  /\ Room(l)
  /\ InLane(waiting, l) = {}
  /\ holding' = holding \cup {c}
  /\ lane' = [lane EXCEPT ![c] = l]
  /\ UNCHANGED <<waiting, open>>

Wait(c, l) ==
  /\ open
  /\ c \notin waiting \cup holding
  /\ ~Room(l)
  /\ waiting' = waiting \cup {c}
  /\ lane' = [lane EXCEPT ![c] = l]
  /\ UNCHANGED <<holding, open>>

Admit(c) ==
  /\ open
  /\ c \in waiting
  /\ Room(lane[c])
  /\ waiting' = waiting \ {c}
  /\ holding' = holding \cup {c}
  /\ UNCHANGED <<lane, open>>

Withdraw(c) ==
  /\ c \in waiting
  /\ waiting' = waiting \ {c}
  /\ lane' = [lane EXCEPT ![c] = "none"]
  /\ UNCHANGED <<holding, open>>

Release(c) ==
  /\ c \in holding
  /\ holding' = holding \ {c}
  /\ lane' = [lane EXCEPT ![c] = "none"]
  /\ UNCHANGED <<waiting, open>>

Close ==
  /\ open
  /\ open' = FALSE
  /\ waiting' = {}
  /\ lane' = [c \in Callers |-> IF c \in holding THEN lane[c] ELSE "none"]
  /\ UNCHANGED holding

Next ==
  \/ \E c \in Callers, l \in Lanes : Enter(c, l) \/ Wait(c, l)
  \/ \E c \in Callers : Admit(c) \/ Withdraw(c) \/ Release(c)
  \/ Close

Spec == Init /\ [][Next]_vars
=============================================================================
