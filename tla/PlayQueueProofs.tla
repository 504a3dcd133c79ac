--------------------------- MODULE PlayQueueProofs ---------------------------
(***************************************************************************)
(* Proofs about PlayQueue, for any numbers of requests, tokens and paths   *)
(* and any limits and sizes: the build gate is exact, every shared Index   *)
(* is retained exactly while queues share it, every queue stays a          *)
(* permutation whose positions are valid, replacing it loses no track, and *)
(* the store counts its bytes exactly and stays within its limits.         *)
(*                                                                         *)
(* A prefix and a sum of sizes are computed one element at a time; what    *)
(* they are is proved by the least number of elements for which it fails.  *)
(***************************************************************************)
EXTENDS PlayQueue, FiniteSetTheorems, SequenceTheorems, WellFoundedInduction, TLAPS

-----------------------------------------------------------------------------
(* The gate.                                                                *)

Building == {c \in Requests : pc[c] \in {"build", "commit"} /\ op[c] # "select"}

InLine == {c \in Requests : pc[c] = "wait"}

GateInv ==
  /\ pc \in [Requests -> PCs]
  /\ op \in [Requests -> Ops]
  /\ \A c \in Requests : pc[c] = "wait" => op[c] # "select"
  /\ GateExact

LEMMA GateSets ==
  /\ IsFiniteSet(Building) /\ Cardinality(Building) \in Nat
  /\ IsFiniteSet(InLine) /\ Cardinality(InLine) \in Nat
BY PlayQueueAssumption, FS_Subset, FS_CardinalityType DEF Building, InLine

LEMMA GateKept ==
  ASSUME GateInv, Building' = Building, InLine' = InLine, UNCHANGED <<slots, waiters>>
  PROVE  GateExact'
BY DEF GateInv, GateExact, Building, InLine

(* A builder leaves.                                                        *)
LEMMA Leaving ==
  ASSUME GateInv, NEW c \in Requests, pc[c] \in {"build", "commit"}, op[c] # "select",
         Releases(c), UNCHANGED waiters
  PROVE  GateInv'
<1>1. pc' \in [Requests -> PCs] /\ op' \in [Requests -> Ops]
      /\ pc' = [pc EXCEPT ![c] = "idle"] /\ op' = [op EXCEPT ![c] = "none"]
  BY DEF GateInv, Releases, Ends, PCs, Ops
<1>2. c \in Building /\ Building' = Building \ {c}  BY <1>1 DEF Building, GateInv
<1>3. InLine' = InLine  BY <1>1 DEF InLine, GateInv
<1>4. Cardinality(Building') = Cardinality(Building) - 1
  BY <1>2, GateSets, FS_RemoveElement
<1>5. slots = Cardinality(Building) /\ slots <= BuildSlots /\ waiters = Cardinality(InLine)
  BY DEF GateInv, GateExact, Building, InLine
<1>6. /\ slots' = Cardinality(Building') /\ slots' <= BuildSlots
      /\ waiters' = Cardinality(InLine')
  BY <1>3, <1>4, <1>5, GateSets, PlayQueueAssumption DEF Releases
<1>7. GateExact'  BY <1>6 DEF GateExact, Building, InLine
<1> QED  BY <1>1, <1>7 DEF GateInv

(* A request moves among the places of the gate without changing its sets.  *)
LEMMA Staying ==
  ASSUME GateInv, NEW c \in Requests, NEW p \in PCs, NEW o \in Ops,
         pc' = [pc EXCEPT ![c] = p], op' = [op EXCEPT ![c] = o],
         UNCHANGED <<slots, waiters>>,
         p # "wait" /\ pc[c] # "wait",
         (p \in {"build", "commit"} /\ o # "select")
           <=> (pc[c] \in {"build", "commit"} /\ op[c] # "select")
  PROVE  GateInv'
<1>1. Building' = Building /\ InLine' = InLine  BY DEF Building, InLine, GateInv
<1>2. GateExact'  BY <1>1, GateKept
<1> QED  BY <1>2 DEF GateInv

LEMMA GateSteps ==
  ASSUME GateInv, NEW c \in Requests, GateStep(c)
  PROVE  GateInv'
<1>0. /\ slots = Cardinality(Building) /\ slots <= BuildSlots /\ waiters = Cardinality(InLine)
      /\ pc \in [Requests -> PCs] /\ op \in [Requests -> Ops]
  BY DEF GateInv, GateExact, Building, InLine
<1>a. ASSUME slots' = Cardinality(Building'), slots' <= BuildSlots, waiters' = Cardinality(InLine')
      PROVE  GateExact'
  BY <1>a DEF GateExact, Building, InLine
<1>1. ASSUME NEW o \in Ops, NEW t \in Tokens \cup {NoToken}, AcquireAtOnce(c, o, t)  PROVE GateInv'
  <2>1. /\ pc' = [pc EXCEPT ![c] = "build"] /\ op' = [op EXCEPT ![c] = o] /\ pc[c] = "idle"
        /\ o # "select" /\ slots' = slots + 1 /\ slots < BuildSlots /\ waiters' = waiters
    BY <1>1 DEF AcquireAtOnce, Starts, Names
  <2>2. c \notin Building /\ Building' = Building \cup {c} /\ InLine' = InLine
    BY <1>0, <2>1 DEF Building, InLine
  <2>3. Cardinality(Building') = Cardinality(Building) + 1
    BY <2>2, GateSets, FS_AddElement
  <2>4. GateExact'
    BY <1>0, <1>a, <2>1, <2>2, <2>3, GateSets, PlayQueueAssumption
  <2> QED  BY <1>0, <2>1, <2>4 DEF GateInv, PCs
<1>2. ASSUME NEW o \in Ops, NEW t \in Tokens \cup {NoToken}, AcquireWaits(c, o, t)  PROVE GateInv'
  <2>1. /\ pc' = [pc EXCEPT ![c] = "wait"] /\ op' = [op EXCEPT ![c] = o] /\ pc[c] = "idle"
        /\ o # "select" /\ slots' = slots /\ waiters' = waiters + 1
    BY <1>2 DEF AcquireWaits, Starts, Names
  <2>2. c \notin InLine /\ InLine' = InLine \cup {c} /\ Building' = Building
    BY <1>0, <2>1 DEF Building, InLine
  <2>3. Cardinality(InLine') = Cardinality(InLine) + 1
    BY <2>2, GateSets, FS_AddElement
  <2>4. GateExact'  BY <1>0, <1>a, <2>1, <2>2, <2>3
  <2> QED  BY <1>0, <2>1, <2>4 DEF GateInv, PCs
<1>3. CASE AcquireSlot(c)
  <2>1. /\ pc' = [pc EXCEPT ![c] = "build"] /\ UNCHANGED op /\ pc[c] = "wait" /\ op[c] # "select"
        /\ slots' = slots + 1 /\ slots < BuildSlots /\ waiters' = waiters - 1
    BY <1>3 DEF AcquireSlot, GateInv
  <2>2. /\ c \notin Building /\ Building' = Building \cup {c}
        /\ c \in InLine /\ InLine' = InLine \ {c}
    BY <1>0, <2>1 DEF Building, InLine
  <2>3. /\ Cardinality(Building') = Cardinality(Building) + 1
        /\ Cardinality(InLine') = Cardinality(InLine) - 1
    BY <2>2, GateSets, FS_AddElement, FS_RemoveElement
  <2>4. GateExact'
    BY <1>0, <1>a, <2>1, <2>3, GateSets, PlayQueueAssumption
  <2> QED  BY <1>0, <2>1, <2>4 DEF GateInv, PCs
<1>4. CASE AcquireFails(c)
  <2>1. /\ pc' = [pc EXCEPT ![c] = "idle"] /\ op' = [op EXCEPT ![c] = "none"] /\ pc[c] = "wait"
        /\ slots' = slots /\ waiters' = waiters - 1
    BY <1>4 DEF AcquireFails, Ends
  <2>2. c \in InLine /\ InLine' = InLine \ {c} /\ Building' = Building
    BY <1>0, <2>1 DEF Building, InLine
  <2>3. Cardinality(InLine') = Cardinality(InLine) - 1
    BY <2>2, GateSets, FS_RemoveElement
  <2>4. GateExact'  BY <1>0, <1>a, <2>1, <2>2, <2>3
  <2> QED  BY <1>0, <2>1, <2>4 DEF GateInv, PCs, Ops
<1> QED  BY <1>1, <1>2, <1>3, <1>4 DEF GateStep

LEMMA GateStepsOfBuilds ==
  ASSUME GateInv, NEW c \in Requests, CreateStep(c) \/ ReplaceStep(c)
  PROVE  GateInv'
<1>0. op[c] \in Ops /\ pc[c] \in PCs /\ op = [op EXCEPT ![c] = op[c]]  BY DEF GateInv
<1>1. ASSUME NEW candidates, NEW pin, CreateBuilds(c, candidates, pin)  PROVE GateInv'
  <2>1. /\ pc' = [pc EXCEPT ![c] = "commit"] /\ op' = op /\ pc[c] = "build" /\ op[c] = "create"
        /\ UNCHANGED <<slots, waiters>>
    BY <1>1 DEF CreateBuilds
  <2> QED  BY <1>0, <2>1, Staying DEF PCs
<1>2. ASSUME NEW t, NEW expired, CreateCommits(c, t, expired)  PROVE GateInv'
  BY <1>2, Leaving DEF CreateCommits
<1>3. ASSUME NEW expired, CreateNotFound(c, expired)  PROVE GateInv'
  BY <1>3, Leaving DEF CreateNotFound
<1>4. CASE BuildFails(c)  BY <1>4, Leaving DEF BuildFails
<1>5. ASSUME NEW t, NEW path, SelectReads(c, t, path)  PROVE GateInv'
  <2>1. /\ pc' = [pc EXCEPT ![c] = "commit"] /\ op' = [op EXCEPT ![c] = "select"] /\ pc[c] = "idle"
        /\ UNCHANGED <<slots, waiters>>
    BY <1>5 DEF SelectReads, Starts
  <2> QED  BY <2>1, Staying DEF PCs, Ops
<1>6. ASSUME NEW entries, PrependReads(c, entries)  PROVE GateInv'
  <2>1. /\ pc' = [pc EXCEPT ![c] = "commit"] /\ op' = op /\ pc[c] = "build" /\ op[c] = "prepend"
        /\ UNCHANGED <<slots, waiters>>
    BY <1>6 DEF PrependReads
  <2> QED  BY <1>0, <2>1, Staying DEF PCs
<1>7. ASSUME NEW t, PrependCommits(c, t)  PROVE GateInv'
  BY <1>7, Leaving DEF PrependCommits, Replaces
<1>8. ASSUME pc[c] = "commit", op[c] = "select", Ends(c), UNCHANGED <<slots, waiters>>
      PROVE  GateInv'
  <2>1. pc' = [pc EXCEPT ![c] = "idle"] /\ op' = [op EXCEPT ![c] = "none"]
    BY <1>8 DEF Ends
  <2> QED  BY <1>8, <2>1, Staying DEF PCs, Ops
<1>9. ASSUME NEW t, SelectCommits(c, t)  PROVE GateInv'
  BY <1>8, <1>9 DEF SelectCommits, Replaces
<1>10. CASE SelectFails(c)  BY <1>8, <1>10 DEF SelectFails
<1> QED
  BY <1>1, <1>2, <1>3, <1>4, <1>5, <1>6, <1>7, <1>9, <1>10 DEF CreateStep, ReplaceStep

(* The channels of the build gate hold one element for every request that   *)
(* builds and one for every request that waits, for any number of requests  *)
(* and any sizes of the gate: no way out of Create or Prepend leaks one.    *)
THEOREM GateStaysExact == Spec => []GateExact
<1>1. Init => GateInv
  <2> SUFFICES ASSUME Init PROVE GateInv
    OBVIOUS
  <2>1. Building = {} /\ InLine = {}  BY DEF Init, Building, InLine
  <2>2. GateExact
    BY <2>1, FS_EmptySet, PlayQueueAssumption DEF Init, GateExact, Building, InLine
  <2> QED  BY <2>2 DEF Init, GateInv, PCs, Ops
<1>2. GateInv /\ [Next]_vars => GateInv'
  <2> SUFFICES ASSUME GateInv, [Next]_vars PROVE GateInv'
    OBVIOUS
  <2>1. ASSUME UNCHANGED <<pc, op, slots, waiters>>  PROVE GateInv'
    BY <2>1 DEF GateInv, GateExact
  <2>2. ASSUME NEW t \in Tokens, Drop(t)  PROVE GateInv'
    BY <2>1, <2>2 DEF Drop
  <2>3. CASE Rescans  BY <2>1, <2>3 DEF Rescans, queueVars
  <2>4. CASE UNCHANGED vars  BY <2>1, <2>4 DEF vars, queueVars
  <2> QED  BY <2>2, <2>3, <2>4, GateSteps, GateStepsOfBuilds DEF Next
<1>3. GateInv => GateExact  BY DEF GateInv
<1> QED  BY <1>1, <1>2, <1>3, PTL DEF Spec

-----------------------------------------------------------------------------
(* The store: what is kept of it when queues go, come and are exchanged.    *)

IsQueue(q) ==
  /\ q.gen \in Generations
  /\ q.built \in SUBSET Paths
  /\ \E o, p : q = [gen |-> q.gen, built |-> q.built, order |-> o, prefix |-> p]

(* The shape of the store; what its bytes are is not said here.             *)
IsRecord(s) ==
  s = [queues |-> s.queues, index |-> s.index, refs |-> s.refs, bytes |-> s.bytes]

IsStore(s) ==
  \E Q, I, R, B :
    /\ s = [queues |-> Q, index |-> I, refs |-> R, bytes |-> B]
    /\ Q = [t \in Tokens |-> Q[t]]
    /\ I \in [Generations -> Indexes]
    /\ R \in [Generations -> Nat]

(* An Index is retained exactly while queues share it, by that many         *)
(* references, and is the one these queues were built from.                 *)
Sharing(s) ==
  /\ IsStore(s)
  /\ \A t \in Live(s) : IsQueue(s.queues[t]) /\ s.queues[t].built = s.index[s.queues[t].gen]
  /\ \A g \in Generations :
       /\ s.refs[g] = Cardinality(OfGeneration(s, g))
       /\ s.refs[g] = 0 <=> s.index[g] = NoIndex

LEMMA QueueIsNotNone ==
  ASSUME NEW q, IsQueue(q)
  PROVE  q # NoQueue
BY DEF IsQueue, NoQueue, Generations

LEMMA NoIndexIsNone == \A P \in SUBSET Paths : P # NoIndex
BY PathsAssumption DEF NoIndex

LEMMA LiveFinite ==
  ASSUME NEW s, NEW g
  PROVE  /\ IsFiniteSet(Live(s)) /\ IsFiniteSet(OfGeneration(s, g))
         /\ Cardinality(OfGeneration(s, g)) \in Nat
BY PlayQueueAssumption, FS_Subset, FS_CardinalityType DEF Live, OfGeneration

(* Removing queues frees the Index of those that were the last to share it. *)
LEMMA WithoutShares ==
  ASSUME NEW s, Sharing(s), NEW T, T \subseteq Live(s)
  PROVE  LET w == Without(s, T)
         IN  /\ Sharing(w)
             /\ Live(w) = Live(s) \ T
             /\ \A t \in Live(w) : w.queues[t] = s.queues[t]
             /\ \A g \in Generations : w.index[g] \in {s.index[g], NoIndex}
<1> DEFINE w == Without(s, T)
           left == [g \in Generations |-> s.refs[g] - Cardinality(T \cap OfGeneration(s, g))]
           freed == {g \in Generations : s.refs[g] # 0 /\ left[g] = 0}
<1>1. /\ w.queues = [t \in Tokens |-> IF t \in T THEN NoQueue ELSE s.queues[t]]
      /\ w.index = [g \in Generations |-> IF g \in freed THEN NoIndex ELSE s.index[g]]
      /\ w.refs = left
      /\ w = [queues |-> w.queues, index |-> w.index, refs |-> w.refs, bytes |-> w.bytes]
  BY DEF Without
<1>2. Live(w) = Live(s) \ T /\ \A t \in Live(w) : w.queues[t] = s.queues[t]
  BY <1>1 DEF Live
<1>3. ASSUME NEW g \in Generations
      PROVE  /\ OfGeneration(w, g) = OfGeneration(s, g) \ T
             /\ left[g] = Cardinality(OfGeneration(w, g))
             /\ left[g] \in Nat
  <2>1. OfGeneration(w, g) = OfGeneration(s, g) \ T  BY <1>2 DEF OfGeneration
  <2>2. T \cap OfGeneration(s, g) = OfGeneration(s, g) \cap T  OBVIOUS
  <2>3. Cardinality(OfGeneration(s, g) \ T)
          = Cardinality(OfGeneration(s, g)) - Cardinality(OfGeneration(s, g) \cap T)
    BY LiveFinite, FS_Difference
  <2>4. s.refs[g] = Cardinality(OfGeneration(s, g))  BY DEF Sharing
  <2>5. left[g] = s.refs[g] - Cardinality(T \cap OfGeneration(s, g))  OBVIOUS
  <2> QED  BY <2>1, <2>2, <2>3, <2>4, <2>5, LiveFinite
<1>4. s.index \in [Generations -> Indexes] /\ NoIndex \in Indexes  BY DEF Sharing, IsStore, Indexes
<1>5. left \in [Generations -> Nat]  BY <1>3
<1>6. w.index \in [Generations -> Indexes]  BY <1>1, <1>4
<1> HIDE DEF w, left, freed
<1>7. IsStore(w)
  <2>1. w.queues = [t \in Tokens |-> w.queues[t]]  BY <1>1
  <2> QED  BY <1>1, <1>5, <1>6, <2>1 DEF IsStore
<1>8. ASSUME NEW g \in Generations
      PROVE  /\ w.refs[g] = 0 <=> w.index[g] = NoIndex
             /\ w.refs[g] # 0 => w.index[g] = s.index[g]
  <2>1. w.refs[g] = left[g] /\ left[g] = Cardinality(OfGeneration(w, g))  BY <1>1, <1>3
  <2>2. w.index[g] = IF g \in freed THEN NoIndex ELSE s.index[g]  BY <1>1
  <2>3. g \in freed <=> s.refs[g] # 0 /\ left[g] = 0  BY DEF freed
  <2>4. s.refs[g] = Cardinality(OfGeneration(s, g)) /\ (s.refs[g] = 0 <=> s.index[g] = NoIndex)
    BY DEF Sharing
  <2>5. s.refs[g] = 0 => left[g] = 0
    <3>1. s.refs[g] = 0 => OfGeneration(s, g) = {}  BY <2>4, LiveFinite, FS_EmptySet
    <3>2. OfGeneration(s, g) = {} => OfGeneration(w, g) = {}  BY <1>3
    <3> QED  BY <2>1, <3>1, <3>2, FS_EmptySet
  <2> QED  BY <2>1, <2>2, <2>3, <2>4, <2>5
<1>9. ASSUME NEW t \in Live(w)
      PROVE  IsQueue(w.queues[t]) /\ w.queues[t].built = w.index[w.queues[t].gen]
  <2> DEFINE g == w.queues[t].gen
  <2>1. t \in Live(s) /\ w.queues[t] = s.queues[t]  BY <1>2
  <2>2. IsQueue(w.queues[t]) /\ w.queues[t].built = s.index[g]  BY <2>1 DEF Sharing
  <2>3. g \in Generations  BY <2>2 DEF IsQueue
  <2>4. t \in OfGeneration(w, g)  BY DEF OfGeneration
  <2>5. Cardinality(OfGeneration(w, g)) # 0  BY <2>4, LiveFinite, FS_EmptySet
  <2>6. w.refs[g] # 0  BY <1>1, <1>3, <2>3, <2>5
  <2> QED  BY <1>8, <2>2, <2>3, <2>6
<1>10. \A g \in Generations : w.refs[g] = Cardinality(OfGeneration(w, g))  BY <1>1, <1>3
<1>11. Sharing(w)  BY <1>7, <1>8, <1>9, <1>10 DEF Sharing
<1>12. \A g \in Generations : w.index[g] \in {s.index[g], NoIndex}  BY <1>1
<1> QED  BY <1>2, <1>11, <1>12 DEF w

(* Storing a queue touches the queues and the bytes only.                   *)
LEMMA StoredFields ==
  ASSUME NEW s, NEW t, NEW q, IsRecord(s)
  PROVE  /\ Stored(s, t, q).queues = [s.queues EXCEPT ![t] = q]
         /\ Stored(s, t, q).index = s.index
         /\ Stored(s, t, q).refs = s.refs
         /\ IsRecord(Stored(s, t, q))
<1> DEFINE Q == s.queues
           I == s.index
           R == s.refs
           B == s.bytes
           P == [Q EXCEPT ![t] = q]
           placed == [s EXCEPT !.queues[t] = q]
           b == B + SizeOf(q)
<1>1. Stored(s, t, q) = [s EXCEPT !.queues[t] = q, !.bytes = b]  BY DEF Stored
<1>2. P = [s.queues EXCEPT ![t] = q]  OBVIOUS
<1>3. s = [queues |-> Q, index |-> I, refs |-> R, bytes |-> B]  BY DEF IsRecord
<1> HIDE DEF b
<1>4. [s EXCEPT !.queues[t] = q, !.bytes = b] = [placed EXCEPT !.bytes = b]
  OBVIOUS
<1>5. placed = [s EXCEPT !.queues = P]  BY <1>3
<1> HIDE DEF P, placed
<1>6. placed = [queues |-> P, index |-> I, refs |-> R, bytes |-> B]
  BY <1>3, <1>5
<1>7. [placed EXCEPT !.bytes = b] = [queues |-> P, index |-> I, refs |-> R, bytes |-> b]
  BY <1>6
<1> QED  BY <1>1, <1>2, <1>4, <1>7 DEF IsRecord

(* A new queue shares the Index of its generation, or brings it.            *)
LEMMA AddedShares ==
  ASSUME NEW s, Sharing(s), NEW t \in Tokens \ Live(s), NEW q, IsQueue(q),
         s.index[q.gen] \in {NoIndex, q.built}
  PROVE  LET w == Stored(Retained(s, q.gen, q.built), t, q)
         IN  /\ Sharing(w)
             /\ Live(w) = Live(s) \cup {t} /\ w.queues[t] = q
             /\ \A u \in Live(s) : w.queues[u] = s.queues[u]
             /\ \A g \in Generations : w.index[g] = IF g = q.gen THEN q.built ELSE s.index[g]
<1> DEFINE w == Stored(Retained(s, q.gen, q.built), t, q)
           h == q.gen
<1>1. PICK Q, I, R, B :
        /\ s = [queues |-> Q, index |-> I, refs |-> R, bytes |-> B]
        /\ Q = [u \in Tokens |-> Q[u]]
        /\ I \in [Generations -> Indexes]
        /\ R \in [Generations -> Nat]
  BY DEF Sharing, IsStore
<1>2. h \in Generations /\ q.built \in Indexes /\ q.built # NoIndex
  BY NoIndexIsNone DEF IsQueue, Indexes
<1>3. I[h] = NoIndex <=> R[h] = 0  BY <1>1, <1>2 DEF Sharing
<1>4. w = Stored(Retained(s, h, q.built), t, q)  OBVIOUS
<1> HIDE DEF w, h
<1>5. \E B1 : Retained(s, h, q.built)
                = [queues |-> Q, index |-> [I EXCEPT ![h] = q.built],
                   refs |-> [R EXCEPT ![h] = R[h] + 1], bytes |-> B1]
  <2>1. CASE I[h] = NoIndex
    <3>1. R[h] + 1 = 1  BY <1>3, <2>1
    <3> QED  BY <1>1, <2>1, <3>1 DEF Retained
  <2>2. CASE I[h] # NoIndex
    <3>1. [I EXCEPT ![h] = q.built] = I  BY <1>1, <1>2, <2>2 DEF h
    <3> QED  BY <1>1, <2>2, <3>1 DEF Retained
  <2> QED  BY <2>1, <2>2
<1>6. /\ w.queues = [Q EXCEPT ![t] = q] /\ w.index = [I EXCEPT ![h] = q.built]
      /\ w.refs = [R EXCEPT ![h] = @ + 1]
      /\ IsRecord(w)
  <2> DEFINE r == Retained(s, h, q.built)
  <2>1. /\ IsRecord(r) /\ r.queues = Q
        /\ r.index = [I EXCEPT ![h] = q.built] /\ r.refs = [R EXCEPT ![h] = R[h] + 1]
    BY <1>5 DEF IsRecord
  <2>2. w = Stored(r, t, q)  BY <1>4
  <2> HIDE DEF r
  <2> QED  BY <2>1, <2>2, StoredFields
<1>7. /\ \A u \in Tokens : w.queues[u] = IF u = t THEN q ELSE s.queues[u]
      /\ w.queues = [u \in Tokens |-> w.queues[u]]
  BY <1>1, <1>6
<1>8. Live(w) = Live(s) \cup {t} /\ w.queues[t] = q /\ \A u \in Live(s) : w.queues[u] = s.queues[u]
  BY <1>7, QueueIsNotNone DEF Live
<1>9. IsStore(w)
  <2>1. w.index \in [Generations -> Indexes] /\ w.refs \in [Generations -> Nat]
    BY <1>1, <1>2, <1>6
  <2> QED  BY <1>6, <1>7, <2>1 DEF IsStore, IsRecord
<1>10. \A g \in Generations : w.index[g] = IF g = h THEN q.built ELSE s.index[g]
  BY <1>1, <1>2, <1>6
<1>11. ASSUME NEW u \in Live(w)
       PROVE  IsQueue(w.queues[u]) /\ w.queues[u].built = w.index[w.queues[u].gen]
  <2>1. CASE u = t  BY <1>2, <1>8, <1>10, <2>1 DEF h
  <2>2. CASE u # t
    <3>1. u \in Live(s) /\ w.queues[u] = s.queues[u]  BY <1>8, <2>2
    <3>2. IsQueue(s.queues[u]) /\ s.queues[u].built = s.index[s.queues[u].gen]
      BY <3>1 DEF Sharing
    <3>3. s.queues[u].gen \in Generations /\ s.queues[u].built # NoIndex
      BY <3>2, NoIndexIsNone DEF IsQueue
    <3>4. s.queues[u].gen = h => s.index[h] = q.built  BY <3>2, <3>3 DEF h
    <3> QED  BY <1>10, <3>1, <3>2, <3>3, <3>4
  <2> QED  BY <2>1, <2>2
<1>12. ASSUME NEW g \in Generations
       PROVE  w.refs[g] = Cardinality(OfGeneration(w, g)) /\ (w.refs[g] = 0 <=> w.index[g] = NoIndex)
  <2>1. s.refs[g] = Cardinality(OfGeneration(s, g)) /\ (s.refs[g] = 0 <=> s.index[g] = NoIndex)
    BY DEF Sharing
  <2>2. CASE g = h
    <3>1. t \notin OfGeneration(s, g) /\ OfGeneration(w, g) = OfGeneration(s, g) \cup {t}
      BY <1>8, <2>2 DEF OfGeneration, h
    <3>2. Cardinality(OfGeneration(w, g)) = Cardinality(OfGeneration(s, g)) + 1
      BY <3>1, LiveFinite, FS_AddElement
    <3>3. w.refs[g] = s.refs[g] + 1  BY <1>1, <1>6, <2>2
    <3> QED  BY <1>2, <1>10, <2>1, <2>2, <3>2, <3>3, LiveFinite
  <2>3. CASE g # h
    <3>1. OfGeneration(w, g) = OfGeneration(s, g)
      BY <1>8, <2>3 DEF OfGeneration, h
    <3>2. w.refs[g] = s.refs[g]  BY <1>1, <1>6, <2>3
    <3> QED  BY <1>10, <2>1, <2>3, <3>1, <3>2
  <2> QED  BY <2>2, <2>3
<1>13. Sharing(w)  BY <1>9, <1>11, <1>12 DEF Sharing
<1> QED  BY <1>8, <1>10, <1>13 DEF w, h

(* A queue takes the place, and the reference, of one of its generation.    *)
LEMMA ExchangedShares ==
  ASSUME NEW s, Sharing(s), NEW old \in Live(s), NEW t \in Tokens \ Live(s), NEW q, IsQueue(q),
         q.gen = s.queues[old].gen, q.built = s.queues[old].built
  PROVE  LET w == Exchanged(s, old, t, q)
         IN  /\ Sharing(w)
             /\ Live(w) = (Live(s) \ {old}) \cup {t} /\ w.queues[t] = q
             /\ \A u \in Live(s) \ {old} : w.queues[u] = s.queues[u]
             /\ w.index = s.index
<1> DEFINE w == Exchanged(s, old, t, q)
<1>1. PICK Q, I, R, B :
        /\ s = [queues |-> Q, index |-> I, refs |-> R, bytes |-> B]
        /\ Q = [u \in Tokens |-> Q[u]]
        /\ I \in [Generations -> Indexes]
        /\ R \in [Generations -> Nat]
  BY DEF Sharing, IsStore
<1>2. /\ w.queues = [[Q EXCEPT ![old] = NoQueue] EXCEPT ![t] = q] /\ w.index = I /\ w.refs = R
      /\ IsRecord(w)
  <2> DEFINE bytes == s.bytes - SizeOf(s.queues[old])
             cut == [s EXCEPT !.queues[old] = NoQueue]
             left == [s EXCEPT !.queues[old] = NoQueue, !.bytes = bytes]
             O == [Q EXCEPT ![old] = NoQueue]
  <2>1. w = Stored(left, t, q)  BY DEF Exchanged
  <2> HIDE DEF bytes, w
  <2>2. cut = [queues |-> O, index |-> I, refs |-> R, bytes |-> B]  BY <1>1
  <2>3. left = [cut EXCEPT !.bytes = bytes]  OBVIOUS
  <2> HIDE DEF cut, left, O
  <2>4. left = [queues |-> O, index |-> I, refs |-> R, bytes |-> bytes]  BY <2>2, <2>3
  <2>5. IsRecord(left) /\ left.queues = O /\ left.index = I /\ left.refs = R
    BY <2>4 DEF IsRecord
  <2>6. w.queues = [left.queues EXCEPT ![t] = q] /\ w.index = left.index /\ w.refs = left.refs
    BY <2>1, <2>5, StoredFields
  <2>7. IsRecord(w)  BY <2>1, <2>5, StoredFields
  <2> QED  BY <2>5, <2>6, <2>7 DEF O
<1> HIDE DEF w
<1>3. old \in Tokens /\ old # t  BY DEF Live
<1>4. /\ \A u \in Tokens : w.queues[u] = IF u = t THEN q ELSE IF u = old THEN NoQueue ELSE s.queues[u]
      /\ w.queues = [u \in Tokens |-> w.queues[u]]
  BY <1>1, <1>2, <1>3
<1>5. /\ Live(w) = (Live(s) \ {old}) \cup {t} /\ w.queues[t] = q
      /\ \A u \in Live(s) \ {old} : w.queues[u] = s.queues[u]
  BY <1>3, <1>4, QueueIsNotNone DEF Live
<1>6. IsStore(w)  BY <1>1, <1>2, <1>4 DEF IsStore, IsRecord
<1>7. w.index = s.index /\ w.refs = s.refs  BY <1>1, <1>2
<1>8. ASSUME NEW u \in Live(w)
      PROVE  IsQueue(w.queues[u]) /\ w.queues[u].built = w.index[w.queues[u].gen]
  BY <1>5, <1>7 DEF Sharing
<1>9. ASSUME NEW g \in Generations
      PROVE  Cardinality(OfGeneration(w, g)) = Cardinality(OfGeneration(s, g))
  <2>1. CASE g = q.gen
    <3>1. /\ old \in OfGeneration(s, g) /\ t \notin OfGeneration(s, g) \ {old}
          /\ OfGeneration(w, g) = (OfGeneration(s, g) \ {old}) \cup {t}
      BY <1>3, <1>5, <2>1 DEF OfGeneration
    <3>2. /\ IsFiniteSet(OfGeneration(s, g) \ {old})
          /\ Cardinality(OfGeneration(s, g) \ {old}) = Cardinality(OfGeneration(s, g)) - 1
      BY <3>1, LiveFinite, FS_RemoveElement
    <3>3. Cardinality(OfGeneration(w, g)) = Cardinality(OfGeneration(s, g) \ {old}) + 1
      BY <3>1, <3>2, FS_AddElement
    <3> QED  BY <3>2, <3>3, LiveFinite
  <2>2. CASE g # q.gen
    <3>1. OfGeneration(w, g) = OfGeneration(s, g)  BY <1>5, <2>2 DEF OfGeneration
    <3> QED  BY <3>1
  <2> QED  BY <2>1, <2>2
<1>10. Sharing(w)  BY <1>6, <1>7, <1>8, <1>9 DEF Sharing
<1> QED  BY <1>5, <1>7, <1>10 DEF w

(* Another prefix or a shorter order leave a queue its generation and Index.*)
LEMMA PrefixPlaced ==
  ASSUME NEW q, IsQueue(q), NEW p
  PROVE  LET n == [q EXCEPT !.prefix = p] IN IsQueue(n) /\ n.gen = q.gen /\ n.built = q.built
<1> DEFINE n == [q EXCEPT !.prefix = p]
<1>1. PICK O, P : q = [gen |-> q.gen, built |-> q.built, order |-> O, prefix |-> P]
  BY DEF IsQueue
<1>2. n = [gen |-> q.gen, built |-> q.built, order |-> O, prefix |-> p]  BY <1>1
<1> HIDE DEF n
<1>3. n.gen = q.gen /\ n.built = q.built  BY <1>2
<1>4. \E o, r : n = [gen |-> n.gen, built |-> n.built, order |-> o, prefix |-> r]
  BY <1>2, <1>3
<1> QED  BY <1>3, <1>4 DEF IsQueue, n

LEMMA OrderCut ==
  ASSUME NEW q, IsQueue(q), NEW o
  PROVE  LET n == [q EXCEPT !.order = o] IN IsQueue(n) /\ n.gen = q.gen /\ n.built = q.built
<1> DEFINE n == [q EXCEPT !.order = o]
<1>1. PICK O, P : q = [gen |-> q.gen, built |-> q.built, order |-> O, prefix |-> P]
  BY DEF IsQueue
<1>2. n = [gen |-> q.gen, built |-> q.built, order |-> o, prefix |-> P]  BY <1>1
<1> HIDE DEF n
<1>3. n.gen = q.gen /\ n.built = q.built  BY <1>2
<1>4. \E x, r : n = [gen |-> n.gen, built |-> n.built, order |-> x, prefix |-> r]
  BY <1>2, <1>3
<1> QED  BY <1>3, <1>4 DEF IsQueue, n

LEMMA InFrontIsQueue ==
  ASSUME NEW q, IsQueue(q), NEW entries
  PROVE  LET n == InFront(q, entries)
         IN  IsQueue(n) /\ n.gen = q.gen /\ n.built = q.built
<1> DEFINE p == entries \o Remaining(q.prefix, Range(entries))
           o == q.order \ Range(entries)
           placed == [q EXCEPT !.prefix = p]
<1>1. InFront(q, entries) = [q EXCEPT !.prefix = p, !.order = o]  BY DEF InFront
<1> HIDE DEF p, o
<1>2. [q EXCEPT !.prefix = p, !.order = o] = [placed EXCEPT !.order = o]  OBVIOUS
<1>3. IsQueue(placed) /\ placed.gen = q.gen /\ placed.built = q.built  BY PrefixPlaced
<1> HIDE DEF placed
<1> QED  BY <1>1, <1>2, <1>3, OrderCut

-----------------------------------------------------------------------------
(* The invariant: whoever knows the Index of a generation knows the same.   *)

Pair(index, g) == <<index, g>>

Known ==
  {Pair(current, generation)}
    \cup {Pair(view[c].index, view[c].generation) : c \in Requests}
    \cup {Pair(store.index[g], g) : g \in {h \in Generations : store.index[h] # NoIndex}}
    \cup {Pair(draft[c].built, draft[c].gen) : c \in {d \in Requests : pc[d] = "commit"}}

Agreed(K, last) ==
  /\ \A k \in K : k[2] \in 0..last /\ (k[1] = NoIndex <=> k[2] = 0)
  /\ \A k, l \in K : k[2] = l[2] => k[1] = l[1]

RequestTypes ==
  /\ pc \in [Requests -> PCs]
  /\ op \in [Requests -> Ops]
  /\ target \in [Requests -> Tokens \cup {NoToken}]
  /\ view \in [Requests -> [index : Indexes, generation : 0..MaxGeneration]]
  /\ draft = [c \in Requests |-> draft[c]]

(* A draft is of the generation of the queue it will replace.               *)
InWork(c) ==
  /\ pc[c] # "idle" => view[c].index # NoIndex
  /\ pc[c] = "commit" => IsQueue(draft[c])
  /\ pc[c] = "commit" /\ op[c] \in {"select", "prepend"} /\ target[c] \in Live(store)
       => draft[c].gen = store.queues[target[c]].gen

QInv ==
  /\ current \in Indexes
  /\ generation \in 0..MaxGeneration
  /\ RequestTypes
  /\ Sharing(store)
  /\ Agreed(Known, generation)
  /\ \A c \in Requests : InWork(c)

(* What any change of the store keeps for the requests at work.             *)
StoreStep ==
  /\ Sharing(store')
  /\ \A g \in Generations : store'.index[g] # NoIndex => Pair(store'.index[g], g) \in Known
  /\ \A t \in Range(target) \cap Live(store') :
       t \in Live(store) /\ store'.queues[t] = store.queues[t]

LEMMA StoreUnchanged == QInv /\ UNCHANGED store => StoreStep
BY DEF QInv, StoreStep, Known

(* One request moves, and knows nothing that was not known.                 *)
LEMMA RequestStep ==
  ASSUME QInv, NEW c \in Requests, StoreStep, RequestTypes', UNCHANGED libraryVars,
         \A d \in Requests \ {c} :
           /\ pc'[d] = pc[d] /\ op'[d] = op[d] /\ target'[d] = target[d]
           /\ view'[d] = view[d] /\ draft'[d] = draft[d],
         Pair(view'[c].index, view'[c].generation) \in Known \cup {Pair(NoIndex, 0)},
         pc'[c] # "idle" => view'[c].index # NoIndex,
         pc'[c] = "commit" =>
           /\ IsQueue(draft'[c])
           /\ Pair(draft'[c].built, draft'[c].gen) \in Known
           /\ op'[c] \in {"select", "prepend"} /\ target'[c] \in Live(store')
                => draft'[c].gen = store'.queues[target'[c]].gen
  PROVE  QInv'
<1>1. Known' \subseteq Known \cup {Pair(NoIndex, 0)}
  <2>1. ASSUME NEW d \in Requests
        PROVE  Pair(view'[d].index, view'[d].generation) \in Known \cup {Pair(NoIndex, 0)}
    BY DEF Known
  <2>2. ASSUME NEW d \in Requests, pc'[d] = "commit"
        PROVE  Pair(draft'[d].built, draft'[d].gen) \in Known
    BY <2>2 DEF Known
  <2>3. Pair(current', generation') \in Known  BY DEF libraryVars, Known
  <2> QED  BY <2>1, <2>2, <2>3 DEF Known, StoreStep
<1>2. Agreed(Known \cup {Pair(NoIndex, 0)}, generation)
  BY DEF QInv, Agreed, Pair
<1>3. Agreed(Known', generation')  BY <1>1, <1>2 DEF Agreed, libraryVars
<1>4. ASSUME NEW d \in Requests \ {c}  PROVE InWork(d)'
  <2>1. InWork(d) /\ target[d] \in Range(target)
    BY DEF QInv, RequestTypes, Range
  <2> QED  BY <2>1 DEF InWork, StoreStep
<1>5. InWork(c)'  BY DEF InWork
<1> QED  BY <1>3, <1>4, <1>5 DEF QInv, StoreStep, libraryVars

LEMMA EndKeeps ==
  ASSUME QInv, NEW c \in Requests, StoreStep, Ends(c), UNCHANGED libraryVars
  PROVE  QInv'
<1>1. RequestTypes'
  <2>1. NoView \in [index : Indexes, generation : 0..MaxGeneration]
    BY PlayQueueAssumption DEF NoView, Indexes
  <2> QED  BY <2>1 DEF QInv, RequestTypes, Ends, PCs, Ops
<1>2. /\ pc'[c] = "idle" /\ view'[c] = NoView
      /\ \A d \in Requests \ {c} :
           /\ pc'[d] = pc[d] /\ op'[d] = op[d] /\ target'[d] = target[d]
           /\ view'[d] = view[d] /\ draft'[d] = draft[d]
  BY DEF QInv, RequestTypes, Ends
<1> QED  BY <1>1, <1>2, RequestStep DEF NoView

-----------------------------------------------------------------------------
(* The steps that change the store.                                         *)

(* A queue that is there after a step is the new one, or was there before.  *)
Placed(t, q) ==
  \A u \in Live(store') :
    IF u = t THEN store'.queues[u] = q
             ELSE u \in Live(store) /\ store'.queues[u] = store.queues[u]

LEMMA Removal ==
  ASSUME QInv, NEW T, T \subseteq Live(store), store' = Without(store, T)
  PROVE  /\ StoreStep
         /\ \A u \in Live(store') : u \in Live(store) /\ store'.queues[u] = store.queues[u]
<1>1. /\ Sharing(store') /\ Live(store') = Live(store) \ T
      /\ \A t \in Live(store') : store'.queues[t] = store.queues[t]
      /\ \A g \in Generations : store'.index[g] \in {store.index[g], NoIndex}
  BY WithoutShares DEF QInv
<1> QED  BY <1>1 DEF StoreStep, Known

(* A finished draft is known, and so is the Index it was built from.        *)
LEMMA DraftKnown ==
  ASSUME QInv, NEW c \in Requests, pc[c] = "commit"
  PROVE  /\ IsQueue(draft[c])
         /\ Pair(draft[c].built, draft[c].gen) \in Known
         /\ store.index[draft[c].gen] \in {NoIndex, draft[c].built}
<1>1. IsQueue(draft[c]) /\ Pair(draft[c].built, draft[c].gen) \in Known
  BY DEF QInv, InWork, Known
<1>2. draft[c].gen \in Generations  BY <1>1 DEF IsQueue
<1>3. store.index[draft[c].gen] # NoIndex
        => Pair(store.index[draft[c].gen], draft[c].gen) \in Known
  BY <1>2 DEF Known
<1>4. store.index[draft[c].gen] # NoIndex => store.index[draft[c].gen] = draft[c].built
  BY <1>1, <1>3 DEF QInv, Agreed, Pair
<1> QED  BY <1>1, <1>4

LEMMA CreationShares ==
  ASSUME QInv, NEW c \in Requests, NEW t \in Tokens, NEW expired \in SUBSET Live(store),
         CreateCommits(c, t, expired)
  PROVE  /\ StoreStep /\ Placed(t, draft[c])
         /\ t \in Live(store') /\ target[c] \notin Live(store')
<1> DEFINE gone  == expired \cup ({target[c]} \ {NoToken})
           left  == Without(store, gone)
           added == Stored(Retained(left, draft[c].gen, draft[c].built), t, draft[c])
<1>1. /\ pc[c] = "commit" /\ t \in Tokens \ (Live(store) \cup Range(target))
      /\ gone \subseteq Live(store)
  BY DEF CreateCommits, Fresh
<1>2. PICK evicted \in Evictions(added, t) : store' = Without(added, evicted)
  BY DEF CreateCommits
<1>3. evicted \subseteq Live(added) \ {t}  BY DEF Evictions
<1> HIDE DEF gone
<1>4. /\ Sharing(left) /\ Live(left) = Live(store) \ gone
      /\ \A u \in Live(left) : left.queues[u] = store.queues[u]
      /\ \A g \in Generations : left.index[g] \in {store.index[g], NoIndex}
  BY <1>1, WithoutShares DEF QInv
<1>5. /\ IsQueue(draft[c]) /\ Pair(draft[c].built, draft[c].gen) \in Known
      /\ store.index[draft[c].gen] \in {NoIndex, draft[c].built}
  BY <1>1, DraftKnown
<1> HIDE DEF left
<1>6. left.index[draft[c].gen] \in {NoIndex, draft[c].built}
  BY <1>4, <1>5 DEF IsQueue
<1>7. t \in Tokens \ Live(left)  BY <1>1, <1>4
<1>8. /\ Sharing(added) /\ Live(added) = Live(left) \cup {t} /\ added.queues[t] = draft[c]
      /\ \A u \in Live(left) : added.queues[u] = left.queues[u]
      /\ \A g \in Generations :
           added.index[g] = IF g = draft[c].gen THEN draft[c].built ELSE left.index[g]
  <2> DEFINE q == draft[c]
  <2>1. IsQueue(q) /\ left.index[q.gen] \in {NoIndex, q.built}  BY <1>5, <1>6
  <2>2. added = Stored(Retained(left, q.gen, q.built), t, q)  OBVIOUS
  <2> HIDE DEF q, added
  <2>3. LET w == Stored(Retained(left, q.gen, q.built), t, q)
        IN  /\ Sharing(w) /\ Live(w) = Live(left) \cup {t} /\ w.queues[t] = q
            /\ \A u \in Live(left) : w.queues[u] = left.queues[u]
            /\ \A g \in Generations : w.index[g] = IF g = q.gen THEN q.built ELSE left.index[g]
    BY <1>4, <1>7, <2>1, AddedShares
  <2> QED  BY <2>2, <2>3 DEF q
<1> HIDE DEF added
<1>9. /\ Sharing(store') /\ Live(store') = Live(added) \ evicted
      /\ \A u \in Live(store') : store'.queues[u] = added.queues[u]
      /\ \A g \in Generations : store'.index[g] \in {added.index[g], NoIndex}
  BY <1>2, <1>3, <1>8, WithoutShares
<1>10. ASSUME NEW g \in Generations, store'.index[g] # NoIndex
       PROVE  Pair(store'.index[g], g) \in Known
  <2>1. CASE g = draft[c].gen  BY <1>5, <1>8, <1>9, <1>10, <2>1
  <2>2. CASE g # draft[c].gen
    <3>1. store'.index[g] = store.index[g]  BY <1>4, <1>8, <1>9, <1>10, <2>2
    <3> QED  BY <1>10, <3>1 DEF Known
  <2> QED  BY <2>1, <2>2
<1>11. ASSUME NEW u \in Range(target) \cap Live(store')
       PROVE  u \in Live(store) /\ store'.queues[u] = store.queues[u]
  <2>1. u # t  BY <1>1
  <2>2. u \in Live(left) /\ store'.queues[u] = left.queues[u]  BY <1>8, <1>9, <2>1
  <2> QED  BY <1>4, <2>2
<1>12. StoreStep  BY <1>9, <1>10, <1>11 DEF StoreStep
<1>13. Placed(t, draft[c])
  <2> SUFFICES ASSUME NEW u \in Live(store')
               PROVE  IF u = t THEN store'.queues[u] = draft[c]
                               ELSE u \in Live(store) /\ store'.queues[u] = store.queues[u]
    BY DEF Placed
  <2>1. u \in Live(added) /\ store'.queues[u] = added.queues[u]
    BY <1>9
  <2>2. CASE u = t
    BY <1>8, <2>1, <2>2
  <2>3. CASE u # t
    <3>1. u \in Live(left) /\ added.queues[u] = left.queues[u]
      BY <1>8, <2>1, <2>3
    <3> QED  BY <1>4, <2>1, <2>3, <3>1
  <2> QED  BY <2>2, <2>3
<1>14. t \in Live(store')
  BY <1>3, <1>8, <1>9
<1>15. target[c] \notin Live(store')
  <2>1. target[c] # t /\ (target[c] \in gone \/ target[c] \notin Tokens)
    BY <1>1, PlayQueueAssumption DEF QInv, RequestTypes, Range, gone
  <2> QED  BY <1>4, <1>8, <1>9, <2>1 DEF Live
<1> QED  BY <1>12, <1>13, <1>14, <1>15

LEMMA ReplacementShares ==
  ASSUME QInv, NEW c \in Requests, NEW t \in Tokens, Replaces(c, t)
  PROVE  /\ StoreStep /\ Placed(t, draft[c])
         /\ t \in Live(store') /\ target[c] \notin Live(store')
<1> DEFINE old == target[c]
           exchanged == Exchanged(store, old, t, draft[c])
<1>1. /\ pc[c] = "commit" /\ op[c] \in {"select", "prepend"} /\ old \in Live(store)
      /\ t \in Tokens \ (Live(store) \cup Range(target))
  BY DEF Replaces, StillThere, Fresh
<1>2. PICK evicted \in Evictions(exchanged, t) : store' = Without(exchanged, evicted)
  BY DEF Replaces
<1>3. evicted \subseteq Live(exchanged) \ {t}  BY DEF Evictions
<1>4. IsQueue(draft[c]) /\ draft[c].gen = store.queues[old].gen
  BY <1>1 DEF QInv, InWork
<1>5. draft[c].built = store.queues[old].built
  <2>1. /\ IsQueue(store.queues[old])
        /\ store.queues[old].built = store.index[store.queues[old].gen]
    BY <1>1 DEF QInv, Sharing
  <2>2. store.index[draft[c].gen] # NoIndex  BY <1>4, <2>1, NoIndexIsNone DEF IsQueue
  <2> QED  BY <1>1, <1>4, <2>1, <2>2, DraftKnown
<1> HIDE DEF old
<1>6. /\ Sharing(exchanged) /\ Live(exchanged) = (Live(store) \ {old}) \cup {t}
      /\ exchanged.queues[t] = draft[c]
      /\ \A u \in Live(store) \ {old} : exchanged.queues[u] = store.queues[u]
      /\ exchanged.index = store.index
  BY <1>1, <1>4, <1>5, ExchangedShares DEF QInv
<1> HIDE DEF exchanged
<1>7. /\ Sharing(store') /\ Live(store') = Live(exchanged) \ evicted
      /\ \A u \in Live(store') : store'.queues[u] = exchanged.queues[u]
      /\ \A g \in Generations : store'.index[g] \in {exchanged.index[g], NoIndex}
  BY <1>2, <1>3, <1>6, WithoutShares
<1>8. ASSUME NEW g \in Generations, store'.index[g] # NoIndex
      PROVE  Pair(store'.index[g], g) \in Known
  <2>1. store'.index[g] = store.index[g]  BY <1>6, <1>7, <1>8
  <2> QED  BY <1>8, <2>1 DEF Known
<1>9. ASSUME NEW u \in Range(target) \cap Live(store')
      PROVE  u \in Live(store) /\ store'.queues[u] = store.queues[u]
  <2>1. u # t  BY <1>1
  <2> QED  BY <1>6, <1>7, <2>1
<1>10. Placed(t, draft[c])
  <2> SUFFICES ASSUME NEW u \in Live(store')
               PROVE  IF u = t THEN store'.queues[u] = draft[c]
                               ELSE u \in Live(store) /\ store'.queues[u] = store.queues[u]
    BY DEF Placed
  <2>1. u \in Live(exchanged) /\ store'.queues[u] = exchanged.queues[u]
    BY <1>7
  <2>2. u # t => u \in Live(store) \ {old}
    BY <1>6, <2>1
  <2> QED  BY <1>6, <2>1, <2>2
<1>11. target[c] \notin Live(store')
  BY <1>1, <1>6, <1>7 DEF old
<1>12. t \in Live(store')
  BY <1>3, <1>6, <1>7
<1> QED  BY <1>7, <1>8, <1>9, <1>10, <1>11, <1>12 DEF StoreStep

-----------------------------------------------------------------------------
(* The steps of a request.                                                  *)

LEMMA StartKeeps ==
  ASSUME QInv, NEW c \in Requests, NEW o \in Ops, NEW t \in Tokens \cup {NoToken}, NEW p \in PCs,
         Starts(c, o, t), pc' = [pc EXCEPT ![c] = p], UNCHANGED <<libraryVars, store>>,
         draft' = [d \in Requests |-> draft'[d]],
         \A d \in Requests \ {c} : draft'[d] = draft[d],
         p = "commit" =>
           /\ IsQueue(draft'[c])
           /\ Pair(draft'[c].built, draft'[c].gen) \in Known
           /\ t \in Live(store) => draft'[c].gen = store.queues[t].gen
  PROVE  QInv'
<1>1. /\ op' = [op EXCEPT ![c] = o] /\ target' = [target EXCEPT ![c] = t] /\ current # NoIndex
      /\ view' = [view EXCEPT ![c] = [index |-> current, generation |-> generation]]
  BY DEF Starts
<1>2. RequestTypes'
  <2>1. [index |-> current, generation |-> generation] \in [index : Indexes, generation : 0..MaxGeneration]
    BY DEF QInv
  <2> QED  BY <1>1, <2>1 DEF QInv, RequestTypes
<1>3. /\ pc'[c] = p /\ target'[c] = t
      /\ view'[c] = [index |-> current, generation |-> generation]
      /\ \A d \in Requests \ {c} :
           pc'[d] = pc[d] /\ op'[d] = op[d] /\ target'[d] = target[d] /\ view'[d] = view[d]
  BY <1>1 DEF QInv, RequestTypes
<1>4. Pair(current, generation) \in Known  BY DEF Known
<1>5. StoreStep  BY StoreUnchanged
<1> QED  BY <1>1, <1>2, <1>3, <1>4, <1>5, RequestStep

LEMMA GateKeeps ==
  ASSUME QInv, NEW c \in Requests, GateStep(c)
  PROVE  QInv'
<1>1. ASSUME NEW o \in Ops, NEW t \in Tokens \cup {NoToken}, AcquireAtOnce(c, o, t)
      PROVE  QInv'
  <2>1. draft' = [d \in Requests |-> draft'[d]]
    BY <1>1 DEF AcquireAtOnce, QInv, RequestTypes
  <2> QED  BY <1>1, <2>1, StartKeeps DEF AcquireAtOnce, PCs
<1>2. ASSUME NEW o \in Ops, NEW t \in Tokens \cup {NoToken}, AcquireWaits(c, o, t)
      PROVE  QInv'
  <2>1. draft' = [d \in Requests |-> draft'[d]]
    BY <1>2 DEF AcquireWaits, QInv, RequestTypes
  <2> QED  BY <1>2, <2>1, StartKeeps DEF AcquireWaits, PCs
<1>3. CASE AcquireSlot(c)
  <2>1. RequestTypes' /\ pc'[c] = "build" /\ \A d \in Requests \ {c} : pc'[d] = pc[d]
    BY <1>3 DEF AcquireSlot, QInv, RequestTypes, PCs
  <2>2. view[c].index # NoIndex  BY <1>3 DEF AcquireSlot, QInv, InWork
  <2>3. Pair(view[c].index, view[c].generation) \in Known  BY DEF Known
  <2>4. StoreStep  BY <1>3, StoreUnchanged DEF AcquireSlot
  <2> QED  BY <1>3, <2>1, <2>2, <2>3, <2>4, RequestStep DEF AcquireSlot
<1>4. CASE AcquireFails(c)  BY <1>4, StoreUnchanged, EndKeeps DEF AcquireFails
<1> QED  BY <1>1, <1>2, <1>3, <1>4 DEF GateStep

(* The build is done: the request has a draft of something known.           *)
LEMMA BuildKeeps ==
  ASSUME QInv, NEW c \in Requests, pc[c] = "build", NEW q, IsQueue(q),
         Pair(q.built, q.gen) \in Known,
         op[c] \in {"select", "prepend"} /\ target[c] \in Live(store)
           => q.gen = store.queues[target[c]].gen,
         draft' = [draft EXCEPT ![c] = q], pc' = [pc EXCEPT ![c] = "commit"],
         UNCHANGED <<libraryVars, store, op, target, view>>
  PROVE  QInv'
<1>1. /\ RequestTypes' /\ pc'[c] = "commit" /\ draft'[c] = q
      /\ \A d \in Requests \ {c} : pc'[d] = pc[d] /\ draft'[d] = draft[d]
  BY DEF QInv, RequestTypes, PCs
<1>2. view[c].index # NoIndex  BY DEF QInv, InWork
<1>3. Pair(view[c].index, view[c].generation) \in Known  BY DEF Known
<1> QED  BY <1>1, <1>2, <1>3, StoreUnchanged, RequestStep

LEMMA QueueKnown ==
  ASSUME QInv, NEW t \in Live(store)
  PROVE  LET q == store.queues[t] IN IsQueue(q) /\ Pair(q.built, q.gen) \in Known
<1> DEFINE q == store.queues[t]
<1>1. IsQueue(q) /\ q.built = store.index[q.gen]  BY DEF QInv, Sharing
<1>2. q.gen \in Generations /\ q.built # NoIndex  BY <1>1, NoIndexIsNone DEF IsQueue
<1> QED  BY <1>1, <1>2 DEF Known

LEMMA CreateKeeps ==
  ASSUME QInv, NEW c \in Requests, CreateStep(c)
  PROVE  QInv'
<1>1. ASSUME NEW candidates, NEW pin, CreateBuilds(c, candidates, pin)
      PROVE  QInv'
  <2> DEFINE g == view[c].generation
             i == Canonical(view[c])
             o == candidates \ pin
             p == IF pin = {} THEN <<>> ELSE <<CHOOSE x \in pin : TRUE>>
             q == [gen |-> g, built |-> i, order |-> o, prefix |-> p]
  <2>1. /\ pc[c] = "build" /\ op[c] = "create"
        /\ draft' = [draft EXCEPT ![c] = q] /\ pc' = [pc EXCEPT ![c] = "commit"]
        /\ UNCHANGED <<libraryVars, store, op, target, view>>
    BY <1>1 DEF CreateBuilds
  <2>2. /\ view[c].index # NoIndex /\ view[c].index \in Indexes /\ g \in 0..MaxGeneration
        /\ Pair(view[c].index, g) \in Known
    BY <2>1 DEF QInv, InWork, RequestTypes, Known
  <2>3. g \in Generations
    BY <2>2, PlayQueueAssumption DEF QInv, Agreed, Pair, Generations
  <2>4. i # NoIndex /\ i \in SUBSET Paths /\ Pair(i, g) \in Known
    <3>1. CASE store.index[g] # NoIndex
      BY <2>3, <3>1 DEF Canonical, Known, QInv, Sharing, IsStore, Indexes
    <3>2. CASE store.index[g] = NoIndex  BY <2>2, <3>2 DEF Canonical, Indexes
    <3> QED  BY <3>1, <3>2
  <2> HIDE DEF g, i, o, p
  <2>5. IsQueue(q) /\ q.built = i /\ q.gen = g  BY <2>3, <2>4 DEF IsQueue
  <2> HIDE DEF q
  <2> QED  BY <2>1, <2>4, <2>5, BuildKeeps
<1>2. ASSUME NEW expired \in SUBSET Live(store), CreateNotFound(c, expired)
      PROVE  QInv'
  BY <1>2, Removal, EndKeeps DEF CreateNotFound, Releases
<1>3. CASE BuildFails(c)  BY <1>3, StoreUnchanged, EndKeeps DEF BuildFails, Releases
<1>4. ASSUME NEW t \in Tokens, NEW expired \in SUBSET Live(store), CreateCommits(c, t, expired)
      PROVE  QInv'
  BY <1>4, CreationShares, EndKeeps DEF CreateCommits, Releases
<1> QED  BY <1>1, <1>2, <1>3, <1>4 DEF CreateStep

LEMMA ReplaceKeeps ==
  ASSUME QInv, NEW c \in Requests, ReplaceStep(c)
  PROVE  QInv'
<1>1. ASSUME NEW t \in Tokens, NEW path, SelectReads(c, t, path)
      PROVE  QInv'
  <2> DEFINE q == [store.queues[t] EXCEPT !.prefix = <<path>> \o @]
             p == <<path>> \o store.queues[t].prefix
  <2>1. t \in Live(store) /\ draft' = [draft EXCEPT ![c] = q]  BY <1>1 DEF SelectReads
  <2>2. q = [store.queues[t] EXCEPT !.prefix = p]  OBVIOUS
  <2> HIDE DEF p, q
  <2>3. /\ IsQueue(q) /\ q.gen = store.queues[t].gen
        /\ Pair(q.built, q.gen) \in Known
    BY <2>1, <2>2, QueueKnown, PrefixPlaced
  <2>4. /\ draft' = [d \in Requests |-> draft'[d]] /\ draft'[c] = q
        /\ \A d \in Requests \ {c} : draft'[d] = draft[d]
    BY <2>1 DEF QInv, RequestTypes
  <2> QED  BY <1>1, <2>3, <2>4, StartKeeps DEF SelectReads, PCs, Ops
<1>2. ASSUME NEW entries, PrependReads(c, entries)
      PROVE  QInv'
  <2> DEFINE q == InFront(store.queues[target[c]], entries)
  <2>1. /\ pc[c] = "build" /\ target[c] \in Live(store)
        /\ draft' = [draft EXCEPT ![c] = q] /\ pc' = [pc EXCEPT ![c] = "commit"]
        /\ UNCHANGED <<libraryVars, store, op, target, view>>
    BY <1>2 DEF PrependReads
  <2>2. /\ IsQueue(q) /\ q.gen = store.queues[target[c]].gen
        /\ Pair(q.built, q.gen) \in Known
    BY <2>1, QueueKnown, InFrontIsQueue
  <2> HIDE DEF q
  <2> QED  BY <2>1, <2>2, BuildKeeps
<1>3. ASSUME NEW t \in Tokens, PrependCommits(c, t)  PROVE QInv'
  BY <1>3, ReplacementShares, EndKeeps DEF PrependCommits, Releases
<1>4. ASSUME NEW t \in Tokens, SelectCommits(c, t)  PROVE QInv'
  BY <1>4, ReplacementShares, EndKeeps DEF SelectCommits
<1>5. CASE SelectFails(c)  BY <1>5, StoreUnchanged, EndKeeps DEF SelectFails
<1> QED  BY <1>1, <1>2, <1>3, <1>4, <1>5 DEF ReplaceStep

-----------------------------------------------------------------------------
(* The library changes, and the theorems.                                   *)

LEMMA RescanKeeps == QInv /\ Rescans => QInv'
<1> SUFFICES ASSUME QInv, Rescans PROVE QInv'
  OBVIOUS
<1>1. PICK paths \in SUBSET Paths :
        (paths = current \/ generation < MaxGeneration) /\ Publish(paths)
  BY DEF Rescans
<1>2. /\ current' \in Indexes /\ current' # NoIndex
      /\ generation' \in 0..MaxGeneration /\ generation \in 0..generation'
  BY <1>1, NoIndexIsNone, PlayQueueAssumption DEF Publish, Indexes, QInv
<1>3. Known' \subseteq Known \cup {Pair(current', generation')}
  BY DEF Rescans, queueVars, Known
<1>4. Agreed(Known \cup {Pair(current', generation')}, generation')
  <2>1. Pair(current, generation) \in Known  BY DEF Known
  <2>2. Agreed(Known, generation)  BY DEF QInv
  <2>3. CASE paths = current
    <3>1. current' = current /\ generation' = generation  BY <1>1, <2>3 DEF Publish
    <3>2. Known \cup {Pair(current', generation')} = Known  BY <2>1, <3>1
    <3> QED  BY <2>2, <3>1, <3>2
  <2>4. CASE paths # current
    <3>1. current' = paths /\ generation' = generation + 1  BY <1>1, <2>4 DEF Publish
    <3>2. \A k \in Known : k[2] \in 0..generation' /\ k[2] # generation'
      BY <2>2, <3>1, PlayQueueAssumption DEF Agreed, QInv
    <3>3. generation' # 0  BY <3>1 DEF QInv
    <3> QED  BY <1>2, <2>2, <3>2, <3>3 DEF Agreed, Pair
  <2> QED  BY <2>3, <2>4
<1>5. Agreed(Known', generation')  BY <1>3, <1>4 DEF Agreed
<1>6. \A c \in Requests : InWork(c)'  BY DEF Rescans, queueVars, QInv, InWork
<1>7. RequestTypes' /\ Sharing(store')
  BY DEF Rescans, queueVars, QInv, RequestTypes
<1> QED  BY <1>2, <1>5, <1>6, <1>7 DEF QInv

LEMMA QInitially == Init => QInv
<1> SUFFICES ASSUME Init PROVE QInv
  OBVIOUS
<1>1. Live(store) = {}  BY DEF Init, Live
<1>2. \A g \in Generations : OfGeneration(store, g) = {}  BY <1>1 DEF OfGeneration
<1>3. IsStore(store)
  <2>1. IsRecord(store) /\ store.queues = [t \in Tokens |-> store.queues[t]]
    BY DEF Init, IsRecord
  <2>2. store.index \in [Generations -> Indexes] /\ store.refs \in [Generations -> Nat]
    BY DEF Init, Indexes
  <2> QED  BY <2>1, <2>2 DEF IsStore, IsRecord
<1>4. Sharing(store)  BY <1>1, <1>2, <1>3, FS_EmptySet DEF Sharing, Init
<1>5. RequestTypes
  BY PlayQueueAssumption DEF Init, RequestTypes, PCs, Ops, NoView, Indexes
<1>6. current = NoIndex /\ generation = 0 /\ generation \in 0..MaxGeneration
  BY PlayQueueAssumption DEF Init, SnapshotsInit
<1>7. Known \subseteq {Pair(NoIndex, 0)}
  BY <1>6 DEF Init, Known, NoView
<1>8. Agreed(Known, generation)  BY <1>6, <1>7 DEF Agreed, Pair
<1>9. \A c \in Requests : InWork(c)  BY DEF Init, InWork
<1> QED  BY <1>4, <1>5, <1>6, <1>8, <1>9 DEF QInv, Indexes

(* Whoever knows the Index of a generation (the library, a request, a draft *)
(* or the store) knows the same one, and an Index is retained exactly while *)
(* queues share it, with one reference for each of them.                    *)
THEOREM SharingStaysExact == Spec => []QInv
<1>1. QInv /\ [Next]_vars => QInv'
  <2> SUFFICES ASSUME QInv, [Next]_vars PROVE QInv'
    OBVIOUS
  <2>1. ASSUME NEW t \in Tokens, Drop(t)  PROVE QInv'
    <3>1. StoreStep  BY <2>1, Removal DEF Drop
    <3>2. UNCHANGED <<libraryVars, pc, op, target, view, draft>>  BY <2>1 DEF Drop
    <3>3. Known' \subseteq Known  BY <3>1, <3>2 DEF Known, StoreStep, libraryVars
    <3>4. \A c \in Requests : InWork(c)'
      BY <3>1, <3>2 DEF QInv, InWork, StoreStep, RequestTypes, Range
    <3>5. RequestTypes'  BY <3>2 DEF QInv, RequestTypes
    <3> QED  BY <3>1, <3>2, <3>3, <3>4, <3>5 DEF QInv, StoreStep, Agreed, libraryVars
  <2>2. CASE UNCHANGED vars
    BY <2>2 DEF vars, queueVars, libraryVars, QInv, RequestTypes, Known, InWork
  <2> QED  BY <2>1, <2>2, GateKeeps, CreateKeeps, ReplaceKeeps, RescanKeeps DEF Next
<1> QED  BY <1>1, QInitially, PTL DEF Spec

(* The positions of a queue mean the files they meant when it was built: it *)
(* is read with the Index it was built from.                                *)
THEOREM PositionsStayValid == Spec => []PositionsValid
<1>1. QInv => PositionsValid  BY DEF QInv, Sharing, PositionsValid
<1> QED  BY <1>1, SharingStaysExact, PTL

-----------------------------------------------------------------------------
(* The prefix that is left when some tracks are taken out of it.            *)

LEMMA Least ==
  ASSUME NEW T, T \subseteq Nat, T # {}
  PROVE  \E n \in T : \A m \in T : n <= m
<1> DEFINE less == OpToRel(<, Nat)
<1>1. \A x, y \in T : y < x => <<y, x>> \in less
  BY DEF OpToRel
<1>2. IsWellFoundedOn(less, Nat)
  BY NatLessThanWellFounded
<1> HIDE DEF less
<1>3. PICK x \in T : \A y \in T : ~ (<<y, x>> \in less)
  BY <1>2, WFMin
<1>4. \A y \in T : ~ (y < x)
  BY <1>1, <1>3
<1>5. \A y \in T : x \in Nat /\ y \in Nat
  OBVIOUS
<1>6. \A y \in T : x <= y
  BY <1>4, <1>5
<1> QED  BY <1>6

(* How the tracks are taken out, one place after the other.                 *)
Searched(prefix, selected, g) ==
  g = [n \in 0..Len(prefix) |->
         IF n = 0 THEN <<>>
         ELSE IF prefix[n] \in selected THEN g[n - 1]
         ELSE Append(g[n - 1], prefix[n])]

LEMMA SearchExists ==
  ASSUME NEW prefix, Len(prefix) \in Nat, NEW selected
  PROVE  \E g : Searched(prefix, selected, g)
<1> DEFINE Has(m) == \E g : g = [n \in 0..m |->
                        IF n = 0 THEN <<>>
                        ELSE IF prefix[n] \in selected THEN g[n - 1]
                        ELSE Append(g[n - 1], prefix[n])]
           Bad == {m \in Nat : ~Has(m)}
<1>1. Bad = {}
  <2> SUFFICES ASSUME Bad # {} PROVE FALSE
    OBVIOUS
  <2>1. PICK m \in Bad : \A l \in Bad : m <= l
    BY Least
  <2>2. CASE m = 0
    <3> DEFINE g == [n \in 0..0 |-> <<>>]
    <3>1. g = [n \in 0..0 |-> IF n = 0 THEN <<>>
                              ELSE IF prefix[n] \in selected THEN g[n - 1]
                              ELSE Append(g[n - 1], prefix[n])]
      <4>1. \A n \in 0..0 : n = 0
        OBVIOUS
      <4> QED  BY <4>1
    <3> HIDE DEF g
    <3>2. Has(0)
      BY <3>1
    <3> QED  BY <2>1, <2>2, <3>2
  <2>3. CASE m # 0
    <3>1. m \in Nat /\ m - 1 \in Nat /\ Has(m - 1)
      <4> HIDE DEF Has
      <4>1. m \in Nat /\ m - 1 \in Nat /\ ~ (m <= m - 1)
        BY <2>1, <2>3
      <4> QED  BY <2>1, <4>1
    <3>2. PICK g : g = [n \in 0..m - 1 |->
                          IF n = 0 THEN <<>>
                          ELSE IF prefix[n] \in selected THEN g[n - 1]
                          ELSE Append(g[n - 1], prefix[n])]
      BY <3>1
    <3> DEFINE h == [n \in 0..m |->
                       IF n = 0 THEN <<>>
                       ELSE IF prefix[n] \in selected THEN g[n - 1]
                       ELSE Append(g[n - 1], prefix[n])]
    <3>3. ASSUME NEW n \in 0..m, n # 0 PROVE h[n - 1] = g[n - 1]
      <4>1. n - 1 \in 0..m - 1 /\ n - 1 \in 0..m
        BY <3>1, <3>3
      <4> QED  BY <3>2, <4>1
    <3>4. h = [n \in 0..m |-> IF n = 0 THEN <<>>
                              ELSE IF prefix[n] \in selected THEN h[n - 1]
                              ELSE Append(h[n - 1], prefix[n])]
      BY <3>3
    <3>5. Has(m)
      <4> HIDE DEF h
      <4> QED  BY <3>4
    <3> QED  BY <2>1, <3>5
  <2> QED  BY <2>2, <2>3
<1>2. Has(Len(prefix))
  BY <1>1
<1> QED  BY <1>2 DEF Searched

LEMMA RemainingIs ==
  ASSUME NEW prefix, Len(prefix) \in Nat, NEW selected
  PROVE  \E g : Searched(prefix, selected, g) /\ Remaining(prefix, selected) = g[Len(prefix)]
<1> DEFINE left[n \in 0..Len(prefix)] ==
             IF n = 0 THEN <<>>
             ELSE IF prefix[n] \in selected THEN left[n - 1]
             ELSE Append(left[n - 1], prefix[n])
<1>1. Remaining(prefix, selected) = left[Len(prefix)]
  BY DEF Remaining
<1>2. left = CHOOSE g : Searched(prefix, selected, g)
  BY DEF Searched
<1> HIDE DEF left
<1> QED  BY <1>1, <1>2, SearchExists

(* What is in the first n places.                                           *)
Begun(prefix, n) == {prefix[i] : i \in 1..n}

LEMMA PrefixRange ==
  ASSUME NEW S, NEW s \in Seq(S)
  PROVE  Range(s) = Begun(s, Len(s)) /\ DOMAIN s = 1..Len(s)
BY DEF Range, Begun

LEMMA RemainingTracks ==
  ASSUME NEW S, NEW prefix \in Seq(S), NEW selected
  PROVE  LET left == Remaining(prefix, selected)
         IN  /\ left \in Seq(S)
             /\ Range(left) = Range(prefix) \ selected
             /\ IsInjective(prefix) => IsInjective(left)
<1>1. Len(prefix) \in Nat
  OBVIOUS
<1>2. PICK g : Searched(prefix, selected, g) /\ Remaining(prefix, selected) = g[Len(prefix)]
  BY <1>1, RemainingIs
<1>3. g[0] = <<>>
  BY <1>1, <1>2 DEF Searched
<1>4. \A n \in 1..Len(prefix) :
        g[n] = IF prefix[n] \in selected THEN g[n - 1] ELSE Append(g[n - 1], prefix[n])
  <2>1. \A n \in 1..Len(prefix) : n \in 0..Len(prefix) /\ n # 0
    BY <1>1
  <2>2. \A n \in 0..Len(prefix) :
          g[n] = IF n = 0 THEN <<>>
                 ELSE IF prefix[n] \in selected THEN g[n - 1]
                 ELSE Append(g[n - 1], prefix[n])
    BY <1>2 DEF Searched
  <2> QED  BY <2>1, <2>2
<1> DEFINE Right(n) == /\ g[n] \in Seq(S)
                       /\ Range(g[n]) = Begun(prefix, n) \ selected
                       /\ IsInjective(prefix) => IsInjective(g[n])
           Bad == {n \in 0..Len(prefix) : ~Right(n)}
<1>5. Right(0)
  <2>1. Range(<<>>) = {} /\ IsInjective(<<>>) /\ <<>> \in Seq(S)
    BY DEF Range, IsInjective
  <2>2. Begun(prefix, 0) = {}
    BY DEF Begun
  <2> QED  BY <1>3, <2>1, <2>2
<1>6. ASSUME NEW n \in 1..Len(prefix), Right(n - 1) PROVE Right(n)
  <2> DEFINE x == prefix[n]
             s == g[n - 1]
  <2>1. x \in S /\ Begun(prefix, n) = Begun(prefix, n - 1) \cup {x}
    <3>1. \A i \in 1..n : i = n \/ i \in 1..n - 1
      BY <1>1
    <3>2. \A i \in 1..n - 1 : i \in 1..n
      BY <1>1
    <3> QED  BY <3>1, <3>2 DEF Begun
  <2>2. s \in Seq(S) /\ Range(s) = Begun(prefix, n - 1) \ selected
        /\ (IsInjective(prefix) => IsInjective(s))
    BY <1>6
  <2>3. CASE x \in selected
    BY <1>4, <2>1, <2>2, <2>3
  <2>4. CASE x \notin selected
    <3> DEFINE t == Append(s, x)
    <3>1. g[n] = t
      BY <1>4, <2>4
    <3> HIDE DEF s, x
    <3>2. /\ t \in Seq(S) /\ Len(t) = Len(s) + 1 /\ t[Len(s) + 1] = x
          /\ \A i \in 1..Len(s) : t[i] = s[i]
      BY <2>1, <2>2
    <3> HIDE DEF t
    <3>3. \A i \in 1..Len(s) + 1 : i = Len(s) + 1 \/ i \in 1..Len(s)
      BY <2>2
    <3>4. \A i \in 1..Len(s) : i \in 1..Len(t)
      BY <2>2, <3>2
    <3>5. Begun(t, Len(t)) = Begun(s, Len(s)) \cup {x}
      <4>1. Len(s) \in Nat /\ Len(s) + 1 \in 1..Len(t)
        BY <2>2, <3>2
      <4> QED  BY <3>2, <3>3, <3>4, <4>1 DEF Begun
    <3>6. Range(t) = Range(s) \cup {x}
      BY <2>2, <3>2, <3>5, PrefixRange
    <3>7. ASSUME IsInjective(prefix) PROVE IsInjective(t)
      <4>1. x \notin Range(s)
        <5> SUFFICES ASSUME x \in Begun(prefix, n - 1) PROVE FALSE
          BY <2>2
        <5>1. PICK i \in 1..n - 1 : prefix[i] = x
          BY DEF Begun
        <5>2. i \in DOMAIN prefix /\ n \in DOMAIN prefix /\ i # n
          BY <1>1
        <5> QED  BY <3>7, <5>1, <5>2 DEF IsInjective, x
      <4>2. \A i \in 1..Len(s) : s[i] # x
        BY <2>2, <4>1, PrefixRange DEF Begun
      <4>3. \A i, j \in 1..Len(s) : s[i] = s[j] => i = j
        BY <2>2, <3>7, PrefixRange DEF IsInjective
      <4>4. \A i, j \in 1..Len(s) + 1 : t[i] = t[j] => i = j
        BY <3>2, <3>3, <4>2, <4>3
      <4> QED  BY <3>2, <4>4, PrefixRange DEF IsInjective
    <3> QED  BY <2>1, <2>2, <2>4, <3>1, <3>2, <3>6, <3>7
  <2> QED  BY <2>3, <2>4
<1>7. Bad = {}
  <2> SUFFICES ASSUME Bad # {} PROVE FALSE
    OBVIOUS
  <2>1. PICK m \in Bad : \A l \in Bad : m <= l
    <3>1. Bad \subseteq Nat
      OBVIOUS
    <3> QED  BY <3>1, Least
  <2> HIDE DEF Right
  <2>2. m \in 0..Len(prefix) /\ m # 0
    BY <1>5, <2>1
  <2>3. m \in 1..Len(prefix) /\ m - 1 \in 0..Len(prefix) /\ ~ (m <= m - 1)
    BY <1>1, <2>2
  <2>4. Right(m - 1)
    BY <2>1, <2>3
  <2> QED  BY <1>6, <2>1, <2>3, <2>4
<1>8. Right(Len(prefix))
  BY <1>1, <1>7
<1>9. Range(prefix) = Begun(prefix, Len(prefix))
  BY PrefixRange
<1> QED  BY <1>2, <1>8, <1>9

LEMMA JoinedTracks ==
  ASSUME NEW S, NEW s \in Seq(S), NEW u \in Seq(S)
  PROVE  /\ s \o u \in Seq(S)
         /\ Range(s \o u) = Range(s) \cup Range(u)
         /\ IsInjective(s) /\ IsInjective(u) /\ Range(s) \cap Range(u) = {} => IsInjective(s \o u)
<1> DEFINE t == s \o u
<1>1. /\ t \in Seq(S) /\ Len(t) = Len(s) + Len(u) /\ Len(s) \in Nat /\ Len(u) \in Nat
      /\ \A i \in 1..Len(s) + Len(u) : t[i] = IF i <= Len(s) THEN s[i] ELSE u[i - Len(s)]
  BY ConcatProperties
<1> HIDE DEF t
<1>2. \A i \in 1..Len(t) : \/ i \in 1..Len(s) /\ t[i] = s[i]
                           \/ i - Len(s) \in 1..Len(u) /\ t[i] = u[i - Len(s)] /\ i \notin 1..Len(s)
  <2> TAKE i \in 1..Len(t)
  <2>1. CASE i <= Len(s)
    BY <1>1, <2>1
  <2>2. CASE ~ (i <= Len(s))
    <3>1. i - Len(s) \in 1..Len(u) /\ i \notin 1..Len(s)
      BY <1>1, <2>2
    <3> QED  BY <1>1, <2>2, <3>1
  <2> QED  BY <2>1, <2>2
<1>3. \A i \in 1..Len(s) : i \in 1..Len(t) /\ t[i] = s[i]
  BY <1>1
<1>4. \A i \in 1..Len(u) : i + Len(s) \in 1..Len(t) /\ t[i + Len(s)] = u[i]
  <2> TAKE i \in 1..Len(u)
  <2>1. i + Len(s) \in 1..Len(t) /\ ~ (i + Len(s) <= Len(s)) /\ (i + Len(s)) - Len(s) = i
    BY <1>1
  <2> QED  BY <1>1, <2>1
<1>5. Begun(t, Len(t)) = Begun(s, Len(s)) \cup Begun(u, Len(u))
  <2>1. Begun(t, Len(t)) \subseteq Begun(s, Len(s)) \cup Begun(u, Len(u))
    BY <1>2 DEF Begun
  <2>2. Begun(s, Len(s)) \subseteq Begun(t, Len(t))
    BY <1>3 DEF Begun
  <2>3. Begun(u, Len(u)) \subseteq Begun(t, Len(t))
    BY <1>4 DEF Begun
  <2> QED  BY <2>1, <2>2, <2>3
<1>6. Range(t) = Range(s) \cup Range(u)
  BY <1>1, <1>5, PrefixRange
<1>7. ASSUME IsInjective(s), IsInjective(u), Range(s) \cap Range(u) = {} PROVE IsInjective(t)
  <2>1. \A i, j \in 1..Len(s) : s[i] = s[j] => i = j
    BY <1>7, PrefixRange DEF IsInjective
  <2>2. \A i, j \in 1..Len(u) : u[i] = u[j] => i = j
    BY <1>7, PrefixRange DEF IsInjective
  <2>3. \A i \in 1..Len(s), j \in 1..Len(u) : s[i] # u[j]
    BY <1>7, PrefixRange DEF Begun
  <2>4. \A i, j \in 1..Len(t) : t[i] = t[j] => i = j
    <3> SUFFICES ASSUME NEW i \in 1..Len(t), NEW j \in 1..Len(t), t[i] = t[j] PROVE i = j
      OBVIOUS
    <3>1. CASE i \in 1..Len(s) /\ j \in 1..Len(s)
      BY <1>2, <2>1, <3>1
    <3>2. CASE i \notin 1..Len(s) /\ j \notin 1..Len(s)
      <4>1. i - Len(s) = j - Len(s)
        BY <1>2, <2>2, <3>2
      <4> QED  BY <1>1, <4>1
    <3>3. CASE (i \in 1..Len(s)) # (j \in 1..Len(s))
      BY <1>2, <2>3, <3>3
    <3> QED  BY <3>1, <3>2, <3>3
  <2> QED  BY <1>1, <2>4, PrefixRange DEF IsInjective
<1> QED  BY <1>1, <1>6, <1>7 DEF t

LEMMA OneTrack ==
  ASSUME NEW S, NEW x \in S
  PROVE  <<x>> \in Seq(S) /\ Range(<<x>>) = {x} /\ IsInjective(<<x>>)
<1>1. <<x>> \in Seq(S) /\ DOMAIN <<x>> = {1} /\ <<x>>[1] = x
  OBVIOUS
<1> QED  BY <1>1 DEF Range, IsInjective

-----------------------------------------------------------------------------
(* A queue is a permutation of its tracks: an order of positions behind a   *)
(* prefix, with no track in both and none twice, and no position that its   *)
(* Index does not have.                                                     *)
IsPermutation(q) ==
  /\ q.order \in SUBSET Paths
  /\ q.order \subseteq q.built
  /\ q.prefix \in Seq(Paths)
  /\ IsInjective(q.prefix)
  /\ q.order \cap Range(q.prefix) = {}

(* n is q with more in front: its shuffled rest is what is left of q's.     *)
InFrontOf(n, q) == Tracks(q) \subseteq Tracks(n) /\ n.order \subseteq q.order

LEMMA PinnedQueue ==
  ASSUME NEW candidates \in SUBSET Paths, NEW pin, pin \subseteq candidates, NEW g, NEW b,
         candidates \subseteq b
  PROVE  IsPermutation([gen |-> g, built |-> b, order |-> candidates \ pin,
                        prefix |-> IF pin = {} THEN <<>> ELSE <<CHOOSE p \in pin : TRUE>>])
<1> DEFINE p == IF pin = {} THEN <<>> ELSE <<CHOOSE x \in pin : TRUE>>
           q == [gen |-> g, built |-> b, order |-> candidates \ pin, prefix |-> p]
<1>1. q.order = candidates \ pin /\ q.prefix = p /\ q.built = b
  OBVIOUS
<1>2. CASE pin = {}
  <2>1. p = <<>> /\ <<>> \in Seq(Paths) /\ Range(<<>>) = {} /\ IsInjective(<<>>)
    BY <1>2 DEF Range, IsInjective
  <2> QED  BY <1>1, <2>1 DEF IsPermutation
<1>3. CASE pin # {}
  <2>1. PICK x \in pin : x = CHOOSE y \in pin : TRUE
    BY <1>3
  <2>2. p = <<x>> /\ x \in Paths
    BY <1>3, <2>1
  <2>3. p \in Seq(Paths) /\ Range(p) = {x} /\ IsInjective(p)
    BY <2>2, OneTrack
  <2>4. x \notin candidates \ pin /\ candidates \ pin \in SUBSET Paths
    BY <2>1
  <2> HIDE DEF p
  <2>5. /\ q.order \in SUBSET Paths /\ q.order \subseteq q.built /\ q.prefix \in Seq(Paths) /\ IsInjective(q.prefix)
        /\ q.order \cap Range(q.prefix) = {}
    BY <1>1, <2>3, <2>4
  <2> HIDE DEF q
  <2>6. IsPermutation(q)
    BY <2>5 DEF IsPermutation
  <2> QED  BY <2>6 DEF q, p
<1> QED  BY <1>2, <1>3

(* Another prefix and order, field by field.                                *)
LEMMA QueueFields ==
  ASSUME NEW q, IsQueue(q), NEW p, NEW o
  PROVE  /\ [q EXCEPT !.prefix = p].prefix = p /\ [q EXCEPT !.prefix = p].order = q.order
         /\ [q EXCEPT !.prefix = p].built = q.built
         /\ [q EXCEPT !.prefix = p, !.order = o].prefix = p
         /\ [q EXCEPT !.prefix = p, !.order = o].order = o
         /\ [q EXCEPT !.prefix = p, !.order = o].built = q.built
<1>1. PICK O, P : q = [gen |-> q.gen, built |-> q.built, order |-> O, prefix |-> P]
  BY DEF IsQueue
<1> DEFINE n == [q EXCEPT !.prefix = p]
<1>2. n = [gen |-> q.gen, built |-> q.built, order |-> O, prefix |-> p] /\ q.order = O
  BY <1>1
<1>3. [q EXCEPT !.prefix = p, !.order = o] = [n EXCEPT !.order = o]
  OBVIOUS
<1> HIDE DEF n
<1>4. [n EXCEPT !.order = o] = [gen |-> q.gen, built |-> q.built, order |-> o, prefix |-> p]
  BY <1>2
<1> QED  BY <1>2, <1>3, <1>4 DEF n

LEMMA SelectedQueue ==
  ASSUME NEW q, IsQueue(q), IsPermutation(q), NEW path \in Paths, path \notin Tracks(q)
  PROVE  LET n == [q EXCEPT !.prefix = <<path>> \o @]
         IN  IsPermutation(n) /\ InFrontOf(n, q)
<1> DEFINE p == <<path>> \o q.prefix
           n == [q EXCEPT !.prefix = p]
<1>1. /\ p \in Seq(Paths) /\ Range(p) = {path} \cup Range(q.prefix)
      /\ {path} \cap Range(q.prefix) = {} => IsInjective(p)
  <2> DEFINE one == <<path>>
             rest == q.prefix
  <2>1. one \in Seq(Paths) /\ Range(one) = {path} /\ IsInjective(one)
    BY OneTrack
  <2>2. rest \in Seq(Paths) /\ IsInjective(rest)
    BY DEF IsPermutation
  <2> HIDE DEF one, rest
  <2>3. /\ one \o rest \in Seq(Paths) /\ Range(one \o rest) = Range(one) \cup Range(rest)
        /\ Range(one) \cap Range(rest) = {} => IsInjective(one \o rest)
    BY <2>1, <2>2, JoinedTracks
  <2> QED  BY <2>1, <2>3 DEF one, rest
<1> HIDE DEF p
<1>2. n.prefix = p /\ n.order = q.order /\ n.built = q.built
  BY QueueFields
<1>3. [q EXCEPT !.prefix = <<path>> \o @] = n
  BY DEF p
<1> HIDE DEF n
<1> QED  BY <1>1, <1>2, <1>3 DEF IsPermutation, InFrontOf, Tracks

LEMMA InFrontQueue ==
  ASSUME NEW q, IsQueue(q), IsPermutation(q), NEW P \in SUBSET Paths, NEW entries \in Listings(P)
  PROVE  LET n == InFront(q, entries)
         IN  IsPermutation(n) /\ InFrontOf(n, q)
<1> DEFINE left == Remaining(q.prefix, Range(entries))
           p == entries \o left
           o == q.order \ Range(entries)
           n == [q EXCEPT !.prefix = p, !.order = o]
<1>1. entries \in Seq(Paths) /\ IsInjective(entries)
  <2>1. PICK T \in (SUBSET P) \ {{}} : entries \in Injection(1..Cardinality(T), T)
    BY DEF Listings
  <2>2. Cardinality(T) \in Nat
    BY <2>1, PathsAssumption, FS_Subset, FS_CardinalityType
  <2>3. entries \in [1..Cardinality(T) -> Paths] /\ IsInjective(entries)
    BY <2>1 DEF Injection
  <2> QED  BY <2>2, <2>3
<1>2. /\ left \in Seq(Paths) /\ Range(left) = Range(q.prefix) \ Range(entries)
      /\ IsInjective(left)
  BY RemainingTracks DEF IsPermutation
<1> HIDE DEF left
<1>3. p \in Seq(Paths) /\ Range(p) = Range(entries) \cup Range(left) /\ IsInjective(p)
  BY <1>1, <1>2, JoinedTracks
<1> HIDE DEF p, o
<1>4. n.prefix = p /\ n.order = o /\ n.built = q.built
  BY QueueFields
<1>5. InFront(q, entries) = n
  BY DEF InFront, n, p, o, left
<1> HIDE DEF n
<1>6. o \in SUBSET Paths /\ o \subseteq q.order /\ o \subseteq q.built /\ o \cap Range(p) = {}
  BY <1>2, <1>3 DEF o, IsPermutation
<1>7. Tracks(q) \subseteq Tracks(n)
  BY <1>2, <1>3, <1>4 DEF Tracks, o
<1> QED  BY <1>3, <1>4, <1>5, <1>6, <1>7 DEF IsPermutation, InFrontOf

-----------------------------------------------------------------------------
(* The invariant: whatever a request has in hand is such a permutation, and *)
(* is what it will replace with more in front.                              *)

InHand(c) ==
  pc[c] = "commit" =>
    /\ IsPermutation(draft[c])
    /\ op[c] \in {"select", "prepend"} /\ target[c] \in Live(store)
         => InFrontOf(draft[c], store.queues[target[c]])

PInv ==
  /\ QInv
  /\ \A t \in Live(store) : IsPermutation(store.queues[t])
  /\ \A c \in Requests : InHand(c)

(* The queues a step leaves or makes are permutations.                      *)
PermutationStep ==
  /\ StoreStep
  /\ \A t \in Live(store') : IsPermutation(store'.queues[t])

LEMMA PermutationsUnchanged == PInv /\ UNCHANGED store => PermutationStep
BY StoreUnchanged DEF PInv, PermutationStep

LEMMA PermutationsRemoved ==
  ASSUME PInv, NEW T, T \subseteq Live(store), store' = Without(store, T)
  PROVE  PermutationStep
BY Removal DEF PInv, PermutationStep

LEMMA PermutationPlaced ==
  ASSUME PInv, StoreStep, NEW c \in Requests, pc[c] = "commit", NEW t, Placed(t, draft[c])
  PROVE  PermutationStep
<1>1. IsPermutation(draft[c])
  BY DEF PInv, InHand
<1> QED  BY <1>1 DEF PInv, Placed, PermutationStep

(* One request moves; the others have in hand what they had.                *)
LEMMA PermutationsKept ==
  ASSUME PInv, QInv', PermutationStep, NEW c \in Requests,
         \A d \in Requests \ {c} :
           pc'[d] = pc[d] /\ op'[d] = op[d] /\ target'[d] = target[d] /\ draft'[d] = draft[d],
         InHand(c)'
  PROVE  PInv'
<1>1. ASSUME NEW d \in Requests \ {c}
      PROVE  InHand(d)'
  <2>1. InHand(d) /\ target[d] \in Range(target)
    BY DEF PInv, QInv, RequestTypes, Range
  <2>2. target[d] \in Live(store')
          => target[d] \in Live(store) /\ store'.queues[target[d]] = store.queues[target[d]]
    BY <2>1 DEF PermutationStep, StoreStep
  <2> QED  BY <2>1, <2>2 DEF InHand
<1> QED  BY <1>1 DEF PInv, PermutationStep

LEMMA PermutationsEnd ==
  ASSUME PInv, QInv', PermutationStep, NEW c \in Requests, Ends(c)
  PROVE  PInv'
<1>1. /\ pc'[c] = "idle"
      /\ \A d \in Requests \ {c} :
           pc'[d] = pc[d] /\ op'[d] = op[d] /\ target'[d] = target[d] /\ draft'[d] = draft[d]
  BY DEF PInv, QInv, RequestTypes, Ends
<1> QED  BY <1>1, PermutationsKept DEF InHand

LEMMA GatePermutes ==
  ASSUME PInv, QInv', NEW c \in Requests, GateStep(c)
  PROVE  PInv'
<1>1. ASSUME NEW o \in Ops, NEW t \in Tokens \cup {NoToken},
             AcquireAtOnce(c, o, t) \/ AcquireWaits(c, o, t)
      PROVE  PInv'
  <2>1. /\ pc'[c] # "commit" /\ UNCHANGED store
        /\ \A d \in Requests \ {c} :
             pc'[d] = pc[d] /\ op'[d] = op[d] /\ target'[d] = target[d] /\ draft'[d] = draft[d]
    BY <1>1 DEF AcquireAtOnce, AcquireWaits, Starts, PInv, QInv, RequestTypes
  <2> QED  BY <2>1, PermutationsUnchanged, PermutationsKept DEF InHand
<1>2. CASE AcquireSlot(c)
  <2>1. /\ pc'[c] # "commit" /\ UNCHANGED store
        /\ \A d \in Requests \ {c} :
             pc'[d] = pc[d] /\ op'[d] = op[d] /\ target'[d] = target[d] /\ draft'[d] = draft[d]
    BY <1>2 DEF AcquireSlot, PInv, QInv, RequestTypes
  <2> QED  BY <2>1, PermutationsUnchanged, PermutationsKept DEF InHand
<1>3. CASE AcquireFails(c)
  BY <1>3, PermutationsUnchanged, PermutationsEnd DEF AcquireFails
<1> QED  BY <1>1, <1>2, <1>3 DEF GateStep

LEMMA CreatePermutes ==
  ASSUME PInv, QInv', NEW c \in Requests, CreateStep(c)
  PROVE  PInv'
<1>1. ASSUME NEW candidates, NEW pin, CreateBuilds(c, candidates, pin)
      PROVE  PInv'
  <2> DEFINE q == [gen |-> view[c].generation, built |-> Canonical(view[c]),
                   order |-> candidates \ pin,
                   prefix |-> IF pin = {} THEN <<>> ELSE <<CHOOSE p \in pin : TRUE>>]
  <2>1. /\ pc[c] = "build" /\ op[c] = "create" /\ UNCHANGED <<store, op, target>>
        /\ candidates \subseteq Canonical(view[c]) /\ pin \subseteq candidates
        /\ draft' = [draft EXCEPT ![c] = q] /\ pc' = [pc EXCEPT ![c] = "commit"]
    BY <1>1 DEF CreateBuilds
  <2>2. candidates \in SUBSET Paths
    <3>1. IsQueue(draft'[c])
      BY <2>1 DEF QInv, RequestTypes, InWork, PInv
    <3>2. draft'[c] = q /\ q.built = Canonical(view[c])
      BY <2>1 DEF PInv, QInv, RequestTypes
    <3> HIDE DEF q
    <3>3. Canonical(view[c]) \in SUBSET Paths
      BY <3>1, <3>2 DEF IsQueue
    <3> QED  BY <2>1, <3>3
  <2>3. IsPermutation(q)
    <3>1. \E g, b : g = view[c].generation /\ b = Canonical(view[c])
      OBVIOUS
    <3> QED  BY <2>1, <2>2, <3>1, PinnedQueue
  <2> HIDE DEF q
  <2>4. /\ draft'[c] = q /\ op'[c] = "create"
        /\ \A d \in Requests \ {c} :
             pc'[d] = pc[d] /\ op'[d] = op[d] /\ target'[d] = target[d] /\ draft'[d] = draft[d]
    BY <2>1 DEF PInv, QInv, RequestTypes
  <2>5. InHand(c)'
    BY <2>3, <2>4 DEF InHand
  <2> QED  BY <2>1, <2>4, <2>5, PermutationsUnchanged, PermutationsKept
<1>2. ASSUME NEW t \in Tokens, NEW expired \in SUBSET Live(store), CreateCommits(c, t, expired)
      PROVE  PInv'
  <2>1. StoreStep /\ Placed(t, draft[c]) /\ pc[c] = "commit"
    BY <1>2, CreationShares DEF PInv, CreateCommits
  <2>2. PermutationStep
    BY <2>1, PermutationPlaced
  <2> QED  BY <1>2, <2>2, PermutationsEnd DEF CreateCommits, Releases
<1>3. ASSUME NEW expired \in SUBSET Live(store), CreateNotFound(c, expired)
      PROVE  PInv'
  BY <1>3, PermutationsRemoved, PermutationsEnd DEF CreateNotFound, Releases
<1>4. CASE BuildFails(c)
  BY <1>4, PermutationsUnchanged, PermutationsEnd DEF BuildFails, Releases
<1> QED  BY <1>1, <1>2, <1>3, <1>4 DEF CreateStep

LEMMA ReplacePermutes ==
  ASSUME PInv, QInv', NEW c \in Requests, ReplaceStep(c)
  PROVE  PInv'
<1>1. ASSUME NEW t \in Tokens, NEW path \in Paths, SelectReads(c, t, path)
      PROVE  PInv'
  <2> DEFINE old == store.queues[t]
             q == [old EXCEPT !.prefix = <<path>> \o @]
  <2>1. /\ t \in Live(store) /\ path \notin Tracks(old) /\ UNCHANGED store
        /\ draft' = [draft EXCEPT ![c] = q] /\ target' = [target EXCEPT ![c] = t]
        /\ \A d \in Requests \ {c} :
             pc'[d] = pc[d] /\ op'[d] = op[d] /\ target'[d] = target[d]
    BY <1>1 DEF SelectReads, Starts, PInv, QInv, RequestTypes
  <2>2. IsQueue(old) /\ IsPermutation(old)
    BY <2>1 DEF PInv, QInv, Sharing
  <2> HIDE DEF old
  <2>3. IsPermutation(q) /\ InFrontOf(q, old)
    BY <2>1, <2>2, SelectedQueue
  <2> HIDE DEF q
  <2>4. /\ draft'[c] = q /\ target'[c] = t
        /\ \A d \in Requests \ {c} : draft'[d] = draft[d]
    BY <2>1 DEF PInv, QInv, RequestTypes
  <2>5. InHand(c)'
    BY <2>1, <2>3, <2>4 DEF InHand, old
  <2> QED  BY <2>1, <2>4, <2>5, PermutationsUnchanged, PermutationsKept
<1>2. ASSUME NEW entries, PrependReads(c, entries)
      PROVE  PInv'
  <2> DEFINE old == store.queues[target[c]]
             q == InFront(old, entries)
  <2>1. /\ target[c] \in Live(store) /\ UNCHANGED <<store, target, op>>
        /\ entries \in Listings(view[c].index) /\ view[c].index \in SUBSET Paths
        /\ draft' = [draft EXCEPT ![c] = q] /\ pc' = [pc EXCEPT ![c] = "commit"]
    <3>1. view[c].index \in Indexes /\ view[c].index # NoIndex
      BY <1>2 DEF PrependReads, PInv, QInv, RequestTypes, InWork
    <3> QED  BY <1>2, <3>1 DEF PrependReads, Indexes
  <2>2. IsQueue(old) /\ IsPermutation(old)
    BY <2>1 DEF PInv, QInv, Sharing
  <2> HIDE DEF old
  <2>3. IsPermutation(q) /\ InFrontOf(q, old)
    <3>1. PICK index \in SUBSET Paths : entries \in Listings(index)
      BY <2>1
    <3> QED  BY <2>2, <3>1, InFrontQueue
  <2> HIDE DEF q
  <2>4. /\ draft'[c] = q
        /\ \A d \in Requests \ {c} :
             pc'[d] = pc[d] /\ op'[d] = op[d] /\ target'[d] = target[d] /\ draft'[d] = draft[d]
    BY <2>1 DEF PInv, QInv, RequestTypes
  <2>5. InHand(c)'
    BY <2>1, <2>3, <2>4 DEF InHand, old
  <2> QED  BY <2>1, <2>4, <2>5, PermutationsUnchanged, PermutationsKept
<1>3. ASSUME NEW t \in Tokens, PrependCommits(c, t) \/ SelectCommits(c, t)
      PROVE  PInv'
  <2>1. Replaces(c, t) /\ pc[c] = "commit" /\ Ends(c)
    BY <1>3 DEF PrependCommits, SelectCommits, Releases, Replaces
  <2>2. StoreStep /\ Placed(t, draft[c])
    BY <2>1, ReplacementShares DEF PInv
  <2>3. PermutationStep
    BY <2>1, <2>2, PermutationPlaced
  <2> QED  BY <2>1, <2>3, PermutationsEnd
<1>4. CASE SelectFails(c)
  BY <1>4, PermutationsUnchanged, PermutationsEnd DEF SelectFails
<1> QED  BY <1>1, <1>2, <1>3, <1>4 DEF ReplaceStep

THEOREM PermutationInvariant == Spec => []PInv
<1>1. Init => PInv
  <2> SUFFICES ASSUME Init PROVE PInv
    OBVIOUS
  <2>1. Live(store) = {}  BY DEF Init, Live
  <2> QED  BY <2>1, QInitially DEF Init, PInv, InHand
<1>2. PInv /\ QInv' /\ [Next]_vars => PInv'
  <2> SUFFICES ASSUME PInv, QInv', [Next]_vars PROVE PInv'
    OBVIOUS
  <2>1. ASSUME PermutationStep, UNCHANGED <<pc, op, target, draft>>  PROVE PInv'
    <3>1. ASSUME NEW d \in Requests  PROVE InHand(d)'
      <4>1. InHand(d) /\ target[d] \in Range(target)
        BY DEF PInv, QInv, RequestTypes, Range
      <4>2. target[d] \in Live(store')
              => target[d] \in Live(store) /\ store'.queues[target[d]] = store.queues[target[d]]
        BY <2>1, <4>1 DEF PermutationStep, StoreStep
      <4> QED  BY <2>1, <4>1, <4>2 DEF InHand
    <3> QED  BY <2>1, <3>1 DEF PInv, PermutationStep
  <2>2. ASSUME NEW t \in Tokens, Drop(t)  PROVE PInv'
    BY <2>1, <2>2, PermutationsRemoved DEF Drop
  <2>3. CASE Rescans
    BY <2>1, <2>3, PermutationsUnchanged DEF Rescans, queueVars
  <2>4. CASE UNCHANGED vars
    BY <2>1, <2>4, PermutationsUnchanged DEF vars, queueVars
  <2> QED  BY <2>2, <2>3, <2>4, GatePermutes, CreatePermutes, ReplacePermutes DEF Next
<1> QED  BY <1>1, <1>2, SharingStaysExact, PTL DEF Spec

(* No track is twice in a queue and every position means the file it meant, *)
(* for any library, any number of requests and any limits: pinning a track, *)
(* selecting one that was missing and playing a directory from a queue all  *)
(* leave a permutation.                                                     *)
THEOREM QueuesStayValid == Spec => []QueuesValid
<1>1. PInv => NoTrackTwice
  BY DEF PInv, NoTrackTwice, IsPermutation
<1> QED  BY <1>1, PermutationInvariant, PositionsStayValid, PTL DEF QueuesValid

(* Only the step of a request moves its program counter.                    *)
LEMMA OthersStay ==
  ASSUME RequestTypes, NEW c \in Requests, GateStep(c) \/ CreateStep(c) \/ ReplaceStep(c)
  PROVE  \A d \in Requests \ {c} : pc'[d] = pc[d]
<1>1. ASSUME NEW p, pc' = [pc EXCEPT ![c] = p]
      PROVE  \A d \in Requests \ {c} : pc'[d] = pc[d]
  BY <1>1 DEF RequestTypes
<1>2. CASE GateStep(c)
  BY <1>1, <1>2 DEF GateStep, AcquireAtOnce, AcquireWaits, AcquireSlot, AcquireFails, Ends
<1>3. CASE CreateStep(c)
  BY <1>1, <1>3 DEF CreateStep, CreateBuilds, CreateCommits, CreateNotFound, BuildFails, Releases, Ends
<1>4. CASE ReplaceStep(c)
  BY <1>1, <1>4 DEF ReplaceStep, SelectReads, PrependReads, PrependCommits, SelectCommits,
                    SelectFails, Releases, Ends
<1> QED  BY <1>2, <1>3, <1>4

(* A request that replaces a queue takes that queue away, and the new one   *)
(* has all its tracks, however long ago the request read it: a queue does   *)
(* not change under its token.                                              *)
THEOREM TracksAreKept == Spec => ReplacementKeepsTracks
<1> DEFINE Kept(c) ==
      /\ pc[c] = "commit" /\ op[c] \in {"select", "prepend"} /\ pc'[c] # "commit"
      /\ Live(store') \ Live(store) # {}
      => /\ target[c] \in Live(store) \ Live(store')
         /\ \A t \in Live(store') \ Live(store) :
              Tracks(store.queues[target[c]]) \subseteq Tracks(store'.queues[t])
<1>1. ASSUME PInv, [Next]_vars, NEW c \in Requests
      PROVE  Kept(c)
  <2> SUFFICES ASSUME pc[c] = "commit", op[c] \in {"select", "prepend"}, pc'[c] # "commit",
                      Live(store') \ Live(store) # {}
               PROVE  /\ target[c] \in Live(store) \ Live(store')
                      /\ \A t \in Live(store') \ Live(store) :
                           Tracks(store.queues[target[c]]) \subseteq Tracks(store'.queues[t])
    OBVIOUS
  <2>1. GateStep(c) \/ CreateStep(c) \/ ReplaceStep(c)
    <3>1. pc' # pc
      OBVIOUS
    <3>2. \E d \in Requests : GateStep(d) \/ CreateStep(d) \/ ReplaceStep(d)
      BY <1>1, <3>1 DEF Next, Drop, Rescans, queueVars, vars
    <3> QED  BY <1>1, <3>2, OthersStay DEF PInv, QInv
  <2>2. store' # store
    OBVIOUS
  <2>3. PICK t \in Tokens : Replaces(c, t)
    <3>1. ~ GateStep(c)
      BY <2>2 DEF GateStep, AcquireAtOnce, AcquireWaits, AcquireSlot, AcquireFails
    <3>2. ~ CreateStep(c)
      BY <2>2 DEF CreateStep, CreateBuilds, CreateCommits, CreateNotFound, BuildFails
    <3> QED  BY <2>1, <2>2, <3>1, <3>2
              DEF ReplaceStep, SelectReads, PrependReads, PrependCommits, SelectCommits, SelectFails
  <2>4. Placed(t, draft[c]) /\ target[c] \notin Live(store') /\ target[c] \in Live(store)
    BY <1>1, <2>3, ReplacementShares DEF PInv, Replaces, StillThere
  <2>5. Tracks(store.queues[target[c]]) \subseteq Tracks(draft[c])
    BY <1>1, <2>4 DEF PInv, InHand, InFrontOf
  <2>6. ASSUME NEW u \in Live(store') \ Live(store)
        PROVE  store'.queues[u] = draft[c]
    BY <2>4 DEF Placed
  <2> QED  BY <2>4, <2>5, <2>6
<1>2. PInv /\ [Next]_vars => [\A c \in Requests : Kept(c)]_vars
  BY <1>1
<1> QED  BY <1>2, PermutationInvariant, PTL DEF Spec, ReplacementKeepsTracks

-----------------------------------------------------------------------------
(* What sizes add up to: the library adds the size of one chosen element    *)
(* at a time, so that every law has to be shown to hold whatever is chosen, *)
(* by a least counterexample.                                               *)

(* g adds the weights up as SumFunctionOnSet does. *)
Chosen(s) == CHOOSE y \in s : TRUE

Adds(w, E, g) ==
  g = [s \in SUBSET E |-> IF s = {} THEN 0 ELSE w[Chosen(s)] + g[s \ {Chosen(s)}]]

LEMMA ChosenIn == ASSUME NEW s, s # {} PROVE Chosen(s) \in s
BY DEF Chosen

LEMMA OneLess ==
  ASSUME NEW T, IsFiniteSet(T), NEW x \in T
  PROVE  /\ IsFiniteSet(T \ {x}) /\ Cardinality(T) \in Nat /\ Cardinality(T) > 0
         /\ Cardinality(T \ {x}) = Cardinality(T) - 1 /\ Cardinality(T \ {x}) \in Nat
<1>1. Cardinality(T) \in Nat /\ IsFiniteSet(T \ {x}) /\ Cardinality(T \ {x}) = Cardinality(T) - 1
  BY FS_RemoveElement, FS_CardinalityType
<1>2. Cardinality(T \ {x}) \in Nat
  BY <1>1, FS_CardinalityType
<1> QED  BY <1>1, <1>2

LEMMA SumExists ==
  ASSUME NEW E, IsFiniteSet(E), NEW w
  PROVE  \E g : Adds(w, E, g)
<1> DEFINE Small(n) == {s \in SUBSET E : Cardinality(s) <= n}
           Has(n) == \E g : g = [s \in Small(n) |->
                        IF s = {} THEN 0 ELSE w[Chosen(s)] + g[s \ {Chosen(s)}]]
           Bad == {n \in Nat : ~Has(n)}
<1>1. \A s \in SUBSET E : IsFiniteSet(s) /\ Cardinality(s) \in Nat /\ Cardinality(s) <= Cardinality(E)
  BY FS_Subset, FS_CardinalityType
<1>2. Bad = {}
  <2> SUFFICES ASSUME Bad # {} PROVE FALSE
    OBVIOUS
  <2>1. PICK n \in Bad : \A m \in Bad : n <= m
    BY Least
  <2>2. CASE n = 0
    <3> DEFINE g == [s \in Small(0) |-> 0]
    <3>1. \A s \in Small(0) : s = {}
      <4> TAKE s \in Small(0)
      <4> SUFFICES ASSUME s # {} PROVE FALSE
        OBVIOUS
      <4>1. IsFiniteSet(s) /\ Chosen(s) \in s /\ Cardinality(s) <= 0
        BY <1>1, ChosenIn
      <4>2. Cardinality(s) \in Nat /\ Cardinality(s) > 0
        BY <4>1, OneLess
      <4> QED  BY <4>1, <4>2
    <3>2. g = [s \in Small(0) |-> IF s = {} THEN 0 ELSE w[Chosen(s)] + g[s \ {Chosen(s)}]]
      BY <3>1
    <3> QED  BY <2>1, <2>2, <3>2
  <2>3. CASE n # 0
    <3>1. n - 1 \in Nat /\ Has(n - 1)
      <4> HIDE DEF Has
      <4>1. n \in Nat /\ n - 1 \in Nat /\ ~ (n <= n - 1)
        BY <2>1, <2>3
      <4> QED  BY <2>1, <4>1
    <3>2. PICK g : g = [s \in Small(n - 1) |->
                         IF s = {} THEN 0 ELSE w[Chosen(s)] + g[s \ {Chosen(s)}]]
      BY <3>1
    <3> DEFINE h == [s \in Small(n) |-> IF s = {} THEN 0 ELSE w[Chosen(s)] + g[s \ {Chosen(s)}]]
    <3>3. ASSUME NEW s \in Small(n), s # {}
          PROVE  h[s \ {Chosen(s)}] = g[s \ {Chosen(s)}]
      <4> DEFINE t == s \ {Chosen(s)}
      <4>1. t \in Small(n - 1) /\ t \in Small(n)
        <5>1. Cardinality(s) <= n /\ n \in Nat
          BY <2>1
        <5> QED  BY <1>1, <3>3, <5>1, ChosenIn, OneLess
      <4> HIDE DEF t, Small
      <4> QED  BY <3>2, <4>1 DEF t
    <3>4. h = [s \in Small(n) |-> IF s = {} THEN 0 ELSE w[Chosen(s)] + h[s \ {Chosen(s)}]]
      BY <3>3
    <3>5. Has(n)
      <4> HIDE DEF h
      <4> QED  BY <3>4
    <3> QED  BY <2>1, <3>5
  <2> QED  BY <2>2, <2>3
<1>3. Cardinality(E) \in Nat /\ Small(Cardinality(E)) = SUBSET E
  BY <1>1, FS_CardinalityType
<1>4. Has(Cardinality(E))
  BY <1>2, <1>3
<1> QED  BY <1>3, <1>4 DEF Adds

LEMMA SumLaw ==
  ASSUME NEW E, IsFiniteSet(E), NEW w \in [E -> Nat], NEW g, Adds(w, E, g)
  PROVE  /\ g[{}] = 0
         /\ \A T \in SUBSET E : g[T] \in Nat
         /\ \A T \in SUBSET E : \A x \in T : g[T] = w[x] + g[T \ {x}]
<1>1. \A s \in SUBSET E : g[s] = IF s = {} THEN 0 ELSE w[Chosen(s)] + g[s \ {Chosen(s)}]
  BY DEF Adds
<1>2. \A s \in SUBSET E : IsFiniteSet(s) /\ Cardinality(s) \in Nat
  BY FS_Subset, FS_CardinalityType
<1> DEFINE Right(T) == g[T] \in Nat /\ \A x \in T : g[T] = w[x] + g[T \ {x}]
           Bad == {n \in Nat : \E T \in SUBSET E : Cardinality(T) = n /\ ~Right(T)}
<1>3. g[{}] = 0
  BY <1>1
<1>4. Bad = {}
  <2> SUFFICES ASSUME Bad # {} PROVE FALSE
    OBVIOUS
  <2>1. PICK n \in Bad : \A m \in Bad : n <= m
    BY Least
  <2>2. PICK T \in SUBSET E : Cardinality(T) = n /\ ~Right(T)
    BY <2>1
  <2>3. \A x \in T : Right(T \ {x})
    <3> TAKE x \in T
    <3>1. T \ {x} \in SUBSET E /\ Cardinality(T \ {x}) = n - 1 /\ n - 1 \in Nat
      BY <1>2, <2>2, OneLess
    <3>2. n - 1 \notin Bad
      BY <2>1, <3>1
    <3> QED  BY <3>1, <3>2
  <2>4. T # {}
    <3>1. g[{}] \in Nat /\ \A x \in {} : FALSE
      BY <1>3
    <3> QED  BY <2>2, <3>1
  <2> DEFINE c == Chosen(T)
  <2>5. c \in T /\ g[T] = w[c] + g[T \ {c}]
    BY <1>1, <2>4, ChosenIn
  <2> HIDE DEF c, Right
  <2>6. g[T] \in Nat
    <3>1. w[c] \in Nat /\ g[T \ {c}] \in Nat
      BY <2>2, <2>3, <2>5 DEF Right
    <3> QED  BY <2>5, <3>1
  <2>7. ASSUME NEW x \in T PROVE g[T] = w[x] + g[T \ {x}]
    <3>1. CASE x = c
      BY <2>5, <3>1
    <3>2. CASE x # c
      <4>1. g[T \ {c}] = w[x] + g[(T \ {c}) \ {x}]
        BY <2>3, <2>5, <3>2 DEF Right
      <4>2. g[T \ {x}] = w[c] + g[(T \ {x}) \ {c}]
        BY <2>3, <2>5, <3>2 DEF Right
      <4>3. (T \ {c}) \ {x} = (T \ {x}) \ {c}
        OBVIOUS
      <4>4. w[x] \in Nat /\ w[c] \in Nat /\ g[T \ {c}] \in Nat /\ g[T \ {x}] \in Nat
        BY <2>2, <2>3, <2>5, <2>7 DEF Right
      <4>5. (T \ {x}) \ {c} \in SUBSET E
        BY <2>2
      <4>6. g[(T \ {x}) \ {c}] \in Nat
        <5>1. (T \ {x}) \ {c} = (T \ {c}) \ {x} /\ x \in T \ {c}
          BY <3>2
        <5>2. (T \ {x}) \ {c} \in SUBSET E /\ Cardinality((T \ {c}) \ {x}) = n - 2 /\ n - 2 \in Nat
          <6>1. IsFiniteSet(T) /\ IsFiniteSet(T \ {c})
            BY <1>2, <2>2
          <6>2. Cardinality(T \ {c}) = n - 1 /\ n \in Nat
            BY <2>1, <2>2, <2>5, <6>1, OneLess
          <6>3. /\ Cardinality((T \ {c}) \ {x}) = Cardinality(T \ {c}) - 1
                /\ Cardinality((T \ {c}) \ {x}) \in Nat
            BY <5>1, <6>1, OneLess
          <6> QED  BY <2>2, <5>1, <6>2, <6>3
        <5>3. n - 2 \notin Bad
          BY <2>1, <5>2
        <5> QED  BY <5>1, <5>2, <5>3 DEF Right
      <4> QED  BY <2>5, <4>1, <4>2, <4>3, <4>4, <4>6
    <3> QED  BY <3>1, <3>2
  <2>8. Right(T)
    BY <2>6, <2>7 DEF Right
  <2> QED  BY <2>2, <2>8
<1>5. \A T \in SUBSET E : Right(T)
  BY <1>2, <1>4
<1> QED  BY <1>3, <1>5

LEMMA SumAgrees ==
  ASSUME NEW E, IsFiniteSet(E), NEW Part \in SUBSET E, NEW w,
         NEW g, Adds(w, E, g), NEW h, Adds(w, Part, h)
  PROVE  \A T \in SUBSET Part : h[T] = g[T]
<1>1. \A s \in SUBSET E : g[s] = IF s = {} THEN 0 ELSE w[Chosen(s)] + g[s \ {Chosen(s)}]
  BY DEF Adds
<1>2. \A s \in SUBSET Part : h[s] = IF s = {} THEN 0 ELSE w[Chosen(s)] + h[s \ {Chosen(s)}]
  BY DEF Adds
<1>3. \A s \in SUBSET Part : IsFiniteSet(s) /\ Cardinality(s) \in Nat /\ s \in SUBSET E
  BY FS_Subset, FS_CardinalityType
<1> DEFINE Bad == {n \in Nat : \E T \in SUBSET Part : Cardinality(T) = n /\ h[T] # g[T]}
<1>4. Bad = {}
  <2> SUFFICES ASSUME Bad # {} PROVE FALSE
    OBVIOUS
  <2>1. PICK n \in Bad : \A m \in Bad : n <= m
    BY Least
  <2>2. PICK T \in SUBSET Part : Cardinality(T) = n /\ h[T] # g[T]
    BY <2>1
  <2>3. T # {}
    BY <1>1, <1>2, <2>2
  <2> DEFINE c == Chosen(T)
  <2>4. c \in T /\ T \ {c} \in SUBSET Part /\ Cardinality(T \ {c}) = n - 1 /\ n - 1 \in Nat
    BY <1>3, <2>2, <2>3, ChosenIn, OneLess
  <2>5. n - 1 \notin Bad
    BY <2>1, <2>4
  <2>6. h[T \ {c}] = g[T \ {c}]
    BY <2>2, <2>4, <2>5
  <2>7. g[T] = w[c] + g[T \ {c}] /\ h[T] = w[c] + h[T \ {c}]
    BY <1>1, <1>2, <1>3, <2>2, <2>3
  <2> QED  BY <2>2, <2>6, <2>7
<1> QED  BY <1>3, <1>4

LEMMA SumIs ==
  ASSUME NEW E, IsFiniteSet(E), NEW w, NEW f, \A e \in E : f[e] = w[e]
  PROVE  \E g : Adds(w, E, g) /\ SumFunctionOnSet(f, E) = g[E]
<1> DEFINE iter[s \in SUBSET E] ==
             IF s = {} THEN 0
             ELSE LET x == CHOOSE y \in s : TRUE IN f[x] + iter[s \ {x}]
           Round(g) == [s \in SUBSET E |->
             IF s = {} THEN 0
             ELSE LET x == CHOOSE y \in s : TRUE IN f[x] + g[s \ {x}]]
<1>1. SumFunctionOnSet(f, E) = iter[E]
  BY DEF SumFunctionOnSet, FoldFunctionOnSet, MapThenFoldSet
<1>2. iter = CHOOSE g : g = Round(g)
  OBVIOUS
<1>3. ASSUME NEW g PROVE Adds(w, E, g) <=> g = Round(g)
  <2>1. \A s \in SUBSET E : s # {} => w[Chosen(s)] = f[Chosen(s)]
    BY ChosenIn
  <2> QED  BY <2>1 DEF Adds, Chosen
<1>4. \E g : g = Round(g)
  <2>1. PICK g : Adds(w, E, g)
    BY SumExists
  <2> HIDE DEF Round
  <2> QED  BY <1>3, <2>1
<1> HIDE DEF iter, Round
<1> QED  BY <1>1, <1>2, <1>3, <1>4

LEMMA SumWithin ==
  ASSUME NEW E, IsFiniteSet(E), NEW w, NEW g, Adds(w, E, g), NEW T \in SUBSET E,
         NEW f, \A e \in T : f[e] = w[e]
  PROVE  SumFunctionOnSet(f, T) = g[T]
<1>1. IsFiniteSet(T)
  BY FS_Subset
<1>2. PICK h : Adds(w, T, h) /\ SumFunctionOnSet(f, T) = h[T]
  BY <1>1, SumIs
<1>3. \A V \in SUBSET T : h[V] = g[V]
  <2>1. T \in SUBSET E /\ Adds(w, T, h) /\ Adds(w, E, g) /\ IsFiniteSet(E)
    BY <1>2
  <2> QED  BY ONLY <2>1, SumAgrees
<1> QED  BY <1>2, <1>3

(* The sum depends on the sizes of the elements only. *)
LEMMA SumSame ==
  ASSUME NEW E, IsFiniteSet(E), NEW f, NEW h, \A e \in E : f[e] = h[e]
  PROVE  SumFunctionOnSet(f, E) = SumFunctionOnSet(h, E)
<1>1. PICK g : Adds(h, E, g) /\ SumFunctionOnSet(h, E) = g[E]
  BY SumIs
<1>2. E \in SUBSET E /\ Adds(h, E, g)
  BY <1>1
<1> QED  BY <1>1, <1>2, SumWithin

LEMMA SumOneLess ==
  ASSUME NEW E, IsFiniteSet(E), NEW f, \A e \in E : f[e] \in Nat
  PROVE  /\ SumFunctionOnSet(f, {}) = 0
         /\ SumFunctionOnSet(f, E) \in Nat
         /\ \A x \in E : SumFunctionOnSet(f, E) = f[x] + SumFunctionOnSet(f, E \ {x})
<1> DEFINE w == [e \in E |-> f[e]]
<1>1. w \in [E -> Nat] /\ \A e \in E : f[e] = w[e]
  OBVIOUS
<1> HIDE DEF w
<1>2. PICK g : Adds(w, E, g)
  BY SumExists
<1>3. \A T \in SUBSET E : SumFunctionOnSet(f, T) = g[T]
  BY <1>1, <1>2, SumWithin
<1>4. /\ g[{}] = 0 /\ g[E] \in Nat
      /\ \A x \in E : g[E] = w[x] + g[E \ {x}]
  <2>1. IsFiniteSet(E) /\ w \in [E -> Nat] /\ Adds(w, E, g) /\ E \in SUBSET E
    BY <1>1, <1>2
  <2>2. /\ g[{}] = 0
        /\ \A T \in SUBSET E : g[T] \in Nat
        /\ \A T \in SUBSET E : \A x \in T : g[T] = w[x] + g[T \ {x}]
    BY ONLY <2>1, SumLaw
  <2> QED  BY <2>1, <2>2
<1>5. {} \in SUBSET E /\ E \in SUBSET E /\ \A x \in E : E \ {x} \in SUBSET E
  OBVIOUS
<1> QED  BY <1>1, <1>3, <1>4, <1>5

LEMMA SumOfBoth ==
  ASSUME NEW E, IsFiniteSet(E), NEW T \in SUBSET E, NEW f, \A e \in E : f[e] \in Nat
  PROVE  SumFunctionOnSet(f, E) = SumFunctionOnSet(f, T) + SumFunctionOnSet(f, E \ T)
<1> DEFINE S(U) == SumFunctionOnSet(f, U)
           Bad == {n \in Nat : \E U \in SUBSET E : /\ Cardinality(U) = n
                                                   /\ S(E) # S(U) + S(E \ U)}
<1>1. \A U \in SUBSET E : IsFiniteSet(U) /\ Cardinality(U) \in Nat /\ S(U) \in Nat
  <2> TAKE U \in SUBSET E
  <2>1. IsFiniteSet(U) /\ \A e \in U : f[e] \in Nat
    BY FS_Subset
  <2> QED  BY <2>1, SumOneLess, FS_CardinalityType
<1>2. \A U \in SUBSET E : \A x \in U : S(U) = f[x] + S(U \ {x})
  <2> TAKE U \in SUBSET E
  <2>1. IsFiniteSet(U) /\ \A e \in U : f[e] \in Nat
    BY FS_Subset
  <2> QED  BY <2>1, SumOneLess
<1>3. S({}) = 0
  BY SumOneLess
<1> HIDE DEF S
<1>4. Bad = {}
  <2> SUFFICES ASSUME Bad # {} PROVE FALSE
    OBVIOUS
  <2>1. PICK n \in Bad : \A m \in Bad : n <= m
    BY Least
  <2>2. PICK U \in SUBSET E : Cardinality(U) = n /\ S(E) # S(U) + S(E \ U)
    BY <2>1
  <2>3. U # {}
    <3>1. E \ {} = E /\ S(E) \in Nat
      BY <1>1
    <3> QED  BY <1>3, <2>2, <3>1
  <2>4. PICK x : x \in U
    BY <2>3
  <2> DEFINE V == U \ {x}
  <2>5. V \in SUBSET E /\ Cardinality(V) = n - 1 /\ n - 1 \in Nat /\ n \in Nat
    BY <1>1, <2>2, <2>4, OneLess
  <2>6. S(E) = S(V) + S(E \ V)
    <3>1. n - 1 \notin Bad
      <4> HIDE DEF Bad, V
      <4> QED  BY <2>1, <2>5
    <3> QED  BY <2>5, <3>1
  <2>7. E \ V \in SUBSET E /\ x \in E \ V /\ (E \ V) \ {x} = E \ U /\ E \ U \in SUBSET E
    BY <2>4
  <2>8. S(E \ V) = f[x] + S(E \ U)
    BY <1>2, <2>7
  <2>9. S(U) = f[x] + S(V)
    BY <1>2, <2>4
  <2>10. f[x] \in Nat /\ S(V) \in Nat /\ S(E \ U) \in Nat
    BY <1>1, <2>4, <2>5, <2>7
  <2> QED  BY <2>2, <2>6, <2>8, <2>9, <2>10
<1>5. S(E) = S(T) + S(E \ T)
  BY <1>1, <1>4
<1> QED  BY <1>5 DEF S

-----------------------------------------------------------------------------
(* The bytes: the queues, and every Index that is retained, once.           *)

Kept(s) == {g \in Generations : s.index[g] # NoIndex}

Charged(s) == s.bytes = SizeOfQueues(s, Live(s)) + SizeOfSnapshots(s, Kept(s))

Sized(s) ==
  /\ \A t \in Tokens : SizeOf(s.queues[t]) \in Nat
  /\ \A g \in Generations : SizeOfIndex(s.index[g]) \in Nat

Permuting(s) == \A t \in Live(s) : IsPermutation(s.queues[t])

LEMMA SizeIsNat ==
  ASSUME NEW q, IsPermutation(q)
  PROVE  SizeOf(q) \in Nat
<1>1. PICK n \in Nat : n = Cardinality(q.order)
  BY PathsAssumption, FS_Subset, FS_CardinalityType DEF IsPermutation
<1>2. PICK m \in Nat : m = Len(q.prefix)
  BY DEF IsPermutation
<1>3. PositionBytes * n \in Nat /\ EntryBytes * m \in Nat
  BY PlayQueueAssumption
<1> QED  BY <1>1, <1>2, <1>3, PlayQueueAssumption DEF SizeOf

LEMMA IndexSizeIsNat ==
  ASSUME NEW index \in Indexes
  PROVE  SizeOfIndex(index) \in Nat
<1>1. IsFiniteSet(index)
  BY PathsAssumption, FS_Subset, FS_Singleton DEF Indexes, NoIndex
<1>2. PICK n \in Nat : n = Cardinality(index)
  BY <1>1, FS_CardinalityType
<1>3. EntryBytes * n \in Nat
  BY PlayQueueAssumption
<1> QED  BY <1>2, <1>3 DEF SizeOfIndex

LEMMA PermutingIsSized ==
  ASSUME NEW s, Sharing(s), Permuting(s)
  PROVE  Sized(s)
<1>1. IsPermutation(NoQueue)
  <2>1. <<>> \in Seq(Paths) /\ IsInjective(<<>>)
    BY DEF IsInjective
  <2> QED  BY <2>1 DEF IsPermutation, NoQueue
<1>2. \A t \in Tokens : IsPermutation(s.queues[t])
  BY <1>1 DEF Permuting, Live
<1>3. s.index \in [Generations -> Indexes]
  BY DEF Sharing, IsStore
<1>4. \A g \in Generations : SizeOfIndex(s.index[g]) \in Nat
  <2> TAKE g \in Generations
  <2>1. PICK index \in Indexes : index = s.index[g]
    BY <1>3
  <2> QED  BY <2>1, IndexSizeIsNat
<1>5. \A t \in Tokens : SizeOf(s.queues[t]) \in Nat
  <2> TAKE t \in Tokens
  <2>1. PICK q : q = s.queues[t]
    OBVIOUS
  <2> QED  BY <1>2, <2>1, SizeIsNat
<1> QED  BY <1>4, <1>5 DEF Sized

LEMMA QueueSums ==
  ASSUME NEW s, Sized(s), NEW T \in SUBSET Tokens
  PROVE  /\ SizeOfQueues(s, {}) = 0
         /\ SizeOfQueues(s, T) \in Nat
         /\ \A t \in T : SizeOfQueues(s, T) = SizeOf(s.queues[t]) + SizeOfQueues(s, T \ {t})
         /\ \A V \in SUBSET T : SizeOfQueues(s, T) = SizeOfQueues(s, V) + SizeOfQueues(s, T \ V)
<1> DEFINE f == [t \in Tokens |-> SizeOf(s.queues[t])]
<1>1. ASSUME NEW V \in SUBSET Tokens
      PROVE  SizeOfQueues(s, V) = SumFunctionOnSet(f, V)
  <2> DEFINE h == [t \in V |-> SizeOf(s.queues[t])]
  <2>1. \A t \in V : h[t] = f[t]
    OBVIOUS
  <2>2. IsFiniteSet(V)
    BY PlayQueueAssumption, FS_Subset
  <2>3. SizeOfQueues(s, V) = SumFunctionOnSet(h, V)
    BY DEF SizeOfQueues
  <2> HIDE DEF f, h
  <2> QED  BY <2>1, <2>2, <2>3, SumSame
<1>2. \A t \in Tokens : f[t] = SizeOf(s.queues[t])
  OBVIOUS
<1> HIDE DEF f
<1>3. IsFiniteSet(T) /\ \A t \in T : f[t] \in Nat
  BY <1>2, PlayQueueAssumption, FS_Subset DEF Sized
<1>4. /\ SumFunctionOnSet(f, {}) = 0 /\ SumFunctionOnSet(f, T) \in Nat
      /\ \A t \in T : SumFunctionOnSet(f, T) = f[t] + SumFunctionOnSet(f, T \ {t})
  BY <1>3, SumOneLess
<1>5. \A V \in SUBSET T :
        SumFunctionOnSet(f, T) = SumFunctionOnSet(f, V) + SumFunctionOnSet(f, T \ V)
  BY <1>3, SumOfBoth
<1>6. {} \in SUBSET Tokens /\ \A V \in SUBSET T : V \in SUBSET Tokens /\ T \ V \in SUBSET Tokens
  OBVIOUS
<1>7. \A t \in T : t \in Tokens /\ T \ {t} \in SUBSET Tokens
  OBVIOUS
<1> QED  BY <1>1, <1>2, <1>4, <1>5, <1>6, <1>7

LEMMA SnapshotSums ==
  ASSUME NEW s, Sized(s), NEW T \in SUBSET Generations
  PROVE  /\ SizeOfSnapshots(s, {}) = 0
         /\ SizeOfSnapshots(s, T) \in Nat
         /\ \A g \in T :
              SizeOfSnapshots(s, T) = SizeOfIndex(s.index[g]) + SizeOfSnapshots(s, T \ {g})
         /\ \A V \in SUBSET T :
              SizeOfSnapshots(s, T) = SizeOfSnapshots(s, V) + SizeOfSnapshots(s, T \ V)
<1> DEFINE f == [g \in Generations |-> SizeOfIndex(s.index[g])]
<1>0. IsFiniteSet(Generations)
  BY PlayQueueAssumption, FS_Interval DEF Generations
<1>1. ASSUME NEW V \in SUBSET Generations
      PROVE  SizeOfSnapshots(s, V) = SumFunctionOnSet(f, V)
  <2> DEFINE h == [g \in V |-> SizeOfIndex(s.index[g])]
  <2>1. \A g \in V : h[g] = f[g]
    OBVIOUS
  <2>2. IsFiniteSet(V)
    BY <1>0, FS_Subset
  <2>3. SizeOfSnapshots(s, V) = SumFunctionOnSet(h, V)
    BY DEF SizeOfSnapshots
  <2> HIDE DEF f, h
  <2> QED  BY <2>1, <2>2, <2>3, SumSame
<1>2. \A g \in Generations : f[g] = SizeOfIndex(s.index[g])
  OBVIOUS
<1> HIDE DEF f
<1>3. IsFiniteSet(T) /\ \A g \in T : f[g] \in Nat
  BY <1>0, <1>2, FS_Subset DEF Sized
<1>4. /\ SumFunctionOnSet(f, {}) = 0 /\ SumFunctionOnSet(f, T) \in Nat
      /\ \A g \in T : SumFunctionOnSet(f, T) = f[g] + SumFunctionOnSet(f, T \ {g})
  BY <1>3, SumOneLess
<1>5. \A V \in SUBSET T :
        SumFunctionOnSet(f, T) = SumFunctionOnSet(f, V) + SumFunctionOnSet(f, T \ V)
  BY <1>3, SumOfBoth
<1>6. /\ {} \in SUBSET Generations
      /\ \A V \in SUBSET T : V \in SUBSET Generations /\ T \ V \in SUBSET Generations
  OBVIOUS
<1>7. \A g \in T : g \in Generations /\ T \ {g} \in SUBSET Generations
  OBVIOUS
<1> QED  BY <1>1, <1>2, <1>4, <1>5, <1>6, <1>7

(* What is the same in two stores costs the same in both.                   *)
LEMMA SameQueues ==
  ASSUME NEW s, NEW w, NEW T, \A t \in T : s.queues[t] = w.queues[t]
  PROVE  SizeOfQueues(s, T) = SizeOfQueues(w, T)
<1>1. [t \in T |-> SizeOf(s.queues[t])] = [t \in T |-> SizeOf(w.queues[t])]
  OBVIOUS
<1> QED  BY <1>1 DEF SizeOfQueues

LEMMA SameSnapshots ==
  ASSUME NEW s, NEW w, NEW T, \A g \in T : s.index[g] = w.index[g]
  PROVE  SizeOfSnapshots(s, T) = SizeOfSnapshots(w, T)
<1>1. [g \in T |-> SizeOfIndex(s.index[g])] = [g \in T |-> SizeOfIndex(w.index[g])]
  OBVIOUS
<1> QED  BY <1>1 DEF SizeOfSnapshots

LEMMA WithoutCharged ==
  ASSUME NEW s, Sharing(s), Permuting(s), Charged(s), NEW T \in SUBSET Live(s)
  PROVE  LET w == Without(s, T)
         IN  /\ Permuting(w) /\ Charged(w)
             /\ w.bytes \in Nat /\ s.bytes \in Nat /\ w.bytes <= s.bytes
             /\ Cardinality(Live(w)) <= Cardinality(Live(s))
<1> DEFINE w == Without(s, T)
           left == [g \in Generations |-> s.refs[g] - Cardinality(T \cap OfGeneration(s, g))]
           freed == {g \in Generations : s.refs[g] # 0 /\ left[g] = 0}
<1>1. /\ w.index = [g \in Generations |-> IF g \in freed THEN NoIndex ELSE s.index[g]]
      /\ w.bytes = s.bytes - SizeOfQueues(s, T) - SizeOfSnapshots(s, freed)
  BY DEF Without
<1>2. /\ Live(w) = Live(s) \ T
      /\ \A t \in Live(w) : w.queues[t] = s.queues[t]
  BY WithoutShares
<1>3. freed \in SUBSET Kept(s)
  BY DEF Sharing, Kept
<1> HIDE DEF w, left, freed
<1>4. Kept(w) = Kept(s) \ freed /\ \A g \in Kept(w) : w.index[g] = s.index[g]
  BY <1>1, <1>3 DEF Kept
<1>5. Sized(s) /\ Live(s) \in SUBSET Tokens /\ Kept(s) \in SUBSET Generations
  BY PermutingIsSized DEF Live, Kept
<1>6. /\ SizeOfQueues(s, Live(s)) = SizeOfQueues(s, T) + SizeOfQueues(s, Live(s) \ T)
      /\ SizeOfQueues(s, T) \in Nat /\ SizeOfQueues(s, Live(s) \ T) \in Nat
  <2>1. T \in SUBSET Tokens /\ Live(s) \ T \in SUBSET Tokens
    BY <1>5
  <2> QED  BY <1>5, <2>1, QueueSums
<1>7. /\ SizeOfSnapshots(s, Kept(s)) = SizeOfSnapshots(s, freed) + SizeOfSnapshots(s, Kept(s) \ freed)
      /\ SizeOfSnapshots(s, freed) \in Nat /\ SizeOfSnapshots(s, Kept(s) \ freed) \in Nat
  <2>1. freed \in SUBSET Generations /\ Kept(s) \ freed \in SUBSET Generations
    BY <1>3, <1>5
  <2> QED  BY <1>3, <1>5, <2>1, SnapshotSums
<1>8. /\ SizeOfQueues(w, Live(w)) = SizeOfQueues(s, Live(s) \ T)
      /\ SizeOfSnapshots(w, Kept(w)) = SizeOfSnapshots(s, Kept(s) \ freed)
  <2>1. SizeOfQueues(w, Live(w)) = SizeOfQueues(s, Live(w))
    BY <1>2, SameQueues
  <2>2. SizeOfSnapshots(w, Kept(w)) = SizeOfSnapshots(s, Kept(w))
    BY <1>4, SameSnapshots
  <2> QED  BY <1>2, <1>4, <2>1, <2>2
<1>9. /\ w.bytes = SizeOfQueues(w, Live(w)) + SizeOfSnapshots(w, Kept(w))
      /\ w.bytes \in Nat /\ s.bytes \in Nat /\ w.bytes <= s.bytes
  BY <1>1, <1>6, <1>7, <1>8 DEF Charged
<1>10. Cardinality(Live(w)) <= Cardinality(Live(s))
  <2>1. IsFiniteSet(Live(s))
    BY LiveFinite
  <2> QED  BY <1>2, <2>1, FS_Subset
<1>11. Permuting(w)
  BY <1>2 DEF Permuting
<1> QED  BY <1>9, <1>10, <1>11 DEF Charged, w

LEMMA StoredBytes ==
  ASSUME NEW s, NEW t, NEW q, IsRecord(s), NEW b, b = s.bytes + SizeOf(q)
  PROVE  Stored(s, t, q).bytes = b
<1> DEFINE Q == [s.queues EXCEPT ![t] = q]
           placed == [s EXCEPT !.queues[t] = q]
<1>1. Stored(s, t, q) = [s EXCEPT !.queues[t] = q, !.bytes = b]
  BY DEF Stored
<1>2. [s EXCEPT !.queues[t] = q, !.bytes = b] = [placed EXCEPT !.bytes = b]
  OBVIOUS
<1>3. PICK I, R, B : s = [queues |-> s.queues, index |-> I, refs |-> R, bytes |-> B]
  BY DEF IsRecord
<1>4. placed = [queues |-> Q, index |-> I, refs |-> R, bytes |-> B]
  BY <1>3
<1> HIDE DEF placed, Q
<1>5. [placed EXCEPT !.bytes = b].bytes = b
  BY <1>4
<1> QED  BY <1>1, <1>2, <1>5

LEMMA RetainedBytes ==
  ASSUME NEW s, IsRecord(s), NEW g, NEW index
  PROVE  /\ IsRecord(Retained(s, g, index))
         /\ s.index[g] = NoIndex => Retained(s, g, index).bytes = s.bytes + SizeOfIndex(index)
         /\ s.index[g] # NoIndex => Retained(s, g, index).bytes = s.bytes
<1> DEFINE Q == s.queues
           I == s.index
           R == s.refs
           B == s.bytes
<1>1. s = [queues |-> Q, index |-> I, refs |-> R, bytes |-> B]
  BY DEF IsRecord
<1>2. CASE s.index[g] = NoIndex
  <2> DEFINE b == B + SizeOfIndex(index)
             J == [I EXCEPT ![g] = index]
             N == [R EXCEPT ![g] = 1]
             one == [s EXCEPT !.index[g] = index]
             two == [one EXCEPT !.refs[g] = 1]
             all == [two EXCEPT !.bytes = b]
  <2>1. Retained(s, g, index) = all
    <3>1. Retained(s, g, index)
            = [s EXCEPT !.index[g] = index, !.refs[g] = 1, !.bytes = @ + SizeOfIndex(index)]
      BY <1>2 DEF Retained
    <3>2. [s EXCEPT !.index[g] = index, !.refs[g] = 1, !.bytes = b] = all
      OBVIOUS
    <3> QED  BY <1>1, <3>1, <3>2
  <2>2. one = [queues |-> Q, index |-> J, refs |-> R, bytes |-> B]
    BY <1>1
  <2> HIDE DEF one, J
  <2>3. two = [queues |-> Q, index |-> J, refs |-> N, bytes |-> B]
    BY <2>2
  <2> HIDE DEF two, N, b
  <2>4. all = [queues |-> Q, index |-> J, refs |-> N, bytes |-> b]
    BY <2>3
  <2> QED  BY <1>2, <2>1, <2>4 DEF IsRecord, b
<1>3. CASE s.index[g] # NoIndex
  <2>1. Retained(s, g, index) = [s EXCEPT !.refs[g] = @ + 1]
    BY <1>3 DEF Retained
  <2>2. [s EXCEPT !.refs[g] = @ + 1]
          = [queues |-> Q, index |-> I, refs |-> [R EXCEPT ![g] = @ + 1], bytes |-> B]
    BY <1>1
  <2> QED  BY <1>3, <2>1, <2>2 DEF IsRecord
<1> QED  BY <1>2, <1>3

LEMMA AddedCharged ==
  ASSUME NEW s, Sharing(s), Permuting(s), Charged(s), NEW t \in Tokens \ Live(s),
         NEW q, IsQueue(q), IsPermutation(q), s.index[q.gen] \in {NoIndex, q.built}
  PROVE  LET w == Stored(Retained(s, q.gen, q.built), t, q)
         IN  Permuting(w) /\ Charged(w)
<1> DEFINE r == Retained(s, q.gen, q.built)
           w == Stored(r, t, q)
           h == q.gen
<1>1. /\ Sharing(w) /\ Live(w) = Live(s) \cup {t} /\ w.queues[t] = q
      /\ \A u \in Live(s) : w.queues[u] = s.queues[u]
      /\ \A g \in Generations : w.index[g] = IF g = q.gen THEN q.built ELSE s.index[g]
  BY AddedShares
<1>2. h \in Generations /\ q.built \in Indexes /\ q.built # NoIndex
  BY NoIndexIsNone DEF IsQueue, Indexes
<1>3. IsRecord(s)
  BY DEF Sharing, IsStore, IsRecord
<1>4. /\ s.index[h] = NoIndex => w.bytes = s.bytes + SizeOfIndex(q.built) + SizeOf(q)
      /\ s.index[h] # NoIndex => w.bytes = s.bytes + SizeOf(q)
  <2>1. /\ IsRecord(r)
        /\ s.index[h] = NoIndex => r.bytes = s.bytes + SizeOfIndex(q.built)
        /\ s.index[h] # NoIndex => r.bytes = s.bytes
    BY <1>3, RetainedBytes
  <2>2. w = Stored(r, t, q)
    OBVIOUS
  <2> HIDE DEF r, w
  <2>3. w.bytes = r.bytes + SizeOf(q)
    <3>1. PICK b : b = r.bytes + SizeOf(q)
      OBVIOUS
    <3> QED  BY <2>1, <2>2, <3>1, StoredBytes
  <2> QED  BY <2>1, <2>3
<1> HIDE DEF w, r
<1>5. Permuting(w)
  BY <1>1 DEF Permuting
<1>6. Sized(s) /\ Sized(w)
  BY <1>1, <1>5, PermutingIsSized
<1>7. SizeOfQueues(w, Live(w)) = SizeOf(q) + SizeOfQueues(s, Live(s))
  <2>1. Live(w) \in SUBSET Tokens /\ Live(w) \ {t} = Live(s) /\ t \in Live(w)
    BY <1>1 DEF Live
  <2>2. SizeOfQueues(w, Live(s)) = SizeOfQueues(s, Live(s))
    BY <1>1, SameQueues
  <2>3. SizeOfQueues(w, Live(w)) = SizeOf(w.queues[t]) + SizeOfQueues(w, Live(w) \ {t})
    BY <1>6, <2>1, QueueSums
  <2> QED  BY <1>1, <2>1, <2>2, <2>3
<1>8. Kept(w) = Kept(s) \cup {h}
  BY <1>1, <1>2 DEF Kept
<1>9. s.index[h] # NoIndex => SizeOfSnapshots(w, Kept(w)) = SizeOfSnapshots(s, Kept(s))
  <2> SUFFICES ASSUME s.index[h] # NoIndex
               PROVE  SizeOfSnapshots(w, Kept(w)) = SizeOfSnapshots(s, Kept(s))
    OBVIOUS
  <2>1. Kept(w) = Kept(s)
    BY <1>2, <1>8 DEF Kept
  <2>2. \A g \in Kept(s) : w.index[g] = s.index[g]
    BY <1>1 DEF Kept
  <2> QED  BY <2>1, <2>2, SameSnapshots
<1>10. s.index[h] = NoIndex
         => SizeOfSnapshots(w, Kept(w)) = SizeOfIndex(q.built) + SizeOfSnapshots(s, Kept(s))
  <2> SUFFICES ASSUME s.index[h] = NoIndex
               PROVE  SizeOfSnapshots(w, Kept(w))
                        = SizeOfIndex(q.built) + SizeOfSnapshots(s, Kept(s))
    OBVIOUS
  <2>1. /\ Kept(w) \in SUBSET Generations /\ h \in Kept(w) /\ Kept(w) \ {h} = Kept(s)
        /\ \A g \in Kept(s) : w.index[g] = s.index[g]
    BY <1>1, <1>2, <1>8 DEF Kept
  <2>2. SizeOfSnapshots(w, Kept(s)) = SizeOfSnapshots(s, Kept(s))
    BY <2>1, SameSnapshots
  <2>3. SizeOfSnapshots(w, Kept(w))
          = SizeOfIndex(w.index[h]) + SizeOfSnapshots(w, Kept(w) \ {h})
    BY <1>6, <2>1, SnapshotSums
  <2>4. w.index[h] = q.built
    BY <1>1, <1>2
  <2> QED  BY <2>1, <2>2, <2>3, <2>4
<1>11. /\ SizeOf(q) \in Nat /\ SizeOfIndex(q.built) \in Nat
       /\ SizeOfQueues(s, Live(s)) \in Nat /\ SizeOfSnapshots(s, Kept(s)) \in Nat
  <2>1. Live(s) \in SUBSET Tokens /\ Kept(s) \in SUBSET Generations
    BY DEF Live, Kept
  <2>2. SizeOfQueues(s, Live(s)) \in Nat /\ SizeOfSnapshots(s, Kept(s)) \in Nat
    BY <1>6, <2>1, QueueSums, SnapshotSums
  <2>3. SizeOf(q) \in Nat
    BY SizeIsNat
  <2>4. SizeOfIndex(q.built) \in Nat
    BY <1>2, IndexSizeIsNat
  <2> QED  BY <2>2, <2>3, <2>4
<1>12. Charged(w)
  <2>1. s.bytes = SizeOfQueues(s, Live(s)) + SizeOfSnapshots(s, Kept(s))
    BY DEF Charged
  <2>2. w.bytes = SizeOfQueues(w, Live(w)) + SizeOfSnapshots(w, Kept(w))
    BY <1>4, <1>7, <1>9, <1>10, <1>11, <2>1
  <2> QED  BY <2>2 DEF Charged
<1> QED  BY <1>5, <1>12 DEF w, r

LEMMA ExchangedBytes ==
  ASSUME NEW s, IsRecord(s), NEW old, NEW t, NEW q
  PROVE  Exchanged(s, old, t, q).bytes = s.bytes - SizeOf(s.queues[old]) + SizeOf(q)
<1> DEFINE Q == s.queues
           I == s.index
           R == s.refs
           B == s.bytes
           b == B - SizeOf(s.queues[old])
           O == [Q EXCEPT ![old] = NoQueue]
           cut == [s EXCEPT !.queues[old] = NoQueue]
           left == [s EXCEPT !.queues[old] = NoQueue, !.bytes = b]
<1>1. s = [queues |-> Q, index |-> I, refs |-> R, bytes |-> B]
  BY DEF IsRecord
<1>2. Exchanged(s, old, t, q) = Stored(left, t, q)
  BY DEF Exchanged
<1>3. left = [cut EXCEPT !.bytes = b]
  OBVIOUS
<1> HIDE DEF b
<1>4. cut = [queues |-> O, index |-> I, refs |-> R, bytes |-> B]
  BY <1>1
<1> HIDE DEF cut, left, O
<1>5. left = [queues |-> O, index |-> I, refs |-> R, bytes |-> b]
  BY <1>3, <1>4
<1>6. IsRecord(left) /\ left.bytes = b
  BY <1>5 DEF IsRecord
<1>7. PICK n : n = left.bytes + SizeOf(q)
  OBVIOUS
<1>8. Stored(left, t, q).bytes = n
  BY <1>6, <1>7, StoredBytes
<1> QED  BY <1>2, <1>6, <1>7, <1>8 DEF b

LEMMA ExchangedCharged ==
  ASSUME NEW s, Sharing(s), Permuting(s), Charged(s), NEW old \in Live(s),
         NEW t \in Tokens \ Live(s), NEW q, IsQueue(q), IsPermutation(q),
         q.gen = s.queues[old].gen, q.built = s.queues[old].built
  PROVE  LET w == Exchanged(s, old, t, q)
         IN  Permuting(w) /\ Charged(w)
<1> DEFINE w == Exchanged(s, old, t, q)
<1>1. /\ Sharing(w) /\ Live(w) = (Live(s) \ {old}) \cup {t} /\ w.queues[t] = q
      /\ \A u \in Live(s) \ {old} : w.queues[u] = s.queues[u]
      /\ w.index = s.index
  BY ExchangedShares
<1>2. w.bytes = s.bytes - SizeOf(s.queues[old]) + SizeOf(q)
  BY ExchangedBytes DEF Sharing, IsStore, IsRecord
<1> HIDE DEF w
<1>3. Permuting(w)
  BY <1>1 DEF Permuting
<1>4. Sized(s) /\ Sized(w)
  BY <1>1, <1>3, PermutingIsSized
<1>5. /\ Live(s) \in SUBSET Tokens /\ Live(w) \in SUBSET Tokens /\ Live(s) \ {old} \in SUBSET Tokens
      /\ t \in Live(w) /\ Live(w) \ {t} = Live(s) \ {old}
  BY <1>1 DEF Live
<1>6. SizeOfQueues(s, Live(s)) = SizeOf(s.queues[old]) + SizeOfQueues(s, Live(s) \ {old})
  BY <1>4, <1>5, QueueSums
<1>7. SizeOfQueues(w, Live(w)) = SizeOf(q) + SizeOfQueues(s, Live(s) \ {old})
  <2>1. SizeOfQueues(w, Live(s) \ {old}) = SizeOfQueues(s, Live(s) \ {old})
    BY <1>1, SameQueues
  <2>2. SizeOfQueues(w, Live(w)) = SizeOf(w.queues[t]) + SizeOfQueues(w, Live(w) \ {t})
    BY <1>4, <1>5, QueueSums
  <2> QED  BY <1>1, <1>5, <2>1, <2>2
<1>8. Kept(w) = Kept(s) /\ SizeOfSnapshots(w, Kept(w)) = SizeOfSnapshots(s, Kept(s))
  <2>1. Kept(w) = Kept(s)
    BY <1>1 DEF Kept
  <2> QED  BY <1>1, <2>1, SameSnapshots
<1>9. /\ SizeOf(q) \in Nat /\ SizeOf(s.queues[old]) \in Nat
      /\ SizeOfQueues(s, Live(s) \ {old}) \in Nat /\ SizeOfSnapshots(s, Kept(s)) \in Nat
  <2>1. Kept(s) \in SUBSET Generations /\ old \in Tokens
    BY DEF Kept, Live
  <2>2. SizeOfQueues(s, Live(s) \ {old}) \in Nat /\ SizeOfSnapshots(s, Kept(s)) \in Nat
    BY <1>4, <1>5, <2>1, QueueSums, SnapshotSums
  <2> QED  BY <1>4, <2>1, <2>2, SizeIsNat DEF Sized
<1>10. Charged(w)
  <2>1. s.bytes = SizeOfQueues(s, Live(s)) + SizeOfSnapshots(s, Kept(s))
    BY DEF Charged
  <2>2. w.bytes = SizeOfQueues(w, Live(w)) + SizeOfSnapshots(w, Kept(w))
    BY <1>2, <1>6, <1>7, <1>8, <1>9, <2>1
  <2> QED  BY <2>2 DEF Charged
<1> QED  BY <1>3, <1>10 DEF w

(* Eviction stops within the limits, or when only the queue just made is    *)
(* left, which fits as its size was checked.                                *)
LEMMA EvictedFits ==
  ASSUME NEW s, Sharing(s), Permuting(s), Charged(s), NEW t \in Live(s),
         SizeOfIndex(s.queues[t].built) + SizeOf(s.queues[t]) <= MaxBytes,
         NEW evicted \in Evictions(s, t)
  PROVE  LET w == Without(s, evicted)
         IN  Charged(w) /\ Cardinality(Live(w)) <= MaxQueues /\ w.bytes <= MaxBytes
<1> DEFINE w == Without(s, evicted)
           h == s.queues[t].gen
<1>1. evicted \in SUBSET Live(s) /\ t \notin evicted
  BY DEF Evictions
<1>2. OverLimit(w) => evicted = Live(s) \ {t}
  BY DEF Evictions
<1>3. /\ Sharing(w) /\ Live(w) = Live(s) \ evicted
      /\ \A u \in Live(w) : w.queues[u] = s.queues[u]
  BY <1>1, WithoutShares
<1>4. Permuting(w) /\ Charged(w) /\ w.bytes \in Nat
  BY <1>1, WithoutCharged
<1> HIDE DEF w
<1>5. CASE ~ OverLimit(w)
  <2>1. Cardinality(Live(w)) \in Nat
    BY LiveFinite, FS_CardinalityType
  <2> QED  BY <1>4, <1>5, <2>1, PlayQueueAssumption DEF OverLimit, w
<1>6. CASE OverLimit(w)
  <2>1. Live(w) = {t} /\ w.queues[t] = s.queues[t] /\ t \in Tokens
    BY <1>1, <1>2, <1>3, <1>6 DEF Live
  <2>2. IsQueue(w.queues[t]) /\ w.queues[t].built = w.index[h] /\ h \in Generations
    BY <1>3, <2>1 DEF Sharing, IsQueue
  <2>a. \A u : w.queues[u] = s.queues[t] => w.queues[u].gen = h
    OBVIOUS
  <2> HIDE DEF h
  <2>3. Kept(w) = {h}
    <3>1. ASSUME NEW g \in Kept(w) PROVE g = h
      <4>1. g \in Generations /\ w.refs[g] # 0 /\ w.refs[g] = Cardinality(OfGeneration(w, g))
        BY <1>3, <3>1 DEF Sharing, Kept
      <4>2. OfGeneration(w, g) # {}
        BY <4>1, FS_EmptySet
      <4> QED  BY <2>1, <2>a, <4>2 DEF OfGeneration
    <3>2. w.index[h] # NoIndex
      BY <2>2, NoIndexIsNone DEF IsQueue
    <3> QED  BY <2>2, <3>1, <3>2 DEF Kept
  <2>4. Sized(w)
    BY <1>3, <1>4, PermutingIsSized
  <2>5. SizeOfQueues(w, {t}) = SizeOf(w.queues[t]) + SizeOfQueues(w, {})
    <3>1. {t} \in SUBSET Tokens /\ t \in {t} /\ {t} \ {t} = {}
      BY <2>1
    <3> QED  BY <2>4, <3>1, QueueSums
  <2>6. SizeOfSnapshots(w, {h}) = SizeOfIndex(w.index[h]) + SizeOfSnapshots(w, {})
    <3>1. {h} \in SUBSET Generations /\ h \in {h} /\ {h} \ {h} = {}
      BY <2>2
    <3> QED  BY <2>4, <3>1, SnapshotSums
  <2>7. SizeOfQueues(w, {}) = 0 /\ SizeOfSnapshots(w, {}) = 0
    <3>1. {} \in SUBSET Tokens /\ {} \in SUBSET Generations
      OBVIOUS
    <3> QED  BY <2>4, <3>1, QueueSums, SnapshotSums
  <2>8. SizeOf(w.queues[t]) \in Nat /\ SizeOfIndex(w.index[h]) \in Nat
    BY <2>1, <2>2, <2>4 DEF Sized
  <2>9. w.bytes = SizeOf(w.queues[t]) + SizeOfIndex(w.index[h])
    BY <1>4, <2>1, <2>3, <2>5, <2>6, <2>7, <2>8 DEF Charged
  <2>10. w.bytes <= MaxBytes
    <3>1. SizeOfIndex(w.index[h]) + SizeOf(w.queues[t]) <= MaxBytes
      BY <2>1, <2>2
    <3> QED  BY <2>8, <2>9, <3>1, PlayQueueAssumption
  <2>11. Cardinality(Live(w)) <= MaxQueues
    <3>1. Cardinality({t}) = 1
      BY FS_Singleton
    <3>2. 1 <= MaxQueues
      BY PlayQueueAssumption
    <3> QED  BY <2>1, <3>1, <3>2
  <2> QED  BY <1>4, <2>10, <2>11 DEF w
<1> QED  BY <1>5, <1>6

-----------------------------------------------------------------------------
(* The steps that change the store keep its account and its limits.         *)

AInv == Charged(store) /\ WithinLimits

LEMMA RemovalAccounts ==
  ASSUME PInv, AInv, NEW T, T \subseteq Live(store), store' = Without(store, T)
  PROVE  AInv'
<1> DEFINE w == Without(store, T)
<1>1. Sharing(store) /\ Permuting(store) /\ Charged(store) /\ T \in SUBSET Live(store)
  BY DEF PInv, QInv, AInv, Permuting
<1>2. /\ Charged(w) /\ w.bytes \in Nat /\ store.bytes \in Nat /\ w.bytes <= store.bytes
      /\ Cardinality(Live(w)) <= Cardinality(Live(store))
  BY <1>1, WithoutCharged
<1>3. store' = w
  OBVIOUS
<1> HIDE DEF w
<1>4. Cardinality(Live(w)) \in Nat /\ Cardinality(Live(store)) \in Nat
  BY LiveFinite, FS_CardinalityType
<1>5. Cardinality(Live(w)) <= MaxQueues /\ w.bytes <= MaxBytes
  BY <1>2, <1>4, PlayQueueAssumption DEF AInv, WithinLimits
<1> QED  BY <1>2, <1>3, <1>5 DEF AInv, WithinLimits

(* What Create and the replacements do last.                                *)
LEMMA EvictionAccounts ==
  ASSUME NEW s, Sharing(s), Permuting(s), Charged(s), NEW t \in Live(s),
         SizeOfIndex(s.queues[t].built) + SizeOf(s.queues[t]) <= MaxBytes,
         NEW evicted \in Evictions(s, t), store' = Without(s, evicted)
  PROVE  AInv'
<1> DEFINE w == Without(s, evicted)
<1>1. Charged(w) /\ Cardinality(Live(w)) <= MaxQueues /\ w.bytes <= MaxBytes
  BY EvictedFits
<1>2. store' = w
  OBVIOUS
<1> HIDE DEF w
<1> QED  BY <1>1, <1>2 DEF AInv, WithinLimits

LEMMA CreationAccounts ==
  ASSUME PInv, AInv, NEW c \in Requests, NEW t \in Tokens, NEW expired \in SUBSET Live(store),
         CreateCommits(c, t, expired)
  PROVE  AInv'
<1> DEFINE gone  == expired \cup ({target[c]} \ {NoToken})
           left  == Without(store, gone)
           q     == draft[c]
           added == Stored(Retained(left, q.gen, q.built), t, q)
<1>1. /\ pc[c] = "commit" /\ t \in Tokens \ (Live(store) \cup Range(target))
      /\ gone \in SUBSET Live(store) /\ SizeOfIndex(q.built) + SizeOf(q) <= MaxBytes
  BY DEF CreateCommits, Fresh, Fits
<1>2. PICK evicted \in Evictions(added, t) : store' = Without(added, evicted)
  BY DEF CreateCommits
<1>3. Sharing(store) /\ Permuting(store) /\ Charged(store)
  BY DEF PInv, QInv, AInv, Permuting
<1>4. /\ IsQueue(q) /\ IsPermutation(q) /\ store.index[q.gen] \in {NoIndex, q.built}
  BY <1>1, DraftKnown DEF PInv, InHand
<1> HIDE DEF gone, q
<1>5. /\ Sharing(left) /\ Live(left) = Live(store) \ gone
      /\ \A g \in Generations : left.index[g] \in {store.index[g], NoIndex}
  BY <1>1, <1>3, WithoutShares
<1>6. Permuting(left) /\ Charged(left)
  BY <1>1, <1>3, WithoutCharged
<1> HIDE DEF left
<1>7. left.index[q.gen] \in {NoIndex, q.built} /\ t \in Tokens \ Live(left)
  BY <1>1, <1>4, <1>5 DEF IsQueue
<1>8. Sharing(added) /\ Live(added) = Live(left) \cup {t} /\ added.queues[t] = q
  BY <1>4, <1>5, <1>7, AddedShares
<1>9. Permuting(added) /\ Charged(added)
  BY <1>4, <1>5, <1>6, <1>7, AddedCharged
<1> HIDE DEF added
<1>10. t \in Live(added) /\ SizeOfIndex(added.queues[t].built) + SizeOf(added.queues[t]) <= MaxBytes
  BY <1>1, <1>8
<1> QED  BY <1>2, <1>8, <1>9, <1>10, EvictionAccounts

LEMMA ReplacementAccounts ==
  ASSUME PInv, AInv, NEW c \in Requests, NEW t \in Tokens, Replaces(c, t)
  PROVE  AInv'
<1> DEFINE old == target[c]
           q == draft[c]
           exchanged == Exchanged(store, old, t, q)
<1>1. /\ pc[c] = "commit" /\ op[c] \in {"select", "prepend"} /\ old \in Live(store)
      /\ t \in Tokens \ (Live(store) \cup Range(target))
      /\ SizeOfIndex(store.index[q.gen]) + SizeOf(q) <= MaxBytes
  BY DEF Replaces, StillThere, Fresh, Fits
<1>2. PICK evicted \in Evictions(exchanged, t) : store' = Without(exchanged, evicted)
  BY DEF Replaces
<1>3. Sharing(store) /\ Permuting(store) /\ Charged(store)
  BY DEF PInv, QInv, AInv, Permuting
<1>4. IsQueue(q) /\ IsPermutation(q) /\ q.gen = store.queues[old].gen
  BY <1>1 DEF PInv, QInv, InWork, InHand
<1>5. q.built = store.queues[old].built /\ q.built = store.index[q.gen]
  <2>1. /\ IsQueue(store.queues[old])
        /\ store.queues[old].built = store.index[store.queues[old].gen]
    BY <1>1, <1>3 DEF Sharing
  <2>2. store.index[q.gen] # NoIndex  BY <1>4, <2>1, NoIndexIsNone DEF IsQueue
  <2> QED  BY <1>1, <1>4, <2>1, <2>2, DraftKnown DEF PInv
<1> HIDE DEF old, q
<1>6. Sharing(exchanged) /\ t \in Live(exchanged) /\ exchanged.queues[t] = q
  <2>1. /\ Sharing(store) /\ old \in Live(store) /\ t \in Tokens \ Live(store)
        /\ IsQueue(q) /\ q.gen = store.queues[old].gen /\ q.built = store.queues[old].built
    BY <1>1, <1>3, <1>4, <1>5
  <2>2. /\ Sharing(exchanged) /\ Live(exchanged) = (Live(store) \ {old}) \cup {t}
        /\ exchanged.queues[t] = q
    BY ONLY <2>1, ExchangedShares
  <2> QED  BY <2>2
<1>7. Permuting(exchanged) /\ Charged(exchanged)
  BY <1>1, <1>3, <1>4, <1>5, ExchangedCharged
<1> HIDE DEF exchanged
<1>8. SizeOfIndex(exchanged.queues[t].built) + SizeOf(exchanged.queues[t]) <= MaxBytes
  BY <1>1, <1>5, <1>6
<1> QED  BY <1>2, <1>6, <1>7, <1>8, EvictionAccounts

LEMMA InitAccounts == Init => AInv
<1> SUFFICES ASSUME Init PROVE AInv
  OBVIOUS
<1>1. Live(store) = {} /\ Kept(store) = {} /\ store.bytes = 0
  BY DEF Init, Live, Kept
<1>2. Sized(store)
  <2>1. Sharing(store) /\ Permuting(store)
    BY <1>1, QInitially DEF QInv, Permuting
  <2> QED  BY <2>1, PermutingIsSized
<1>3. SizeOfQueues(store, {}) = 0 /\ SizeOfSnapshots(store, {}) = 0
  <2>1. {} \in SUBSET Tokens /\ {} \in SUBSET Generations
    OBVIOUS
  <2> QED  BY <1>2, <2>1, QueueSums, SnapshotSums
<1> QED  BY <1>1, <1>3, FS_EmptySet, PlayQueueAssumption DEF AInv, Charged, WithinLimits

LEMMA AccountStep == PInv /\ AInv /\ [Next]_vars => AInv'
<1> SUFFICES ASSUME PInv, AInv, [Next]_vars PROVE AInv'
  OBVIOUS
<1>1. CASE UNCHANGED store
  BY <1>1 DEF AInv, Charged, WithinLimits
<1>2. ASSUME NEW c \in Requests, GateStep(c)
      PROVE  AInv'
  BY <1>1, <1>2 DEF GateStep, AcquireAtOnce, AcquireWaits, AcquireSlot, AcquireFails
<1>3. ASSUME NEW c \in Requests, CreateStep(c)
      PROVE  AInv'
  <2>1. ASSUME NEW candidates, NEW pin, CreateBuilds(c, candidates, pin)
        PROVE  AInv'
    BY <1>1, <2>1 DEF CreateBuilds
  <2>2. ASSUME NEW t \in Tokens, NEW expired \in SUBSET Live(store), CreateCommits(c, t, expired)
        PROVE  AInv'
    BY <2>2, CreationAccounts
  <2>3. ASSUME NEW expired \in SUBSET Live(store), CreateNotFound(c, expired)
        PROVE  AInv'
    BY <2>3, RemovalAccounts DEF CreateNotFound
  <2>4. CASE BuildFails(c)
    BY <1>1, <2>4 DEF BuildFails
  <2> QED  BY <1>3, <2>1, <2>2, <2>3, <2>4 DEF CreateStep
<1>4. ASSUME NEW c \in Requests, ReplaceStep(c)
      PROVE  AInv'
  <2>1. ASSUME NEW t \in Tokens, NEW path, SelectReads(c, t, path)
        PROVE  AInv'
    BY <1>1, <2>1 DEF SelectReads
  <2>2. ASSUME NEW entries, PrependReads(c, entries)
        PROVE  AInv'
    BY <1>1, <2>2 DEF PrependReads
  <2>3. ASSUME NEW t \in Tokens, PrependCommits(c, t) \/ SelectCommits(c, t)
        PROVE  AInv'
    BY <2>3, ReplacementAccounts DEF PrependCommits, SelectCommits
  <2>4. CASE SelectFails(c)
    BY <1>1, <2>4 DEF SelectFails
  <2> QED  BY <1>4, <2>1, <2>2, <2>3, <2>4 DEF ReplaceStep
<1>5. ASSUME NEW t \in Tokens, Drop(t)
      PROVE  AInv'
  BY <1>5, RemovalAccounts DEF Drop
<1>6. CASE Rescans
  BY <1>1, <1>6 DEF Rescans, queueVars
<1>7. CASE UNCHANGED vars
  BY <1>1, <1>7 DEF vars, queueVars
<1> QED  BY <1>2, <1>3, <1>4, <1>5, <1>6, <1>7 DEF Next

(* The store counts exactly the bytes and the references it holds, and is   *)
(* within both its limits whenever the mutex is free, for any limits, sizes *)
(* and numbers of requests: no drift makes it evict everything or nothing.  *)
THEOREM StoreIsAccounted == Spec => []StoreAccounted
<1>1. PInv /\ AInv => StoreAccounted
  <2> SUFFICES ASSUME PInv, AInv PROVE StoreAccounted
    OBVIOUS
  <2>1. AccountsExact
    BY DEF PInv, QInv, AInv, Sharing, Charged, Kept, AccountsExact
  <2> QED  BY <2>1 DEF AInv, StoreAccounted
<1> QED  BY <1>1, InitAccounts, AccountStep, PermutationInvariant, PTL DEF Spec

-----------------------------------------------------------------------------
(* The queues implement Playlists.                                          *)

Lists == [t \in Live(store) |-> Played(t)]

Asked == [c \in Requests |-> IF op[c] \in {"select", "prepend"} THEN "extend" ELSE op[c]]

(* Queues that stay are played as they were: each is read with the Index it *)
(* was built from before and after.                                         *)
LEMMA ListsChange ==
  ASSUME QInv, QInv', NEW new, new = Live(store') \ Live(store),
         \A u \in Live(store') \cap Live(store) : store'.queues[u] = store.queues[u]
  PROVE  Promise!Changes(new)
<1>1. ASSUME NEW u \in Live(store') \cap Live(store)
      PROVE  Lists'[u] = Lists[u]
  <2>1. /\ store.queues[u].built = store.index[store.queues[u].gen]
        /\ store'.queues[u].built = store'.index[store'.queues[u].gen]
    BY DEF QInv, Sharing
  <2> QED  BY <2>1 DEF Lists, Played
<1>2. DOMAIN Lists = Live(store) /\ DOMAIN Lists' = Live(store')
  BY DEF Lists
<1> QED  BY <1>1, <1>2 DEF Lists, Promise!Changes, Promise!Named

LEMMA AnswersAsked ==
  ASSUME QInv, NEW c \in Requests, Ends(c)
  PROVE  Promise!Answered(c)
<1>1. Asked' = [Asked EXCEPT ![c] = "none"] /\ target' = [target EXCEPT ![c] = NoToken]
  BY DEF Ends, Asked, QInv, RequestTypes
<1> QED  BY <1>1 DEF Promise!Answered, Asked

LEMMA AskedFor ==
  ASSUME QInv, NEW c \in Requests, NEW o \in Ops, NEW t \in Tokens \cup {NoToken}, Starts(c, o, t),
         op[c] = "none", o \in {"create", "prepend", "select"},
         o # "create" => t \in Live(store), t \in Live(store) \cup {NoToken}, UNCHANGED store
  PROVE  \E what \in {"create", "extend"} : Promise!Ask(c, what, t)
<1> DEFINE what == IF o = "create" THEN "create" ELSE "extend"
<1>1. /\ Asked' = [Asked EXCEPT ![c] = what] /\ Asked[c] = "none"
      /\ target' = [target EXCEPT ![c] = t]
  BY DEF Starts, Asked, QInv, RequestTypes
<1>2. Lists' = Lists /\ DOMAIN Lists = Live(store)
  BY DEF Lists, Played
<1>3. Promise!Ask(c, what, t)
  BY <1>1, <1>2 DEF Promise!Ask, Promise!Named, Asked, Lists
<1> QED  BY <1>3

(* A permutation that is live is a playlist.                                *)
AllPlaylists == \A t \in Live(store) : Promise!IsPlaylist(Played(t))

LEMMA PlayedArePlaylists == PInv => AllPlaylists
<1> SUFFICES ASSUME PInv, NEW t \in Live(store)
             PROVE  Promise!IsPlaylist(Played(t))
  BY DEF AllPlaylists
<1> DEFINE q == store.queues[t]
           l == Played(t)
<1>1. IsQueue(q) /\ IsPermutation(q) /\ q.built = store.index[q.gen]
  BY DEF PInv, QInv, Sharing
<1>2. l = [from |-> q.built, first |-> q.prefix, rest |-> q.order]
  BY <1>1 DEF Played
<1> HIDE DEF l, q
<1>3. /\ l \in [from : SUBSET Paths, first : Seq(Paths), rest : SUBSET Paths]
      /\ l.rest = q.order /\ l.from = q.built /\ l.first = q.prefix
  BY <1>1, <1>2 DEF IsQueue, IsPermutation
<1>4. Promise!IsInjective(l.first) /\ Promise!Range(l.first) = Range(q.prefix)
  BY <1>1, <1>3 DEF IsPermutation, Promise!IsInjective, IsInjective, Promise!Range, Range
<1>5. Promise!IsPlaylist(l)
  BY <1>1, <1>3, <1>4 DEF IsPermutation, Promise!IsPlaylist
<1> QED  BY <1>5 DEF l

(* A request is at work exactly while it asks for something.                *)
Asking == \A c \in Requests : pc[c] = "idle" <=> op[c] = "none"

LEMMA AskingStep ==
  ASSUME QInv, Asking, [Next]_vars
  PROVE  Asking'
<1> USE DEF QInv, RequestTypes, Asking
<1>1. ASSUME NEW c \in Requests, Ends(c)
      PROVE  Asking'
  BY <1>1 DEF Ends
<1>2. ASSUME NEW c \in Requests, GateStep(c)
      PROVE  Asking'
  <2>1. ASSUME NEW o \in Ops, NEW t, AcquireAtOnce(c, o, t) \/ AcquireWaits(c, o, t)
        PROVE  Asking'
    BY <2>1 DEF AcquireAtOnce, AcquireWaits, Starts, Names
  <2>2. CASE AcquireSlot(c)
    BY <2>2 DEF AcquireSlot
  <2>3. CASE AcquireFails(c)
    BY <1>1, <2>3 DEF AcquireFails
  <2> QED BY <1>2, <2>1, <2>2, <2>3 DEF GateStep
<1>3. ASSUME NEW c \in Requests, CreateStep(c)
      PROVE  Asking'
  BY <1>1, <1>3 DEF CreateStep, CreateBuilds, CreateCommits, CreateNotFound, BuildFails, Releases
<1>4. ASSUME NEW c \in Requests, ReplaceStep(c)
      PROVE  Asking'
  <2>1. ASSUME NEW t, NEW path, SelectReads(c, t, path)
        PROVE  Asking'
    BY <2>1 DEF SelectReads, Starts
  <2>2. ASSUME NEW entries, PrependReads(c, entries)
        PROVE  Asking'
    BY <2>2 DEF PrependReads
  <2> QED BY <1>1, <1>4, <2>1, <2>2 DEF ReplaceStep, PrependCommits, SelectCommits, SelectFails, Releases
<1>5. ASSUME UNCHANGED <<pc, op>>
      PROVE  Asking'
  BY <1>5
<1> QED BY <1>2, <1>3, <1>4, <1>5 DEF Next, Drop, Rescans, queueVars, vars

(* What a step leaves of the promised state when only the requests move.    *)
LEMMA NothingPromised ==
  ASSUME UNCHANGED <<store, op, target>>
  PROVE  UNCHANGED Promise!vars
<1>1. Lists' = Lists /\ Asked' = Asked
  BY DEF Lists, Played, Live, Asked
<1> QED BY <1>1 DEF Promise!vars, Lists, Asked

(* The queue a request has made appears, and the one it replaces is gone.   *)
LEMMA PlaylistAppears ==
  ASSUME PInv, PInv', AInv', AllPlaylists', NEW c \in Requests, NEW t \in Tokens, Fresh(t),
         Placed(t, draft[c]), t \in Live(store')
  PROVE  /\ t \in Promise!Unused /\ Promise!Changes({t}) /\ Promise!IsPlaylist(Lists'[t])
         /\ Promise!Cardinality(DOMAIN Lists') <= MaxQueues
<1>1. DOMAIN Lists = Live(store) /\ DOMAIN Lists' = Live(store')
  BY DEF Lists
<1>2. t \in Promise!Unused
  BY <1>1 DEF Fresh, Promise!Unused, Promise!Named, Promise!Range, Range, Lists
<1>3. Promise!Changes({t})
  <2>1. Live(store') \ Live(store) = {t}
    BY DEF Fresh, Placed
  <2>2. \A u \in Live(store') \cap Live(store) : store'.queues[u] = store.queues[u]
    BY DEF Fresh, Placed
  <2> QED BY <2>1, <2>2, ListsChange DEF PInv
<1>4. Promise!IsPlaylist(Lists'[t])
  <2>1. Lists'[t] = Played(t)'
    BY DEF Lists
  <2> QED BY <2>1 DEF AllPlaylists
<1>5. Promise!Cardinality(Live(store')) = Cardinality(Live(store'))
  BY DEF Promise!Cardinality, Cardinality
<1> QED BY <1>1, <1>2, <1>3, <1>4, <1>5 DEF AInv, WithinLimits

LEMMA QueueStepPromised ==
  ASSUME PInv, PInv', AInv', AllPlaylists', Asking, [Next]_vars
  PROVE  [Promise!Next]_Promise!vars
<1>0. QInv /\ QInv' /\ DOMAIN Lists = Live(store) /\ DOMAIN Lists' = Live(store')
  BY DEF PInv, Lists
<1>1. ASSUME NEW c \in Requests, NEW o \in Ops, NEW t \in Tokens \cup {NoToken},
             AcquireAtOnce(c, o, t) \/ AcquireWaits(c, o, t)
      PROVE  Promise!Next
  <2>1. /\ Starts(c, o, t) /\ Names(o, t) /\ UNCHANGED store /\ op[c] = "none"
    BY <1>1 DEF AcquireAtOnce, AcquireWaits, Starts, Asking
  <2>2. \E what \in {"create", "extend"} : Promise!Ask(c, what, t)
    BY <1>0, <2>1, AskedFor DEF Names
  <2> QED BY <2>2 DEF Promise!Next
<1>2. ASSUME NEW c \in Requests, NEW t \in Tokens, NEW path, SelectReads(c, t, path)
      PROVE  Promise!Next
  <2>1. /\ Starts(c, "select", t) /\ t \in Live(store) /\ UNCHANGED store /\ op[c] = "none"
    BY <1>2 DEF SelectReads, Starts, Asking
  <2>2. \E what \in {"create", "extend"} : Promise!Ask(c, what, t)
    BY <1>0, <2>1, AskedFor DEF Ops
  <2> QED BY <2>2 DEF Promise!Next
<1>3. ASSUME NEW c \in Requests, NEW t \in Tokens, NEW expired \in SUBSET Live(store),
             CreateCommits(c, t, expired)
      PROVE  Promise!Created(c, t)
  <2>1. /\ op[c] = "create" /\ Fresh(t) /\ Ends(c)
        /\ target[c] \in Live(store) \cup {NoToken}
    BY <1>3 DEF CreateCommits, Releases
  <2>2. Placed(t, draft[c]) /\ t \in Live(store') /\ target[c] \notin Live(store')
    BY <1>0, <1>3, CreationShares
  <2>3. /\ t \in Promise!Unused /\ Promise!Changes({t}) /\ Promise!IsPlaylist(Lists'[t])
        /\ Promise!Cardinality(DOMAIN Lists') <= MaxQueues
    BY <2>1, <2>2, PlaylistAppears
  <2>4. Promise!Answered(c)
    BY <1>0, <2>1, AnswersAsked
  <2> QED BY <1>0, <2>1, <2>2, <2>3, <2>4 DEF Promise!Created, Promise!Named, Lists, Asked
<1>4. ASSUME NEW c \in Requests, NEW t \in Tokens, PrependCommits(c, t) \/ SelectCommits(c, t)
      PROVE  Promise!Extended(c, t)
  <2> DEFINE old == target[c]
  <2>1. /\ Replaces(c, t) /\ op[c] \in {"select", "prepend"} /\ pc[c] = "commit" /\ Fresh(t)
        /\ old \in Live(store) /\ Ends(c)
    BY <1>4 DEF PrependCommits, SelectCommits, Releases, Replaces, StillThere
  <2>2. Placed(t, draft[c]) /\ t \in Live(store') /\ old \notin Live(store')
    BY <1>0, <2>1, ReplacementShares
  <2>3. /\ t \in Promise!Unused /\ Promise!Changes({t}) /\ Promise!IsPlaylist(Lists'[t])
        /\ Promise!Cardinality(DOMAIN Lists') <= MaxQueues
    BY <2>1, <2>2, PlaylistAppears
  <2>4. Promise!Answered(c)
    BY <1>0, <2>1, AnswersAsked
  <2>5. Promise!Extends(Lists'[t], Lists[old])
    <3> DEFINE q == draft[c]
               b == store.queues[old]
    <3>1. InFrontOf(q, b) /\ q.gen = b.gen /\ IsQueue(q) /\ store.index[q.gen] \in {NoIndex, q.built}
      BY <1>0, <2>1, DraftKnown DEF PInv, InHand, QInv, InWork
    <3>2. IsQueue(b) /\ b.built = store.index[b.gen]
      BY <1>0, <2>1 DEF QInv, Sharing
    <3>3. b.built # NoIndex
      BY <3>2, NoIndexIsNone DEF IsQueue
    <3>4. store'.queues[t] = q /\ store'.index[q.gen] = q.built
      BY <1>0, <2>2 DEF Placed, QInv, Sharing
    <3>5. /\ Lists'[t] = [from |-> q.built, first |-> q.prefix, rest |-> q.order]
          /\ Lists[old] = [from |-> b.built, first |-> b.prefix, rest |-> b.order]
      BY <2>1, <2>2, <3>2, <3>4 DEF Lists, Played
    <3>6. q.built = b.built
      BY <3>1, <3>2, <3>3
    <3> HIDE DEF q, b
    <3>7. /\ Lists'[t].from = Lists[old].from
          /\ Lists'[t].rest = q.order /\ Lists[old].rest = b.order
          /\ Lists'[t].first = q.prefix /\ Lists[old].first = b.prefix
      BY <3>5, <3>6
    <3>8. q.order \subseteq b.order /\ b.order \cup Range(b.prefix) \subseteq q.order \cup Range(q.prefix)
      BY <3>1 DEF InFrontOf, Tracks
    <3>9. Promise!Range(q.prefix) = Range(q.prefix) /\ Promise!Range(b.prefix) = Range(b.prefix)
      BY DEF Promise!Range, Range
    <3> QED BY <3>7, <3>8, <3>9 DEF Promise!Extends
  <2> QED BY <1>0, <2>1, <2>2, <2>3, <2>4, <2>5 DEF Promise!Extended, Promise!Named, Lists, Asked
<1>5. ASSUME NEW c \in Requests, UNCHANGED store, Ends(c), op[c] # "none"
      PROVE  Promise!Refused(c)
  <2>1. Promise!Answered(c)
    BY <1>0, <1>5, AnswersAsked
  <2>2. Lists' = Lists
    BY <1>5 DEF Lists, Played, Live
  <2>3. Promise!Changes({})
    BY <1>0, <1>5, ListsChange
  <2>4. Asked[c] # "none"
    BY <1>5 DEF Asked
  <2> QED BY <2>1, <2>2, <2>3, <2>4 DEF Promise!Refused, Lists, Asked
<1>6. ASSUME NEW c \in Requests, NEW expired \in SUBSET Live(store), CreateNotFound(c, expired)
      PROVE  Promise!Refused(c)
  <2>1. Ends(c) /\ op[c] = "create" /\ store' = Without(store, expired)
    BY <1>6 DEF CreateNotFound, Releases
  <2>2. \A u \in Live(store') : u \in Live(store) /\ store'.queues[u] = store.queues[u]
    BY <1>0, <2>1, Removal
  <2>3. Promise!Changes({})
    BY <1>0, <2>2, ListsChange
  <2>4. Promise!Answered(c)
    BY <1>0, <2>1, AnswersAsked
  <2> QED BY <2>1, <2>3, <2>4 DEF Promise!Refused, Asked
<1>7. ASSUME NEW t \in Tokens, Drop(t)
      PROVE  Promise!Lose
  <2>1. store' = Without(store, {t}) /\ {t} \subseteq Live(store) /\ UNCHANGED <<op, target>>
    BY <1>7 DEF Drop
  <2>2. \A u \in Live(store') : u \in Live(store) /\ store'.queues[u] = store.queues[u]
    BY <1>0, <2>1, Removal
  <2>3. Promise!Changes({})
    BY <1>0, <2>2, ListsChange
  <2>4. Asked' = Asked
    BY <2>1 DEF Asked
  <2> QED BY <2>1, <2>3, <2>4 DEF Promise!Lose, Asked
<1>8. ASSUME NEW c \in Requests, AcquireFails(c) \/ BuildFails(c) \/ SelectFails(c)
      PROVE  Promise!Refused(c)
  <2>1. UNCHANGED store /\ Ends(c) /\ pc[c] # "idle"
    BY <1>8 DEF AcquireFails, BuildFails, SelectFails, Releases
  <2> QED BY <1>5, <2>1 DEF Asking
<1>9. ASSUME NEW c \in Requests, AcquireSlot(c)
      PROVE  UNCHANGED Promise!vars
  BY <1>9, NothingPromised DEF AcquireSlot
<1>10. ASSUME NEW c \in Requests, NEW candidates, NEW pin, CreateBuilds(c, candidates, pin)
       PROVE  UNCHANGED Promise!vars
  BY <1>10, NothingPromised DEF CreateBuilds
<1>11. ASSUME NEW c \in Requests, NEW entries, PrependReads(c, entries)
       PROVE  UNCHANGED Promise!vars
  BY <1>11, NothingPromised DEF PrependReads
<1>12. CASE Rescans \/ UNCHANGED vars
  BY <1>12, NothingPromised DEF Rescans, queueVars, vars
<1>13. ASSUME NEW c \in Requests, GateStep(c)
       PROVE  [Promise!Next]_Promise!vars
  BY <1>1, <1>8, <1>9, <1>13 DEF GateStep, Promise!Next
<1>14. ASSUME NEW c \in Requests, CreateStep(c)
       PROVE  [Promise!Next]_Promise!vars
  BY <1>3, <1>6, <1>8, <1>10, <1>14 DEF CreateStep, Promise!Next
<1>15. ASSUME NEW c \in Requests, ReplaceStep(c)
       PROVE  [Promise!Next]_Promise!vars
  BY <1>2, <1>4, <1>8, <1>11, <1>15 DEF ReplaceStep, Promise!Next
<1>16. (\E t \in Tokens : Drop(t)) => Promise!Next
  BY <1>7 DEF Promise!Next
<1> QED BY <1>12, <1>13, <1>14, <1>15, <1>16 DEF Next

(* What a client plays under a token stays as it is until it is taken away, *)
(* no token is ever used for a second playlist that a request still means,  *)
(* and a request that replaces a playlist puts its tracks in front of it:   *)
(* for any library, limits and requests, the queues implement Playlists.    *)
THEOREM PlaylistsImplemented == Spec => ImplementsPlaylists
<1>1. Init => Promise!Init /\ Asking
  <2> SUFFICES ASSUME Init PROVE Promise!Init /\ Asking
    OBVIOUS
  <2>1. Live(store) = {} /\ Asking
    BY DEF Init, Live, Asking
  <2>2. Lists = <<>>
    BY <2>1 DEF Lists
  <2>3. Asked = [c \in Requests |-> "none"]
    BY DEF Init, Asked
  <2> QED BY <2>1, <2>2, <2>3 DEF Init, Promise!Init, Lists, Asked
<1>2. QInv /\ Asking /\ [Next]_vars => Asking'
  BY AskingStep
<1>3. PInv => QInv
  BY DEF PInv
<1> QED BY <1>1, <1>2, <1>3, InitAccounts, AccountStep, PermutationInvariant, PlayedArePlaylists, QueueStepPromised, PTL
        DEF Spec, ImplementsPlaylists, Promise!Spec
=============================================================================
