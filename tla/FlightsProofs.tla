---------------------------- MODULE FlightsProofs ----------------------------
(***************************************************************************)
(* Proofs about Flights, for any finite set of callers and any keys, works *)
(* and answers.  The invariant says what the counter of waiters and the    *)
(* map are for: a running flight is in the map exactly while it is wanted, *)
(* and its counter is the number of callers that wait on it.               *)
(***************************************************************************)
EXTENDS Flights, FiniteSetTheorems, TLAPS

(* What an instance of Flights has to provide.                              *)
Parameters ==
  /\ IsFiniteSet(Callers)
  /\ New \in Works

Counted ==
  \A f \in Ids :
    /\ Running(f) => /\ flight[f].waiters = Cardinality(Waiting(f))
                     /\ f \in mapped <=> ~flight[f].abandoned
                     /\ flight[f].abandoned <=> Waiting(f) = {}
    /\ f \in mapped => Running(f)
    /\ flight[f].state = "unused" => Waiting(f) = {}

OneMapped == \A f, g \in mapped : flight[f].key = flight[g].key => f = g

FInv == TypeOK /\ Counted /\ OneMapped

-----------------------------------------------------------------------------
LEMMA WaitingFinite ==
  ASSUME Parameters, NEW f
  PROVE  IsFiniteSet(Waiting(f)) /\ Cardinality(Waiting(f)) \in Nat
BY FS_Subset, FS_CardinalityType DEF Parameters, Waiting

LEMMA UnusedType == Parameters => Unused \in Records
BY DEF Parameters, Unused, Records, States

(* One caller more, one caller less.                                        *)
LEMMA Joined ==
  ASSUME Parameters, TypeOK, NEW c \in Callers, NEW f \in Ids, at[c] = 0,
         at' = [at EXCEPT ![c] = f]
  PROVE  /\ Waiting(f)' = Waiting(f) \cup {c}
         /\ Cardinality(Waiting(f)') = Cardinality(Waiting(f)) + 1
         /\ \A g \in Ids \ {f} : Waiting(g)' = Waiting(g)
<1>1. Waiting(f)' = Waiting(f) \cup {c} /\ c \notin Waiting(f)
  BY DEF Waiting, TypeOK, Ids
<1>2. \A g \in Ids \ {f} : Waiting(g)' = Waiting(g)
  BY DEF Waiting, TypeOK, Ids
<1> QED  BY <1>1, <1>2, WaitingFinite, FS_AddElement

LEMMA Gone ==
  ASSUME Parameters, TypeOK, NEW c \in Callers, NEW f \in Ids, at[c] = f,
         at' = [at EXCEPT ![c] = 0]
  PROVE  /\ Waiting(f)' = Waiting(f) \ {c}
         /\ Waiting(f) # {}
         /\ Cardinality(Waiting(f)) \in Nat \ {0}
         /\ Cardinality(Waiting(f)') = Cardinality(Waiting(f)) - 1
         /\ Waiting(f)' = {} <=> Cardinality(Waiting(f)) = 1
         /\ \A g \in Ids \ {f} : Waiting(g)' = Waiting(g)
<1>1. c \in Waiting(f)
  BY DEF Waiting, TypeOK
<1>2. Waiting(f)' = Waiting(f) \ {c}
  BY DEF Waiting, TypeOK, Ids
<1>3. \A g \in Ids \ {f} : Waiting(g)' = Waiting(g)
  BY DEF Waiting, TypeOK, Ids
<1>4. Cardinality(Waiting(f)) # 0
  BY <1>1, WaitingFinite, FS_EmptySet
<1>5. Cardinality(Waiting(f) \ {c}) = Cardinality(Waiting(f)) - 1
  BY <1>1, WaitingFinite, FS_RemoveElement
<1>6. Waiting(f) \ {c} = {} <=> Cardinality(Waiting(f) \ {c}) = 0
  BY WaitingFinite, FS_EmptySet, FS_RemoveElement
<1> QED  BY <1>1, <1>2, <1>3, <1>4, <1>5, <1>6, WaitingFinite

-----------------------------------------------------------------------------
LEMMA FInit == Parameters /\ Init => FInv
<1> SUFFICES ASSUME Parameters, Init PROVE FInv  OBVIOUS
<1>1. TypeOK
  BY UnusedType DEF Init, TypeOK
<1>2. \A f \in Ids : flight[f].state = "unused" /\ Waiting(f) = {}
  BY DEF Init, Unused, Waiting, Ids
<1>3. Counted /\ OneMapped
  BY <1>2 DEF Counted, OneMapped, Running, Init
<1> QED  BY <1>1, <1>3 DEF FInv

LEMMA JoinKeeps ==
  ASSUME Parameters, FInv, NEW c \in Callers, NEW k \in Keys, JoinFlight(c, k)
  PROVE  FInv'
<1>1. PICK f \in Current(k) : /\ flight' = [flight EXCEPT ![f].waiters = @ + 1]
                              /\ at' = [at EXCEPT ![c] = f]
  BY DEF JoinFlight
<1>2. f \in Ids /\ f \in mapped /\ mapped' = mapped /\ Running(f)
  BY DEF JoinFlight, Current, FInv, TypeOK, Counted
<1>3. /\ Waiting(f)' = Waiting(f) \cup {c}
      /\ Cardinality(Waiting(f)') = Cardinality(Waiting(f)) + 1
      /\ \A g \in Ids \ {f} : Waiting(g)' = Waiting(g)
  BY <1>1, <1>2, Joined DEF FInv, JoinFlight
<1>4. TypeOK'
  BY <1>1, <1>2 DEF FInv, TypeOK, Records
<1>5. Counted'
  <2> SUFFICES ASSUME NEW g \in Ids
               PROVE  /\ Running(g)' => /\ flight'[g].waiters = Cardinality(Waiting(g)')
                                        /\ g \in mapped' <=> ~flight'[g].abandoned
                                        /\ flight'[g].abandoned <=> Waiting(g)' = {}
                      /\ g \in mapped' => Running(g)'
                      /\ flight'[g].state = "unused" => Waiting(g)' = {}
    BY DEF Counted, Ids
  <2>1. CASE g = f
    BY <1>1, <1>2, <1>3, <2>1 DEF FInv, Counted, Running, TypeOK, Records
  <2>2. CASE g # f
    BY <1>1, <1>2, <1>3, <2>2 DEF FInv, Counted, Running, TypeOK
  <2> QED  BY <2>1, <2>2
<1>6. OneMapped'
  BY <1>1, <1>2 DEF FInv, OneMapped, TypeOK
<1> QED  BY <1>4, <1>5, <1>6 DEF FInv

LEMMA NewKeeps ==
  ASSUME Parameters, FInv, NEW c \in Callers, NEW k \in Keys, NewFlight(c, k)
  PROVE  FInv'
<1>1. PICK f \in Ids : /\ flight[f] = Unused
                       /\ flight' = [flight EXCEPT ![f] = [Unused EXCEPT !.state = "running",
                                                             !.key = k, !.waiters = 1]]
                       /\ mapped' = mapped \cup {f}
                       /\ at' = [at EXCEPT ![c] = f]
  BY DEF NewFlight
<1>2. /\ flight'[f].state = "running" /\ flight'[f].key = k /\ flight'[f].waiters = 1
      /\ flight'[f].abandoned = FALSE /\ flight'[f] \in Records
  BY <1>1, UnusedType DEF FInv, TypeOK, Unused, Records, States
<1>3. \A g \in Ids \ {f} : flight'[g] = flight[g]
  BY <1>1 DEF FInv, TypeOK
<1>4. flight[f].state = "unused" /\ Waiting(f) = {}
  BY <1>1 DEF Unused, FInv, Counted
<1>5. f \notin mapped
  BY <1>4 DEF FInv, Counted, Running
<1>6. /\ Waiting(f)' = {c}
      /\ Cardinality(Waiting(f)') = 1
      /\ \A g \in Ids \ {f} : Waiting(g)' = Waiting(g)
  <2>1. at[c] = 0 /\ TypeOK
    BY DEF NewFlight, FInv
  <2>2. /\ Waiting(f)' = Waiting(f) \cup {c}
        /\ \A g \in Ids \ {f} : Waiting(g)' = Waiting(g)
    BY <1>1, <2>1, Joined
  <2>3. Waiting(f) \cup {c} = {c}
    BY <1>4
  <2>4. Cardinality({c}) = 1
    BY FS_Singleton
  <2> QED  BY <2>2, <2>3, <2>4
<1>7. TypeOK'
  BY <1>1, <1>2, <1>3 DEF FInv, TypeOK
<1>8. Counted'
  <2> SUFFICES ASSUME NEW g \in Ids
               PROVE  /\ Running(g)' => /\ flight'[g].waiters = Cardinality(Waiting(g)')
                                        /\ g \in mapped' <=> ~flight'[g].abandoned
                                        /\ flight'[g].abandoned <=> Waiting(g)' = {}
                      /\ g \in mapped' => Running(g)'
                      /\ flight'[g].state = "unused" => Waiting(g)' = {}
    BY DEF Counted, Ids
  <2>1. CASE g = f
    BY <1>1, <1>2, <1>6, <2>1 DEF Running
  <2>2. CASE g # f
    BY <1>1, <1>3, <1>6, <2>2 DEF FInv, Counted, Running
  <2> QED  BY <2>1, <2>2
<1>9. OneMapped'
  <2>1. \A g \in mapped : flight[g].key # k
    BY DEF NewFlight, Current
  <2> QED  BY <1>1, <1>2, <1>3, <1>5, <2>1 DEF FInv, OneMapped, TypeOK
<1> QED  BY <1>7, <1>8, <1>9 DEF FInv

LEMMA ProgressKeeps ==
  ASSUME Parameters, FInv, NEW f \in Ids, NEW w \in Works, Progress(f, w)
  PROVE  FInv'
<1>1. /\ flight' = [flight EXCEPT ![f].work = w] /\ mapped' = mapped /\ at' = at
      /\ \A g : Waiting(g)' = Waiting(g)
  BY DEF Progress, Waiting
<1>2. TypeOK'
  BY <1>1 DEF FInv, TypeOK, Records
<1>3. \A g \in Ids : /\ flight'[g].state = flight[g].state
                     /\ flight'[g].key = flight[g].key
                     /\ flight'[g].waiters = flight[g].waiters
                     /\ flight'[g].abandoned = flight[g].abandoned
  BY <1>1 DEF FInv, TypeOK, Records
<1>4. Counted'
  <2> SUFFICES ASSUME NEW g \in Ids
               PROVE  /\ Running(g)' => /\ flight'[g].waiters = Cardinality(Waiting(g)')
                                        /\ g \in mapped' <=> ~flight'[g].abandoned
                                        /\ flight'[g].abandoned <=> Waiting(g)' = {}
                      /\ g \in mapped' => Running(g)'
                      /\ flight'[g].state = "unused" => Waiting(g)' = {}
    BY DEF Counted, Ids
  <2> QED  BY <1>1, <1>3 DEF FInv, Counted, Running
<1>5. OneMapped'
  BY <1>1, <1>3 DEF FInv, OneMapped, TypeOK
<1> QED  BY <1>2, <1>4, <1>5 DEF FInv

(* A slot that is collected, or landed, is neither running nor mapped; the  *)
(* other slots are as they were.                                            *)
LEMMA OthersKeep ==
  ASSUME Parameters, FInv, NEW f \in Ids, flight' \in [Ids -> Records],
         at' \in [Callers -> Ids \cup {0}], mapped' = mapped \ {f},
         \A g \in Ids \ {f} : flight'[g] = flight[g] /\ Waiting(g)' = Waiting(g),
         flight'[f].state # "running",
         flight'[f].state = "unused" => Waiting(f)' = {}
  PROVE  FInv'
<1>1. TypeOK'
  BY DEF FInv, TypeOK
<1>2. Counted'
  <2> SUFFICES ASSUME NEW g \in Ids
               PROVE  /\ Running(g)' => /\ flight'[g].waiters = Cardinality(Waiting(g)')
                                        /\ g \in mapped' <=> ~flight'[g].abandoned
                                        /\ flight'[g].abandoned <=> Waiting(g)' = {}
                      /\ g \in mapped' => Running(g)'
                      /\ flight'[g].state = "unused" => Waiting(g)' = {}
    BY DEF Counted, Ids
  <2>1. CASE g = f
    BY <2>1 DEF Running
  <2>2. CASE g # f
    BY <2>2 DEF FInv, Counted, Running
  <2> QED  BY <2>1, <2>2
<1>3. OneMapped'
  BY DEF FInv, OneMapped, TypeOK
<1> QED  BY <1>1, <1>2, <1>3 DEF FInv

(* A caller that turns away from a flight that has landed.                  *)
LEMMA LandedGone ==
  ASSUME Parameters, FInv, NEW c \in Callers, NEW f \in Ids, at[c] = f,
         at' = [at EXCEPT ![c] = 0], mapped' = mapped, flight[f].state = "landed",
         flight' = Collected(flight, f, Waiting(f) \ {c})
  PROVE  FInv'
<1>1. /\ Waiting(f)' = Waiting(f) \ {c}
      /\ \A g \in Ids \ {f} : Waiting(g)' = Waiting(g)
  BY Gone DEF FInv
<1>2. f \notin mapped
  BY DEF FInv, Counted, Running
<1>3. /\ flight' \in [Ids -> Records]
      /\ \A g \in Ids \ {f} : flight'[g] = flight[g]
      /\ flight'[f] = IF Waiting(f) \ {c} = {} THEN Unused ELSE flight[f]
  BY UnusedType DEF FInv, TypeOK, Collected
<1>4. at' \in [Callers -> Ids \cup {0}]
  BY DEF FInv, TypeOK
<1>5. /\ flight'[f].state # "running"
      /\ flight'[f].state = "unused" => Waiting(f)' = {}
  BY <1>1, <1>3 DEF Unused
<1>6. \A g \in Ids \ {f} : flight'[g] = flight[g] /\ Waiting(g)' = Waiting(g)
  BY <1>1, <1>3
<1>7. mapped' = mapped \ {f}
  BY <1>2
<1> QED  BY <1>3, <1>4, <1>5, <1>6, <1>7, OthersKeep

LEMMA LeaveKeeps ==
  ASSUME Parameters, FInv, NEW c \in Callers, Leave(c)
  PROVE  FInv'
<1>1. PICK f \in Ids : at[c] = f
  BY DEF Leave, FInv, TypeOK
<1>2. Left(c, f) /\ at' = [at EXCEPT ![c] = 0]
  BY <1>1 DEF Leave
<1>3. /\ Waiting(f)' = Waiting(f) \ {c}
      /\ Waiting(f) # {}
      /\ Cardinality(Waiting(f)) \in Nat \ {0}
      /\ Cardinality(Waiting(f)') = Cardinality(Waiting(f)) - 1
      /\ Waiting(f)' = {} <=> Cardinality(Waiting(f)) = 1
      /\ \A g \in Ids \ {f} : Waiting(g)' = Waiting(g)
  BY <1>1, <1>2, Gone DEF FInv
<1>4. flight[f].state \in {"running", "landed"}
  BY <1>3 DEF FInv, Counted, TypeOK, Records, States
<1>5. CASE flight[f].state = "landed"
  BY <1>1, <1>2, <1>5, LandedGone DEF Left
<1>6. CASE flight[f].state = "running"
  <2>1. /\ flight[f].waiters = Cardinality(Waiting(f)) /\ f \in mapped
        /\ ~flight[f].abandoned
    BY <1>3, <1>6 DEF FInv, Counted, Running
  <2> DEFINE last == flight[f].waiters = 1
  <2>2. /\ flight' = [flight EXCEPT ![f].waiters = @ - 1, ![f].abandoned = last]
        /\ mapped' = IF last THEN mapped \ {f} ELSE mapped
    BY <1>2, <1>3, <1>6, <2>1 DEF Left
  <2>3. /\ flight'[f].state = "running" /\ flight'[f].key = flight[f].key
        /\ flight'[f].waiters = Cardinality(Waiting(f)')
        /\ flight'[f].abandoned = last
        /\ \A g \in Ids \ {f} : flight'[g] = flight[g] /\ (g \in mapped' <=> g \in mapped)
    BY <1>3, <1>6, <2>1, <2>2 DEF FInv, TypeOK, Records
  <2>4. TypeOK'
    <3>1. flight[f].waiters - 1 \in Nat /\ last \in BOOLEAN
      BY <1>3, <2>1
    <3>2. flight'[f] \in Records
      <4>1. flight[f] \in Records
        BY DEF FInv, TypeOK
      <4>2. flight'[f] = [flight[f] EXCEPT !.waiters = @ - 1, !.abandoned = last]
        BY <2>2 DEF FInv, TypeOK
      <4> HIDE DEF last
      <4> QED  BY <3>1, <4>1, <4>2 DEF Records
    <3>5. flight' \in [Ids -> Records]
      BY <2>2, <2>3, <3>2 DEF FInv, TypeOK
    <3>3. mapped' \subseteq Ids
      BY <2>2 DEF FInv, TypeOK
    <3>4. at' \in [Callers -> Ids \cup {0}]
      BY <1>2 DEF FInv, TypeOK
    <3> QED  BY <3>3, <3>4, <3>5 DEF TypeOK
  <2>5. Counted'
    <3> SUFFICES ASSUME NEW g \in Ids
                 PROVE  /\ Running(g)' => /\ flight'[g].waiters = Cardinality(Waiting(g)')
                                          /\ g \in mapped' <=> ~flight'[g].abandoned
                                          /\ flight'[g].abandoned <=> Waiting(g)' = {}
                        /\ g \in mapped' => Running(g)'
                        /\ flight'[g].state = "unused" => Waiting(g)' = {}
      BY DEF Counted, Ids
    <3>1. CASE g = f
      BY <1>3, <2>1, <2>2, <2>3, <3>1 DEF Running
    <3>2. CASE g # f
      BY <1>3, <2>3, <3>2 DEF FInv, Counted, Running
    <3> QED  BY <3>1, <3>2
  <2>6. OneMapped'
    <3>1. mapped' \subseteq mapped /\ \A g \in Ids : flight'[g].key = flight[g].key
      BY <2>2, <2>3
    <3> QED  BY <3>1 DEF FInv, OneMapped, TypeOK
  <2> QED  BY <2>4, <2>5, <2>6 DEF FInv
<1> QED  BY <1>4, <1>5, <1>6

LEMMA LandKeeps ==
  ASSUME Parameters, FInv, NEW f \in Ids, NEW a \in Answers, Land(f, a)
  PROVE  FInv'
<1> DEFINE fl == [flight EXCEPT ![f].state = "landed", ![f].work = a]
<1>1. /\ mapped' = mapped \ {f} /\ at' = at
      /\ flight' = Collected(fl, f, Waiting(f))
      /\ \A g : Waiting(g)' = Waiting(g)
  BY DEF Land, Unmapped, Waiting
<1>2. /\ fl \in [Ids -> Records] /\ fl[f].state = "landed"
      /\ \A g \in Ids \ {f} : fl[g] = flight[g]
  BY DEF FInv, TypeOK, Records, States
<1> HIDE DEF fl
<1>3. /\ flight' \in [Ids -> Records]
      /\ \A g \in Ids \ {f} : flight'[g] = flight[g]
      /\ flight'[f] = IF Waiting(f) = {} THEN Unused ELSE fl[f]
  BY <1>1, <1>2, UnusedType DEF Collected
<1>4. /\ flight'[f].state # "running"
      /\ flight'[f].state = "unused" => Waiting(f)' = {}
  BY <1>1, <1>2, <1>3 DEF Unused
<1>5. \A g \in Ids \ {f} : flight'[g] = flight[g] /\ Waiting(g)' = Waiting(g)
  BY <1>1, <1>3
<1>6. at' \in [Callers -> Ids \cup {0}]
  BY <1>1 DEF FInv, TypeOK
<1> QED  BY <1>1, <1>3, <1>4, <1>5, <1>6, OthersKeep

LEMMA ReceiveKeeps ==
  ASSUME Parameters, FInv, NEW c \in Callers, Receive(c)
  PROVE  FInv'
<1>1. PICK f \in Ids : at[c] = f
  BY DEF Receive, FInv, TypeOK
<1> QED  BY <1>1, LandedGone DEF Receive

LEMMA FStep == Parameters /\ FInv /\ [Next]_fvars => FInv'
<1> SUFFICES ASSUME Parameters, FInv, [Next]_fvars PROVE FInv'  OBVIOUS
<1>1. CASE UNCHANGED fvars
  <2>1. \A f : Waiting(f)' = Waiting(f) /\ Running(f)' = Running(f)
    BY <1>1 DEF fvars, Waiting, Running
  <2> QED  BY <1>1, <2>1 DEF fvars, FInv, TypeOK, Counted, OneMapped
<1>2. CASE \E c \in Callers : (\E k \in Keys : JoinFlight(c, k) \/ NewFlight(c, k)) \/ Leave(c) \/ Receive(c)
  BY <1>2, JoinKeeps, NewKeeps, LeaveKeeps, ReceiveKeeps
<1>3. CASE \E f \in Ids : (\E w \in Works : Progress(f, w)) \/ (\E a \in Answers : Land(f, a))
  BY <1>3, ProgressKeeps, LandKeeps
<1> QED  BY <1>1, <1>2, <1>3 DEF Next

-----------------------------------------------------------------------------
(* What those who build on the flights see of each step.                    *)

Same(g) == /\ flight'[g].state = flight[g].state
           /\ flight'[g].key = flight[g].key
           /\ flight'[g].work = flight[g].work

Only(f) == \A g \in Ids \ {f} : flight'[g] = flight[g]

(* A caller waits on a flight that is there, and on none that is abandoned. *)
LEMMA Referred ==
  ASSUME Parameters, FInv, NEW c \in Callers, at[c] # 0
  PROVE  /\ at[c] \in Ids
         /\ flight[at[c]].state \in {"running", "landed"}
         /\ flight[at[c]].state = "running" => ~flight[at[c]].abandoned
<1>1. at[c] \in Ids /\ c \in Waiting(at[c]) /\ flight[at[c]].state \in States
  BY DEF FInv, TypeOK, Waiting, Records
<1> QED  BY <1>1 DEF FInv, Counted, Running, States

LEMMA ReferredThen ==
  ASSUME FInv', NEW c \in Callers, at'[c] # 0
  PROVE  flight'[at'[c]].state \in {"running", "landed"}
<1>1. at'[c] \in Ids /\ c \in Waiting(at[c])' /\ flight'[at'[c]].state \in States
  BY DEF FInv, TypeOK, Waiting, Records
<1> QED  BY <1>1 DEF FInv, Counted, Running, States

LEMMA JoinShows ==
  ASSUME Parameters, FInv, NEW c \in Callers, NEW k, JoinFlight(c, k)
  PROVE  /\ at[c] = 0
         /\ \E f \in Ids : /\ flight[f].state = "running" /\ flight[f].key = k
                          /\ ~flight[f].abandoned
                          /\ at'[c] = f
         /\ \A d \in Callers \ {c} : at'[d] = at[d]
         /\ \A g \in Ids : Same(g) /\ flight'[g].abandoned = flight[g].abandoned
<1>1. PICK f \in Current(k) : /\ flight' = [flight EXCEPT ![f].waiters = @ + 1]
                              /\ at' = [at EXCEPT ![c] = f]
  BY DEF JoinFlight
<1>2. f \in Ids /\ Running(f) /\ flight[f].key = k /\ ~flight[f].abandoned
  BY DEF Current, FInv, TypeOK, Counted
<1>3. \A g \in Ids : Same(g) /\ flight'[g].abandoned = flight[g].abandoned
  BY <1>1 DEF FInv, TypeOK, Records, Same
<1>4. at'[c] = f /\ \A d \in Callers \ {c} : at'[d] = at[d]
  BY <1>1 DEF FInv, TypeOK
<1> QED  BY <1>1, <1>2, <1>3, <1>4 DEF JoinFlight, Running

LEMMA NewShows ==
  ASSUME Parameters, FInv, NEW c \in Callers, NEW k, NewFlight(c, k)
  PROVE  /\ at[c] = 0
         /\ \E f \in Ids : /\ flight[f] = Unused
                          /\ flight'[f].state = "running" /\ flight'[f].key = k
                          /\ flight'[f].work = New /\ ~flight'[f].abandoned
                          /\ Only(f)
                          /\ at'[c] = f
         /\ \A d \in Callers \ {c} : at'[d] = at[d]
<1>1. PICK f \in Ids : /\ flight[f] = Unused
                       /\ flight' = [flight EXCEPT ![f] = [Unused EXCEPT !.state = "running",
                                                             !.key = k, !.waiters = 1]]
                       /\ at' = [at EXCEPT ![c] = f]
  BY DEF NewFlight
<1>2. /\ flight'[f] = [Unused EXCEPT !.state = "running", !.key = k, !.waiters = 1]
      /\ \A g \in Ids \ {f} : flight'[g] = flight[g]
  BY <1>1 DEF FInv, TypeOK
<1>3. /\ flight'[f].state = "running" /\ flight'[f].key = k
      /\ flight'[f].work = New /\ ~flight'[f].abandoned
  BY <1>2 DEF Unused
<1>4. at'[c] = f /\ \A d \in Callers \ {c} : at'[d] = at[d]
  BY <1>1 DEF FInv, TypeOK
<1> QED  BY <1>1, <1>2, <1>3, <1>4 DEF NewFlight, Only

(* To leave and to receive: at most the slot of a flight that has landed is *)
(* given back.                                                              *)
LEMMA GoneShows ==
  ASSUME Parameters, FInv, NEW c \in Callers, Leave(c) \/ Receive(c)
  PROVE  /\ at[c] # 0
         /\ at'[c] = 0
         /\ \A d \in Callers \ {c} : at'[d] = at[d]
         /\ \A g \in Ids : \/ /\ Same(g)
                              /\ flight[g].abandoned => flight'[g].abandoned
                              /\ flight'[g].abandoned =>
                                   flight[g].abandoned \/ flight[g].state = "running"
                           \/ flight[g].state = "landed" /\ flight'[g] = Unused
<1>1. at[c] # 0 /\ at[c] \in Ids /\ at' = [at EXCEPT ![c] = 0]
  BY DEF Leave, Receive, FInv, TypeOK
<1>4. at'[c] = 0 /\ \A d \in Callers \ {c} : at'[d] = at[d]
  BY <1>1 DEF FInv, TypeOK
<1> DEFINE f == at[c]
<1>2. CASE flight' = Collected(flight, f, Waiting(f) \ {c})
  BY <1>1, <1>2, <1>4 DEF Collected, Same, FInv, TypeOK
<1>3. CASE /\ flight[f].state # "landed"
           /\ flight' = [flight EXCEPT ![f].waiters = @ - 1,
                                      ![f].abandoned = flight[f].waiters = 1]
  <2>1. flight[f].state = "running" /\ ~flight[f].abandoned
    BY <1>1, <1>3, Referred
  <2>2. \A g \in Ids : Same(g) /\ (g # f => flight'[g] = flight[g])
    BY <1>1, <1>3 DEF Same, FInv, TypeOK, Records
  <2> QED  BY <1>1, <1>3, <1>4, <2>1, <2>2
<1> QED  BY <1>1, <1>2, <1>3, <1>4 DEF Leave, Receive, Left

LEMMA ProgressShows ==
  ASSUME Parameters, FInv, NEW f \in Ids, NEW w, Progress(f, w)
  PROVE  /\ flight[f].state = "running"
         /\ flight'[f].state = "running" /\ flight'[f].key = flight[f].key
         /\ flight'[f].work = w /\ flight'[f].abandoned = flight[f].abandoned
         /\ \A g \in Ids \ {f} : flight'[g] = flight[g]
         /\ at' = at
BY DEF Progress, Running, FInv, TypeOK, Records

LEMMA LandShows ==
  ASSUME Parameters, FInv, NEW f \in Ids, NEW a, Land(f, a)
  PROVE  /\ flight[f].state = "running"
         /\ \/ flight'[f] = Unused
            \/ /\ flight'[f].state = "landed" /\ flight'[f].key = flight[f].key
               /\ flight'[f].work = a /\ ~flight[f].abandoned /\ ~flight'[f].abandoned
         /\ \A g \in Ids \ {f} : flight'[g] = flight[g]
         /\ at' = at
<1> DEFINE fl == [flight EXCEPT ![f].state = "landed", ![f].work = a]
<1>1. /\ flight[f].state = "running" /\ at' = at
      /\ flight' = Collected(fl, f, Waiting(f))
  BY DEF Land, Running
<1>2. /\ fl[f].state = "landed" /\ fl[f].key = flight[f].key /\ fl[f].work = a
      /\ fl[f].abandoned = flight[f].abandoned
      /\ \A g \in Ids \ {f} : fl[g] = flight[g]
      /\ DOMAIN fl = Ids
  BY DEF FInv, TypeOK, Records
<1>3. Waiting(f) # {} => ~flight[f].abandoned
  BY <1>1 DEF FInv, Counted, Running
<1> HIDE DEF fl
<1> QED  BY <1>1, <1>2, <1>3 DEF Collected

-----------------------------------------------------------------------------
(* Whatever callers join, leave and are answered: the counters of waiters   *)
(* are exact, a running flight is in the map exactly while somebody wants   *)
(* it, and the map has one flight of a key at most.                         *)
THEOREM FlightsInvariant == ASSUME Parameters PROVE Spec => []FInv
BY FInit, FStep, PTL DEF Spec

(* Two flights of one key are never both wanted by somebody: the group does *)
(* each piece of work once.                                                 *)
THEOREM WorkIsShared == ASSUME Parameters PROVE Spec => []OneFlightPerKey
<1>1. FInv => OneFlightPerKey
  BY DEF FInv, Counted, OneMapped, OneFlightPerKey
<1> QED  BY <1>1, FlightsInvariant, PTL

(* A running flight is cancelled exactly when nobody waits on it any more.  *)
THEOREM CancelledWhenUnwanted == ASSUME Parameters PROVE Spec => []CancelledIffUnwanted
<1>1. FInv => CancelledIffUnwanted
  BY DEF FInv, Counted, CancelledIffUnwanted
<1> QED  BY <1>1, FlightsInvariant, PTL
=============================================================================
