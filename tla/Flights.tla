------------------------------ MODULE Flights ------------------------------
(***************************************************************************)
(* The shared-work group that stream/metadata.go uses for ffprobe and      *)
(* cover/loader.go uses twice more, for descriptors and for rendering:     *)
(* concurrent callers that want the same key wait for one flight, a caller *)
(* whose own context ends leaves it, and the last one to leave abandons    *)
(* it, which takes it out of the map and cancels its context.  A flight    *)
(* goes on after that until its work notices, so that several flights of   *)
(* one key can be in the air.                                              *)
(*                                                                         *)
(* A flight that has landed is read without the mutex by the callers that  *)
(* wait on it; when the last of them is gone nothing refers to it and its  *)
(* slot is unused again.                                                   *)
(***************************************************************************)
EXTENDS Integers, FiniteSets

CONSTANTS
  Callers,     \* what can wait on a flight
  MaxFlights,  \* bound: flights that exist at a time
  Keys,        \* what callers may want
  NoKey,       \* the key of an unused slot
  Works,       \* how far the work of a flight can be; one of them is New
  New,         \* what runs in a flight before its first step
  Answers      \* what the work can end in

VARIABLES
  flight,      \* flight[f]: the record of slot f
  mapped,      \* the slots the map of running calls refers to
  at           \* at[c]: the slot c waits on, or 0

Ids == 1..MaxFlights

States == {"unused", "running", "landed"}

Unused == [state |-> "unused", key |-> NoKey, waiters |-> 0, abandoned |-> FALSE, work |-> New]

Records == [state : States, key : Keys \cup {NoKey}, waiters : Nat, abandoned : BOOLEAN,
            work : Works \cup Answers]

TypeOK ==
  /\ flight \in [Ids -> Records]
  /\ mapped \subseteq Ids
  /\ at \in [Callers -> Ids \cup {0}]

Init ==
  /\ flight = [f \in Ids |-> Unused]
  /\ mapped = {}
  /\ at = [c \in Callers |-> 0]

(* flights[key]: at most one slot. *)
Current(k) == {f \in mapped : flight[f].key = k}

Waiting(f) == {c \in Callers : at[c] = f}

Running(f) == flight[f].state = "running"

(* A slot that nobody can refer to any more is unused. *)
Collected(fl, f, waiting) ==
  IF fl[f].state = "landed" /\ waiting = {} THEN [fl EXCEPT ![f] = Unused] ELSE fl

(* The map has a flight of that key: one more waiter. *)
JoinFlight(c, k) ==
  /\ at[c] = 0
  /\ \E f \in Current(k) :
       /\ flight' = [flight EXCEPT ![f].waiters = @ + 1]
       /\ at' = [at EXCEPT ![c] = f]
  /\ UNCHANGED mapped

(* It has none: a flight with one waiter, and the goroutine that runs it. *)
NewFlight(c, k) ==
  /\ at[c] = 0
  /\ Current(k) = {}
  /\ \E f \in Ids :
       /\ flight[f] = Unused
       /\ \A g \in 1..f - 1 : flight[g] # Unused
       /\ flight' = [flight EXCEPT ![f] = [Unused EXCEPT !.state = "running", !.key = k,
                                                         !.waiters = 1]]
       /\ mapped' = mapped \cup {f}
       /\ at' = [at EXCEPT ![c] = f]

(* The work makes a step that the callers do not see. *)
Progress(f, w) ==
  /\ Running(f)
  /\ flight' = [flight EXCEPT ![f].work = w]
  /\ UNCHANGED <<mapped, at>>

(* Mutation: the first to leave ends the work of all. *)
LeftAtOnce(c, f) ==
  IF flight[f].state = "landed" \/ flight[f].waiters <= 0
  THEN /\ flight' = Collected(flight, f, Waiting(f) \ {c})
       /\ UNCHANGED mapped
  ELSE /\ flight' = [flight EXCEPT ![f].waiters = @ - 1, ![f].abandoned = TRUE]
       /\ mapped' = mapped \ {f}

(* What leaving does to the flight and to the map.  The flight is out of   *)
(* the map as soon as nobody wants it.                                     *)
Left(c, f) ==
  IF flight[f].state = "landed" \/ flight[f].waiters <= 0
  THEN /\ flight' = Collected(flight, f, Waiting(f) \ {c})
       /\ UNCHANGED mapped
  ELSE LET last == flight[f].waiters = 1
       IN /\ flight' = [flight EXCEPT ![f].waiters = @ - 1, ![f].abandoned = last]
          /\ mapped' = IF last THEN mapped \ {f} ELSE mapped

(* The caller's own context has ended.                                     *)
Leave(c) ==
  /\ at[c] # 0
  /\ Left(c, at[c])
  /\ at' = [at EXCEPT ![c] = 0]

(* Mutation: the entry of the key goes, whichever flight it refers to. *)
UnmappedByKey(f) == mapped \ Current(flight[f].key)

(* What landing takes out of the map: this flight, not another of its key. *)
Unmapped(f) == mapped \ {f}

(* The work ends: the answer is stored, the flight leaves the map if it is *)
(* still the one there, and every waiter is woken.                         *)
Land(f, a) ==
  /\ Running(f)
  /\ mapped' = Unmapped(f)
  /\ flight' = Collected([flight EXCEPT ![f].state = "landed", ![f].work = a], f, Waiting(f))
  /\ UNCHANGED at

(* A waiter reads the answer of a landed flight. *)
Receive(c) ==
  /\ at[c] # 0
  /\ flight[at[c]].state = "landed"
  /\ flight' = Collected(flight, at[c], Waiting(at[c]) \ {c})
  /\ at' = [at EXCEPT ![c] = 0]
  /\ UNCHANGED mapped

AnswerFor(c) == flight[at[c]].work

Next ==
  \/ \E c \in Callers : \/ \E k \in Keys : JoinFlight(c, k) \/ NewFlight(c, k)
                        \/ Leave(c)
                        \/ Receive(c)
  \/ \E f \in Ids : \/ \E w \in Works : Progress(f, w)
                    \/ \E a \in Answers : Land(f, a)

fvars == <<flight, mapped, at>>

Spec == Init /\ [][Next]_fvars

-----------------------------------------------------------------------------
(* One piece of work per key: two flights of one key are never both wanted *)
(* by somebody.                                                            *)
OneFlightPerKey ==
  \A f, g \in Ids :
    Running(f) /\ Running(g) /\ ~flight[f].abandoned /\ ~flight[g].abandoned
      /\ flight[f].key = flight[g].key => f = g

(* Nobody waits on a flight whose context has been cancelled, and a flight *)
(* that nobody waits on has been cancelled: leaving neither takes the work *)
(* from another caller nor leaves it running for nobody.                   *)
CancelledIffUnwanted ==
  \A f \in Ids : Running(f) => (flight[f].abandoned <=> Waiting(f) = {})
=============================================================================
