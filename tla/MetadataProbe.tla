--------------------------- MODULE MetadataProbe ---------------------------
(***************************************************************************)
(* stream/metadata.go: what ffprobe says of a file, shared by the metadata *)
(* endpoint and by the cover loader.  A caller identifies the file by its  *)
(* path, size and mtime, read with stat before the mutex is taken; answers *)
(* are cached under that identity, and callers of one identity share one   *)
(* ffprobe flight.  ffprobe opens the path itself, later, when the file    *)
(* may have changed.                                                       *)
(*                                                                         *)
(* An identity is a path and the number of the file's version.             *)
(*                                                                         *)
(* Manager.Shutdown, which cancels every task, is left out: the server     *)
(* calls it when HTTP is drained or closed, that is, when every caller's   *)
(* context has ended.                                                      *)
(***************************************************************************)
EXTENDS Integers, FiniteSets, SequencesExt

CONSTANTS
  Callers,      \* goroutines inside inspect
  MaxProbes,    \* bound: ffprobe flights that exist at a time
  Paths,
  MaxVersion,   \* bound on the versions of a file
  Broken,       \* versions of which ffprobe never has data
  Capacity      \* MetadataConfig.Capacity

ASSUME ProbeAssumption == /\ IsFiniteSet(Callers)
                          /\ Capacity \in Nat \ {0}
                          /\ MaxVersion \in Nat \ {0}

Versions == 1..MaxVersion

Keys == [path : Paths, version : Versions]

(* What a probe can end in.  Only data names the version it was read from. *)
Says(kind, v) == [kind |-> kind, version |-> v]

Data == [kind : {"data"}, version : Versions]

Failures == [kind : {"failed",      \* deterministicMetadataError: any exit with an
                                    \* error, output too large or not JSON
                     "busy",        \* queue full, wait timeout or ErrTaskTimeout
                     "transient",   \* stat, pipe, start and read failures
                     "cancelled"},  \* context.Canceled
             version : {0}]

Answers == Data \cup Failures

(* How far a flight is: the version ffprobe has opened, 0 before it has.   *)
Readings == [kind : {"reading"}, version : 0..MaxVersion]

NoKey == [path |-> 0, version |-> 0]

NoAnswer == [kind |-> "none", version |-> 0]

VARIABLES
  version,      \* the version each path holds
  ended,        \* callers whose context has ended
  want,         \* the identity a caller has read, until inspect is over
  got,          \* what inspect has returned
  positive,     \* positiveLRU, most recently used first
  negative,     \* negativeLRU
  probe,        \* the flights
  probes,       \* the map of flights
  probeOf       \* the flight each caller waits on

cacheVars == <<positive, negative>>
flightVars == <<probe, probes, probeOf>>
probeVars == <<version, ended, want, got, positive, negative, probe, probes, probeOf>>

Flight == INSTANCE Flights WITH
  MaxFlights <- MaxProbes, Works <- Readings, New <- Says("reading", 0),
  flight <- probe, mapped <- probes, at <- probeOf

ProbeTypeOK ==
  /\ version \in [Paths -> Versions]
  /\ ended \subseteq Callers
  /\ want \in [Callers -> Keys \cup {NoKey}]
  /\ got \in [Callers -> Answers \cup {NoAnswer}]
  /\ positive \in Seq([key : Keys, answer : Data])
  /\ negative \in Seq([key : Keys, answer : Failures])
  /\ Flight!TypeOK

ProbeInit ==
  /\ version = [p \in Paths |-> 1]
  /\ ended = {}
  /\ want = [c \in Callers |-> NoKey]
  /\ got = [c \in Callers |-> NoAnswer]
  /\ positive = <<>>
  /\ negative = <<>>
  /\ Flight!Init

-----------------------------------------------------------------------------
Outside(c) == want[c] = NoKey /\ got[c] = NoAnswer

Identity(p) == [path |-> p, version |-> version[p]]

(* The list without the element that the cache's map has for the key.      *)
Without(lru, k) == RemoveFirstMatch(lru, LAMBDA e : e.key = k)

(* PushFront, then the oldest go while there are too many. *)
Added(lru, k, a) ==
  LET all == <<[key |-> k, answer |-> a]>> \o Without(lru, k)
  IN SubSeq(all, 1, IF Len(all) > Capacity THEN Capacity ELSE Len(all))

Entries(lru) == {lru[i] : i \in 1..Len(lru)}

Returns(c, a) == got' = [got EXCEPT ![c] = a]

(* inspect begins: the context is looked at, the file is identified. *)
Inspect(c, p) ==
  /\ Outside(c)
  /\ \/ /\ c \in ended
        /\ Returns(c, Says("cancelled", 0))
        /\ UNCHANGED want
     \/ /\ c \notin ended
        /\ want' = [want EXCEPT ![c] = Identity(p)]
        /\ UNCHANGED got
     \/ /\ c \notin ended                             \* stat fails
        /\ Returns(c, Says("transient", 0))
        /\ UNCHANGED want
  /\ UNCHANGED <<version, ended>>
  /\ UNCHANGED cacheVars
  /\ UNCHANGED flightVars

Looking(c) == want[c] # NoKey /\ probeOf[c] = 0

(* The mutex is taken and the positive cache has the identity. *)
HitPositive(c) ==
  /\ Looking(c)
  /\ \E e \in Entries(positive) :
       /\ e.key = want[c]
       /\ positive' = Added(positive, e.key, e.answer)
       /\ Returns(c, e.answer)
  /\ want' = [want EXCEPT ![c] = NoKey]
  /\ UNCHANGED <<version, ended, negative>>
  /\ UNCHANGED flightVars

(* The negative cache has it and its deadline has not passed. *)
HitNegative(c) ==
  /\ Looking(c)
  /\ \A e \in Entries(positive) : e.key # want[c]
  /\ \E e \in Entries(negative) :
       /\ e.key = want[c]
       /\ negative' = Added(negative, e.key, e.answer)
       /\ Returns(c, e.answer)
  /\ want' = [want EXCEPT ![c] = NoKey]
  /\ UNCHANGED <<version, ended, positive>>
  /\ UNCHANGED flightVars

(* Neither has it, or the deadline of the negative entry has passed, which *)
(* may be at any time: the caller joins the flight of that identity or     *)
(* starts it.                                                              *)
Miss(c) ==
  /\ Looking(c)
  /\ \A e \in Entries(positive) : e.key # want[c]
  /\ negative' = Without(negative, want[c])
  /\ \/ Flight!JoinFlight(c, want[c])
     \/ Flight!NewFlight(c, want[c])
  /\ UNCHANGED <<version, ended, want, got, positive>>

(* The select on flight.done and the caller's context, both ways. *)
ReceiveProbe(c) ==
  /\ Flight!Receive(c)
  /\ Returns(c, Flight!AnswerFor(c))
  /\ want' = [want EXCEPT ![c] = NoKey]
  /\ UNCHANGED <<version, ended>>
  /\ UNCHANGED cacheVars

LeaveFlight(c) ==
  /\ c \in ended
  /\ Flight!Leave(c)
  /\ Returns(c, Says("cancelled", 0))
  /\ want' = [want EXCEPT ![c] = NoKey]
  /\ UNCHANGED <<version, ended>>
  /\ UNCHANGED cacheVars

-----------------------------------------------------------------------------
(* The flight has its lane and ffprobe opens whatever the path now holds. *)
ProbeReads(f) ==
  /\ Flight!Running(f)
  /\ probe[f].work = Says("reading", 0)
  /\ Flight!Progress(f, Says("reading", version[probe[f].key.path]))
  /\ UNCHANGED <<version, ended, want, got>>
  /\ UNCHANGED cacheVars

(* What the command may say.  It exits with an error when it cannot open   *)
(* or read the path or is killed by somebody else, whatever the file; data *)
(* it has only of a file it has opened.                                    *)
Outcomes(f) ==
  LET v == probe[f].work.version
      killed == IF probe[f].abandoned THEN {Says("cancelled", 0)} ELSE {}
      read == IF v = 0 \/ v \in Broken THEN {} ELSE {Says("data", v)}
  IN killed \cup read \cup {Says("busy", 0), Says("transient", 0), Says("failed", 0)}

(* isDeterministicMetadataError *)
Cacheable(a) == a.kind = "failed"

(* runFlight, once the command has ended: under the mutex the flight lands *)
(* and, unless it was abandoned, what it found is cached.                  *)
RunFlight(f, a) ==
  /\ a \in Outcomes(f)
  /\ Flight!Land(f, a)
  /\ LET k == probe[f].key
         stored == ~probe[f].abandoned
     IN /\ positive' = IF stored /\ a.kind = "data" THEN Added(positive, k, a) ELSE positive
        /\ negative' = IF stored /\ Cacheable(a) THEN Added(negative, k, a) ELSE negative
  /\ UNCHANGED <<version, ended, want, got>>

-----------------------------------------------------------------------------
(* The environment: files are rewritten, contexts end. *)
FileChanges(p) ==
  /\ version[p] < MaxVersion
  /\ version' = [version EXCEPT ![p] = @ + 1]
  /\ UNCHANGED <<ended, want, got, positive, negative, probe, probes, probeOf>>

ContextEnds(c) ==
  /\ c \notin ended
  /\ ended' = ended \cup {c}
  /\ UNCHANGED <<version, want, got, positive, negative, probe, probes, probeOf>>

(* Probe hands the answer to its caller, which may call again with another *)
(* context.                                                                *)
Return(c) ==
  /\ got[c] # NoAnswer
  /\ got' = [got EXCEPT ![c] = NoAnswer]
  /\ ended' = ended \ {c}
  /\ UNCHANGED <<version, want, positive, negative, probe, probes, probeOf>>

ProbeNext ==
  \/ \E c \in Callers : \/ \E p \in Paths : Inspect(c, p)
                        \/ HitPositive(c)
                        \/ HitNegative(c)
                        \/ Miss(c)
                        \/ ReceiveProbe(c)
                        \/ LeaveFlight(c)
                        \/ ContextEnds(c)
                        \/ Return(c)
  \/ \E f \in Flight!Ids : ProbeReads(f) \/ \E a \in Answers : RunFlight(f, a)
  \/ \E p \in Paths : FileChanges(p)

ProbeSpec == ProbeInit /\ [][ProbeNext]_probeVars
=============================================================================
