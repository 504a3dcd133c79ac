------------------------- MODULE CoverLoaderProofs --------------------------
(***************************************************************************)
(* Proofs about CoverLoader, for any finite set of requests, any bounds on *)
(* the flights, the versions and the caches, and any files.  The three     *)
(* groups of flights are instances of Flights: what FlightsProofs shows of *)
(* it holds of each, step by step.                                         *)
(***************************************************************************)
EXTENDS CoverLoader, FiniteSetTheorems, SequenceTheorems, WellFoundedInduction, TLAPS

P == INSTANCE FlightsProofs WITH
  MaxFlights <- MaxProbes, Works <- Readings, New <- Says("reading", 0),
  flight <- probe, mapped <- probes, at <- probeOf

D == INSTANCE FlightsProofs WITH
  Callers <- Requests, MaxFlights <- MaxDescribes, Keys <- Places, NoKey <- NoPlace,
  Works <- Searches, New <- Step("new", 0), Answers <- Findings,
  flight <- describe, mapped <- describeCalls, at <- describeOf

R == INSTANCE FlightsProofs WITH
  Callers <- Requests, MaxFlights <- MaxRenders, Keys <- Descriptors, NoKey <- NoDescriptor,
  Works <- Renderings, New <- Step("new", 0), Answers <- Images,
  flight <- render, mapped <- renderCalls, at <- renderOf

ProbeIds == 1..MaxProbes
RenderIds == 1..MaxRenders

FlightsSound == P!FInv /\ D!FInv /\ R!FInv

-----------------------------------------------------------------------------
(* The probe.  A version that was in place when the identity was read, or   *)
(* later.                                                                   *)
Since(k, v) == k.version <= v /\ v <= version[k.path]

Past(k) == k \in Keys /\ k.version <= version[k.path]

(* What ffprobe has read under an identity, it has read of a file that was  *)
(* there.  Of a failure nothing can be said.                                *)
Honest(k, a) == a.kind = "data" => Since(k, a.version)

ProbeTypes ==
  /\ version \in [Paths -> Versions]
  /\ ended \subseteq Callers
  /\ want \in [Callers -> Keys \cup {NoKey}]
  /\ got \in [Callers -> Answers \cup {NoAnswer}]

ProbeCaches ==
  /\ positive \in Seq([key : Keys, answer : Data])
  /\ negative \in Seq([key : Keys, answer : Failures])
  /\ \A e \in Entries(positive) : Past(e.key) /\ Honest(e.key, e.answer)
  /\ \A e \in Entries(negative) : Past(e.key) /\ Honest(e.key, e.answer) /\ e.answer.kind = "failed"

ProbeSound(f) ==
  /\ probe[f].state # "unused" => Past(probe[f].key)
  /\ probe[f].state = "running" =>
       /\ probe[f].work \in Readings
       /\ probe[f].work.version # 0 => Since(probe[f].key, probe[f].work.version)
  /\ probe[f].state = "landed" =>
       /\ probe[f].work \in Answers
       /\ probe[f].work.kind # "cancelled"
       /\ Honest(probe[f].key, probe[f].work)

CallerSound(c) ==
  /\ want[c] # NoKey => Past(want[c])
  /\ probeOf[c] # 0 => want[c] # NoKey /\ want[c] = probe[probeOf[c]].key
  /\ got[c] # NoAnswer => want[c] = NoKey
  /\ got[c].kind = "data" => got[c].version <= version[Track]
  /\ got[c].kind = "cancelled" => c \in ended

ProbeInv ==
  /\ ProbeTypes
  /\ ProbeCaches
  /\ \A f \in ProbeIds : ProbeSound(f)
  /\ \A c \in Callers : CallerSound(c)

(* Who is inside inspect: requests for metadata, and the flights that look  *)
(* for an embedded picture.                                                 *)
Inside(c) == want[c] # NoKey \/ got[c] # NoAnswer

-----------------------------------------------------------------------------
(* The files, the cache, and the flights for descriptors and renderings.    *)
Files ==
  /\ cover \in {0, covers} /\ covers \in Covers
  /\ mtime \in Nat

PastPlace(k) ==
  /\ k \in Places
  /\ k.stamp <= IF k.kind = "directory" THEN mtime ELSE version[Track]

(* The dimensions are never older than the identity. *)
Fits(k, d) ==
  /\ d \in Descriptors
  /\ d.id <= d.seen
  /\ IF k.kind = "directory"
     THEN d.kind = "fallback" /\ d.seen <= covers
     ELSE d.kind = "embedded" /\ d.id = k.stamp /\ d.seen <= version[Track]

Fitting(k, a) ==
  /\ a.kind = "found" => Fits(k, a.descriptor)
  /\ a.kind = "absent" /\ k = Directory => cover = 0

Cached(e) ==
  /\ PastPlace(e.key) /\ Fitting(e.key, e.answer)
  /\ e.answer.kind \in {"found", "absent", "unusable"}

DescriptorCache ==
  /\ descriptorLRU \in Seq([key : Places, answer : Findings])
  /\ \A e \in Entries(descriptorLRU) : Cached(e)

(* Only an abandoned flight has a context that has ended. *)
DescribeSound(f) ==
  /\ Inside(f) => describe[f].state = "running" /\ describe[f].key.kind = "embedded"
  /\ f \in ended => describe[f].abandoned
  /\ describe[f].abandoned => describe[f].state = "running"
  /\ describe[f].state # "unused" => PastPlace(describe[f].key)
  /\ describe[f].state = "running" =>
       /\ describe[f].work \in Searches
       /\ describe[f].work.step = "found" => describe[f].work.version <= covers
       /\ want[f] # NoKey => describe[f].key.stamp <= want[f].version
       /\ got[f].kind = "data" => describe[f].key.stamp <= got[f].version
  /\ describe[f].state = "landed" =>
       /\ describe[f].work \in Findings
       /\ describe[f].work.kind \notin {"cancelled", "stale"}
       /\ Fitting(describe[f].key, describe[f].work)

(* The newest version of what a descriptor describes. *)
Newest(d) == IF d.kind = "embedded" THEN version[Track] ELSE covers

ReadFrom(d, v) == d.id <= v /\ v <= Newest(d)

RenderSound(f) ==
  /\ render[f].state # "unused" => render[f].key \in Descriptors
  /\ render[f].state = "running" =>
       /\ render[f].work \in Renderings
       /\ render[f].work.step = "checked" => render[f].key.id <= Newest(render[f].key)
       /\ render[f].work.step = "read" => ReadFrom(render[f].key, render[f].work.version)
  /\ render[f].state = "landed" =>
       /\ render[f].work \in Images
       /\ render[f].work.kind # "cancelled"
       /\ render[f].work.kind \in {"original", "rendered"} =>
            ReadFrom(render[f].key, render[f].work.version)

FileInv ==
  /\ Files
  /\ DescriptorCache
  /\ \A f \in DescribeIds : DescribeSound(f)
  /\ \A f \in RenderIds : RenderSound(f)

-----------------------------------------------------------------------------
(* The requests. *)
Stages == {"idle", "probing", "directory", "lookup", "describing", "serve", "rendering", "answered"}

Ended == Answers \cup {Problem(p) : p \in Problems \cup {"none"}} \cup Images
         \cup {Image("unchanged", v) : v \in Covers \cup Versions}

RequestRecords ==
  [stage : Stages, audio : 0..MaxVersion, place : Places \cup {NoPlace},
   found : Descriptors \cup {NoDescriptor}, outcome : Ended]

RequestSound(r) ==
  /\ req[r] \in RequestRecords
  /\ Inside(r) => At(r, "probing")
  /\ At(r, "idle") => req[r].audio = 0
  /\ req[r].audio <= version[Track]
  /\ req[r].stage \in {"lookup", "describing"} => PastPlace(req[r].place)
  /\ describeOf[r] # 0 <=> At(r, "describing")
  /\ describeOf[r] # 0 => describe[describeOf[r]].key = req[r].place
  /\ renderOf[r] # 0 <=> At(r, "rendering")
  /\ renderOf[r] # 0 => render[renderOf[r]].key = req[r].found
  /\ req[r].stage \in {"serve", "rendering"} => req[r].found \in Descriptors
  /\ At(r, "answered") /\ req[r].outcome.kind = "cancelled" => r \in ended

(* A descriptor of the files as they are. *)
UpToDate(d) ==
  /\ d.id = d.seen
  /\ d.kind = "fallback" => cover = d.id
  /\ d.kind = "embedded" => cover = 0 /\ version[Track] = d.id

(* What an undisturbed request has in hand is true of the files.            *)
FreshProbe(r) ==
  /\ want[r] # NoKey => want[r].version = version[Track]
  /\ got[r].kind = "data" => got[r].version = version[Track]

FreshPlace(r) ==
  /\ req[r].audio # 0 => req[r].audio = version[Track]
  /\ req[r].stage \in {"lookup", "describing"} =>
       IF req[r].place.kind = "directory"
       THEN req[r].place.stamp = mtime
       ELSE cover = 0 /\ req[r].place.stamp = version[Track]

FreshDescribe(r) ==
  At(r, "describing") /\ req[r].place.kind = "directory" =>
    LET d == describe[describeOf[r]]
    IN /\ d.state = "running" /\ d.work.step = "found" => d.work.version = cover
       /\ d.state = "landed" /\ d.work.kind = "found" => UpToDate(d.work.descriptor)

FreshRender(r) ==
  /\ req[r].stage \in {"serve", "rendering"} => UpToDate(req[r].found)
  /\ At(r, "rendering") /\ render[renderOf[r]].state = "landed" =>
       render[renderOf[r]].work.kind # "stale"

FreshAnswer(r) ==
  At(r, "answered") =>
    LET a == req[r].outcome
    IN /\ a.kind # "stale"
       /\ a.kind = "data" => a.version = version[Track]
       /\ a.kind \in {"unchanged", "original", "rendered"} =>
            UpToDate(req[r].found) /\ a.version = req[r].found.id

Fresh(r) == FreshProbe(r) /\ FreshPlace(r) /\ FreshDescribe(r) /\ FreshRender(r) /\ FreshAnswer(r)

RequestGood(r) == RequestSound(r) /\ (r \notin disturbed => Fresh(r))

CInv ==
  /\ FlightsSound
  /\ ProbeInv
  /\ FileInv
  /\ req \in [Requests -> RequestRecords]
  /\ \A r \in Requests : RequestGood(r)

-----------------------------------------------------------------------------
(* What the instances of FlightsProofs need, and that they are about the    *)
(* same operators.                                                          *)

LEMMA PParameters == P!Parameters
<1>1. IsFiniteSet(Callers)
  BY ProbeAssumption
<1>2. P!IsFiniteSet(Callers)
  BY <1>1 DEF IsFiniteSet, P!IsFiniteSet
<1>3. Says("reading", 0) \in Readings
  BY ProbeAssumption DEF Readings, Says
<1> QED  BY <1>2, <1>3 DEF P!Parameters

LEMMA DParameters == D!Parameters
<1>1. IsFiniteSet(Requests)
  BY ProbeAssumption, CallersAssumption, FS_Subset
<1>2. D!IsFiniteSet(Requests)
  BY <1>1 DEF IsFiniteSet, D!IsFiniteSet
<1>3. Step("new", 0) \in Searches
  BY DEF Searches
<1> QED  BY <1>2, <1>3 DEF D!Parameters

LEMMA RParameters == R!Parameters
<1>1. IsFiniteSet(Requests)
  BY ProbeAssumption, CallersAssumption, FS_Subset
<1>2. R!IsFiniteSet(Requests)
  BY <1>1 DEF IsFiniteSet, R!IsFiniteSet
<1>3. Step("new", 0) \in Renderings
  BY DEF Renderings
<1> QED  BY <1>2, <1>3 DEF R!Parameters

LEMMA ProbeSame ==
  /\ Flight!Ids = P!Ids
  /\ Flight!Init => P!Init
  /\ \A c, k : Flight!JoinFlight(c, k) => P!JoinFlight(c, k)
  /\ \A c, k : Flight!NewFlight(c, k) => P!NewFlight(c, k)
  /\ \A c : Flight!Leave(c) => P!Leave(c)
  /\ \A c : Flight!Receive(c) => P!Receive(c)
  /\ \A f, w : Flight!Progress(f, w) => P!Progress(f, w)
  /\ \A f, a : Flight!Land(f, a) => P!Land(f, a)
<1>0. \A f : Flight!Waiting(f) = P!Waiting(f)
  BY DEF Flight!Waiting, P!Waiting
<1>1. \A fl, f, w : Flight!Collected(fl, f, w) = P!Collected(fl, f, w)
  BY DEF Flight!Collected, P!Collected, Flight!Unused, P!Unused
<1>2. Flight!Ids = P!Ids
  BY DEF Flight!Ids, P!Ids
<1>3. Flight!Init => P!Init
  BY DEF Flight!Init, P!Init, Flight!Unused, P!Unused, Flight!Ids, P!Ids
<1>4. \A c, k : Flight!JoinFlight(c, k) => P!JoinFlight(c, k)
  BY DEF Flight!JoinFlight, P!JoinFlight, Flight!Current, P!Current
<1>5. \A c, k : Flight!NewFlight(c, k) => P!NewFlight(c, k)
  BY <1>2 DEF Flight!NewFlight, P!NewFlight, Flight!Current, P!Current, Flight!Unused, P!Unused
<1>6. \A c : Flight!Leave(c) => P!Leave(c)
  BY <1>0, <1>1 DEF Flight!Leave, P!Leave, Flight!Left, P!Left
<1>7. \A c : Flight!Receive(c) => P!Receive(c)
  BY <1>0, <1>1 DEF Flight!Receive, P!Receive
<1>8. \A f, w : Flight!Progress(f, w) => P!Progress(f, w)
  BY DEF Flight!Progress, P!Progress, Flight!Running, P!Running
<1>9. \A f, a : Flight!Land(f, a) => P!Land(f, a)
  BY <1>0, <1>1 DEF Flight!Land, P!Land, Flight!Running, P!Running, Flight!Unmapped, P!Unmapped
<1> QED  BY <1>2, <1>3, <1>4, <1>5, <1>6, <1>7, <1>8, <1>9

LEMMA DescribeSame ==
  /\ Describing!Ids = D!Ids
  /\ Describing!Init => D!Init
  /\ \A c, k : Describing!JoinFlight(c, k) => D!JoinFlight(c, k)
  /\ \A c, k : Describing!NewFlight(c, k) => D!NewFlight(c, k)
  /\ \A c : Describing!Leave(c) => D!Leave(c)
  /\ \A c : Describing!Receive(c) => D!Receive(c)
  /\ \A f, w : Describing!Progress(f, w) => D!Progress(f, w)
  /\ \A f, a : Describing!Land(f, a) => D!Land(f, a)
<1>0. \A f : Describing!Waiting(f) = D!Waiting(f)
  BY DEF Describing!Waiting, D!Waiting
<1>1. \A fl, f, w : Describing!Collected(fl, f, w) = D!Collected(fl, f, w)
  BY DEF Describing!Collected, D!Collected, Describing!Unused, D!Unused
<1>2. Describing!Ids = D!Ids
  BY DEF Describing!Ids, D!Ids
<1>3. Describing!Init => D!Init
  BY DEF Describing!Init, D!Init, Describing!Unused, D!Unused, Describing!Ids, D!Ids
<1>4. \A c, k : Describing!JoinFlight(c, k) => D!JoinFlight(c, k)
  BY DEF Describing!JoinFlight, D!JoinFlight, Describing!Current, D!Current
<1>5. \A c, k : Describing!NewFlight(c, k) => D!NewFlight(c, k)
  BY <1>2 DEF Describing!NewFlight, D!NewFlight, Describing!Current, D!Current, Describing!Unused, D!Unused
<1>6. \A c : Describing!Leave(c) => D!Leave(c)
  BY <1>0, <1>1 DEF Describing!Leave, D!Leave, Describing!Left, D!Left
<1>7. \A c : Describing!Receive(c) => D!Receive(c)
  BY <1>0, <1>1 DEF Describing!Receive, D!Receive
<1>8. \A f, w : Describing!Progress(f, w) => D!Progress(f, w)
  BY DEF Describing!Progress, D!Progress, Describing!Running, D!Running
<1>9. \A f, a : Describing!Land(f, a) => D!Land(f, a)
  BY <1>0, <1>1 DEF Describing!Land, D!Land, Describing!Running, D!Running, Describing!Unmapped, D!Unmapped
<1> QED  BY <1>2, <1>3, <1>4, <1>5, <1>6, <1>7, <1>8, <1>9

LEMMA RenderSame ==
  /\ Rendering!Ids = R!Ids
  /\ Rendering!Init => R!Init
  /\ \A c, k : Rendering!JoinFlight(c, k) => R!JoinFlight(c, k)
  /\ \A c, k : Rendering!NewFlight(c, k) => R!NewFlight(c, k)
  /\ \A c : Rendering!Leave(c) => R!Leave(c)
  /\ \A c : Rendering!Receive(c) => R!Receive(c)
  /\ \A f, w : Rendering!Progress(f, w) => R!Progress(f, w)
  /\ \A f, a : Rendering!Land(f, a) => R!Land(f, a)
<1>0. \A f : Rendering!Waiting(f) = R!Waiting(f)
  BY DEF Rendering!Waiting, R!Waiting
<1>1. \A fl, f, w : Rendering!Collected(fl, f, w) = R!Collected(fl, f, w)
  BY DEF Rendering!Collected, R!Collected, Rendering!Unused, R!Unused
<1>2. Rendering!Ids = R!Ids
  BY DEF Rendering!Ids, R!Ids
<1>3. Rendering!Init => R!Init
  BY DEF Rendering!Init, R!Init, Rendering!Unused, R!Unused, Rendering!Ids, R!Ids
<1>4. \A c, k : Rendering!JoinFlight(c, k) => R!JoinFlight(c, k)
  BY DEF Rendering!JoinFlight, R!JoinFlight, Rendering!Current, R!Current
<1>5. \A c, k : Rendering!NewFlight(c, k) => R!NewFlight(c, k)
  BY <1>2 DEF Rendering!NewFlight, R!NewFlight, Rendering!Current, R!Current, Rendering!Unused, R!Unused
<1>6. \A c : Rendering!Leave(c) => R!Leave(c)
  BY <1>0, <1>1 DEF Rendering!Leave, R!Leave, Rendering!Left, R!Left
<1>7. \A c : Rendering!Receive(c) => R!Receive(c)
  BY <1>0, <1>1 DEF Rendering!Receive, R!Receive
<1>8. \A f, w : Rendering!Progress(f, w) => R!Progress(f, w)
  BY DEF Rendering!Progress, R!Progress, Rendering!Running, R!Running
<1>9. \A f, a : Rendering!Land(f, a) => R!Land(f, a)
  BY <1>0, <1>1 DEF Rendering!Land, R!Land, Rendering!Running, R!Running, Rendering!Unmapped, R!Unmapped
<1> QED  BY <1>2, <1>3, <1>4, <1>5, <1>6, <1>7, <1>8, <1>9

-----------------------------------------------------------------------------
(* Lists of the caches.                                                     *)

LEMMA Least ==
  ASSUME NEW T, T \subseteq Nat, T # {}
  PROVE  \E n \in T : \A m \in T : n <= m
<1> DEFINE less == OpToRel(<, Nat)
<1>1. \A x, y \in T : y < x => <<y, x>> \in less
  BY DEF OpToRel
<1>2. IsWellFoundedOn(less, Nat)
  BY NatLessThanWellFounded
<1> HIDE DEF less
<1>3. PICK x \in T : \A y \in T : ~ (<<y, x>> \in less)
  BY <1>2, WFMin
<1>4. \A y \in T : ~ (y < x)
  BY <1>1, <1>3
<1>5. \A y \in T : x \in Nat /\ y \in Nat
  OBVIOUS
<1>6. \A y \in T : x <= y
  BY <1>4, <1>5
<1> QED  BY <1>6

LEMMA RemovedAt ==
  ASSUME NEW S, NEW s \in Seq(S), NEW i \in 1..Len(s)
  PROVE  /\ RemoveAt(s, i) \in Seq(S)
         /\ Len(RemoveAt(s, i)) = Len(s) - 1
         /\ \A j \in 1..Len(s) - 1 : RemoveAt(s, i)[j] = IF j < i THEN s[j] ELSE s[j + 1]
<1> DEFINE a == SubSeq(s, 1, i - 1)
           b == SubSeq(s, i + 1, Len(s))
<1>1. Len(s) \in Nat /\ i \in Nat /\ 1 <= i /\ i <= Len(s)
  OBVIOUS
<1>2. /\ a \in Seq(S) /\ Len(a) = i - 1 /\ \A j \in 1..i - 1 : a[j] = s[j]
  BY <1>1
<1>3. /\ b \in Seq(S) /\ Len(b) = Len(s) - i /\ \A j \in 1..Len(s) - i : b[j] = s[i + 1 + j - 1]
  BY <1>1
<1> HIDE DEF a, b
<1>4. /\ a \o b \in Seq(S) /\ Len(a \o b) = Len(a) + Len(b)
      /\ \A j \in 1..Len(a) + Len(b) : (a \o b)[j] = IF j <= Len(a) THEN a[j] ELSE b[j - Len(a)]
  BY <1>2, <1>3, ConcatProperties
<1>5. ASSUME NEW j \in 1..Len(s) - 1
      PROVE  (a \o b)[j] = IF j < i THEN s[j] ELSE s[j + 1]
  <2>1. (a \o b)[j] = IF j <= i - 1 THEN a[j] ELSE b[j - (i - 1)]
    BY <1>1, <1>2, <1>3, <1>4
  <2>2. CASE j < i
    BY <1>1, <1>2, <2>1, <2>2
  <2>3. CASE ~ (j < i)
    <3>1. j - (i - 1) \in 1..Len(s) - i /\ i + 1 + (j - (i - 1)) - 1 = j + 1
      BY <1>1, <2>3
    <3>2. b[j - (i - 1)] = s[j + 1]
      BY <1>3, <3>1
    <3> QED  BY <1>1, <2>1, <2>3, <3>2
  <2> QED  BY <1>1, <2>2, <2>3
<1>6. RemoveAt(s, i) = a \o b
  BY DEF RemoveAt, a, b
<1>7. Len(a \o b) = Len(s) - 1
  BY <1>1, <1>2, <1>3, <1>4
<1> HIDE DEF a, b
<1> QED  BY <1>4, <1>5, <1>6, <1>7

LEMMA WithoutOne ==
  ASSUME NEW S, NEW lru \in Seq(S), NEW k
  PROVE  \/ /\ \A i \in 1..Len(lru) : lru[i].key # k
            /\ Without(lru, k) = lru
         \/ \E i \in 1..Len(lru) : lru[i].key = k /\ Without(lru, k) = RemoveAt(lru, i)
<1> DEFINE I == {i \in 1..Len(lru) : lru[i].key = k}
<1>1. CASE I = {}
  BY <1>1 DEF Without, RemoveFirstMatch
<1>2. CASE I # {}
  <2>1. PICK i \in I : \A m \in I : i <= m
    <3>1. I \subseteq Nat
      OBVIOUS
    <3> QED  BY <1>2, <3>1, Least
  <2>2. Min(I) \in I
    BY <2>1 DEF Min
  <2>3. Without(lru, k) = RemoveAt(lru, Min(I))
    BY <1>2 DEF Without, RemoveFirstMatch, SelectInSeq
  <2> QED  BY <2>2, <2>3
<1> QED  BY <1>1, <1>2

LEMMA WithoutKeeps ==
  ASSUME NEW S, NEW lru \in Seq(S), NEW k
  PROVE  /\ Without(lru, k) \in Seq(S)
         /\ Len(Without(lru, k)) <= Len(lru)
         /\ Entries(Without(lru, k)) \subseteq Entries(lru)
<1>1. CASE Without(lru, k) = lru
  BY <1>1
<1>2. CASE \E i \in 1..Len(lru) : Without(lru, k) = RemoveAt(lru, i)
  <2>1. PICK i \in 1..Len(lru) : Without(lru, k) = RemoveAt(lru, i)
    BY <1>2
  <2> DEFINE w == RemoveAt(lru, i)
  <2>2. /\ w \in Seq(S) /\ Len(w) = Len(lru) - 1
        /\ \A j \in 1..Len(lru) - 1 : w[j] = IF j < i THEN lru[j] ELSE lru[j + 1]
    BY RemovedAt
  <2> HIDE DEF w
  <2>3. \A j \in 1..Len(lru) - 1 : j \in 1..Len(lru) /\ j + 1 \in 1..Len(lru)
    OBVIOUS
  <2>4. Entries(w) \subseteq Entries(lru)
    BY <2>2, <2>3 DEF Entries
  <2> QED  BY <2>1, <2>2, <2>4 DEF w
<1> QED  BY <1>1, <1>2, WithoutOne

LEMMA FrontKeeps ==
  ASSUME NEW S, NEW s \in Seq(S), NEW e \in S
  PROVE  /\ <<e>> \o s \in Seq(S)
         /\ Entries(<<e>> \o s) = {e} \cup Entries(s)
<1> DEFINE t == <<e>> \o s
<1>1. /\ t \in Seq(S) /\ Len(t) = Len(s) + 1 /\ t[1] = e
      /\ \A j \in 1..Len(s) : t[j + 1] = s[j]
  OBVIOUS
<1> HIDE DEF t
<1>2. \A j \in 1..Len(s) + 1 : j = 1 \/ (j - 1 \in 1..Len(s) /\ t[j] = s[j - 1])
  <2> TAKE j \in 1..Len(s) + 1
  <2>1. CASE j # 1
    <3>1. j - 1 \in 1..Len(s) /\ (j - 1) + 1 = j
      BY <2>1
    <3> QED  BY <1>1, <3>1
  <2> QED  BY <2>1
<1>3. Entries(t) \subseteq {e} \cup Entries(s)
  BY <1>1, <1>2 DEF Entries
<1>4. {e} \cup Entries(s) \subseteq Entries(t)
  <2>1. e \in Entries(t)
    BY <1>1 DEF Entries
  <2>2. \A j \in 1..Len(s) : j + 1 \in 1..Len(t)
    BY <1>1
  <2> QED  BY <1>1, <2>1, <2>2 DEF Entries
<1> QED  BY <1>1, <1>3, <1>4 DEF t

LEMMA HeadKeeps ==
  ASSUME NEW S, NEW s \in Seq(S), NEW n \in 0..Len(s)
  PROVE  /\ SubSeq(s, 1, n) \in Seq(S)
         /\ Entries(SubSeq(s, 1, n)) \subseteq Entries(s)
<1>1. /\ SubSeq(s, 1, n) \in Seq(S) /\ Len(SubSeq(s, 1, n)) = n
      /\ \A j \in 1..n : SubSeq(s, 1, n)[j] = s[j] /\ j \in 1..Len(s)
  OBVIOUS
<1> QED  BY <1>1 DEF Entries

LEMMA AddedKeeps ==
  ASSUME NEW S, NEW lru \in Seq(S), NEW k, NEW a, [key |-> k, answer |-> a] \in S
  PROVE  /\ Added(lru, k, a) \in Seq(S)
         /\ Entries(Added(lru, k, a)) \subseteq {[key |-> k, answer |-> a]} \cup Entries(lru)
<1> DEFINE all == <<[key |-> k, answer |-> a]>> \o Without(lru, k)
           n == IF Len(all) > Capacity THEN Capacity ELSE Len(all)
<1>1. /\ all \in Seq(S)
      /\ Entries(all) \subseteq {[key |-> k, answer |-> a]} \cup Entries(lru)
  BY WithoutKeeps, FrontKeeps
<1>2. n \in 0..Len(all)
  BY <1>1, ProbeAssumption
<1>3. Added(lru, k, a) = SubSeq(all, 1, n)
  BY DEF Added
<1> HIDE DEF all, n
<1> QED  BY <1>1, <1>2, <1>3, HeadKeeps

-----------------------------------------------------------------------------
(* What a step leaves alone. *)

FilesStay == UNCHANGED <<version, cover, covers, mtime>>

(* Answers are handed out and contexts end, nothing else.                   *)
LEMMA ProbeStays ==
  ASSUME ProbeInv, ended' \subseteq Callers, got' \in [Callers -> Answers \cup {NoAnswer}],
         \A c \in Callers : \/ got'[c] = NoAnswer
                            \/ got'[c] = got[c] /\ (c \in ended => c \in ended'),
         UNCHANGED <<version, want, positive, negative, probe, probeOf>>
  PROVE  ProbeInv'
<1>1. ProbeTypes' /\ ProbeCaches'
  BY DEF ProbeInv, ProbeTypes, ProbeCaches, Past, Honest, Since
<1>2. \A f \in ProbeIds : ProbeSound(f)'
  BY DEF ProbeInv, ProbeSound, Past, Honest, Since
<1>3. \A c \in Callers : CallerSound(c)'
  BY DEF ProbeInv, CallerSound, Past, NoAnswer
<1> QED  BY <1>1, <1>2, <1>3 DEF ProbeInv

LEMMA ProbeQuiet ==
  ASSUME ProbeInv, UNCHANGED probeVars
  PROVE  ProbeInv'
BY ProbeStays DEF ProbeInv, ProbeTypes, probeVars

(* Who looks on. *)
Alike(new, old) == new.state = old.state /\ new.key = old.key /\ new.work = old.work

LEMMA CacheStays ==
  ASSUME DescriptorCache, FilesStay,
         descriptorLRU' \in Seq([key : Places, answer : Findings]),
         Entries(descriptorLRU)' \subseteq Entries(descriptorLRU)
  PROVE  DescriptorCache'
BY DEF DescriptorCache, FilesStay, Cached, PastPlace, Fitting, Fits, Directory

LEMMA DescribeStays ==
  ASSUME NEW f \in DescribeIds, DescribeSound(f), FilesStay,
         want'[f] = want[f], got'[f] = got[f],
         f \in ended' => f \in ended \/ describe'[f].abandoned,
         Alike(describe'[f], describe[f]), describe[f].abandoned => describe'[f].abandoned,
         describe'[f].abandoned => describe[f].abandoned \/ describe[f].state = "running"
  PROVE  DescribeSound(f)'
BY DEF DescribeSound, FilesStay, Alike, Inside, PastPlace, Fitting, Fits, Directory

LEMMA RenderStays ==
  ASSUME NEW f \in RenderIds, RenderSound(f), FilesStay,
         \/ Alike(render'[f], render[f])
         \/ render'[f].state = "unused"
  PROVE  RenderSound(f)'
BY DEF RenderSound, FilesStay, Alike, ReadFrom, Newest

LEMMA Bystander ==
  ASSUME NEW q \in Requests, RequestGood(q), FilesStay,
         req'[q] = req[q], want'[q] = want[q], got'[q] = got[q],
         describeOf'[q] = describeOf[q], renderOf'[q] = renderOf[q],
         q \in ended => q \in ended', q \in disturbed => q \in disturbed',
         describeOf[q] # 0 => Alike(describe'[describeOf[q]], describe[describeOf[q]]),
         renderOf[q] # 0 => Alike(render'[renderOf[q]], render[renderOf[q]])
  PROVE  RequestGood(q)'
<1>1. RequestSound(q)'
  BY DEF RequestGood, RequestSound, FilesStay, Inside, At, PastPlace, Alike
<1>2. ASSUME q \notin disturbed' PROVE Fresh(q)'
  <2>1. Fresh(q)
    BY <1>2 DEF RequestGood
  <2>2. FreshProbe(q)' /\ FreshPlace(q)'
    BY <2>1 DEF Fresh, FreshProbe, FreshPlace, FilesStay
  <2>3. FreshDescribe(q)'
    BY <2>1 DEF Fresh, FreshDescribe, FilesStay, Alike, At, UpToDate, RequestGood, RequestSound
  <2>4. FreshRender(q)'
    BY <2>1 DEF Fresh, FreshRender, FilesStay, Alike, At, UpToDate, RequestGood, RequestSound
  <2>5. FreshAnswer(q)'
    BY <2>1 DEF Fresh, FreshAnswer, FilesStay, At, UpToDate
  <2> QED  BY <2>2, <2>3, <2>4, <2>5 DEF Fresh
<1> QED  BY <1>1, <1>2 DEF RequestGood

-----------------------------------------------------------------------------
(* What a request's own step writes. *)

LEMMA Put ==
  ASSUME req \in [Requests -> RequestRecords], NEW r \in Requests, NEW x \in RequestRecords,
         req' = [req EXCEPT ![r] = x]
  PROVE  /\ req' \in [Requests -> RequestRecords]
         /\ req'[r] = x
         /\ \A q \in Requests \ {r} : req'[q] = req[q]
OBVIOUS

LEMMA EndsShows ==
  ASSUME req \in [Requests -> RequestRecords], NEW r \in Requests, NEW a \in Ended, Ends(r, a)
  PROVE  /\ req' \in [Requests -> RequestRecords]
         /\ req'[r].stage = "answered" /\ req'[r].audio = 0
         /\ req'[r].found = req[r].found /\ req'[r].outcome = a
         /\ \A q \in Requests \ {r} : req'[q] = req[q]
<1> DEFINE x == [Idle EXCEPT !.stage = "answered", !.found = req[r].found, !.outcome = a]
           y == [stage |-> "answered", audio |-> 0, place |-> NoPlace,
                 found |-> req[r].found, outcome |-> a]
<1>1. x = y
  <2> DEFINE i == [stage |-> "answered", audio |-> 0, place |-> NoPlace,
                   found |-> NoDescriptor, outcome |-> Problem("none")]
             j == [stage |-> "answered", audio |-> 0, place |-> NoPlace,
                   found |-> req[r].found, outcome |-> Problem("none")]
  <2>1. [Idle EXCEPT !.stage = "answered"] = i
    BY DEF Idle
  <2>2. [i EXCEPT !.found = req[r].found] = j
    OBVIOUS
  <2>3. [j EXCEPT !.outcome = a] = y
    OBVIOUS
  <2> HIDE DEF i, j, y
  <2> QED  BY <2>1, <2>2, <2>3
<1>2. y \in RequestRecords
  BY ProbeAssumption DEF RequestRecords, Stages
<1>3. req' = [req EXCEPT ![r] = y]
  BY <1>1 DEF Ends
<1>4. /\ y.stage = "answered" /\ y.audio = 0 /\ y.found = req[r].found /\ y.outcome = a
  OBVIOUS
<1> HIDE DEF x, y
<1> QED  BY <1>2, <1>3, <1>4, Put

LEMMA GoesShows ==
  ASSUME req \in [Requests -> RequestRecords], NEW r \in Requests, NEW s \in Stages, Goes(r, s)
  PROVE  /\ req' \in [Requests -> RequestRecords]
         /\ req'[r].stage = s /\ req'[r].audio = req[r].audio /\ req'[r].place = req[r].place
         /\ req'[r].found = req[r].found /\ req'[r].outcome = req[r].outcome
         /\ \A q \in Requests \ {r} : req'[q] = req[q]
<1> DEFINE x == [req[r] EXCEPT !.stage = s]
<1>1. req[r] \in RequestRecords
  OBVIOUS
<1>2. /\ x \in RequestRecords /\ x.stage = s /\ x.audio = req[r].audio /\ x.place = req[r].place
      /\ x.found = req[r].found /\ x.outcome = req[r].outcome
  BY <1>1 DEF RequestRecords
<1>3. req' = [req EXCEPT ![r] = x]
  BY DEF Goes
<1> HIDE DEF x
<1> QED  BY <1>2, <1>3, Put

LEMMA LookupShows ==
  ASSUME req \in [Requests -> RequestRecords], NEW r \in Requests, NEW k \in Places,
         req' = [req EXCEPT ![r].stage = "lookup", ![r].place = k]
  PROVE  /\ req' \in [Requests -> RequestRecords]
         /\ req'[r].stage = "lookup" /\ req'[r].audio = req[r].audio /\ req'[r].place = k
         /\ \A q \in Requests \ {r} : req'[q] = req[q]
<1> DEFINE x == [req[r] EXCEPT !.stage = "lookup"]
           y == [x EXCEPT !.place = k]
<1>1. req[r] \in RequestRecords
  OBVIOUS
<1>2. x \in RequestRecords /\ x.stage = "lookup" /\ x.audio = req[r].audio
  BY <1>1 DEF RequestRecords, Stages
<1>3. req' = [req EXCEPT ![r] = y]
  BY <1>1 DEF RequestRecords
<1> HIDE DEF x
<1>4. y \in RequestRecords /\ y.stage = "lookup" /\ y.audio = req[r].audio /\ y.place = k
  BY <1>2 DEF RequestRecords
<1> HIDE DEF y
<1> QED  BY <1>3, <1>4, Put

LEMMA ServeShows ==
  ASSUME req \in [Requests -> RequestRecords], NEW r \in Requests, NEW d \in Descriptors,
         req' = [req EXCEPT ![r] = [Idle EXCEPT !.stage = "serve", !.found = d]]
  PROVE  /\ req' \in [Requests -> RequestRecords]
         /\ req'[r].stage = "serve" /\ req'[r].audio = 0 /\ req'[r].found = d
         /\ \A q \in Requests \ {r} : req'[q] = req[q]
<1> DEFINE y == [stage |-> "serve", audio |-> 0, place |-> NoPlace,
                 found |-> d, outcome |-> Problem("none")]
<1>1. [Idle EXCEPT !.stage = "serve", !.found = d] = y
  <2> DEFINE i == [stage |-> "serve", audio |-> 0, place |-> NoPlace,
                   found |-> NoDescriptor, outcome |-> Problem("none")]
  <2>1. [Idle EXCEPT !.stage = "serve"] = i
    BY DEF Idle
  <2>2. [i EXCEPT !.found = d] = y
    OBVIOUS
  <2> HIDE DEF i, y
  <2> QED  BY <2>1, <2>2
<1>2. y \in RequestRecords
  BY ProbeAssumption DEF RequestRecords, Stages, Ended
<1>3. req' = [req EXCEPT ![r] = y]
  BY <1>1
<1>4. y.stage = "serve" /\ y.audio = 0 /\ y.found = d
  OBVIOUS
<1> HIDE DEF y
<1> QED  BY <1>2, <1>3, <1>4, Put

-----------------------------------------------------------------------------
(* What the steps of each group do to it.                                   *)

LEMMA ProbeJoins ==
  ASSUME P!FInv, NEW c \in Callers, NEW k \in Keys, Flight!JoinFlight(c, k)
  PROVE  /\ P!FInv' /\ probeOf[c] = 0
         /\ \E f \in ProbeIds :
              /\ probe[f].state = "running" /\ probe[f].key = k
              /\ ~probe[f].abandoned
              /\ probeOf'[c] = f
         /\ \A d \in Callers \ {c} : probeOf'[d] = probeOf[d]
         /\ \A g \in ProbeIds :
              /\ Alike(probe'[g], probe[g])
              /\ probe'[g].abandoned = probe[g].abandoned
<1>1. P!JoinFlight(c, k)
  BY ProbeSame
<1>2. P!FInv'
  BY <1>1, PParameters, P!JoinKeeps
<1>3. /\ \A d \in Callers \ {c} : probeOf'[d] = probeOf[d]
      /\ probeOf[c] = 0
      /\ \A g \in P!Ids : P!Same(g) /\ probe'[g].abandoned = probe[g].abandoned
  BY <1>1, PParameters, P!JoinShows
<1>4. \E f \in P!Ids : /\ probe[f].state = "running" /\ probe[f].key = k
                       /\ ~probe[f].abandoned
                       /\ probeOf'[c] = f
  BY <1>1, PParameters, P!JoinShows
<1> QED  BY <1>2, <1>3, <1>4 DEF P!Same, Alike, P!Ids, ProbeIds

LEMMA ProbeBegins ==
  ASSUME P!FInv, NEW c \in Callers, NEW k \in Keys, Flight!NewFlight(c, k)
  PROVE  /\ P!FInv' /\ probeOf[c] = 0
         /\ \E f \in ProbeIds :
              /\ probe[f] = P!Unused
              /\ probe'[f].state = "running" /\ probe'[f].key = k
              /\ probe'[f].work = Says("reading", 0) /\ ~probe'[f].abandoned
              /\ \A g \in ProbeIds \ {f} : probe'[g] = probe[g]
              /\ probeOf'[c] = f
         /\ \A d \in Callers \ {c} : probeOf'[d] = probeOf[d]
<1>1. P!NewFlight(c, k)
  BY ProbeSame
<1>2. P!FInv'
  BY <1>1, PParameters, P!NewKeeps
<1>3. /\ \E f \in P!Ids : /\ probe[f] = P!Unused
                          /\ probe'[f].state = "running" /\ probe'[f].key = k
                          /\ probe'[f].work = Says("reading", 0) /\ ~probe'[f].abandoned
                          /\ P!Only(f)
                          /\ probeOf'[c] = f
      /\ probeOf[c] = 0
      /\ \A d \in Callers \ {c} : probeOf'[d] = probeOf[d]
  BY <1>1, PParameters, P!NewShows
<1> QED  BY <1>2, <1>3 DEF P!Only, P!Ids, ProbeIds

LEMMA ProbeGoes ==
  ASSUME P!FInv, NEW c \in Callers, Flight!Leave(c) \/ Flight!Receive(c)
  PROVE  /\ P!FInv'
         /\ probeOf[c] \in ProbeIds /\ probeOf'[c] = 0
         /\ probe[probeOf[c]].state \in {"running", "landed"}
         /\ \A d \in Callers \ {c} : probeOf'[d] = probeOf[d]
         /\ \A g \in ProbeIds :
              \/ /\ Alike(probe'[g], probe[g])
                 /\ probe[g].abandoned => probe'[g].abandoned
                 /\ probe'[g].abandoned => probe[g].abandoned \/ probe[g].state = "running"
              \/ probe[g].state = "landed" /\ probe'[g] = P!Unused
         /\ \A d \in Callers \ {c} : probeOf[d] # 0 => Alike(probe'[probeOf[d]], probe[probeOf[d]])
<1>1. P!Leave(c) \/ P!Receive(c)
  BY ProbeSame
<1>2. P!FInv'
  BY <1>1, PParameters, P!LeaveKeeps, P!ReceiveKeeps
<1>3. /\ probeOf[c] # 0 /\ probeOf'[c] = 0
      /\ \A d \in Callers \ {c} : probeOf'[d] = probeOf[d]
      /\ \A g \in P!Ids :
           \/ /\ P!Same(g)
              /\ probe[g].abandoned => probe'[g].abandoned
              /\ probe'[g].abandoned => probe[g].abandoned \/ probe[g].state = "running"
           \/ probe[g].state = "landed" /\ probe'[g] = P!Unused
  BY <1>1, PParameters, P!GoneShows
<1>4. probeOf[c] \in P!Ids /\ probe[probeOf[c]].state \in {"running", "landed"}
  BY <1>3, PParameters, P!Referred
<1>5. ASSUME NEW d \in Callers \ {c}, probeOf[d] # 0
      PROVE  Alike(probe'[probeOf[d]], probe[probeOf[d]])
  <2>1. probeOf[d] \in P!Ids
    BY <1>5, PParameters, P!Referred
  <2>2. (probe[probeOf[d]].state \in {"running", "landed"})'
    BY <1>2, <1>3, <1>5, P!ReferredThen
  <2>3. probe'[probeOf[d]].state \in {"running", "landed"}
    BY <1>3, <2>2
  <2> QED  BY <1>3, <2>1, <2>3 DEF P!Same, Alike, P!Unused
<1>6. \A g \in P!Ids :
        \/ /\ Alike(probe'[g], probe[g])
           /\ probe[g].abandoned => probe'[g].abandoned
           /\ probe'[g].abandoned => probe[g].abandoned \/ probe[g].state = "running"
        \/ probe[g].state = "landed" /\ probe'[g] = P!Unused
  BY <1>3 DEF P!Same, Alike
<1>7. P!Ids = ProbeIds
  BY DEF P!Ids, ProbeIds
<1> QED  BY <1>2, <1>3, <1>4, <1>5, <1>6, <1>7

LEMMA ProbeAdvances ==
  ASSUME P!FInv, NEW f \in ProbeIds, NEW w \in Readings, Flight!Progress(f, w)
  PROVE  /\ P!FInv'
         /\ probe[f].state = "running"
         /\ probe'[f].state = "running" /\ probe'[f].key = probe[f].key
         /\ probe'[f].work = w /\ probe'[f].abandoned = probe[f].abandoned
         /\ \A g \in ProbeIds \ {f} : probe'[g] = probe[g]
         /\ probeOf' = probeOf
<1>1. P!Progress(f, w) /\ f \in P!Ids
  BY ProbeSame DEF P!Ids, ProbeIds
<1>2. P!FInv'
  BY <1>1, PParameters, P!ProgressKeeps
<1>3. /\ probe[f].state = "running"
      /\ probe'[f].state = "running" /\ probe'[f].key = probe[f].key
      /\ probe'[f].work = w /\ probe'[f].abandoned = probe[f].abandoned
      /\ \A g \in P!Ids \ {f} : probe'[g] = probe[g]
      /\ probeOf' = probeOf
  BY <1>1, PParameters, P!ProgressShows
<1> QED  BY <1>2, <1>3 DEF P!Ids, ProbeIds

LEMMA ProbeLands ==
  ASSUME P!FInv, NEW f \in ProbeIds, NEW a \in Answers, Flight!Land(f, a)
  PROVE  /\ P!FInv'
         /\ probe[f].state = "running"
         /\ \/ probe'[f] = P!Unused
            \/ /\ probe'[f].state = "landed" /\ probe'[f].key = probe[f].key
               /\ probe'[f].work = a /\ ~probe[f].abandoned /\ ~probe'[f].abandoned
         /\ \A g \in ProbeIds \ {f} : probe'[g] = probe[g]
         /\ probeOf' = probeOf
<1>1. P!Land(f, a) /\ f \in P!Ids
  BY ProbeSame DEF P!Ids, ProbeIds
<1>2. P!FInv'
  BY <1>1, PParameters, P!LandKeeps
<1>3. /\ probe[f].state = "running"
      /\ \/ probe'[f] = P!Unused
         \/ /\ probe'[f].state = "landed" /\ probe'[f].key = probe[f].key
            /\ probe'[f].work = a /\ ~probe[f].abandoned /\ ~probe'[f].abandoned
      /\ \A g \in P!Ids \ {f} : probe'[g] = probe[g]
      /\ probeOf' = probeOf
  BY <1>1, PParameters, P!LandShows
<1> QED  BY <1>2, <1>3 DEF P!Ids, ProbeIds

LEMMA DescribeJoins ==
  ASSUME D!FInv, NEW c \in Requests, NEW k \in Places, Describing!JoinFlight(c, k)
  PROVE  /\ D!FInv' /\ describeOf[c] = 0
         /\ \E f \in DescribeIds :
              /\ describe[f].state = "running" /\ describe[f].key = k
              /\ ~describe[f].abandoned
              /\ describeOf'[c] = f
         /\ \A d \in Requests \ {c} : describeOf'[d] = describeOf[d]
         /\ \A g \in DescribeIds :
              /\ Alike(describe'[g], describe[g])
              /\ describe'[g].abandoned = describe[g].abandoned
<1>1. D!JoinFlight(c, k)
  BY DescribeSame
<1>2. D!FInv'
  BY <1>1, DParameters, D!JoinKeeps
<1>3. /\ \A d \in Requests \ {c} : describeOf'[d] = describeOf[d]
      /\ describeOf[c] = 0
      /\ \A g \in D!Ids : D!Same(g) /\ describe'[g].abandoned = describe[g].abandoned
  BY <1>1, DParameters, D!JoinShows
<1>4. \E f \in D!Ids : /\ describe[f].state = "running" /\ describe[f].key = k
                       /\ ~describe[f].abandoned
                       /\ describeOf'[c] = f
  BY <1>1, DParameters, D!JoinShows
<1> QED  BY <1>2, <1>3, <1>4 DEF D!Same, Alike, D!Ids, DescribeIds

LEMMA DescribeBegins ==
  ASSUME D!FInv, NEW c \in Requests, NEW k \in Places, Describing!NewFlight(c, k)
  PROVE  /\ D!FInv' /\ describeOf[c] = 0
         /\ \E f \in DescribeIds :
              /\ describe[f] = D!Unused
              /\ describe'[f].state = "running" /\ describe'[f].key = k
              /\ describe'[f].work = Step("new", 0) /\ ~describe'[f].abandoned
              /\ \A g \in DescribeIds \ {f} : describe'[g] = describe[g]
              /\ describeOf'[c] = f
         /\ \A d \in Requests \ {c} : describeOf'[d] = describeOf[d]
<1>1. D!NewFlight(c, k)
  BY DescribeSame
<1>2. D!FInv'
  BY <1>1, DParameters, D!NewKeeps
<1>3. /\ \E f \in D!Ids : /\ describe[f] = D!Unused
                          /\ describe'[f].state = "running" /\ describe'[f].key = k
                          /\ describe'[f].work = Step("new", 0) /\ ~describe'[f].abandoned
                          /\ D!Only(f)
                          /\ describeOf'[c] = f
      /\ describeOf[c] = 0
      /\ \A d \in Requests \ {c} : describeOf'[d] = describeOf[d]
  BY <1>1, DParameters, D!NewShows
<1> QED  BY <1>2, <1>3 DEF D!Only, D!Ids, DescribeIds

LEMMA DescribeGoes ==
  ASSUME D!FInv, NEW c \in Requests, Describing!Leave(c) \/ Describing!Receive(c)
  PROVE  /\ D!FInv'
         /\ describeOf[c] \in DescribeIds /\ describeOf'[c] = 0
         /\ describe[describeOf[c]].state \in {"running", "landed"}
         /\ \A d \in Requests \ {c} : describeOf'[d] = describeOf[d]
         /\ \A g \in DescribeIds :
              \/ /\ Alike(describe'[g], describe[g])
                 /\ describe[g].abandoned => describe'[g].abandoned
                 /\ describe'[g].abandoned => describe[g].abandoned \/ describe[g].state = "running"
              \/ describe[g].state = "landed" /\ describe'[g] = D!Unused
         /\ \A d \in Requests \ {c} : describeOf[d] # 0 => Alike(describe'[describeOf[d]], describe[describeOf[d]])
<1>1. D!Leave(c) \/ D!Receive(c)
  BY DescribeSame
<1>2. D!FInv'
  BY <1>1, DParameters, D!LeaveKeeps, D!ReceiveKeeps
<1>3. /\ describeOf[c] # 0 /\ describeOf'[c] = 0
      /\ \A d \in Requests \ {c} : describeOf'[d] = describeOf[d]
      /\ \A g \in D!Ids :
           \/ /\ D!Same(g)
              /\ describe[g].abandoned => describe'[g].abandoned
              /\ describe'[g].abandoned => describe[g].abandoned \/ describe[g].state = "running"
           \/ describe[g].state = "landed" /\ describe'[g] = D!Unused
  BY <1>1, DParameters, D!GoneShows
<1>4. describeOf[c] \in D!Ids /\ describe[describeOf[c]].state \in {"running", "landed"}
  BY <1>3, DParameters, D!Referred
<1>5. ASSUME NEW d \in Requests \ {c}, describeOf[d] # 0
      PROVE  Alike(describe'[describeOf[d]], describe[describeOf[d]])
  <2>1. describeOf[d] \in D!Ids
    BY <1>5, DParameters, D!Referred
  <2>2. (describe[describeOf[d]].state \in {"running", "landed"})'
    BY <1>2, <1>3, <1>5, D!ReferredThen
  <2>3. describe'[describeOf[d]].state \in {"running", "landed"}
    BY <1>3, <2>2
  <2> QED  BY <1>3, <2>1, <2>3 DEF D!Same, Alike, D!Unused
<1>6. \A g \in D!Ids :
        \/ /\ Alike(describe'[g], describe[g])
           /\ describe[g].abandoned => describe'[g].abandoned
           /\ describe'[g].abandoned => describe[g].abandoned \/ describe[g].state = "running"
        \/ describe[g].state = "landed" /\ describe'[g] = D!Unused
  BY <1>3 DEF D!Same, Alike
<1>7. D!Ids = DescribeIds
  BY DEF D!Ids, DescribeIds
<1> QED  BY <1>2, <1>3, <1>4, <1>5, <1>6, <1>7

LEMMA DescribeAdvances ==
  ASSUME D!FInv, NEW f \in DescribeIds, NEW w \in Searches, Describing!Progress(f, w)
  PROVE  /\ D!FInv'
         /\ describe[f].state = "running"
         /\ describe'[f].state = "running" /\ describe'[f].key = describe[f].key
         /\ describe'[f].work = w /\ describe'[f].abandoned = describe[f].abandoned
         /\ \A g \in DescribeIds \ {f} : describe'[g] = describe[g]
         /\ describeOf' = describeOf
<1>1. D!Progress(f, w) /\ f \in D!Ids
  BY DescribeSame DEF D!Ids, DescribeIds
<1>2. D!FInv'
  BY <1>1, DParameters, D!ProgressKeeps
<1>3. /\ describe[f].state = "running"
      /\ describe'[f].state = "running" /\ describe'[f].key = describe[f].key
      /\ describe'[f].work = w /\ describe'[f].abandoned = describe[f].abandoned
      /\ \A g \in D!Ids \ {f} : describe'[g] = describe[g]
      /\ describeOf' = describeOf
  BY <1>1, DParameters, D!ProgressShows
<1> QED  BY <1>2, <1>3 DEF D!Ids, DescribeIds

LEMMA DescribeLands ==
  ASSUME D!FInv, NEW f \in DescribeIds, NEW a \in Findings, Describing!Land(f, a)
  PROVE  /\ D!FInv'
         /\ describe[f].state = "running"
         /\ \/ describe'[f] = D!Unused
            \/ /\ describe'[f].state = "landed" /\ describe'[f].key = describe[f].key
               /\ describe'[f].work = a /\ ~describe[f].abandoned /\ ~describe'[f].abandoned
         /\ \A g \in DescribeIds \ {f} : describe'[g] = describe[g]
         /\ describeOf' = describeOf
<1>1. D!Land(f, a) /\ f \in D!Ids
  BY DescribeSame DEF D!Ids, DescribeIds
<1>2. D!FInv'
  BY <1>1, DParameters, D!LandKeeps
<1>3. /\ describe[f].state = "running"
      /\ \/ describe'[f] = D!Unused
         \/ /\ describe'[f].state = "landed" /\ describe'[f].key = describe[f].key
            /\ describe'[f].work = a /\ ~describe[f].abandoned /\ ~describe'[f].abandoned
      /\ \A g \in D!Ids \ {f} : describe'[g] = describe[g]
      /\ describeOf' = describeOf
  BY <1>1, DParameters, D!LandShows
<1> QED  BY <1>2, <1>3 DEF D!Ids, DescribeIds

LEMMA RenderJoins ==
  ASSUME R!FInv, NEW c \in Requests, NEW k \in Descriptors, Rendering!JoinFlight(c, k)
  PROVE  /\ R!FInv' /\ renderOf[c] = 0
         /\ \E f \in RenderIds :
              /\ render[f].state = "running" /\ render[f].key = k
              /\ ~render[f].abandoned
              /\ renderOf'[c] = f
         /\ \A d \in Requests \ {c} : renderOf'[d] = renderOf[d]
         /\ \A g \in RenderIds :
              /\ Alike(render'[g], render[g])
              /\ render'[g].abandoned = render[g].abandoned
<1>1. R!JoinFlight(c, k)
  BY RenderSame
<1>2. R!FInv'
  BY <1>1, RParameters, R!JoinKeeps
<1>3. /\ \A d \in Requests \ {c} : renderOf'[d] = renderOf[d]
      /\ renderOf[c] = 0
      /\ \A g \in R!Ids : R!Same(g) /\ render'[g].abandoned = render[g].abandoned
  BY <1>1, RParameters, R!JoinShows
<1>4. \E f \in R!Ids : /\ render[f].state = "running" /\ render[f].key = k
                       /\ ~render[f].abandoned
                       /\ renderOf'[c] = f
  BY <1>1, RParameters, R!JoinShows
<1> QED  BY <1>2, <1>3, <1>4 DEF R!Same, Alike, R!Ids, RenderIds

LEMMA RenderBegins ==
  ASSUME R!FInv, NEW c \in Requests, NEW k \in Descriptors, Rendering!NewFlight(c, k)
  PROVE  /\ R!FInv' /\ renderOf[c] = 0
         /\ \E f \in RenderIds :
              /\ render[f] = R!Unused
              /\ render'[f].state = "running" /\ render'[f].key = k
              /\ render'[f].work = Step("new", 0) /\ ~render'[f].abandoned
              /\ \A g \in RenderIds \ {f} : render'[g] = render[g]
              /\ renderOf'[c] = f
         /\ \A d \in Requests \ {c} : renderOf'[d] = renderOf[d]
<1>1. R!NewFlight(c, k)
  BY RenderSame
<1>2. R!FInv'
  BY <1>1, RParameters, R!NewKeeps
<1>3. /\ \E f \in R!Ids : /\ render[f] = R!Unused
                          /\ render'[f].state = "running" /\ render'[f].key = k
                          /\ render'[f].work = Step("new", 0) /\ ~render'[f].abandoned
                          /\ R!Only(f)
                          /\ renderOf'[c] = f
      /\ renderOf[c] = 0
      /\ \A d \in Requests \ {c} : renderOf'[d] = renderOf[d]
  BY <1>1, RParameters, R!NewShows
<1> QED  BY <1>2, <1>3 DEF R!Only, R!Ids, RenderIds

LEMMA RenderGoes ==
  ASSUME R!FInv, NEW c \in Requests, Rendering!Leave(c) \/ Rendering!Receive(c)
  PROVE  /\ R!FInv'
         /\ renderOf[c] \in RenderIds /\ renderOf'[c] = 0
         /\ render[renderOf[c]].state \in {"running", "landed"}
         /\ \A d \in Requests \ {c} : renderOf'[d] = renderOf[d]
         /\ \A g \in RenderIds :
              \/ /\ Alike(render'[g], render[g])
                 /\ render[g].abandoned => render'[g].abandoned
                 /\ render'[g].abandoned => render[g].abandoned \/ render[g].state = "running"
              \/ render[g].state = "landed" /\ render'[g] = R!Unused
         /\ \A d \in Requests \ {c} : renderOf[d] # 0 => Alike(render'[renderOf[d]], render[renderOf[d]])
<1>1. R!Leave(c) \/ R!Receive(c)
  BY RenderSame
<1>2. R!FInv'
  BY <1>1, RParameters, R!LeaveKeeps, R!ReceiveKeeps
<1>3. /\ renderOf[c] # 0 /\ renderOf'[c] = 0
      /\ \A d \in Requests \ {c} : renderOf'[d] = renderOf[d]
      /\ \A g \in R!Ids :
           \/ /\ R!Same(g)
              /\ render[g].abandoned => render'[g].abandoned
              /\ render'[g].abandoned => render[g].abandoned \/ render[g].state = "running"
           \/ render[g].state = "landed" /\ render'[g] = R!Unused
  BY <1>1, RParameters, R!GoneShows
<1>4. renderOf[c] \in R!Ids /\ render[renderOf[c]].state \in {"running", "landed"}
  BY <1>3, RParameters, R!Referred
<1>5. ASSUME NEW d \in Requests \ {c}, renderOf[d] # 0
      PROVE  Alike(render'[renderOf[d]], render[renderOf[d]])
  <2>1. renderOf[d] \in R!Ids
    BY <1>5, RParameters, R!Referred
  <2>2. (render[renderOf[d]].state \in {"running", "landed"})'
    BY <1>2, <1>3, <1>5, R!ReferredThen
  <2>3. render'[renderOf[d]].state \in {"running", "landed"}
    BY <1>3, <2>2
  <2> QED  BY <1>3, <2>1, <2>3 DEF R!Same, Alike, R!Unused
<1>6. \A g \in R!Ids :
        \/ /\ Alike(render'[g], render[g])
           /\ render[g].abandoned => render'[g].abandoned
           /\ render'[g].abandoned => render[g].abandoned \/ render[g].state = "running"
        \/ render[g].state = "landed" /\ render'[g] = R!Unused
  BY <1>3 DEF R!Same, Alike
<1>7. R!Ids = RenderIds
  BY DEF R!Ids, RenderIds
<1> QED  BY <1>2, <1>3, <1>4, <1>5, <1>6, <1>7

LEMMA RenderAdvances ==
  ASSUME R!FInv, NEW f \in RenderIds, NEW w \in Renderings, Rendering!Progress(f, w)
  PROVE  /\ R!FInv'
         /\ render[f].state = "running"
         /\ render'[f].state = "running" /\ render'[f].key = render[f].key
         /\ render'[f].work = w /\ render'[f].abandoned = render[f].abandoned
         /\ \A g \in RenderIds \ {f} : render'[g] = render[g]
         /\ renderOf' = renderOf
<1>1. R!Progress(f, w) /\ f \in R!Ids
  BY RenderSame DEF R!Ids, RenderIds
<1>2. R!FInv'
  BY <1>1, RParameters, R!ProgressKeeps
<1>3. /\ render[f].state = "running"
      /\ render'[f].state = "running" /\ render'[f].key = render[f].key
      /\ render'[f].work = w /\ render'[f].abandoned = render[f].abandoned
      /\ \A g \in R!Ids \ {f} : render'[g] = render[g]
      /\ renderOf' = renderOf
  BY <1>1, RParameters, R!ProgressShows
<1> QED  BY <1>2, <1>3 DEF R!Ids, RenderIds

LEMMA RenderLands ==
  ASSUME R!FInv, NEW f \in RenderIds, NEW a \in Images, Rendering!Land(f, a)
  PROVE  /\ R!FInv'
         /\ render[f].state = "running"
         /\ \/ render'[f] = R!Unused
            \/ /\ render'[f].state = "landed" /\ render'[f].key = render[f].key
               /\ render'[f].work = a /\ ~render[f].abandoned /\ ~render'[f].abandoned
         /\ \A g \in RenderIds \ {f} : render'[g] = render[g]
         /\ renderOf' = renderOf
<1>1. R!Land(f, a) /\ f \in R!Ids
  BY RenderSame DEF R!Ids, RenderIds
<1>2. R!FInv'
  BY <1>1, RParameters, R!LandKeeps
<1>3. /\ render[f].state = "running"
      /\ \/ render'[f] = R!Unused
         \/ /\ render'[f].state = "landed" /\ render'[f].key = render[f].key
            /\ render'[f].work = a /\ ~render[f].abandoned /\ ~render'[f].abandoned
      /\ \A g \in R!Ids \ {f} : render'[g] = render[g]
      /\ renderOf' = renderOf
  BY <1>1, RParameters, R!LandShows
<1> QED  BY <1>2, <1>3 DEF R!Ids, RenderIds

-----------------------------------------------------------------------------
(* Steps that only the request itself is concerned by. *)

LEMMA ProbeGroupStays == P!FInv /\ UNCHANGED flightVars => P!FInv'
BY PParameters, P!FStep DEF P!fvars, flightVars

LEMMA DescribeGroupStays == D!FInv /\ UNCHANGED describeVars => D!FInv'
BY DParameters, D!FStep DEF D!fvars, describeVars

LEMMA RenderGroupStays == R!FInv /\ UNCHANGED renderVars => R!FInv'
BY RParameters, R!FStep DEF R!fvars, renderVars

LEMMA OwnStep ==
  ASSUME CInv, NEW r \in Requests,
         UNCHANGED <<probeVars, fileVars, describeVars, renderVars>>,
         DescriptorCache', req' \in [Requests -> RequestRecords],
         \A q \in Requests \ {r} : /\ req'[q] = req[q]
                                   /\ q \in disturbed => q \in disturbed',
         RequestGood(r)'
  PROVE  CInv'
<1>1. FlightsSound'
  BY ProbeGroupStays, DescribeGroupStays, RenderGroupStays DEF CInv, FlightsSound, probeVars, flightVars
<1>2. ProbeInv'
  BY ProbeQuiet DEF CInv
<1>3. FilesStay
  BY DEF FilesStay, probeVars, fileVars
<1>4. \A f \in DescribeIds : DescribeSound(f)'
  BY <1>3, DescribeStays DEF CInv, FileInv, probeVars, describeVars, Alike
<1>5. \A f \in RenderIds : RenderSound(f)'
  BY <1>3, RenderStays DEF CInv, FileInv, renderVars, Alike
<1>6. \A q \in Requests \ {r} : RequestGood(q)'
  BY <1>3, Bystander DEF CInv, probeVars, describeVars, renderVars, Alike
<1>7. Files'
  BY DEF CInv, FileInv, Files, fileVars
<1> QED  BY <1>1, <1>2, <1>4, <1>5, <1>6, <1>7 DEF CInv, FileInv

LEMMA CacheQuiet ==
  ASSUME FileInv, FilesStay, UNCHANGED descriptorLRU
  PROVE  DescriptorCache'
BY CacheStays DEF FileInv, DescriptorCache

(* Where a request begins. *)
Start(s, v, k) == [stage |-> s, audio |-> v, place |-> k,
                   found |-> NoDescriptor, outcome |-> Problem("none")]

LEMMA Starts ==
  /\ \A v : [Idle EXCEPT !.stage = "directory", !.audio = v] = Start("directory", v, NoPlace)
  /\ \A k : [Idle EXCEPT !.stage = "lookup", !.place = k] = Start("lookup", 0, k)
  /\ [Idle EXCEPT !.stage = "probing"] = Start("probing", 0, NoPlace)
  /\ Idle = Start("idle", 0, NoPlace)
<1>1. Idle = Start("idle", 0, NoPlace)
  BY DEF Idle, Start
<1>2. \A s, v, k, t : [Start(s, v, k) EXCEPT !.stage = t] = Start(t, v, k)
  BY DEF Start
<1>3. \A s, v, k, w : [Start(s, v, k) EXCEPT !.audio = w] = Start(s, w, k)
  BY DEF Start
<1>4. \A s, v, k, l : [Start(s, v, k) EXCEPT !.place = l] = Start(s, v, l)
  BY DEF Start
<1>5. \A v : [Idle EXCEPT !.stage = "directory", !.audio = v] = Start("directory", v, NoPlace)
  <2> TAKE v
  <2> DEFINE i == Start("directory", 0, NoPlace)
  <2>1. [Idle EXCEPT !.stage = "directory"] = i
    BY <1>1, <1>2
  <2>2. [i EXCEPT !.audio = v] = Start("directory", v, NoPlace)
    BY <1>3
  <2> HIDE DEF i
  <2> QED  BY <2>1, <2>2
<1>6. \A k : [Idle EXCEPT !.stage = "lookup", !.place = k] = Start("lookup", 0, k)
  <2> TAKE k
  <2> DEFINE i == Start("lookup", 0, NoPlace)
  <2>1. [Idle EXCEPT !.stage = "lookup"] = i
    BY <1>1, <1>2
  <2>2. [i EXCEPT !.place = k] = Start("lookup", 0, k)
    BY <1>4
  <2> HIDE DEF i
  <2> QED  BY <2>1, <2>2
<1>7. [Idle EXCEPT !.stage = "probing"] = Start("probing", 0, NoPlace)
  BY <1>1, <1>2
<1> QED  BY <1>1, <1>5, <1>6, <1>7

LEMMA StartShows ==
  ASSUME req \in [Requests -> RequestRecords], NEW r \in Requests, NEW s \in Stages,
         NEW v \in 0..MaxVersion, NEW k \in Places \cup {NoPlace},
         req' = [req EXCEPT ![r] = Start(s, v, k)]
  PROVE  /\ req' \in [Requests -> RequestRecords]
         /\ req'[r].stage = s /\ req'[r].audio = v /\ req'[r].place = k
         /\ \A q \in Requests \ {r} : req'[q] = req[q]
<1> DEFINE y == Start(s, v, k)
<1>1. y \in RequestRecords /\ y.stage = s /\ y.audio = v /\ y.place = k
  BY DEF Start, RequestRecords, Ended
<1> HIDE DEF y
<1>2. req' = [req EXCEPT ![r] = y]
  BY DEF y
<1> QED  BY <1>1, <1>2, Put

LEMMA VersionType ==
  ASSUME CInv
  PROVE  /\ version[Track] \in Versions /\ version[Track] \in 0..MaxVersion
         /\ version[Track] \in Nat \ {0} /\ MaxVersion \in Nat
BY CallersAssumption, ProbeAssumption DEF CInv, ProbeInv, ProbeTypes, Versions

LEMMA DirectoryHere ==
  ASSUME CInv
  PROVE  Directory \in Places /\ PastPlace(Directory) /\ Directory.kind = "directory"
BY DEF CInv, FileInv, Files, Directory, Places, PastPlace

(* A request that is not inside inspect and waits on nothing. *)
LEMMA AtEase ==
  ASSUME CInv, NEW r \in Requests, req[r].stage \in {"idle", "answered", "directory", "lookup", "serve"}
  PROVE  want[r] = NoKey /\ got[r] = NoAnswer /\ describeOf[r] = 0 /\ renderOf[r] = 0
BY DEF CInv, RequestGood, RequestSound, Inside, At

LEMMA AskTrackKeeps ==
  ASSUME CInv, NEW r \in Requests, AskTrackCover(r)
  PROVE  CInv'
<1>1. /\ req' = [req EXCEPT ![r] = Start("directory", version[Track], NoPlace)]
      /\ disturbed' = disturbed \ {r}
  BY Starts DEF AskTrackCover, Asks
<1>2. /\ req' \in [Requests -> RequestRecords]
      /\ req'[r].stage = "directory" /\ req'[r].audio = version[Track]
      /\ \A q \in Requests \ {r} : req'[q] = req[q]
  <2>1. "directory" \in Stages /\ version[Track] \in 0..MaxVersion
    BY VersionType DEF Stages
  <2>2. req \in [Requests -> RequestRecords]
    BY DEF CInv
  <2> DEFINE k == NoPlace
             v == version[Track]
             s == "directory"
  <2>3. /\ k \in Places \cup {NoPlace} /\ v \in 0..MaxVersion /\ s \in Stages
        /\ req' = [req EXCEPT ![r] = Start(s, v, k)]
    BY <1>1, <2>1
  <2> HIDE DEF k, v, s
  <2>4. /\ req' \in [Requests -> RequestRecords]
        /\ req'[r].stage = s /\ req'[r].audio = v
        /\ \A q \in Requests \ {r} : req'[q] = req[q]
    BY <2>2, <2>3, StartShows
  <2>5. s = "directory" /\ v = version[Track]
    BY DEF s, v
  <2> QED  BY <2>4, <2>5
<1>3. want[r] = NoKey /\ got[r] = NoAnswer /\ describeOf[r] = 0 /\ renderOf[r] = 0
  BY AtEase DEF AskTrackCover, Asks, At
<1>4. UNCHANGED <<want, got, describeOf, renderOf, version>>
  BY DEF AskTrackCover, probeVars, describeVars, renderVars
<1>5. RequestSound(r)'
  BY <1>2, <1>3, <1>4, VersionType DEF RequestSound, At, Inside
<1>6. Fresh(r)'
  BY <1>2, <1>3, <1>4 DEF Fresh, FreshProbe, FreshPlace, FreshDescribe, FreshRender, FreshAnswer,
       At, NoAnswer
<1>7. DescriptorCache'
  BY CacheQuiet DEF CInv, AskTrackCover, FilesStay, probeVars, fileVars, lruVars
<1> QED  BY <1>1, <1>2, <1>5, <1>6, <1>7, OwnStep DEF AskTrackCover, RequestGood

LEMMA AskDirectoryKeeps ==
  ASSUME CInv, NEW r \in Requests, AskDirectoryCover(r)
  PROVE  CInv'
<1>1. /\ req' = [req EXCEPT ![r] = Start("lookup", 0, Directory)]
      /\ disturbed' = disturbed \ {r}
  BY Starts DEF AskDirectoryCover, Asks
<1>2. /\ req' \in [Requests -> RequestRecords]
      /\ req'[r].stage = "lookup" /\ req'[r].audio = 0 /\ req'[r].place = Directory
      /\ \A q \in Requests \ {r} : req'[q] = req[q]
  <2>1. "lookup" \in Stages /\ 0 \in 0..MaxVersion /\ Directory \in Places
    BY VersionType, DirectoryHere DEF Stages
  <2>2. req \in [Requests -> RequestRecords]
    BY DEF CInv
  <2> QED  BY <1>1, <2>1, <2>2, StartShows
<1>3. want[r] = NoKey /\ got[r] = NoAnswer /\ describeOf[r] = 0 /\ renderOf[r] = 0
  BY AtEase DEF AskDirectoryCover, Asks, At
<1>4. UNCHANGED <<want, got, describeOf, renderOf, version, mtime>>
  BY DEF AskDirectoryCover, probeVars, fileVars, describeVars, renderVars
<1>5. RequestSound(r)'
  BY <1>2, <1>3, <1>4, VersionType, DirectoryHere DEF RequestSound, At, Inside, PastPlace
<1>6. Fresh(r)'
  BY <1>2, <1>3, <1>4 DEF Fresh, FreshProbe, FreshPlace, FreshDescribe, FreshRender, FreshAnswer,
       At, NoAnswer, Directory
<1>7. DescriptorCache'
  BY CacheQuiet DEF CInv, AskDirectoryCover, FilesStay, probeVars, fileVars, lruVars
<1> QED  BY <1>1, <1>2, <1>5, <1>6, <1>7, OwnStep DEF AskDirectoryCover, RequestGood

LEMMA IdentifyKeeps ==
  ASSUME CInv, NEW r \in Requests, IdentifyDirectory(r)
  PROVE  CInv'
<1>1. want[r] = NoKey /\ got[r] = NoAnswer /\ describeOf[r] = 0 /\ renderOf[r] = 0
  BY AtEase DEF IdentifyDirectory, At
<1>2. UNCHANGED <<want, got, ended, describeOf, renderOf, version, mtime, disturbed>>
  BY DEF IdentifyDirectory, probeVars, fileVars, describeVars, renderVars
<1>3. DescriptorCache'
  BY CacheQuiet DEF CInv, IdentifyDirectory, FilesStay, probeVars, fileVars, lruVars
<1>4. CASE r \in ended
  <2>1. /\ req' \in [Requests -> RequestRecords]
        /\ req'[r].stage = "answered" /\ req'[r].audio = 0 /\ req'[r].outcome.kind = "cancelled"
        /\ \A q \in Requests \ {r} : req'[q] = req[q]
    BY <1>4, EndsShows DEF IdentifyDirectory, CInv, Ended, Problem, Problems
  <2>2. RequestSound(r)'
    BY <1>1, <1>2, <1>4, <2>1, VersionType DEF RequestSound, At, Inside
  <2>3. Fresh(r)'
    BY <1>1, <1>2, <2>1 DEF Fresh, FreshProbe, FreshPlace, FreshDescribe, FreshRender, FreshAnswer,
         At, NoAnswer
  <2> QED  BY <1>2, <1>3, <2>1, <2>2, <2>3, OwnStep DEF IdentifyDirectory, RequestGood
<1>5. CASE r \notin ended
  <2>1. /\ req' \in [Requests -> RequestRecords]
        /\ req'[r].stage = "lookup" /\ req'[r].audio = req[r].audio /\ req'[r].place = Directory
        /\ \A q \in Requests \ {r} : req'[q] = req[q]
    BY <1>5, LookupShows, DirectoryHere DEF IdentifyDirectory, CInv
  <2>2. RequestSound(r)'
    BY <1>1, <1>2, <2>1, DirectoryHere DEF RequestSound, At, Inside, PastPlace, CInv, RequestGood
  <2>3. r \notin disturbed => Fresh(r)'
    BY <1>1, <1>2, <2>1 DEF Fresh, FreshProbe, FreshPlace, FreshDescribe, FreshRender, FreshAnswer,
         At, NoAnswer, Directory, CInv, RequestGood
  <2> QED  BY <1>2, <1>3, <2>1, <2>2, <2>3, OwnStep DEF IdentifyDirectory, RequestGood
<1> QED  BY <1>4, <1>5

-----------------------------------------------------------------------------
(* What describing a place ends in. *)

LEMMA OutcomeTypes ==
  /\ \A a \in Findings : \/ a.kind = "found" /\ a.descriptor \in Descriptors
                         \/ a.kind \in Problems /\ a \in Ended
  /\ \A d \in Descriptors : /\ d.kind \in {"fallback", "embedded"}
                            /\ d.id \in Nat \ {0} /\ d.seen \in Nat \ {0}
                            /\ d.id \in Covers \cup Versions
<1>1. \A a \in Findings : \/ a.kind = "found" /\ a.descriptor \in Descriptors
                          \/ a.kind \in Problems /\ a \in Ended
  BY DEF Findings, Found, Problem, Ended
<1>2. Covers \subseteq Nat \ {0} /\ Versions \subseteq Nat \ {0}
  BY ProbeAssumption, CallersAssumption DEF Covers, Versions
<1>3. ASSUME NEW d \in Descriptors
      PROVE  /\ d.kind \in {"fallback", "embedded"}
             /\ d.id \in Covers \cup Versions /\ d.seen \in Covers \cup Versions
  BY DEF Descriptors
<1> QED  BY <1>1, <1>2, <1>3

LEMMA DescribedGood ==
  ASSUME CInv, NEW r \in Requests, NEW a \in Findings, Described(r, a),
         req[r].stage \in {"lookup", "describing"},
         Fitting(req[r].place, a), a.kind \notin {"stale", "cancelled"},
         FilesStay, UNCHANGED <<want, got, disturbed>>, r \in ended => r \in ended',
         describeOf'[r] = 0, renderOf'[r] = 0,
         r \notin disturbed /\ a.kind = "found" => UpToDate(a.descriptor)
  PROVE  /\ req' \in [Requests -> RequestRecords]
         /\ \A q \in Requests \ {r} : req'[q] = req[q]
         /\ RequestGood(r)'
<1>1. req \in [Requests -> RequestRecords] /\ req[r] \in RequestRecords
  BY DEF CInv
<1>2. RequestSound(r) /\ want[r] = NoKey /\ got[r] = NoAnswer
  BY DEF CInv, RequestGood, RequestSound, Inside, At
<1>3. CASE a.kind = "found"
  <2>1. a.descriptor \in Descriptors
    BY <1>3, OutcomeTypes DEF Problems
  <2>2. /\ req' \in [Requests -> RequestRecords]
        /\ req'[r].stage = "serve" /\ req'[r].audio = 0 /\ req'[r].found = a.descriptor
        /\ \A q \in Requests \ {r} : req'[q] = req[q]
    <3>1. req' = [req EXCEPT ![r] = [Idle EXCEPT !.stage = "serve", !.found = a.descriptor]]
      BY <1>3 DEF Described
    <3> QED  BY <1>1, <2>1, <3>1, ServeShows
  <2>3. RequestSound(r)'
    BY <1>2, <2>1, <2>2, VersionType DEF RequestSound, At, Inside, FilesStay
  <2>4. r \notin disturbed => Fresh(r)'
    BY <1>2, <1>3, <2>2 DEF Fresh, FreshProbe, FreshPlace, FreshDescribe, FreshRender, FreshAnswer,
       At, NoAnswer, UpToDate, FilesStay
  <2> QED  BY <2>2, <2>3, <2>4 DEF RequestGood
<1>4. CASE a.kind = "absent" /\ req[r].audio # 0 /\ req[r].place.kind = "directory"
  <2> DEFINE k == [kind |-> "embedded", stamp |-> req[r].audio]
  <2>1. req[r].audio \in Versions
    BY <1>1, <1>4, ProbeAssumption DEF RequestRecords, Versions
  <2>2. k \in Places /\ k.kind = "embedded" /\ k.stamp = req[r].audio
    BY <2>1 DEF Places
  <2>3. req' = [req EXCEPT ![r].stage = "lookup", ![r].place = k]
    BY <1>4 DEF Described
  <2>4. PastPlace(k)
    BY <1>2, <2>2 DEF PastPlace, RequestSound
  <2> HIDE DEF k
  <2>5. /\ req' \in [Requests -> RequestRecords]
        /\ req'[r].stage = "lookup" /\ req'[r].audio = req[r].audio /\ req'[r].place = k
        /\ \A q \in Requests \ {r} : req'[q] = req[q]
    BY <1>1, <2>2, <2>3, LookupShows
  <2>6. RequestSound(r)'
    BY <1>2, <2>4, <2>5, VersionType DEF RequestSound, At, Inside, FilesStay, PastPlace
  <2>7. r \notin disturbed => cover = 0
    <3> SUFFICES ASSUME r \notin disturbed PROVE cover = 0  OBVIOUS
    <3>1. req[r].place.stamp = mtime
      BY <1>4 DEF CInv, RequestGood, Fresh, FreshPlace
    <3>2. req[r].place \in Places
      BY <1>2 DEF RequestSound, PastPlace
    <3>3. req[r].place = Directory
      BY <1>4, <3>1, <3>2 DEF Places, Directory
    <3> QED  BY <1>4, <3>3 DEF Fitting
  <2>8. r \notin disturbed => Fresh(r)'
    BY <1>2, <1>4, <2>2, <2>5, <2>7 DEF Fresh, FreshProbe, FreshPlace, FreshDescribe, FreshRender,
       FreshAnswer, At, NoAnswer, FilesStay, CInv, RequestGood
  <2> QED  BY <2>5, <2>6, <2>8 DEF RequestGood
<1>5. CASE a.kind # "found" /\ ~ (a.kind = "absent" /\ req[r].audio # 0 /\ req[r].place.kind = "directory")
  <2>1. a \in Ended
    BY <1>5, OutcomeTypes
  <2>2. /\ req' \in [Requests -> RequestRecords]
        /\ req'[r].stage = "answered" /\ req'[r].audio = 0 /\ req'[r].outcome = a
        /\ \A q \in Requests \ {r} : req'[q] = req[q]
    BY <1>1, <1>5, <2>1, EndsShows DEF Described
  <2>3. RequestSound(r)'
    BY <1>2, <2>2, VersionType DEF RequestSound, At, Inside, FilesStay
  <2>4. r \notin disturbed => Fresh(r)'
    <3>1. a.kind \in {"absent", "unusable", "failed"}
      BY <1>5, OutcomeTypes DEF Problems
    <3> QED  BY <1>2, <2>2, <3>1 DEF Fresh, FreshProbe, FreshPlace, FreshDescribe, FreshRender,
                FreshAnswer, At, NoAnswer, FilesStay
  <2> QED  BY <2>2, <2>3, <2>4 DEF RequestGood
<1> QED  BY <1>3, <1>4, <1>5

LEMMA HitKeeps ==
  ASSUME CInv, NEW r \in Requests, HitDescriptor(r)
  PROVE  CInv'
<1>1. PICK e \in Entries(descriptorLRU) :
        /\ e.key = req[r].place
        /\ e.answer.kind = "found" => StillValid(e.answer.descriptor)
        /\ descriptorLRU' = <<e>> \o Without(descriptorLRU, e.key)
        /\ Described(r, e.answer)
  BY DEF HitDescriptor
<1>2. At(r, "lookup") /\ UNCHANGED <<probeVars, fileVars, inputs, disturbed, totalBytes, describeVars, renderVars>>
  BY DEF HitDescriptor
<1>3. want[r] = NoKey /\ got[r] = NoAnswer /\ describeOf[r] = 0 /\ renderOf[r] = 0
  BY <1>2, AtEase DEF At
<1>4. /\ e \in [key : Places, answer : Findings] /\ e.answer \in Findings
      /\ Cached(e)
      /\ descriptorLRU \in Seq([key : Places, answer : Findings])
  <2>1. /\ descriptorLRU \in Seq([key : Places, answer : Findings])
        /\ Cached(e)
    BY DEF CInv, FileInv, DescriptorCache
  <2>2. PICK i \in 1..Len(descriptorLRU) : e = descriptorLRU[i]
    BY DEF Entries
  <2>3. e \in [key : Places, answer : Findings]
    BY <2>1, <2>2, ElementOfSeq
  <2> QED  BY <2>1, <2>3
<1>5. FilesStay
  BY <1>2 DEF FilesStay, probeVars, fileVars
<1>6. DescriptorCache'
  <2>1. /\ descriptorLRU' \in Seq([key : Places, answer : Findings])
        /\ Entries(descriptorLRU') \subseteq Entries(descriptorLRU)
    BY <1>1, <1>4, WithoutKeeps, FrontKeeps
  <2>2. Entries(descriptorLRU)' = Entries(descriptorLRU')
    BY DEF Entries
  <2> QED  BY <1>5, <2>1, <2>2, CacheStays DEF CInv, FileInv
<1>7. r \notin disturbed /\ e.answer.kind = "found" => UpToDate(e.answer.descriptor)
  <2> SUFFICES ASSUME r \notin disturbed, e.answer.kind = "found"
               PROVE  UpToDate(e.answer.descriptor)
    OBVIOUS
  <2> DEFINE d == e.answer.descriptor
  <2>1. Fits(req[r].place, d) /\ d \in Descriptors /\ StillValid(d)
    BY <1>1, <1>4 DEF Cached, Fitting, Fits
  <2>2. /\ req[r].place.kind \in {"directory", "embedded"}
        /\ req[r].place.kind = "embedded" => cover = 0 /\ req[r].place.stamp = version[Track]
    BY <1>2 DEF CInv, RequestGood, RequestSound, Fresh, FreshPlace, PastPlace, Places, At
  <2>3. d.id \in Nat \ {0} /\ d.seen \in Nat \ {0} /\ version[Track] \in Nat
    BY <2>1, OutcomeTypes, VersionType
  <2>4. cover \in {0, covers} /\ covers \in Nat
    BY CallersAssumption DEF CInv, FileInv, Files, Covers
  <2> HIDE DEF d
  <2>5. UpToDate(d)
    BY <2>1, <2>2, <2>3, <2>4 DEF UpToDate, Fits, StillValid
  <2> QED  BY <2>5 DEF d
<1>8. /\ req' \in [Requests -> RequestRecords]
      /\ \A q \in Requests \ {r} : req'[q] = req[q]
      /\ RequestGood(r)'
  <2>1. Fitting(req[r].place, e.answer) /\ e.answer.kind \notin {"stale", "cancelled"}
    BY <1>1, <1>4 DEF Cached
  <2>2. /\ UNCHANGED <<want, got, disturbed>> /\ (r \in ended => r \in ended')
        /\ describeOf'[r] = 0 /\ renderOf'[r] = 0
    BY <1>2, <1>3 DEF probeVars, describeVars, renderVars
  <2> QED  BY <1>1, <1>2, <1>4, <1>5, <1>7, <2>1, <2>2, DescribedGood DEF At
<1> QED  BY <1>2, <1>6, <1>8, OwnStep

LEMMA ServeDescriptorKeeps ==
  ASSUME CInv, NEW r \in Requests, ServeDescriptor(r) \/ ServeOriginal(r)
  PROVE  CInv'
<1>1. At(r, "serve") /\ UNCHANGED <<probeVars, fileVars, inputs, disturbed, lruVars, describeVars, renderVars>>
  BY DEF ServeDescriptor, ServeOriginal
<1>2. want[r] = NoKey /\ got[r] = NoAnswer /\ describeOf[r] = 0 /\ renderOf[r] = 0
  BY <1>1, AtEase DEF At
<1>3. FilesStay
  BY <1>1 DEF FilesStay, probeVars, fileVars
<1>4. DescriptorCache'
  BY <1>1, <1>3, CacheQuiet DEF CInv, lruVars
<1> DEFINE d == req[r].found
<1>5. /\ d \in Descriptors /\ d.kind \in {"fallback", "embedded"} /\ d.id \in Covers \cup Versions
      /\ r \notin disturbed => UpToDate(d)
  BY <1>1, OutcomeTypes DEF CInv, RequestGood, RequestSound, Fresh, FreshRender, At
<1> HIDE DEF d
<1>6. PICK a : /\ Ends(r, a)
               /\ \/ a = Image("unchanged", d.id)
                  \/ a = Original(d)
  BY DEF ServeDescriptor, ServeOriginal, d
<1>7. /\ a \in Ended /\ a.kind \in {"unchanged", "original", "stale"}
      /\ a.kind # "stale" => a.version = d.id
      /\ UpToDate(d) => a.kind # "stale"
  <2>1. CASE a = Image("unchanged", d.id)
    BY <1>5, <2>1 DEF Image, Ended
  <2>2. CASE a = Image("original", d.id) /\ SameSource(d)
    BY <1>5, <2>2 DEF Image, Ended, Images
  <2>3. CASE a = Problem("stale") /\ ~SameSource(d)
    <3>1. UpToDate(d) => SameSource(d)
      BY <1>5 DEF UpToDate, SameSource
    <3> QED  BY <2>3, <3>1 DEF Problem, Ended, Problems
  <2> QED  BY <1>6, <2>1, <2>2, <2>3 DEF Original
<1>8. /\ req' \in [Requests -> RequestRecords]
      /\ req'[r].stage = "answered" /\ req'[r].audio = 0 /\ req'[r].outcome = a /\ req'[r].found = d
      /\ \A q \in Requests \ {r} : req'[q] = req[q]
  BY <1>6, <1>7, EndsShows DEF CInv, d
<1>9. RequestSound(r)'
  BY <1>1, <1>2, <1>7, <1>8, VersionType DEF RequestSound, At, Inside, FilesStay, probeVars, describeVars, renderVars
<1>10. r \notin disturbed => Fresh(r)'
  BY <1>1, <1>2, <1>3, <1>5, <1>7, <1>8 DEF Fresh, FreshProbe, FreshPlace, FreshDescribe, FreshRender,
     FreshAnswer, At, NoAnswer, UpToDate, FilesStay, probeVars
<1> QED  BY <1>1, <1>4, <1>8, <1>9, <1>10, OwnStep DEF RequestGood

-----------------------------------------------------------------------------
(* The callers of the descriptor flights. *)

LEMMA DescribeCallerStep ==
  ASSUME CInv, NEW r \in Requests,
         UNCHANGED <<version, want, got, cacheVars, flightVars, fileVars, renderVars>>,
         ended \subseteq ended', ended' \subseteq ended \cup {f \in DescribeIds : describe'[f].abandoned},
         D!FInv', DescriptorCache', req' \in [Requests -> RequestRecords],
         \A q \in Requests \ {r} : /\ req'[q] = req[q] /\ describeOf'[q] = describeOf[q]
                                   /\ q \in disturbed => q \in disturbed'
                                   /\ describeOf[q] # 0 =>
                                        Alike(describe'[describeOf[q]], describe[describeOf[q]]),
         \A f \in DescribeIds : DescribeSound(f)',
         RequestGood(r)'
  PROVE  CInv'
<1>1. FlightsSound'
  BY ProbeGroupStays, RenderGroupStays DEF CInv, FlightsSound
<1>2. ProbeInv'
  <2>1. ended' \subseteq Callers
    BY CallersAssumption DEF CInv, ProbeInv, ProbeTypes
  <2>2. got' \in [Callers -> Answers \cup {NoAnswer}]
    BY DEF CInv, ProbeInv, ProbeTypes
  <2> QED  BY <2>1, <2>2, ProbeStays DEF CInv, cacheVars, flightVars
<1>3. FilesStay
  BY DEF FilesStay, fileVars
<1>4. \A f \in RenderIds : RenderSound(f)'
  BY <1>3, RenderStays DEF CInv, FileInv, renderVars, Alike
<1>5. \A q \in Requests \ {r} : RequestGood(q)'
  BY <1>3, Bystander DEF CInv, renderVars, Alike
<1>6. Files'
  BY DEF CInv, FileInv, Files, fileVars
<1> QED  BY <1>1, <1>2, <1>4, <1>5, <1>6 DEF CInv, FileInv

LEMMA JoinDescribeKeeps ==
  ASSUME CInv, NEW r \in Requests, At(r, "lookup"), Describing!JoinFlight(r, req[r].place),
         disturbed' = IF req[r].place.kind = "directory" THEN disturbed \cup {r} ELSE disturbed,
         DescriptorCache', Goes(r, "describing"), UNCHANGED <<probeVars, fileVars, renderVars>>
  PROVE  CInv'
<1> DEFINE k == req[r].place
<1>1. k \in Places /\ RequestSound(r)
  BY DEF CInv, RequestGood, RequestSound, At, PastPlace
<1> HIDE DEF k
<1>2. /\ D!FInv' /\ describeOf[r] = 0
      /\ \E f \in DescribeIds :
           /\ describe[f].state = "running" /\ describe[f].key = k
           /\ ~describe[f].abandoned
           /\ describeOf'[r] = f
      /\ \A q \in Requests \ {r} : describeOf'[q] = describeOf[q]
      /\ \A g \in DescribeIds : /\ Alike(describe'[g], describe[g])
                               /\ describe'[g].abandoned = describe[g].abandoned
  <2>1. Describing!JoinFlight(r, k) /\ D!FInv
    BY DEF k, CInv, FlightsSound
  <2> QED  BY <1>1, <2>1, DescribeJoins
<1>3. PICK f \in DescribeIds : /\ describe[f].state = "running" /\ describe[f].key = k
                               /\ describeOf'[r] = f
  BY <1>2
<1>4. describeOf \in [Requests -> DescribeIds \cup {0}]
  BY DEF CInv, FlightsSound, D!FInv, D!TypeOK, D!Ids, DescribeIds
<1>6. /\ req' \in [Requests -> RequestRecords]
      /\ req'[r].stage = "describing" /\ req'[r].audio = req[r].audio /\ req'[r].place = k
      /\ \A q \in Requests \ {r} : req'[q] = req[q]
  BY GoesShows DEF CInv, Stages, k
<1>7. FilesStay /\ UNCHANGED <<want, got, ended, renderOf>>
  BY DEF FilesStay, probeVars, fileVars, renderVars
<1>8. \A g \in DescribeIds : DescribeSound(g)'
  BY <1>2, <1>7, DescribeStays DEF CInv, FileInv
<1>9. want[r] = NoKey /\ got[r] = NoAnswer /\ renderOf[r] = 0
  BY AtEase DEF At
<1>10. describeOf'[r] = f /\ f # 0 /\ describe'[f].key = k /\ describe'[f].state = "running"
  BY <1>2, <1>3 DEF Alike, DescribeIds
<1>11. RequestSound(r)'
  BY <1>1, <1>6, <1>7, <1>9, <1>10, VersionType DEF RequestSound, At, Inside, FilesStay, PastPlace, k
<1>12. r \notin disturbed' => Fresh(r)'
  <2> SUFFICES ASSUME r \notin disturbed' PROVE Fresh(r)'  OBVIOUS
  <2>1. r \notin disturbed /\ k.kind # "directory"
    BY DEF k
  <2> QED  BY <1>6, <1>7, <1>9, <2>1 DEF Fresh, FreshProbe, FreshPlace, FreshDescribe, FreshRender,
              FreshAnswer, At, NoAnswer, FilesStay, CInv, RequestGood, k
<1>13. \A q \in Requests \ {r} : /\ describeOf'[q] = describeOf[q]
                                 /\ q \in disturbed => q \in disturbed'
                                 /\ describeOf[q] # 0 =>
                                      Alike(describe'[describeOf[q]], describe[describeOf[q]])
  BY <1>2, <1>4
<1> QED  BY <1>2, <1>6, <1>7, <1>8, <1>11, <1>12, <1>13, DescribeCallerStep
         DEF RequestGood, probeVars, cacheVars, flightVars, FilesStay

LEMMA NewDescribeKeeps ==
  ASSUME CInv, NEW r \in Requests, At(r, "lookup"), Describing!NewFlight(r, req[r].place),
         UNCHANGED disturbed,
         DescriptorCache', Goes(r, "describing"), UNCHANGED <<probeVars, fileVars, renderVars>>
  PROVE  CInv'
<1> DEFINE k == req[r].place
<1>1. k \in Places /\ PastPlace(k) /\ RequestSound(r)
  BY DEF CInv, RequestGood, RequestSound, At, PastPlace
<1> HIDE DEF k
<1>2. /\ D!FInv' /\ describeOf[r] = 0
      /\ \E f \in DescribeIds :
           /\ describe[f] = D!Unused
           /\ describe'[f].state = "running" /\ describe'[f].key = k
           /\ describe'[f].work = Step("new", 0) /\ ~describe'[f].abandoned
           /\ \A g \in DescribeIds \ {f} : describe'[g] = describe[g]
           /\ describeOf'[r] = f
      /\ \A q \in Requests \ {r} : describeOf'[q] = describeOf[q]
  <2>1. Describing!NewFlight(r, k) /\ D!FInv
    BY DEF k, CInv, FlightsSound
  <2> QED  BY <1>1, <2>1, DescribeBegins
<1>3. PICK f \in DescribeIds : /\ describe[f] = D!Unused
                               /\ describe'[f].state = "running" /\ describe'[f].key = k
                               /\ describe'[f].work = Step("new", 0) /\ ~describe'[f].abandoned
                               /\ \A g \in DescribeIds \ {f} : describe'[g] = describe[g]
                               /\ describeOf'[r] = f
  BY <1>2
<1>4. describeOf \in [Requests -> DescribeIds \cup {0}]
  BY DEF CInv, FlightsSound, D!FInv, D!TypeOK, D!Ids, DescribeIds
<1>6. /\ req' \in [Requests -> RequestRecords]
      /\ req'[r].stage = "describing" /\ req'[r].audio = req[r].audio /\ req'[r].place = k
      /\ \A q \in Requests \ {r} : req'[q] = req[q]
  BY GoesShows DEF CInv, Stages, k
<1>7. FilesStay /\ UNCHANGED <<want, got, ended, renderOf>>
  BY DEF FilesStay, probeVars, fileVars, renderVars
<1>8. \A g \in DescribeIds : DescribeSound(g)'
  <2>1. \A g \in DescribeIds \ {f} : DescribeSound(g)'
    BY <1>3, <1>7, DescribeStays DEF CInv, FileInv, Alike
  <2>2. DescribeSound(f)'
    <3>1. describe[f].state = "unused" /\ ~describe[f].abandoned
      BY <1>3 DEF D!Unused
    <3>2. want[f] = NoKey /\ got[f] = NoAnswer /\ f \notin ended
      BY <3>1 DEF CInv, FileInv, DescribeSound, Inside
    <3>3. Step("new", 0) \in Searches /\ Step("new", 0).step = "new"
      BY DEF Searches, Step
    <3> QED  BY <1>1, <1>3, <1>7, <3>2, <3>3 DEF DescribeSound, Inside, PastPlace, FilesStay, NoAnswer
  <2> QED  BY <2>1, <2>2
<1>9. want[r] = NoKey /\ got[r] = NoAnswer /\ renderOf[r] = 0
  BY AtEase DEF At
<1>10. describeOf'[r] = f /\ f # 0
  BY <1>3 DEF DescribeIds
<1>11. RequestSound(r)'
  BY <1>1, <1>3, <1>6, <1>7, <1>9, <1>10, VersionType DEF RequestSound, At, Inside, FilesStay, PastPlace, k
<1>12. r \notin disturbed' => Fresh(r)'
  <2>3. Step("new", 0).step = "new"
    BY DEF Step
  <2> QED  BY <1>3, <1>6, <1>7, <1>9, <1>10, <2>3 DEF Fresh, FreshProbe, FreshPlace, FreshDescribe, FreshRender,
              FreshAnswer, At, NoAnswer, FilesStay, CInv, RequestGood, k
<1>13. \A q \in Requests \ {r} : /\ describeOf'[q] = describeOf[q]
                                 /\ describeOf[q] # 0 =>
                                      Alike(describe'[describeOf[q]], describe[describeOf[q]])
  <2> TAKE q \in Requests \ {r}
  <2>1. describeOf[q] # 0 => describeOf[q] \in DescribeIds /\ describe[describeOf[q]].state # "unused"
    BY DParameters, D!Referred DEF CInv, FlightsSound, D!Ids, DescribeIds
  <2>2. describeOf[q] # 0 => describeOf[q] # f
    BY <1>3, <2>1 DEF D!Unused
  <2> QED  BY <1>2, <1>3, <2>1, <2>2 DEF Alike
<1> QED  BY <1>2, <1>6, <1>7, <1>8, <1>11, <1>12, <1>13, DescribeCallerStep
         DEF RequestGood, probeVars, cacheVars, flightVars, FilesStay

LEMMA MissKeeps ==
  ASSUME CInv, NEW r \in Requests, MissDescriptor(r)
  PROVE  CInv'
<1> DEFINE k == req[r].place
<1>1. /\ At(r, "lookup") /\ descriptorLRU' = Without(descriptorLRU, k)
      /\ Goes(r, "describing") /\ UNCHANGED <<probeVars, fileVars, inputs, renderVars>>
      /\ \/ /\ Describing!JoinFlight(r, k)
            /\ disturbed' = IF k.kind = "directory" THEN disturbed \cup {r} ELSE disturbed
         \/ /\ Describing!NewFlight(r, k)
            /\ UNCHANGED disturbed
  BY DEF MissDescriptor
<1>2. DescriptorCache'
  <2>1. FilesStay
    BY <1>1 DEF FilesStay, probeVars, fileVars
  <2>2. /\ descriptorLRU' \in Seq([key : Places, answer : Findings])
        /\ Entries(descriptorLRU') \subseteq Entries(descriptorLRU)
    BY <1>1, WithoutKeeps DEF CInv, FileInv, DescriptorCache
  <2>3. Entries(descriptorLRU)' = Entries(descriptorLRU')
    BY DEF Entries
  <2> QED  BY <2>1, <2>2, <2>3, CacheStays DEF CInv, FileInv
<1> QED  BY <1>1, <1>2, JoinDescribeKeeps, NewDescribeKeeps

LEMMA DescribeDrops ==
  ASSUME NEW f \in DescribeIds, DescribeSound(f),
         want'[f] = want[f], got'[f] = got[f],
         f \in ended' => f \in ended \/ describe'[f].abandoned,
         describe[f].state = "landed", describe'[f] = D!Unused
  PROVE  DescribeSound(f)'
<1>1. ~Inside(f) /\ f \notin ended
  BY DEF DescribeSound
<1>2. describe'[f].state = "unused" /\ ~describe'[f].abandoned
  BY DEF D!Unused
<1> QED  BY <1>1, <1>2 DEF DescribeSound, Inside

(* To leave a descriptor flight, and to receive its answer. *)
LEMMA GoesFromDescribe ==
  ASSUME CInv, NEW r \in Requests, Describing!Leave(r) \/ Describing!Receive(r),
         UNCHANGED <<version, want, got, cacheVars, flightVars, fileVars, disturbed, lruVars, renderVars>>,
         ended \subseteq ended', ended' \subseteq ended \cup {f \in DescribeIds : describe'[f].abandoned},
         req' \in [Requests -> RequestRecords],
         \A q \in Requests \ {r} : req'[q] = req[q],
         RequestGood(r)'
  PROVE  CInv'
<1>1. /\ D!FInv'
      /\ \A d \in Requests \ {r} : describeOf'[d] = describeOf[d]
      /\ \A g \in DescribeIds :
           \/ /\ Alike(describe'[g], describe[g])
              /\ describe[g].abandoned => describe'[g].abandoned
              /\ describe'[g].abandoned => describe[g].abandoned \/ describe[g].state = "running"
           \/ describe[g].state = "landed" /\ describe'[g] = D!Unused
      /\ \A d \in Requests \ {r} :
           describeOf[d] # 0 => Alike(describe'[describeOf[d]], describe[describeOf[d]])
  BY DescribeGoes DEF CInv, FlightsSound
<1>2. FilesStay
  BY DEF FilesStay, fileVars
<1>3. DescriptorCache'
  BY <1>2, CacheQuiet DEF CInv, lruVars
<1>4. \A g \in DescribeIds : DescribeSound(g)'
  <2> TAKE g \in DescribeIds
  <2>1. DescribeSound(g) /\ (g \in ended' => g \in ended \/ describe'[g].abandoned)
    BY DEF CInv, FileInv
  <2>2. CASE /\ Alike(describe'[g], describe[g])
             /\ describe[g].abandoned => describe'[g].abandoned
             /\ describe'[g].abandoned => describe[g].abandoned \/ describe[g].state = "running"
    BY <1>2, <2>1, <2>2, DescribeStays
  <2>3. CASE describe[g].state = "landed" /\ describe'[g] = D!Unused
    BY <2>1, <2>3, DescribeDrops
  <2> QED  BY <1>1, <2>2, <2>3
<1> QED  BY <1>1, <1>3, <1>4, DescribeCallerStep

LEMMA ReceiveDescriptorKeeps ==
  ASSUME CInv, NEW r \in Requests, ReceiveDescriptor(r)
  PROVE  CInv'
<1> DEFINE f == describeOf[r]
           a == describe[f].work
<1>1. /\ Describing!Receive(r) /\ Described(r, a)
      /\ UNCHANGED <<probeVars, fileVars, inputs, disturbed, lruVars, renderVars>>
  BY DEF ReceiveDescriptor, Describing!AnswerFor
<1>2. f \in DescribeIds /\ f # 0 /\ describeOf'[r] = 0 /\ describe[f].state = "landed"
  BY <1>1, DescribeGoes DEF CInv, FlightsSound, Describing!Receive, DescribeIds
<1>3. /\ RequestSound(r) /\ At(r, "describing") /\ renderOf[r] = 0
      /\ describe[f].key = req[r].place
  BY <1>2 DEF CInv, RequestGood, RequestSound, At
<1>4. /\ a \in Findings /\ a.kind \notin {"stale", "cancelled"}
      /\ Fitting(req[r].place, a)
  BY <1>2, <1>3 DEF CInv, FileInv, DescribeSound
<1>5. r \notin disturbed /\ a.kind = "found" => UpToDate(a.descriptor)
  <2> SUFFICES ASSUME r \notin disturbed, a.kind = "found"
               PROVE  UpToDate(a.descriptor)
    OBVIOUS
  <2>1. Fresh(r)
    BY DEF CInv, RequestGood
  <2>2. CASE req[r].place.kind = "directory"
    BY <1>2, <1>3, <2>1, <2>2 DEF Fresh, FreshDescribe
  <2>3. CASE req[r].place.kind # "directory"
    <3> DEFINE d == a.descriptor
    <3>1. /\ cover = 0 /\ req[r].place.stamp = version[Track]
          /\ Fits(req[r].place, d)
      BY <1>3, <1>4, <2>1, <2>3 DEF Fresh, FreshPlace, At, Fitting
    <3>2. d.id \in Nat /\ d.seen \in Nat /\ version[Track] \in Nat
      BY <3>1, OutcomeTypes, VersionType DEF Fits
    <3> HIDE DEF d
    <3>3. UpToDate(d)
      BY <2>3, <3>1, <3>2 DEF UpToDate, Fits
    <3> QED  BY <3>3 DEF d
  <2> QED  BY <2>2, <2>3
<1> HIDE DEF f, a
<1>6. /\ UNCHANGED <<version, want, got, cacheVars, flightVars, ended>> /\ FilesStay
      /\ renderOf'[r] = 0
  BY <1>1, <1>3 DEF probeVars, cacheVars, flightVars, FilesStay, fileVars, renderVars
<1>7. /\ req' \in [Requests -> RequestRecords]
      /\ \A q \in Requests \ {r} : req'[q] = req[q]
      /\ RequestGood(r)'
  BY <1>1, <1>2, <1>3, <1>4, <1>5, <1>6, DescribedGood DEF At
<1> QED  BY <1>1, <1>6, <1>7, GoesFromDescribe

LEMMA LeaveDescribeKeeps ==
  ASSUME CInv, NEW r \in Requests, LeaveDescribe(r)
  PROVE  CInv'
<1>1. /\ r \in ended /\ Describing!Leave(r)
      /\ ended' = ended \cup {f \in DescribeIds : describe'[f].abandoned}
      /\ Ends(r, Problem("cancelled"))
      /\ UNCHANGED <<version, want, got, cacheVars, flightVars>>
      /\ UNCHANGED <<fileVars, inputs, disturbed, lruVars, renderVars>>
  BY DEF LeaveDescribe
<1>2. describeOf[r] \in DescribeIds /\ describeOf[r] # 0 /\ describeOf'[r] = 0
  BY <1>1, DescribeGoes DEF CInv, FlightsSound, DescribeIds
<1>3. want[r] = NoKey /\ got[r] = NoAnswer /\ renderOf[r] = 0
  BY <1>2 DEF CInv, RequestGood, RequestSound, At, Inside
<1>4. /\ req' \in [Requests -> RequestRecords]
      /\ req'[r].stage = "answered" /\ req'[r].audio = 0 /\ req'[r].outcome.kind = "cancelled"
      /\ \A q \in Requests \ {r} : req'[q] = req[q]
  BY <1>1, EndsShows DEF CInv, Ended, Problem, Problems
<1>5. RequestSound(r)'
  BY <1>1, <1>2, <1>3, <1>4, VersionType DEF RequestSound, At, Inside, renderVars
<1>6. Fresh(r)'
  BY <1>1, <1>3, <1>4 DEF Fresh, FreshProbe, FreshPlace, FreshDescribe, FreshRender, FreshAnswer,
       At, NoAnswer
<1>7. ended' \subseteq ended \cup {f \in DescribeIds : describe'[f].abandoned}
  BY <1>1
<1> QED  BY <1>1, <1>4, <1>5, <1>6, <1>7, GoesFromDescribe DEF RequestGood

-----------------------------------------------------------------------------
(* The callers of the renderings.                                           *)

LEMMA RenderCallerStep ==
  ASSUME CInv, NEW r \in Requests,
         UNCHANGED <<probeVars, fileVars, disturbed, lruVars, describeVars>>,
         R!FInv', req' \in [Requests -> RequestRecords],
         \A q \in Requests \ {r} :
           /\ req'[q] = req[q] /\ renderOf'[q] = renderOf[q]
           /\ renderOf[q] # 0 => Alike(render'[renderOf[q]], render[renderOf[q]]),
         \A f \in RenderIds : RenderSound(f)',
         RequestGood(r)'
  PROVE  CInv'
<1>1. FlightsSound'
  BY ProbeGroupStays, DescribeGroupStays DEF CInv, FlightsSound, probeVars, flightVars
<1>2. ProbeInv'
  BY ProbeQuiet DEF CInv
<1>3. FilesStay
  BY DEF FilesStay, probeVars, fileVars
<1>4. \A f \in DescribeIds : DescribeSound(f)'
  BY <1>3, DescribeStays DEF CInv, FileInv, probeVars, describeVars, Alike
<1>5. \A q \in Requests \ {r} : RequestGood(q)'
  BY <1>3, Bystander DEF CInv, probeVars, describeVars, Alike
<1>6. Files' /\ DescriptorCache'
  BY <1>3, CacheQuiet DEF CInv, FileInv, Files, fileVars, lruVars
<1> QED  BY <1>1, <1>2, <1>4, <1>5, <1>6 DEF CInv, FileInv

LEMMA JoinRenderKeeps ==
  ASSUME CInv, NEW r \in Requests, At(r, "serve"), Rendering!JoinFlight(r, req[r].found),
         Goes(r, "rendering"), UNCHANGED <<probeVars, fileVars, inputs, disturbed, lruVars, describeVars>>
  PROVE  CInv'
<1> DEFINE k == req[r].found
<1>1. k \in Descriptors /\ RequestSound(r)
  BY DEF CInv, RequestGood, RequestSound, At
<1> HIDE DEF k
<1>2. /\ R!FInv' /\ renderOf[r] = 0
      /\ \E f \in RenderIds :
           /\ render[f].state = "running" /\ render[f].key = k
           /\ ~render[f].abandoned
           /\ renderOf'[r] = f
      /\ \A q \in Requests \ {r} : renderOf'[q] = renderOf[q]
      /\ \A g \in RenderIds : /\ Alike(render'[g], render[g])
                             /\ render'[g].abandoned = render[g].abandoned
  <2>1. Rendering!JoinFlight(r, k) /\ R!FInv
    BY DEF k, CInv, FlightsSound
  <2> QED  BY <1>1, <2>1, RenderJoins
<1>3. PICK f \in RenderIds : /\ render[f].state = "running" /\ render[f].key = k
                             /\ renderOf'[r] = f
  BY <1>2
<1>4. renderOf \in [Requests -> RenderIds \cup {0}]
  BY DEF CInv, FlightsSound, R!FInv, R!TypeOK, R!Ids, RenderIds
<1>5. /\ req' \in [Requests -> RequestRecords]
      /\ req'[r].stage = "rendering" /\ req'[r].audio = req[r].audio /\ req'[r].found = k
      /\ \A q \in Requests \ {r} : req'[q] = req[q]
  BY GoesShows DEF CInv, Stages, k
<1>6. FilesStay /\ UNCHANGED <<want, got, ended, describeOf>>
  BY DEF FilesStay, probeVars, fileVars, describeVars
<1>7. \A g \in RenderIds : RenderSound(g)'
  BY <1>2, <1>6, RenderStays DEF CInv, FileInv
<1>8. want[r] = NoKey /\ got[r] = NoAnswer /\ describeOf[r] = 0
  BY AtEase DEF At
<1>9. f # 0 /\ render'[f].key = k /\ render'[f].state = "running"
  BY <1>2, <1>3 DEF Alike, RenderIds
<1>10. RequestSound(r)'
  BY <1>1, <1>3, <1>5, <1>6, <1>8, <1>9, VersionType DEF RequestSound, At, Inside, FilesStay
<1>11. r \notin disturbed => Fresh(r)'
  BY <1>3, <1>5, <1>6, <1>8, <1>9 DEF Fresh, FreshProbe, FreshPlace, FreshDescribe, FreshRender,
     FreshAnswer, At, NoAnswer, FilesStay, UpToDate, CInv, RequestGood, k
<1>12. \A q \in Requests \ {r} :
         /\ renderOf'[q] = renderOf[q]
         /\ renderOf[q] # 0 => Alike(render'[renderOf[q]], render[renderOf[q]])
  BY <1>2, <1>4
<1> QED  BY <1>2, <1>5, <1>7, <1>10, <1>11, <1>12, RenderCallerStep DEF RequestGood

LEMMA NewRenderKeeps ==
  ASSUME CInv, NEW r \in Requests, At(r, "serve"), Rendering!NewFlight(r, req[r].found),
         Goes(r, "rendering"), UNCHANGED <<probeVars, fileVars, inputs, disturbed, lruVars, describeVars>>
  PROVE  CInv'
<1> DEFINE k == req[r].found
<1>1. k \in Descriptors /\ RequestSound(r)
  BY DEF CInv, RequestGood, RequestSound, At
<1> HIDE DEF k
<1>2. /\ R!FInv' /\ renderOf[r] = 0
      /\ \E f \in RenderIds :
           /\ render[f] = R!Unused
           /\ render'[f].state = "running" /\ render'[f].key = k
           /\ render'[f].work = Step("new", 0) /\ ~render'[f].abandoned
           /\ \A g \in RenderIds \ {f} : render'[g] = render[g]
           /\ renderOf'[r] = f
      /\ \A q \in Requests \ {r} : renderOf'[q] = renderOf[q]
  <2>1. Rendering!NewFlight(r, k) /\ R!FInv
    BY DEF k, CInv, FlightsSound
  <2> QED  BY <1>1, <2>1, RenderBegins
<1>3. PICK f \in RenderIds : /\ render[f] = R!Unused
                             /\ render'[f].state = "running" /\ render'[f].key = k
                             /\ render'[f].work = Step("new", 0) /\ ~render'[f].abandoned
                             /\ \A g \in RenderIds \ {f} : render'[g] = render[g]
                             /\ renderOf'[r] = f
  BY <1>2
<1>4. renderOf \in [Requests -> RenderIds \cup {0}]
  BY DEF CInv, FlightsSound, R!FInv, R!TypeOK, R!Ids, RenderIds
<1>5. /\ req' \in [Requests -> RequestRecords]
      /\ req'[r].stage = "rendering" /\ req'[r].audio = req[r].audio /\ req'[r].found = k
      /\ \A q \in Requests \ {r} : req'[q] = req[q]
  BY GoesShows DEF CInv, Stages, k
<1>6. FilesStay /\ UNCHANGED <<want, got, ended, describeOf>>
  BY DEF FilesStay, probeVars, fileVars, describeVars
<1>7. \A g \in RenderIds : RenderSound(g)'
  <2>1. \A g \in RenderIds \ {f} : RenderSound(g)'
    BY <1>3, <1>6, RenderStays DEF CInv, FileInv, Alike
  <2>2. Step("new", 0) \in Renderings /\ Step("new", 0).step = "new"
    BY DEF Renderings, Step
  <2>3. RenderSound(f)'
    BY <1>1, <1>3, <2>2 DEF RenderSound
  <2> QED  BY <2>1, <2>3
<1>8. want[r] = NoKey /\ got[r] = NoAnswer /\ describeOf[r] = 0
  BY AtEase DEF At
<1>9. f # 0 /\ render'[f].key = k /\ render'[f].state = "running"
  BY <1>3 DEF RenderIds
<1>10. RequestSound(r)'
  BY <1>1, <1>3, <1>5, <1>6, <1>8, <1>9, VersionType DEF RequestSound, At, Inside, FilesStay
<1>11. r \notin disturbed => Fresh(r)'
  BY <1>3, <1>5, <1>6, <1>8, <1>9 DEF Fresh, FreshProbe, FreshPlace, FreshDescribe, FreshRender,
     FreshAnswer, At, NoAnswer, FilesStay, UpToDate, CInv, RequestGood, k
<1>12. \A q \in Requests \ {r} :
         /\ renderOf'[q] = renderOf[q]
         /\ renderOf[q] # 0 => Alike(render'[renderOf[q]], render[renderOf[q]])
  <2> TAKE q \in Requests \ {r}
  <2>1. renderOf[q] # 0 => renderOf[q] \in RenderIds /\ render[renderOf[q]].state # "unused"
    BY RParameters, R!Referred DEF CInv, FlightsSound, R!Ids, RenderIds
  <2>2. renderOf[q] # 0 => renderOf[q] # f
    BY <1>3, <2>1 DEF R!Unused
  <2> QED  BY <1>2, <1>3, <2>1, <2>2 DEF Alike
<1> QED  BY <1>2, <1>5, <1>7, <1>10, <1>11, <1>12, RenderCallerStep DEF RequestGood

LEMMA RenderKeeps ==
  ASSUME CInv, NEW r \in Requests, Render(r)
  PROVE  CInv'
<1>1. At(r, "serve") /\ UNCHANGED <<probeVars, fileVars, inputs, disturbed, lruVars, describeVars>>
  BY DEF Render
<1>2. CASE r \in ended
  <2>1. Ends(r, Problem("cancelled")) /\ UNCHANGED renderVars
    BY <1>2 DEF Render
  <2>2. want[r] = NoKey /\ got[r] = NoAnswer /\ describeOf[r] = 0 /\ renderOf[r] = 0
    BY <1>1, AtEase DEF At
  <2>3. UNCHANGED <<version, want, got, ended, describeOf, renderOf, disturbed>>
    BY <1>1, <2>1 DEF probeVars, describeVars, renderVars
  <2>4. DescriptorCache'
    BY <1>1, CacheQuiet DEF CInv, FilesStay, probeVars, fileVars, lruVars
  <2>5. /\ req' \in [Requests -> RequestRecords]
        /\ req'[r].stage = "answered" /\ req'[r].audio = 0 /\ req'[r].outcome.kind = "cancelled"
        /\ \A q \in Requests \ {r} : req'[q] = req[q]
    BY <2>1, EndsShows DEF CInv, Ended, Problem, Problems
  <2>6. RequestSound(r)'
    BY <1>2, <2>2, <2>3, <2>5, VersionType DEF RequestSound, At, Inside
  <2>7. Fresh(r)'
    BY <2>2, <2>3, <2>5 DEF Fresh, FreshProbe, FreshPlace, FreshDescribe, FreshRender, FreshAnswer,
         At, NoAnswer
  <2> QED  BY <1>1, <2>1, <2>3, <2>4, <2>5, <2>6, <2>7, OwnStep DEF RequestGood
<1>3. CASE r \notin ended
  BY <1>1, <1>3, JoinRenderKeeps, NewRenderKeeps DEF Render
<1> QED  BY <1>2, <1>3

(* To leave a rendering, and to receive its answer. *)
LEMMA GoesFromRender ==
  ASSUME CInv, NEW r \in Requests, Rendering!Leave(r) \/ Rendering!Receive(r),
         UNCHANGED <<probeVars, fileVars, disturbed, lruVars, describeVars>>,
         req' \in [Requests -> RequestRecords],
         \A q \in Requests \ {r} : req'[q] = req[q],
         RequestGood(r)'
  PROVE  CInv'
<1>1. /\ R!FInv'
      /\ \A d \in Requests \ {r} : renderOf'[d] = renderOf[d]
      /\ \A g \in RenderIds :
           \/ /\ Alike(render'[g], render[g])
              /\ render[g].abandoned => render'[g].abandoned
              /\ render'[g].abandoned => render[g].abandoned \/ render[g].state = "running"
           \/ render[g].state = "landed" /\ render'[g] = R!Unused
      /\ \A d \in Requests \ {r} :
           renderOf[d] # 0 => Alike(render'[renderOf[d]], render[renderOf[d]])
  BY RenderGoes DEF CInv, FlightsSound
<1>2. FilesStay
  BY DEF FilesStay, probeVars, fileVars
<1>3. \A g \in RenderIds : Alike(render'[g], render[g]) \/ render'[g].state = "unused"
  BY <1>1 DEF R!Unused
<1>4. \A g \in RenderIds : RenderSound(g)'
  BY <1>2, <1>3, RenderStays DEF CInv, FileInv
<1> QED  BY <1>1, <1>4, RenderCallerStep

LEMMA LeaveRenderKeeps ==
  ASSUME CInv, NEW r \in Requests, LeaveRender(r)
  PROVE  CInv'
<1>1. /\ r \in ended /\ Rendering!Leave(r)
      /\ Ends(r, Problem("cancelled"))
      /\ UNCHANGED <<probeVars, fileVars, inputs, disturbed, lruVars, describeVars>>
  BY DEF LeaveRender
<1>2. renderOf[r] \in RenderIds /\ renderOf[r] # 0 /\ renderOf'[r] = 0
  BY <1>1, RenderGoes DEF CInv, FlightsSound, RenderIds
<1>3. want[r] = NoKey /\ got[r] = NoAnswer /\ describeOf[r] = 0
  BY <1>2 DEF CInv, RequestGood, RequestSound, At, Inside
<1>4. /\ req' \in [Requests -> RequestRecords]
      /\ req'[r].stage = "answered" /\ req'[r].audio = 0 /\ req'[r].outcome.kind = "cancelled"
      /\ \A q \in Requests \ {r} : req'[q] = req[q]
  BY <1>1, EndsShows DEF CInv, Ended, Problem, Problems
<1>5. UNCHANGED <<version, want, got, ended, describeOf>>
  BY <1>1 DEF probeVars, describeVars
<1>6. RequestSound(r)'
  BY <1>1, <1>2, <1>3, <1>4, <1>5, VersionType DEF RequestSound, At, Inside
<1>7. Fresh(r)'
  BY <1>3, <1>4, <1>5 DEF Fresh, FreshProbe, FreshPlace, FreshDescribe, FreshRender, FreshAnswer,
       At, NoAnswer
<1> QED  BY <1>1, <1>4, <1>6, <1>7, GoesFromRender DEF RequestGood

LEMMA ImageTypes ==
  ASSUME NEW a \in Images
  PROVE  /\ a \in Ended /\ a.kind \in {"original", "rendered"} \cup Problems
         /\ a.kind \in {"original", "rendered"} => a.version \in Covers \cup Versions
         /\ a.kind \in {"original", "rendered"} => a.version \in Nat
<1>1. CASE a \in {Image(how, v) : how \in {"original", "rendered"}, v \in Covers \cup Versions}
  <2>1. PICK how \in {"original", "rendered"}, v \in Covers \cup Versions : a = Image(how, v)
    BY <1>1
  <2>2. a.kind = how /\ a.version = v
    BY <2>1 DEF Image
  <2>3. v \in Nat
    BY ProbeAssumption, CallersAssumption DEF Covers, Versions
  <2> QED  BY <2>2, <2>3 DEF Ended
<1>2. CASE a \in {Problem(p) : p \in Problems}
  <2>1. PICK p \in Problems : a = Problem(p)
    BY <1>2
  <2>2. a.kind = p /\ p \notin {"original", "rendered"}
    BY <2>1 DEF Problem, Problems
  <2> QED  BY <2>2 DEF Ended
<1> QED  BY <1>1, <1>2 DEF Images

LEMMA ReceiveRenderKeeps ==
  ASSUME CInv, NEW r \in Requests, ReceiveRender(r)
  PROVE  CInv'
<1> DEFINE f == renderOf[r]
           a == render[f].work
           d == req[r].found
<1>1. /\ Rendering!Receive(r) /\ Ends(r, a)
      /\ UNCHANGED <<probeVars, fileVars, inputs, disturbed, lruVars, describeVars>>
  BY DEF ReceiveRender, Rendering!AnswerFor
<1>2. f \in RenderIds /\ f # 0 /\ renderOf'[r] = 0 /\ render[f].state = "landed"
  BY <1>1, RenderGoes DEF CInv, FlightsSound, Rendering!Receive, RenderIds
<1>3. /\ RequestSound(r) /\ At(r, "rendering")
      /\ render[f].key = d /\ d \in Descriptors
      /\ want[r] = NoKey /\ got[r] = NoAnswer /\ describeOf[r] = 0
  BY <1>2 DEF CInv, RequestGood, RequestSound, At, Inside
<1>4. /\ a \in Images /\ a.kind # "cancelled"
      /\ a.kind \in {"original", "rendered"} => ReadFrom(d, a.version)
  BY <1>2, <1>3 DEF CInv, FileInv, RenderSound
<1>5. r \notin disturbed => a.kind # "stale" /\ UpToDate(d)
  BY <1>2, <1>3 DEF CInv, RequestGood, Fresh, FreshRender, At
<1>6. /\ a \in Ended
      /\ a.kind \in {"original", "rendered"} \cup Problems
  BY <1>4, ImageTypes
<1>7. a.kind \in {"original", "rendered"} /\ UpToDate(d) => a.version = d.id
  <2>1. /\ d.kind \in {"fallback", "embedded"} /\ d.id \in Nat \ {0} /\ version[Track] \in Nat
        /\ cover \in {0, covers} /\ covers \in Nat
    BY <1>3, OutcomeTypes, VersionType, CallersAssumption DEF CInv, FileInv, Files, Covers
  <2>2. a.kind \in {"original", "rendered"} => a.version \in Nat
    BY <1>4, ImageTypes
  <2> HIDE DEF a, d
  <2> QED  BY <1>4, <2>1, <2>2 DEF UpToDate, ReadFrom, Newest
<1> HIDE DEF f, a
<1>8. /\ req' \in [Requests -> RequestRecords]
      /\ req'[r].stage = "answered" /\ req'[r].audio = 0 /\ req'[r].outcome = a /\ req'[r].found = d
      /\ \A q \in Requests \ {r} : req'[q] = req[q]
  BY <1>1, <1>6, EndsShows DEF CInv
<1> HIDE DEF d
<1>9. UNCHANGED <<version, cover, want, got, ended, describeOf>>
  BY <1>1 DEF probeVars, fileVars, describeVars
<1>10. RequestSound(r)'
  BY <1>2, <1>3, <1>4, <1>8, <1>9, VersionType DEF RequestSound, At, Inside
<1>11. r \notin disturbed => Fresh(r)'
  BY <1>3, <1>5, <1>6, <1>7, <1>8, <1>9 DEF Fresh, FreshProbe, FreshPlace, FreshDescribe,
     FreshRender, FreshAnswer, At, NoAnswer, UpToDate, Problems
<1> QED  BY <1>1, <1>8, <1>10, <1>11, GoesFromRender DEF RequestGood

-----------------------------------------------------------------------------
(* The descriptor flights.                                                  *)

(* A request looks on while a flight that it may wait on goes on.           *)
LEMMA Onlooker ==
  ASSUME NEW q \in Requests, RequestGood(q), FilesStay,
         req'[q] = req[q], want'[q] = want[q], got'[q] = got[q],
         describeOf'[q] = describeOf[q], renderOf'[q] = renderOf[q],
         q \in ended => q \in ended', UNCHANGED disturbed,
         describeOf[q] # 0 => describe'[describeOf[q]].key = describe[describeOf[q]].key,
         renderOf[q] # 0 => render'[renderOf[q]].key = render[renderOf[q]].key,
         q \notin disturbed => FreshDescribe(q)' /\ FreshRender(q)'
  PROVE  RequestGood(q)'
<1>1. RequestSound(q)'
  BY DEF RequestGood, RequestSound, FilesStay, Inside, At, PastPlace
<1>2. ASSUME q \notin disturbed' PROVE Fresh(q)'
  <2>1. Fresh(q)
    BY <1>2 DEF RequestGood
  <2>2. FreshProbe(q)' /\ FreshPlace(q)' /\ FreshAnswer(q)'
    BY <2>1 DEF Fresh, FreshProbe, FreshPlace, FreshAnswer, FilesStay, At, UpToDate
  <2> QED  BY <1>2, <2>2 DEF Fresh
<1> QED  BY <1>1, <1>2 DEF RequestGood

LEMMA Onlookers ==
  ASSUME CInv, NEW f \in DescribeIds,
         UNCHANGED <<version, want, cacheVars, flightVars, fileVars, req, disturbed, renderVars>>,
         ended' \subseteq ended, ended \ {f} \subseteq ended',
         got' \in [Callers -> Answers \cup {NoAnswer}],
         got'[f] \in {NoAnswer, got[f]}, f \in ended \ ended' => got'[f] = NoAnswer,
         \A c \in Callers \ {f} : got'[c] = got[c],
         D!FInv', DescriptorCache', describeOf' = describeOf,
         \A g \in DescribeIds \ {f} : describe'[g] = describe[g],
         DescribeSound(f)',
         \A q \in Requests : describeOf[q] = f =>
           /\ describe'[f].key = describe[f].key
           /\ q \notin disturbed => FreshDescribe(q)'
  PROVE  CInv'
<1>1. FlightsSound'
  BY ProbeGroupStays, RenderGroupStays DEF CInv, FlightsSound
<1>2. FilesStay
  BY DEF FilesStay, fileVars
<1>3. ProbeInv'
  <2>1. ended' \subseteq Callers
    BY DEF CInv, ProbeInv, ProbeTypes
  <2>2. \A c \in Callers : \/ got'[c] = NoAnswer
                           \/ got'[c] = got[c] /\ (c \in ended => c \in ended')
    OBVIOUS
  <2> QED  BY <2>1, <2>2, ProbeStays DEF CInv, cacheVars, flightVars
<1>4. \A g \in DescribeIds : DescribeSound(g)'
  <2>1. ASSUME NEW g \in DescribeIds \ {f} PROVE DescribeSound(g)'
    <3>1. g \in Callers
      BY CallersAssumption
    <3>2. DescribeSound(g) /\ describe'[g] = describe[g] /\ want'[g] = want[g] /\ got'[g] = got[g]
      BY <3>1 DEF CInv, FileInv
    <3> QED  BY <1>2, <3>2, DescribeStays DEF Alike
  <2> QED  BY <2>1
<1>5. \A g \in RenderIds : RenderSound(g)'
  BY <1>2, RenderStays DEF CInv, FileInv, renderVars, Alike
<1>6. Files'
  BY DEF CInv, FileInv, Files, fileVars
<1>7. ASSUME NEW q \in Requests PROVE RequestGood(q)'
  <2>1. q \in Callers /\ q # f
    BY CallersAssumption
  <2>2. RequestGood(q) /\ got'[q] = got[q] /\ (q \in ended => q \in ended')
    BY <2>1 DEF CInv
  <2>3. describeOf[q] # 0 => describeOf[q] \in DescribeIds
    BY DEF CInv, FlightsSound, D!FInv, D!TypeOK, D!Ids, DescribeIds
  <2>4. q \notin disturbed => FreshDescribe(q)' /\ FreshRender(q)'
    <3> SUFFICES ASSUME q \notin disturbed PROVE FreshDescribe(q)' /\ FreshRender(q)'
      OBVIOUS
    <3>1. FreshRender(q)'
      BY <1>2, <2>2 DEF RequestGood, Fresh, FreshRender, At, UpToDate, FilesStay, renderVars
    <3>2. CASE describeOf[q] = f
      BY <3>1, <3>2
    <3>3. CASE describeOf[q] # f
      BY <1>2, <2>2, <2>3, <3>1, <3>3
         DEF RequestGood, RequestSound, Fresh, FreshDescribe, At, UpToDate, FilesStay
    <3> QED  BY <3>2, <3>3
  <2>5. describeOf[q] # 0 => describe'[describeOf[q]].key = describe[describeOf[q]].key
    BY <2>3
  <2> QED  BY <1>2, <2>2, <2>4, <2>5, Onlooker DEF renderVars
<1> QED  BY <1>1, <1>3, <1>4, <1>5, <1>6, <1>7 DEF CInv, FileInv

LEMMA CoverHere ==
  ASSUME CInv, cover # 0
  PROVE  cover = covers /\ cover \in Covers /\ cover \in Nat \ {0}
BY CallersAssumption DEF CInv, FileInv, Files, Covers

LEMMA FindCoverKeeps ==
  ASSUME CInv, NEW f \in DescribeIds, FindCover(f)
  PROVE  CInv'
<1>1. /\ describe[f].key.kind = "directory" /\ cover # 0
      /\ Describing!Progress(f, Step("found", cover))
      /\ UNCHANGED <<probeVars, fileVars, req, inputs, disturbed, lruVars, renderVars>>
  BY DEF FindCover, DescribesA
<1>2. /\ cover = covers /\ cover \in Covers /\ cover \in Nat
      /\ Step("found", cover) \in Searches
      /\ Step("found", cover).step = "found" /\ Step("found", cover).version = cover
  BY <1>1, CoverHere DEF Searches, Step
<1> DEFINE w == Step("found", cover)
<1> HIDE DEF w
<1>3. /\ D!FInv'
      /\ describe[f].state = "running"
      /\ describe'[f].state = "running" /\ describe'[f].key = describe[f].key
      /\ describe'[f].work = w /\ describe'[f].abandoned = describe[f].abandoned
      /\ \A g \in DescribeIds \ {f} : describe'[g] = describe[g]
      /\ describeOf' = describeOf
  <2>1. w \in Searches /\ Describing!Progress(f, w) /\ D!FInv
    BY <1>1, <1>2 DEF w, CInv, FlightsSound
  <2> QED  BY <2>1, DescribeAdvances
<1>4. w \in Searches /\ w.step = "found" /\ w.version = cover
  BY <1>2 DEF w
<1>5. FilesStay /\ UNCHANGED <<version, cover, covers, mtime, want, got, ended, cacheVars, flightVars>>
  BY <1>1 DEF FilesStay, probeVars, fileVars, cacheVars, flightVars
<1>6. DescribeSound(f)'
  <2>1. DescribeSound(f)
    BY DEF CInv, FileInv
  <2> QED  BY <1>2, <1>3, <1>4, <1>5, <2>1 DEF DescribeSound, Inside, PastPlace
<1>7. DescriptorCache'
  BY <1>1, <1>5, CacheQuiet DEF CInv, lruVars
<1>8. \A q \in Requests : describeOf[q] = f => FreshDescribe(q)'
  BY <1>1, <1>3, <1>4, <1>5 DEF FreshDescribe, At
<1>9. got' \in [Callers -> Answers \cup {NoAnswer}]
  BY <1>5 DEF CInv, ProbeInv, ProbeTypes
<1> QED  BY <1>1, <1>3, <1>5, <1>6, <1>7, <1>8, <1>9, Onlookers

-----------------------------------------------------------------------------
(* What a descriptor flight ends in, and the cache.                         *)

LEMMA Greatest ==
  ASSUME NEW m \in Nat, NEW T, T \subseteq 0..m, T # {}
  PROVE  \E n \in T : \A l \in T : n >= l
<1> DEFINE U == {m - n : n \in T}
<1>1. U \subseteq Nat /\ U # {}
  <2>1. \A n \in 0..m : m - n \in Nat
    OBVIOUS
  <2>2. U \subseteq Nat
    BY <2>1
  <2>3. PICK n : n \in T
    OBVIOUS
  <2>4. m - n \in U
    BY <2>3
  <2> QED  BY <2>2, <2>4
<1> HIDE DEF U
<1>2. PICK u \in U : \A l \in U : u <= l
  BY <1>1, Least
<1>3. PICK n \in T : u = m - n
  BY <1>2 DEF U
<1>4. \A l \in T : m - l \in U /\ l \in Nat
  BY DEF U
<1>5. \A l \in T : n >= l
  <2> TAKE l \in T
  <2>1. m - n <= m - l /\ l \in Nat /\ n \in Nat
    BY <1>2, <1>3, <1>4
  <2> QED  BY <2>1
<1> QED  BY <1>5

LEMMA EnforcedKeeps ==
  ASSUME NEW S, NEW lru \in Seq(S), NEW total
  PROVE  \E n \in 0..Len(lru) : Enforced(lru, total).lru = SubSeq(lru, 1, n)
<1> DEFINE After(n) == total - Bytes(Entries(SubSeq(lru, n + 1, Len(lru))))
           T == {n \in 0..Len(lru) : n <= MaxEntries /\ (n = 0 \/ After(n) <= MaxBytes)}
<1>1. Len(lru) \in Nat /\ T \subseteq 0..Len(lru) /\ 0 \in T
  BY CallersAssumption
<1>2. Enforced(lru, total).lru = SubSeq(lru, 1, Max(T))
  BY DEF Enforced
<1> HIDE DEF T
<1>3. \E n \in T : \A l \in T : n >= l
  BY <1>1, Greatest
<1>4. Max(T) \in T
  BY <1>3 DEF Max
<1> QED  BY <1>1, <1>2, <1>4

LEMMA KeptKeeps ==
  ASSUME CInv, NEW k \in Places, NEW a \in Findings, Kept(k, a), FilesStay,
         PastPlace(k), Fitting(k, a), a.kind \in {"found", "absent", "unusable"}
  PROVE  DescriptorCache'
<1> DEFINE e == [key |-> k, answer |-> a]
           lru == <<e>> \o Without(descriptorLRU, k)
           S == [key : Places, answer : Findings]
<1>1. descriptorLRU \in Seq(S) /\ e \in S /\ e.key = k /\ e.answer = a
  BY DEF CInv, FileInv, DescriptorCache
<1> HIDE DEF e, S
<1>2. lru \in Seq(S) /\ Entries(lru) \subseteq {e} \cup Entries(descriptorLRU)
  BY <1>1, WithoutKeeps, FrontKeeps
<1>3. descriptorLRU' = Enforced(lru, Freed(k) + SizeOf(a)).lru
  BY DEF Kept, e
<1> HIDE DEF lru
<1>4. descriptorLRU' \in Seq(S) /\ Entries(descriptorLRU') \subseteq Entries(lru)
  BY <1>2, <1>3, EnforcedKeeps, HeadKeeps
<1>5. Entries(descriptorLRU)' \subseteq {e} \cup Entries(descriptorLRU)
  BY <1>2, <1>4 DEF Entries
<1>6. \A x \in {e} \cup Entries(descriptorLRU) : Cached(x)
  BY <1>1 DEF Cached, CInv, FileInv, DescriptorCache
<1>7. \A x : Cached(x) => Cached(x)'
  BY DEF Cached, FilesStay, PastPlace, Fitting, Fits, Directory
<1> QED  BY <1>4, <1>5, <1>6, <1>7 DEF DescriptorCache, S

LEMMA DiscoveredGood ==
  ASSUME CInv, NEW f \in DescribeIds, Describing!Running(f), NEW a \in Discovered(f)
  PROVE  /\ a \in Findings /\ Fitting(describe[f].key, a)
         /\ a.kind \in {"found", "absent", "unusable", "failed", "cancelled"}
         /\ a.kind = "cancelled" => describe[f].abandoned
         /\ want[f] = NoKey
         /\ describe[f].key.kind = "directory" /\ a.kind = "found" =>
              /\ describe[f].work.step = "found"
              /\ a.descriptor.kind = "fallback"
              /\ a.descriptor.id = describe[f].work.version /\ a.descriptor.seen = cover
<1> DEFINE k == describe[f].key
           w == describe[f].work
           b == got[f]
<1>1. /\ DescribeSound(f) /\ describe[f].state = "running"
      /\ PastPlace(k) /\ k \in Places /\ w \in Searches
      /\ w.step = "found" => w.version <= covers
  BY DEF CInv, FileInv, DescribeSound, Describing!Running, PastPlace
<1>2. CallerSound(f) /\ b \in Answers \cup {NoAnswer}
  BY CallersAssumption DEF CInv, ProbeInv, ProbeTypes
<1>3. \A p \in Problems : Problem(p) \in Findings /\ Problem(p).kind = p
  BY DEF Findings, Problem
<1>4. CASE k.kind = "directory"
  <2>1. want[f] = NoKey
    BY <1>1, <1>4 DEF DescribeSound, Inside
  <2>2. CASE w.step = "new"
    <3>1. a = Problem("absent") /\ cover = 0
      BY <1>4, <2>2 DEF Discovered
    <3>2. a \in Findings /\ a.kind = "absent"
      BY <1>3, <3>1 DEF Problems
    <3> QED  BY <2>1, <3>1, <3>2 DEF Fitting
  <2>3. CASE w.step # "new" /\ (cover = 0 \/ cover \in Unusable)
    <3>1. a = Problem("failed") \/ a = Problem("unusable")
      BY <1>4, <2>3 DEF Discovered
    <3>2. a \in Findings /\ a.kind \in {"failed", "unusable"}
      BY <1>3, <3>1 DEF Problems
    <3> QED  BY <2>1, <3>2 DEF Fitting
  <2>4. CASE w.step # "new" /\ cover # 0 /\ cover \notin Unusable
    <3> DEFINE d == [kind |-> "fallback", id |-> w.version, seen |-> cover]
    <3>1. a = Found(d)
      BY <1>4, <2>4 DEF Discovered
    <3>2. w.step = "found" /\ w.version \in Covers
      BY <1>1, <2>4 DEF Searches, Step
    <3>3. cover = covers /\ cover \in Covers
      BY <2>4, CoverHere
    <3>4. d \in Descriptors /\ d.kind = "fallback" /\ d.id = w.version /\ d.seen = cover
      BY <3>2, <3>3 DEF Descriptors
    <3> HIDE DEF d
    <3>5. a \in Findings /\ a.kind = "found" /\ a.descriptor = d
      BY <3>1, <3>4 DEF Findings, Found
    <3>6. cover \in Nat
      BY <3>3, CallersAssumption DEF Covers
    <3>7. Fits(k, d)
      BY <1>1, <1>4, <3>2, <3>3, <3>4, <3>6 DEF Fits
    <3> QED  BY <2>1, <3>2, <3>4, <3>5, <3>7 DEF Fitting
  <2> QED  BY <2>2, <2>3, <2>4
<1>5. CASE k.kind # "directory"
  <2>1. b # NoAnswer /\ b \in Answers
    BY <1>2, <1>5 DEF Discovered
  <2>2. want[f] = NoKey
    BY <1>2, <2>1 DEF CallerSound
  <2>3. k # Directory /\ k.kind = "embedded" /\ k.stamp \in Versions
    BY <1>1, <1>5 DEF Directory, Places
  <2>4. CASE b.kind = "data" /\ b.version \in Pictures
    <3> DEFINE d == [kind |-> "embedded", id |-> k.stamp, seen |-> b.version]
    <3>1. a = Found(d)
      BY <1>5, <2>1, <2>4 DEF Discovered
    <3>2. b.version \in Versions /\ b.version <= version[Track]
      BY <1>2, <2>1, <2>4 DEF CallerSound, Answers, Data, Failures
    <3>3. k.stamp <= b.version
      BY <1>1, <2>4 DEF DescribeSound
    <3>4. d \in Descriptors /\ d.kind = "embedded" /\ d.id = k.stamp /\ d.seen = b.version
      BY <2>3, <3>2 DEF Descriptors
    <3> HIDE DEF d
    <3>5. a \in Findings /\ a.kind = "found" /\ a.descriptor = d
      BY <3>1, <3>4 DEF Findings, Found
    <3>6. Fits(k, d)
      BY <1>5, <2>3, <3>2, <3>3, <3>4 DEF Fits
    <3> QED  BY <1>5, <2>2, <3>5, <3>6 DEF Fitting
  <2>5. CASE ~ (b.kind = "data" /\ b.version \in Pictures)
    <3>1. \/ a = Problem("cancelled") /\ b.kind = "cancelled"
          \/ a = Problem("failed") \/ a = Problem("absent")
      BY <1>5, <2>1, <2>5 DEF Discovered
    <3>2. b.kind = "cancelled" => describe[f].abandoned
      BY <1>1, <1>2 DEF CallerSound, DescribeSound
    <3>3. a \in Findings /\ a.kind \in {"cancelled", "failed", "absent"}
      BY <1>3, <3>1 DEF Problems
    <3>4. a.kind = "cancelled" => b.kind = "cancelled"
      BY <3>1 DEF Problem
    <3> QED  BY <1>5, <2>2, <2>3, <3>2, <3>3, <3>4 DEF Fitting
  <2> QED  BY <2>4, <2>5
<1> QED  BY <1>4, <1>5

LEMMA RunDescribeKeeps ==
  ASSUME CInv, NEW f \in DescribeIds, RunDescribe(f)
  PROVE  CInv'
<1>0. PICK k : k = describe[f].key
  OBVIOUS
<1>1. PICK a \in Discovered(f) :
        /\ Describing!Land(f, a)
        /\ IF ~describe[f].abandoned /\ a.kind \in {"found", "absent", "unusable"}
           THEN Kept(k, a)
           ELSE UNCHANGED lruVars
  BY <1>0 DEF RunDescribe
<1>2. /\ Describing!Running(f)
      /\ got' = [got EXCEPT ![f] = NoAnswer] /\ ended' = ended \ {f}
      /\ UNCHANGED <<version, want, cacheVars, flightVars>>
      /\ UNCHANGED <<fileVars, req, inputs, disturbed, renderVars>>
  BY DEF RunDescribe
<1>3. /\ a \in Findings /\ Fitting(k, a)
      /\ a.kind \in {"found", "absent", "unusable", "failed", "cancelled"}
      /\ a.kind = "cancelled" => describe[f].abandoned
      /\ want[f] = NoKey
      /\ k.kind = "directory" /\ a.kind = "found" =>
           /\ describe[f].work.step = "found"
           /\ a.descriptor.kind = "fallback"
           /\ a.descriptor.id = describe[f].work.version /\ a.descriptor.seen = cover
  BY <1>0, <1>2, DiscoveredGood
<1>4. /\ D!FInv'
      /\ describe[f].state = "running"
      /\ \/ describe'[f] = D!Unused
         \/ /\ describe'[f].state = "landed" /\ describe'[f].key = k
            /\ describe'[f].work = a /\ ~describe[f].abandoned /\ ~describe'[f].abandoned
      /\ \A g \in DescribeIds \ {f} : describe'[g] = describe[g]
      /\ describeOf' = describeOf
  BY <1>0, <1>1, <1>3, DescribeLands DEF CInv, FlightsSound
<1>5. FilesStay
  BY <1>2 DEF FilesStay, fileVars
<1>6. k \in Places /\ PastPlace(k)
  BY <1>0, <1>4 DEF CInv, FileInv, DescribeSound, PastPlace
<1>7. DescriptorCache'
  <2>1. CASE Kept(k, a) /\ a.kind \in {"found", "absent", "unusable"}
    BY <1>3, <1>5, <1>6, <2>1, KeptKeeps
  <2>2. CASE UNCHANGED lruVars
    BY <1>5, <2>2, CacheQuiet DEF CInv, lruVars
  <2> QED  BY <1>1, <2>1, <2>2
<1>8. /\ f \in Callers
      /\ got' \in [Callers -> Answers \cup {NoAnswer}] /\ got'[f] = NoAnswer
      /\ \A c \in Callers \ {f} : got'[c] = got[c]
  BY <1>2, CallersAssumption DEF CInv, ProbeInv, ProbeTypes
<1>9. DescribeSound(f)'
  <2>1. want'[f] = NoKey /\ got'[f] = NoAnswer /\ f \notin ended'
    BY <1>2, <1>3, <1>8
  <2>2. PastPlace(k)' /\ Fitting(k, a)'
    BY <1>3, <1>5, <1>6 DEF PastPlace, Fitting, Fits, FilesStay, Directory
  <2>3. CASE describe'[f] = D!Unused
    BY <2>1, <2>3 DEF DescribeSound, Inside, D!Unused
  <2>4. CASE /\ describe'[f].state = "landed" /\ describe'[f].key = k
             /\ describe'[f].work = a /\ ~describe[f].abandoned /\ ~describe'[f].abandoned
    BY <1>3, <2>1, <2>2, <2>4 DEF DescribeSound, Inside, PastPlace, Fitting, Fits, Directory
  <2> QED  BY <1>4, <2>3, <2>4
<1>10. ASSUME NEW q \in Requests, describeOf[q] = f
       PROVE  /\ describe'[f].key = describe[f].key
              /\ q \notin disturbed => FreshDescribe(q)'
  <2>1. describe'[f].state # "unused"
    <3>1. (describe[describeOf[q]].state \in {"running", "landed"})'
      <4>1. describeOf'[q] # 0
        BY <1>4, <1>10 DEF DescribeIds
      <4> QED  BY <1>4, <4>1, D!ReferredThen
    <3>2. describe'[f].state \in {"running", "landed"}
      BY <1>4, <1>10, <3>1
    <3> QED  BY <3>2
  <2>2. /\ describe'[f].state = "landed" /\ describe'[f].key = k /\ describe'[f].work = a
    BY <1>4, <2>1 DEF D!Unused
  <2>3. ASSUME q \notin disturbed, At(q, "describing"), req[q].place.kind = "directory",
               a.kind = "found"
        PROVE  UpToDate(a.descriptor)
    <3>1. k = req[q].place
      BY <1>0, <1>10 DEF CInv, RequestGood, RequestSound, DescribeIds
    <3>2. describe[f].work.version = cover
      BY <1>3, <1>4, <1>10, <2>3, <3>1 DEF CInv, RequestGood, Fresh, FreshDescribe
    <3> QED  BY <1>3, <2>3, <3>1, <3>2 DEF UpToDate
  <2>4. q \notin disturbed => FreshDescribe(q)'
    BY <1>2, <1>4, <1>5, <1>10, <2>2, <2>3 DEF FreshDescribe, At, UpToDate, FilesStay
  <2> QED  BY <1>0, <2>2, <2>4
<1>11. ended' \subseteq ended /\ ended \ {f} \subseteq ended'
  BY <1>2
<1> QED  BY <1>2, <1>4, <1>7, <1>8, <1>9, <1>10, <1>11, Onlookers

-----------------------------------------------------------------------------
(* The renderings.                                                          *)

LEMMA RenderStep ==
  ASSUME CInv, NEW f \in RenderIds,
         UNCHANGED <<probeVars, fileVars, req, disturbed, lruVars, describeVars>>,
         R!FInv', renderOf' = renderOf,
         \A g \in RenderIds \ {f} : render'[g] = render[g],
         RenderSound(f)',
         \A q \in Requests : renderOf[q] = f =>
           /\ render'[f].key = render[f].key
           /\ q \notin disturbed => FreshRender(q)'
  PROVE  CInv'
<1>1. FlightsSound'
  BY ProbeGroupStays, DescribeGroupStays DEF CInv, FlightsSound, probeVars, flightVars
<1>2. FilesStay /\ UNCHANGED <<want, got, ended, describe, describeOf>>
  BY DEF FilesStay, fileVars, probeVars, describeVars
<1>3. ProbeInv'
  BY ProbeQuiet DEF CInv
<1>4. \A g \in DescribeIds : DescribeSound(g)'
  BY <1>2, DescribeStays DEF CInv, FileInv, Alike
<1>5. \A g \in RenderIds : RenderSound(g)'
  BY <1>2, RenderStays DEF CInv, FileInv, Alike
<1>6. Files' /\ DescriptorCache'
  BY <1>2, CacheQuiet DEF CInv, FileInv, Files, fileVars, lruVars
<1>7. ASSUME NEW q \in Requests PROVE RequestGood(q)'
  <2>1. RequestGood(q)
    BY DEF CInv
  <2>2. renderOf[q] # 0 => renderOf[q] \in RenderIds
    BY DEF CInv, FlightsSound, R!FInv, R!TypeOK, R!Ids, RenderIds
  <2>3. q \notin disturbed => FreshDescribe(q)' /\ FreshRender(q)'
    <3> SUFFICES ASSUME q \notin disturbed PROVE FreshDescribe(q)' /\ FreshRender(q)'
      OBVIOUS
    <3>1. FreshDescribe(q)'
      BY <1>2, <2>1 DEF RequestGood, Fresh, FreshDescribe, At, UpToDate, FilesStay
    <3>2. CASE renderOf[q] = f
      BY <3>1, <3>2
    <3>3. CASE renderOf[q] # f
      BY <1>2, <2>1, <2>2, <3>1, <3>3
         DEF RequestGood, RequestSound, Fresh, FreshRender, At, UpToDate, FilesStay
    <3> QED  BY <3>2, <3>3
  <2>4. renderOf[q] # 0 => render'[renderOf[q]].key = render[renderOf[q]].key
    BY <2>2
  <2> QED  BY <1>2, <2>1, <2>3, <2>4, Onlooker
<1> QED  BY <1>1, <1>3, <1>4, <1>5, <1>6, <1>7 DEF CInv, FileInv

(* A rendering that goes on running shows its callers nothing.              *)
LEMMA RenderAdvancesKeeps ==
  ASSUME CInv, NEW f \in RenderIds, NEW w \in Renderings, Rendering!Progress(f, w),
         w.step = "checked" => render[f].key.id <= Newest(render[f].key),
         w.step = "read" => ReadFrom(render[f].key, w.version),
         UNCHANGED <<probeVars, fileVars, req, inputs, disturbed, lruVars, describeVars>>
  PROVE  CInv'
<1>1. /\ R!FInv'
      /\ render[f].state = "running"
      /\ render'[f].state = "running" /\ render'[f].key = render[f].key
      /\ render'[f].work = w /\ render'[f].abandoned = render[f].abandoned
      /\ \A g \in RenderIds \ {f} : render'[g] = render[g]
      /\ renderOf' = renderOf
  BY RenderAdvances DEF CInv, FlightsSound
<1>2. FilesStay
  BY DEF FilesStay, fileVars, probeVars
<1>3. RenderSound(f)'
  BY <1>1, <1>2 DEF CInv, FileInv, RenderSound, ReadFrom, Newest, FilesStay
<1>4. \A q \in Requests : renderOf[q] = f /\ q \notin disturbed => FreshRender(q)'
  BY <1>1, <1>2 DEF CInv, RequestGood, Fresh, FreshRender, At, UpToDate, FilesStay
<1> QED  BY <1>1, <1>3, <1>4, RenderStep

(* What a rendering is about, and how the files stand to it. *)
LEMMA RenderKey ==
  ASSUME CInv, NEW f \in RenderIds, Rendering!Running(f)
  PROVE  LET d == render[f].key
         IN /\ d \in Descriptors /\ d.kind \in {"fallback", "embedded"} /\ d.id \in Nat \ {0}
            /\ d.id \in Covers \cup Versions
            /\ Newest(d) \in Nat
            /\ SameSource(d) => d.id = Newest(d)
<1> DEFINE d == render[f].key
<1>1. /\ d \in Descriptors /\ d.kind \in {"fallback", "embedded"} /\ d.id \in Nat \ {0}
      /\ d.id \in Covers \cup Versions
  BY OutcomeTypes DEF CInv, FileInv, RenderSound, Rendering!Running
<1>2. version[Track] \in Nat /\ cover \in {0, covers} /\ covers \in Nat
  BY VersionType, CallersAssumption DEF CInv, FileInv, Files, Covers
<1> HIDE DEF d
<1>3. Newest(d) \in Nat /\ (SameSource(d) => d.id = Newest(d))
  BY <1>1, <1>2 DEF Newest, SameSource
<1> QED  BY <1>1, <1>3 DEF d

LEMMA CheckSourceKeeps ==
  ASSUME CInv, NEW f \in RenderIds, CheckSource(f)
  PROVE  CInv'
<1>1. PICK w : w = Step("checked", 0)
  OBVIOUS
<1>2. w \in Renderings /\ w.step = "checked"
  BY <1>1 DEF Renderings, Step
<1>3. render[f].key.id <= Newest(render[f].key)
  BY RenderKey DEF CheckSource
<1> QED  BY <1>1, <1>2, <1>3, RenderAdvancesKeeps DEF CheckSource

LEMMA FfmpegReadsKeeps ==
  ASSUME CInv, NEW f \in RenderIds, FfmpegReads(f)
  PROVE  CInv'
<1>1. PICK v : /\ v = IF render[f].key.kind = "embedded" THEN version[Track] ELSE cover
               /\ v # 0
               /\ Rendering!Progress(f, Step("read", v))
  BY DEF FfmpegReads
<1>2. /\ Rendering!Running(f) /\ render[f].work.step = "checked"
      /\ UNCHANGED <<probeVars, fileVars, req, inputs, disturbed, lruVars, describeVars>>
  BY DEF FfmpegReads
<1>3. PICK w : w = Step("read", v)
  OBVIOUS
<1>4. PICK d : d = render[f].key
  OBVIOUS
<1>5. /\ d.kind \in {"fallback", "embedded"} /\ d.id \in Nat /\ Newest(d) \in Nat
      /\ d.id <= Newest(d)
  BY <1>2, <1>4, RenderKey DEF CInv, FileInv, RenderSound, Rendering!Running
<1>6. v \in Covers \cup Versions /\ v = Newest(d)
  BY <1>1, <1>4, <1>5, CoverHere, VersionType DEF Newest
<1>7. w \in Renderings /\ w.step = "read" /\ w.version = v
  BY <1>3, <1>6 DEF Renderings, Step
<1>8. ReadFrom(d, v)
  BY <1>5, <1>6 DEF ReadFrom
<1> QED  BY <1>1, <1>2, <1>3, <1>4, <1>7, <1>8, RenderAdvancesKeeps

LEMMA RunRenderKeeps ==
  ASSUME CInv, NEW f \in RenderIds, RunRender(f)
  PROVE  CInv'
<1>1. /\ Rendering!Running(f)
      /\ UNCHANGED <<probeVars, fileVars, req, inputs, disturbed, lruVars, describeVars>>
  BY DEF RunRender
<1>2. PICK a \in Rendered(f) : Rendering!Land(f, a)
  BY DEF RunRender
<1>3. PICK d : d = render[f].key
  OBVIOUS
<1>4. PICK w : w = render[f].work
  OBVIOUS
<1>5. /\ d \in Descriptors /\ d.kind \in {"fallback", "embedded"} /\ d.id \in Covers \cup Versions
      /\ d.id \in Nat /\ Newest(d) \in Nat /\ (SameSource(d) => d.id = Newest(d))
  BY <1>1, <1>3, RenderKey
<1>6. /\ w \in Renderings
      /\ w.step = "read" => ReadFrom(d, w.version)
  BY <1>1, <1>3, <1>4 DEF CInv, FileInv, RenderSound, Rendering!Running
<1>7. \/ a = Problem("cancelled") /\ render[f].abandoned
      \/ a = Problem("failed")
      \/ a = Problem("stale") /\ ~SameSource(d)
      \/ a = Image("rendered", w.version) /\ w.step = "read"
      \/ a = Image("original", d.id) /\ SameSource(d)
  <2>1. w.step \in {"new", "checked", "read"}
    BY <1>6 DEF Renderings, Step
  <2>2. CASE w.step = "new"
    BY <1>3, <1>4, <2>2 DEF Rendered
  <2>3. CASE w.step = "checked"
    <3>1. a \in Refused(f)
      BY <1>4, <2>3 DEF Rendered
    <3> QED  BY <3>1 DEF Refused, Killed
  <2>4. CASE w.step = "read"
    <3>1. \/ a \in Refused(f)
          \/ a = Image("rendered", w.version)
          \/ a = Original(d)
      BY <1>3, <1>4, <2>4 DEF Rendered
    <3> QED  BY <2>4, <3>1 DEF Refused, Killed, Original
  <2> QED  BY <2>1, <2>2, <2>3, <2>4
<1>8. /\ a \in Images
      /\ a.kind = "cancelled" => render[f].abandoned
      /\ a.kind = "stale" => ~SameSource(d)
      /\ a.kind \in {"original", "rendered"} => ReadFrom(d, a.version)
  <2>1. CASE a = Problem("cancelled") /\ render[f].abandoned
    BY <2>1 DEF Images, Problem, Problems
  <2>2. CASE a = Problem("failed")
    BY <2>2 DEF Images, Problem, Problems
  <2>3. CASE a = Problem("stale") /\ ~SameSource(d)
    BY <2>3 DEF Images, Problem, Problems
  <2>4. CASE a = Image("rendered", w.version) /\ w.step = "read"
    <3>1. w.version \in Covers \cup Versions
      BY <1>6, <2>4 DEF Renderings, Step
    <3>2. a \in Images
      BY <2>4, <3>1 DEF Images
    <3>3. a.kind = "rendered" /\ a.version = w.version
      BY <2>4 DEF Image
    <3> QED  BY <1>6, <2>4, <3>2, <3>3
  <2>5. CASE a = Image("original", d.id) /\ SameSource(d)
    <3>1. a \in Images
      BY <1>5, <2>5 DEF Images
    <3>2. a.kind = "original" /\ a.version = d.id
      BY <2>5 DEF Image
    <3> QED  BY <1>5, <2>5, <3>1, <3>2 DEF ReadFrom
  <2> QED  BY <1>7, <2>1, <2>2, <2>3, <2>4, <2>5
<1>9. /\ R!FInv'
      /\ render[f].state = "running"
      /\ \/ render'[f] = R!Unused
         \/ /\ render'[f].state = "landed" /\ render'[f].key = d
            /\ render'[f].work = a /\ ~render[f].abandoned /\ ~render'[f].abandoned
      /\ \A g \in RenderIds \ {f} : render'[g] = render[g]
      /\ renderOf' = renderOf
  BY <1>2, <1>3, <1>8, RenderLands DEF CInv, FlightsSound
<1>10. FilesStay
  BY <1>1 DEF FilesStay, fileVars, probeVars
<1>11. RenderSound(f)'
  <2>1. CASE render'[f] = R!Unused
    BY <2>1 DEF RenderSound, R!Unused
  <2>2. CASE /\ render'[f].state = "landed" /\ render'[f].key = d
             /\ render'[f].work = a /\ ~render[f].abandoned
    BY <1>5, <1>8, <1>10, <2>2 DEF RenderSound, ReadFrom, Newest, FilesStay
  <2> QED  BY <1>9, <2>1, <2>2
<1>12. ASSUME NEW q \in Requests, renderOf[q] = f
       PROVE  /\ render'[f].key = render[f].key
              /\ q \notin disturbed => FreshRender(q)'
  <2>1. render'[f].state \in {"running", "landed"}
    <3>1. renderOf'[q] # 0
      BY <1>9, <1>12 DEF RenderIds
    <3>2. (render[renderOf[q]].state \in {"running", "landed"})'
      BY <1>9, <3>1, R!ReferredThen
    <3> QED  BY <1>9, <1>12, <3>2
  <2>2. /\ render'[f].state = "landed" /\ render'[f].key = d /\ render'[f].work = a
    BY <1>9, <2>1 DEF R!Unused
  <2>3. req[q].found = d /\ At(q, "rendering")
    BY <1>3, <1>12 DEF CInv, RequestGood, RequestSound, RenderIds
  <2>4. q \notin disturbed => UpToDate(d)
    BY <2>3 DEF CInv, RequestGood, Fresh, FreshRender, At
  <2>5. UpToDate(d) => SameSource(d)
    BY <1>5 DEF UpToDate, SameSource
  <2>6. q \notin disturbed => FreshRender(q)'
    BY <1>1, <1>8, <1>9, <1>10, <1>12, <2>2, <2>3, <2>4, <2>5 DEF FreshRender, At, UpToDate, FilesStay
  <2> QED  BY <1>3, <2>2, <2>6
<1> QED  BY <1>1, <1>9, <1>11, <1>12, RenderStep

-----------------------------------------------------------------------------
(* Those inside inspect.                                                    *)

LEMMA ProbeCallerStep ==
  ASSUME ProbeInv, NEW c \in Callers, UNCHANGED <<version, ended>>, ProbeCaches',
         want' \in [Callers -> Keys \cup {NoKey}], got' \in [Callers -> Answers \cup {NoAnswer}],
         \A d \in Callers \ {c} :
           /\ want'[d] = want[d] /\ got'[d] = got[d] /\ probeOf'[d] = probeOf[d]
           /\ probeOf[d] # 0 => probe'[probeOf[d]].key = probe[probeOf[d]].key,
         \A f \in ProbeIds : ProbeSound(f)',
         CallerSound(c)'
  PROVE  ProbeInv'
<1>1. ProbeTypes'
  BY DEF ProbeInv, ProbeTypes
<1>2. \A d \in Callers \ {c} : CallerSound(d)'
  BY DEF ProbeInv, CallerSound, Past
<1> QED  BY <1>1, <1>2 DEF ProbeInv

LEMMA InspectorStep ==
  ASSUME CInv, NEW c \in Callers, ProbeInv', P!FInv',
         UNCHANGED <<version, ended, fileVars, lruVars, describeVars, renderVars>>,
         \A d \in Callers \ {c} : want'[d] = want[d] /\ got'[d] = got[d],
         req' \in [Requests -> RequestRecords],
         \A q \in Requests \ {c} : req'[q] = req[q] /\ (q \in disturbed => q \in disturbed'),
         c \in Requests => RequestGood(c)',
         c \in DescribeIds => DescribeSound(c)'
  PROVE  CInv'
<1>1. FlightsSound'
  BY DescribeGroupStays, RenderGroupStays DEF CInv, FlightsSound
<1>2. FilesStay /\ UNCHANGED <<describe, describeOf, render, renderOf>>
  BY DEF FilesStay, fileVars, describeVars, renderVars
<1>3. \A g \in DescribeIds : DescribeSound(g)'
  <2>1. ASSUME NEW g \in DescribeIds, g # c PROVE DescribeSound(g)'
    <3>1. g \in Callers /\ DescribeSound(g)
      BY CallersAssumption DEF CInv, FileInv
    <3> QED  BY <1>2, <2>1, <3>1, DescribeStays DEF Alike
  <2> QED  BY <2>1
<1>4. \A g \in RenderIds : RenderSound(g)'
  BY <1>2, RenderStays DEF CInv, FileInv, Alike
<1>5. Files' /\ DescriptorCache'
  BY <1>2, CacheQuiet DEF CInv, FileInv, Files, fileVars, lruVars
<1>6. \A q \in Requests : RequestGood(q)'
  <2>1. ASSUME NEW q \in Requests, q # c PROVE RequestGood(q)'
    <3>1. q \in Callers /\ RequestGood(q)
      BY CallersAssumption DEF CInv
    <3> QED  BY <1>2, <2>1, <3>1, Bystander DEF Alike
  <2> QED  BY <2>1
<1> QED  BY <1>1, <1>3, <1>4, <1>5, <1>6 DEF CInv, FileInv

LEMMA InspectShows ==
  ASSUME CInv, NEW c \in Callers, Inspect(c, Track)
  PROVE  /\ ProbeInv' /\ P!FInv'
         /\ UNCHANGED <<version, ended, cacheVars, flightVars>>
         /\ \A d \in Callers \ {c} : want'[d] = want[d] /\ got'[d] = got[d]
         /\ want[c] = NoKey /\ got[c] = NoAnswer
         /\ want'[c] # NoKey => want'[c].version = version[Track]
         /\ got'[c].kind # "data"
<1>1. /\ Outside(c) /\ UNCHANGED <<version, ended, cacheVars, flightVars>>
      /\ \/ c \in ended /\ Returns(c, Says("cancelled", 0)) /\ UNCHANGED want
         \/ want' = [want EXCEPT ![c] = Identity(Track)] /\ UNCHANGED got
         \/ Returns(c, Says("transient", 0)) /\ UNCHANGED want
  BY DEF Inspect, flightVars, cacheVars
<1>2. ProbeTypes
  BY DEF CInv, ProbeInv
<1>3. /\ Identity(Track) \in Keys /\ Past(Identity(Track))
      /\ Identity(Track).version = version[Track]
  <2>1. version[Track] \in Versions /\ version[Track] \in Nat
    BY VersionType
  <2> QED  BY <2>1, CallersAssumption DEF Identity, Keys, Past
<1>4. /\ Says("cancelled", 0) \in Answers /\ Says("cancelled", 0).kind = "cancelled"
      /\ Says("transient", 0) \in Answers /\ Says("transient", 0).kind = "transient"
  BY DEF Says, Answers, Failures
<1>5. PICK k, a : /\ want' = [want EXCEPT ![c] = k] /\ got' = [got EXCEPT ![c] = a]
                  /\ \/ k = NoKey /\ a \in Answers /\ a.kind \in {"cancelled", "transient"}
                        /\ (a.kind = "cancelled" => c \in ended)
                     \/ k = Identity(Track) /\ a = NoAnswer
  <2>1. want = [want EXCEPT ![c] = NoKey] /\ got = [got EXCEPT ![c] = NoAnswer]
    BY <1>1, <1>2 DEF ProbeTypes, Outside
  <2> QED  BY <1>1, <1>4, <2>1 DEF Returns
<1>6. k \in Keys \cup {NoKey} /\ a \in Answers \cup {NoAnswer}
  BY <1>3, <1>5
<1>7. /\ want' \in [Callers -> Keys \cup {NoKey}] /\ got' \in [Callers -> Answers \cup {NoAnswer}]
      /\ want'[c] = k /\ got'[c] = a
      /\ \A d \in Callers \ {c} : want'[d] = want[d] /\ got'[d] = got[d]
  BY <1>2, <1>5, <1>6 DEF ProbeTypes
<1>8. UNCHANGED <<positive, negative, probe, probeOf>>
  BY <1>1 DEF cacheVars, flightVars
<1>9. CallerSound(c)'
  <2>1. probeOf[c] = 0
    BY <1>1 DEF CInv, ProbeInv, CallerSound, Outside
  <2>2. a.kind # "data"
    BY <1>5 DEF NoAnswer
  <2>3. a.kind = "cancelled" => c \in ended
    BY <1>5 DEF NoAnswer
  <2> QED  BY <1>1, <1>3, <1>5, <1>7, <1>8, <2>1, <2>2, <2>3 DEF CallerSound, Past
<1>10. ProbeCaches' /\ \A f \in ProbeIds : ProbeSound(f)'
  BY <1>1, <1>8 DEF CInv, ProbeInv, ProbeCaches, ProbeSound, Past, Honest, Since
<1>11. ProbeInv'
  BY <1>1, <1>7, <1>8, <1>9, <1>10, ProbeCallerStep DEF CInv
<1>12. P!FInv'
  BY <1>1, ProbeGroupStays DEF CInv, FlightsSound
<1>13. a.kind # "data"
  BY <1>5 DEF NoAnswer
<1> QED  BY <1>1, <1>3, <1>5, <1>7, <1>11, <1>12, <1>13 DEF Outside

LEMMA AskMetadataKeeps ==
  ASSUME CInv, NEW r \in Requests, AskMetadata(r)
  PROVE  CInv'
<1>1. /\ At(r, "idle") \/ At(r, "answered")
      /\ disturbed' = disturbed \ {r}
      /\ Inspect(r, Track)
      /\ req' = [req EXCEPT ![r] = Start("probing", 0, NoPlace)]
      /\ UNCHANGED <<fileVars, lruVars, describeVars, renderVars>>
  BY Starts DEF AskMetadata, Asks
<1>2. r \in Callers
  BY CallersAssumption
<1>3. /\ ProbeInv' /\ P!FInv'
      /\ UNCHANGED <<version, ended, cacheVars, flightVars>>
      /\ \A d \in Callers \ {r} : want'[d] = want[d] /\ got'[d] = got[d]
      /\ want'[r] # NoKey => want'[r].version = version[Track]
      /\ got'[r].kind # "data"
  BY <1>1, <1>2, InspectShows
<1>4. /\ req' \in [Requests -> RequestRecords]
      /\ req'[r].stage = "probing" /\ req'[r].audio = 0
      /\ \A q \in Requests \ {r} : req'[q] = req[q]
  <2>1. "probing" \in Stages /\ 0 \in 0..MaxVersion /\ req \in [Requests -> RequestRecords]
    BY VersionType DEF Stages, CInv
  <2> DEFINE k == NoPlace
             v == 0
             s == "probing"
  <2>2. /\ k \in Places \cup {NoPlace} /\ v \in 0..MaxVersion /\ s \in Stages
        /\ req' = [req EXCEPT ![r] = Start(s, v, k)]
    BY <1>1, <2>1
  <2> HIDE DEF k, v, s
  <2>3. /\ req' \in [Requests -> RequestRecords]
        /\ req'[r].stage = s /\ req'[r].audio = v
        /\ \A q \in Requests \ {r} : req'[q] = req[q]
    BY <2>1, <2>2, StartShows
  <2>4. s = "probing" /\ v = 0
    BY DEF s, v
  <2> QED  BY <2>3, <2>4
<1>5. describeOf[r] = 0 /\ renderOf[r] = 0 /\ UNCHANGED <<describeOf, renderOf>>
  BY <1>1, AtEase DEF At, describeVars, renderVars
<1>6. RequestSound(r)'
  BY <1>3, <1>4, <1>5, VersionType DEF RequestSound, At, Inside
<1>7. Fresh(r)'
  BY <1>3, <1>4, <1>5 DEF Fresh, FreshProbe, FreshPlace, FreshDescribe, FreshRender, FreshAnswer, At
<1>8. r \notin DescribeIds
  BY CallersAssumption
<1> QED  BY <1>1, <1>2, <1>3, <1>4, <1>6, <1>7, <1>8, InspectorStep DEF RequestGood

LEMMA ProbeEmbeddedKeeps ==
  ASSUME CInv, NEW f \in DescribeIds, ProbeEmbedded(f)
  PROVE  CInv'
<1>1. /\ describe[f].state = "running" /\ describe[f].key.kind = "embedded"
      /\ Inspect(f, Track) /\ UNCHANGED coverVars
  BY DEF ProbeEmbedded, DescribesA, Describing!Running
<1>2. f \in Callers /\ f \notin Requests
  BY CallersAssumption
<1>3. /\ ProbeInv' /\ P!FInv'
      /\ UNCHANGED <<version, ended, cacheVars, flightVars>>
      /\ \A d \in Callers \ {f} : want'[d] = want[d] /\ got'[d] = got[d]
      /\ want'[f] # NoKey => want'[f].version = version[Track]
      /\ got'[f].kind # "data"
  BY <1>1, <1>2, InspectShows
<1>4. /\ UNCHANGED <<fileVars, lruVars, describeVars, renderVars, req, disturbed>>
      /\ UNCHANGED <<describe, covers, mtime>>
  BY <1>1 DEF coverVars, fileVars, lruVars, describeVars, renderVars
<1>5. DescribeSound(f)'
  <2>1. DescribeSound(f)
    BY DEF CInv, FileInv
  <2>2. describe[f].key.stamp <= version[Track]
    BY <1>1, <2>1 DEF DescribeSound, PastPlace
  <2> QED  BY <1>1, <1>3, <1>4, <2>1, <2>2 DEF DescribeSound, Inside, PastPlace
<1>6. req' \in [Requests -> RequestRecords]
  BY <1>4 DEF CInv
<1> QED  BY <1>2, <1>3, <1>4, <1>5, <1>6, InspectorStep

LEMMA TakeMetadataKeeps ==
  ASSUME CInv, NEW r \in Requests, TakeMetadata(r)
  PROVE  CInv'
<1>1. /\ At(r, "probing") /\ got[r] # NoAnswer
      /\ got' = [got EXCEPT ![r] = NoAnswer] /\ Ends(r, got[r])
      /\ UNCHANGED <<version, ended, want, cacheVars, flightVars>>
      /\ UNCHANGED <<fileVars, inputs, disturbed, lruVars, describeVars, renderVars>>
  BY DEF TakeMetadata
<1>2. r \in Callers /\ r \notin DescribeIds
  BY CallersAssumption
<1>3. PICK a : a = got[r]
  OBVIOUS
<1>4. /\ a \in Answers /\ want[r] = NoKey /\ (a.kind = "cancelled" => r \in ended)
      /\ RequestSound(r) /\ describeOf[r] = 0 /\ renderOf[r] = 0
  BY <1>1, <1>2, <1>3 DEF CInv, ProbeInv, ProbeTypes, CallerSound, RequestGood, RequestSound, At
<1>5. /\ got' \in [Callers -> Answers \cup {NoAnswer}] /\ got'[r] = NoAnswer
      /\ \A d \in Callers \ {r} : got'[d] = got[d]
  BY <1>1, <1>2 DEF CInv, ProbeInv, ProbeTypes
<1>6. ProbeInv'
  <2>1. \A c \in Callers : \/ got'[c] = NoAnswer
                           \/ got'[c] = got[c] /\ (c \in ended => c \in ended')
    BY <1>1, <1>5
  <2>2. ended' \subseteq Callers
    BY <1>1 DEF CInv, ProbeInv, ProbeTypes
  <2> QED  BY <1>1, <1>5, <2>1, <2>2, ProbeStays DEF CInv, cacheVars, flightVars
<1>7. P!FInv'
  BY <1>1, ProbeGroupStays DEF CInv, FlightsSound
<1>8. /\ req' \in [Requests -> RequestRecords]
      /\ req'[r].stage = "answered" /\ req'[r].audio = 0 /\ req'[r].outcome = a
      /\ \A q \in Requests \ {r} : req'[q] = req[q]
  BY <1>1, <1>3, <1>4, EndsShows DEF CInv, Ended
<1>9. UNCHANGED <<describeOf, renderOf>>
  BY <1>1 DEF describeVars, renderVars
<1>10. RequestSound(r)'
  BY <1>1, <1>4, <1>5, <1>8, <1>9, VersionType DEF RequestSound, At, Inside
<1>11. r \notin disturbed => Fresh(r)'
  <2>1. a.kind \in {"data", "failed", "busy", "transient", "cancelled"}
    BY <1>4 DEF Answers, Data, Failures
  <2>2. r \notin disturbed /\ a.kind = "data" => a.version = version[Track]
    BY <1>3 DEF CInv, RequestGood, Fresh, FreshProbe
  <2> QED  BY <1>1, <1>4, <1>5, <1>8, <1>9, <2>1, <2>2 DEF Fresh, FreshProbe, FreshPlace, FreshDescribe,
              FreshRender, FreshAnswer, At, NoAnswer
<1> QED  BY <1>1, <1>2, <1>5, <1>6, <1>7, <1>8, <1>10, <1>11, InspectorStep DEF RequestGood

(* The end of a step of inspect: who is inside shows its key's version, or  *)
(* a later one, to the flight or the request that asked.                    *)
LEMMA InspectingStep ==
  ASSUME CInv, NEW c \in Callers, want[c] # NoKey, ProbeInv', P!FInv',
         UNCHANGED <<version, ended>>, UNCHANGED coverVars,
         \A d \in Callers \ {c} : want'[d] = want[d] /\ got'[d] = got[d],
         want'[c] \in {want[c], NoKey},
         got'[c].kind = "data" => got'[c] = got[c] \/ want[c].version <= got'[c].version
  PROVE  CInv'
<1>1. UNCHANGED <<cover, covers, mtime, req, disturbed, describe, describeOf, render, renderOf>>
  BY DEF coverVars
<1>2. UNCHANGED <<fileVars, lruVars, describeVars, renderVars, req, disturbed>>
  BY DEF coverVars, fileVars, lruVars, describeVars, renderVars
<1>3. /\ CallerSound(c) /\ CallerSound(c)' /\ want[c] \in Keys /\ got[c] = NoAnswer
      /\ got'[c] \in Answers \cup {NoAnswer}
  BY DEF CInv, ProbeInv, ProbeTypes, CallerSound
<1>4. /\ got'[c].kind = "data" => /\ want[c].version <= got'[c].version
                                  /\ got'[c].version <= version[Track]
                                  /\ got'[c].version \in Nat
      /\ want[c].version \in Nat /\ version[Track] \in Nat
  <2>1. got[c].kind # "data"
    BY <1>3 DEF NoAnswer
  <2>2. Versions \subseteq Nat
    BY ProbeAssumption DEF Versions
  <2>3. got'[c].kind = "data" => got'[c].version \in Versions
    BY <1>3 DEF Answers, Data, Failures, NoAnswer
  <2> QED  BY <1>3, <2>1, <2>2, <2>3, VersionType DEF CallerSound, Keys
<1>5. ASSUME c \in Requests PROVE RequestGood(c)'
  <2>1. RequestGood(c) /\ At(c, "probing")
    BY <1>5 DEF CInv, RequestGood, RequestSound, Inside
  <2>2. RequestSound(c)'
    BY <1>1, <2>1 DEF RequestGood, RequestSound, Inside, At, PastPlace
  <2>3. c \notin disturbed => FreshProbe(c)'
    BY <1>4, <2>1 DEF RequestGood, Fresh, FreshProbe
  <2>4. c \notin disturbed => FreshPlace(c)' /\ FreshDescribe(c)' /\ FreshRender(c)' /\ FreshAnswer(c)'
    BY <1>1, <2>1 DEF RequestGood, Fresh, FreshPlace, FreshDescribe, FreshRender, FreshAnswer, At, UpToDate
  <2> QED  BY <1>1, <2>2, <2>3, <2>4 DEF RequestGood, Fresh
<1>6. ASSUME c \in DescribeIds PROVE DescribeSound(c)'
  <2>1. DescribeSound(c) /\ Inside(c)
    BY <1>6 DEF CInv, FileInv, Inside
  <2>2. describe[c].key.stamp \in Nat /\ describe[c].key.stamp <= want[c].version
    <3>1. describe[c].key \in Places /\ describe[c].key.stamp <= want[c].version
      BY <2>1 DEF DescribeSound, PastPlace
    <3> QED  BY <3>1, ProbeAssumption DEF Places, Versions
  <2>3. got'[c].kind = "data" => describe[c].key.stamp <= got'[c].version
    BY <1>4, <2>2
  <2> QED  BY <1>1, <2>1, <2>2, <2>3 DEF DescribeSound, Inside, PastPlace
<1>7. req' \in [Requests -> RequestRecords]
  BY <1>1 DEF CInv
<1> QED  BY <1>2, <1>5, <1>6, <1>7, InspectorStep

(* What inspect writes for its caller.                                      *)
LEMMA ReturnShows ==
  ASSUME ProbeTypes, NEW c \in Callers, NEW a \in Answers,
         Returns(c, a), want' = [want EXCEPT ![c] = NoKey]
  PROVE  /\ want' \in [Callers -> Keys \cup {NoKey}] /\ got' \in [Callers -> Answers \cup {NoAnswer}]
         /\ want'[c] = NoKey /\ got'[c] = a
         /\ \A d \in Callers \ {c} : want'[d] = want[d] /\ got'[d] = got[d]
BY DEF ProbeTypes, Returns

(* A cached entry, as its owner gets it. *)
LEMMA EntryTypes ==
  ASSUME ProbeInv
  PROVE  /\ \A e \in Entries(positive) :
              /\ e.key \in Keys /\ e.answer \in Data /\ e.answer.kind = "data"
              /\ [key |-> e.key, answer |-> e.answer] = e
              /\ e \in [key : Keys, answer : Data]
         /\ \A e \in Entries(negative) :
              /\ e.key \in Keys /\ e.answer \in Failures /\ e.answer.kind # "data"
              /\ [key |-> e.key, answer |-> e.answer] = e
              /\ e \in [key : Keys, answer : Failures]
<1>1. ASSUME NEW e \in Entries(positive) PROVE e \in [key : Keys, answer : Data]
  <2>1. PICK i \in 1..Len(positive) : e = positive[i]
    BY DEF Entries
  <2> QED  BY <2>1, ElementOfSeq DEF ProbeInv, ProbeCaches
<1>2. ASSUME NEW e \in Entries(negative) PROVE e \in [key : Keys, answer : Failures]
  <2>1. PICK i \in 1..Len(negative) : e = negative[i]
    BY DEF Entries
  <2> QED  BY <2>1, ElementOfSeq DEF ProbeInv, ProbeCaches
<1>3. \A e \in [key : Keys, answer : Data] :
        /\ e.key \in Keys /\ e.answer \in Data /\ e.answer.kind = "data"
        /\ [key |-> e.key, answer |-> e.answer] = e
  BY DEF Data
<1>4. \A e \in [key : Keys, answer : Failures] :
        /\ e.key \in Keys /\ e.answer \in Failures /\ e.answer.kind # "data"
        /\ [key |-> e.key, answer |-> e.answer] = e
  BY DEF Failures
<1> QED  BY <1>1, <1>2, <1>3, <1>4

LEMMA TheTrack ==
  ASSUME NEW k \in Keys PROVE k.path = Track
BY CallersAssumption DEF Keys

LEMMA HitPositiveKeeps ==
  ASSUME CInv, NEW c \in Callers, HitPositive(c), UNCHANGED coverVars
  PROVE  CInv'
<1>1. PICK e \in Entries(positive) : /\ e.key = want[c]
                                     /\ positive' = Added(positive, e.key, e.answer)
                                     /\ Returns(c, e.answer)
  BY DEF HitPositive
<1>2. /\ want[c] # NoKey /\ probeOf[c] = 0 /\ want' = [want EXCEPT ![c] = NoKey]
      /\ UNCHANGED <<version, ended, negative, probe, probes, probeOf, flightVars>>
  BY DEF HitPositive, Looking, flightVars
<1>3. PICK a : a = e.answer
  OBVIOUS
<1>4. /\ a \in Data /\ a \in Answers /\ a.kind = "data" /\ [key |-> e.key, answer |-> a] = e
      /\ e \in [key : Keys, answer : Data] /\ e.key \in Keys
      /\ Past(e.key) /\ Honest(e.key, a) /\ want[c] = e.key
  BY <1>1, <1>3, EntryTypes DEF CInv, ProbeInv, ProbeCaches, Answers
<1>5. /\ want' \in [Callers -> Keys \cup {NoKey}] /\ got' \in [Callers -> Answers \cup {NoAnswer}]
      /\ want'[c] = NoKey /\ got'[c] = a
      /\ \A d \in Callers \ {c} : want'[d] = want[d] /\ got'[d] = got[d]
  BY <1>1, <1>2, <1>3, <1>4, ReturnShows DEF CInv, ProbeInv
<1>6. ProbeCaches'
  <2>1. /\ positive' \in Seq([key : Keys, answer : Data])
        /\ Entries(positive') \subseteq {e} \cup Entries(positive)
    <3> DEFINE S == [key : Keys, answer : Data]
    <3>1. PICK k : k = e.key
      OBVIOUS
    <3>2. /\ positive \in Seq(S) /\ [key |-> k, answer |-> a] \in S /\ [key |-> k, answer |-> a] = e
          /\ positive' = Added(positive, k, a)
      BY <1>1, <1>3, <1>4, <3>1 DEF CInv, ProbeInv, ProbeCaches
    <3> HIDE DEF S
    <3>3. /\ Added(positive, k, a) \in Seq(S)
          /\ Entries(Added(positive, k, a)) \subseteq {[key |-> k, answer |-> a]} \cup Entries(positive)
      BY <3>2, AddedKeeps
    <3> QED  BY <3>2, <3>3 DEF S
  <2>2. \A x \in Entries(positive') : Past(x.key) /\ Honest(x.key, x.answer)
    BY <1>3, <1>4, <2>1 DEF CInv, ProbeInv, ProbeCaches
  <2>3. /\ negative' \in Seq([key : Keys, answer : Failures]) /\ Entries(negative') = Entries(negative)
        /\ \A x \in Entries(negative) : Past(x.key) /\ Honest(x.key, x.answer) /\ x.answer.kind = "failed"
    BY <1>2 DEF CInv, ProbeInv, ProbeCaches, Entries
  <2>4. \A k, b : (Past(k) => Past(k)') /\ (Honest(k, b) => Honest(k, b)')
    BY <1>2 DEF Past, Honest, Since
  <2> QED  BY <2>1, <2>2, <2>3, <2>4 DEF ProbeCaches, Entries
<1>7. e.key.version <= a.version /\ a.version <= version[Track]
  BY <1>4, TheTrack DEF Honest, Since
<1>8. CallerSound(c)'
  BY <1>2, <1>4, <1>5, <1>7 DEF CallerSound
<1>9. \A f \in ProbeIds : ProbeSound(f)'
  BY <1>2 DEF CInv, ProbeInv, ProbeSound, Past, Honest, Since
<1>10. ProbeInv'
  BY <1>2, <1>5, <1>6, <1>8, <1>9, ProbeCallerStep DEF CInv
<1>11. P!FInv'
  BY <1>2, ProbeGroupStays DEF CInv, FlightsSound
<1> QED  BY <1>2, <1>4, <1>5, <1>7, <1>10, <1>11, InspectingStep

LEMMA HitNegativeKeeps ==
  ASSUME CInv, NEW c \in Callers, HitNegative(c), UNCHANGED coverVars
  PROVE  CInv'
<1>1. PICK e \in Entries(negative) : /\ e.key = want[c]
                                     /\ negative' = Added(negative, e.key, e.answer)
                                     /\ Returns(c, e.answer)
  BY DEF HitNegative
<1>2. /\ want[c] # NoKey /\ probeOf[c] = 0 /\ want' = [want EXCEPT ![c] = NoKey]
      /\ UNCHANGED <<version, ended, positive, probe, probes, probeOf, flightVars>>
  BY DEF HitNegative, Looking, flightVars
<1>3. PICK a : a = e.answer
  OBVIOUS
<1>4. /\ a \in Failures /\ a \in Answers /\ a.kind = "failed" /\ [key |-> e.key, answer |-> a] = e
      /\ e \in [key : Keys, answer : Failures] /\ e.key \in Keys
      /\ Past(e.key) /\ Honest(e.key, a) /\ want[c] = e.key
  BY <1>1, <1>3, EntryTypes DEF CInv, ProbeInv, ProbeCaches, Answers
<1>5. /\ want' \in [Callers -> Keys \cup {NoKey}] /\ got' \in [Callers -> Answers \cup {NoAnswer}]
      /\ want'[c] = NoKey /\ got'[c] = a
      /\ \A d \in Callers \ {c} : want'[d] = want[d] /\ got'[d] = got[d]
  BY <1>1, <1>2, <1>3, <1>4, ReturnShows DEF CInv, ProbeInv
<1>6. ProbeCaches'
  <2>1. /\ negative' \in Seq([key : Keys, answer : Failures])
        /\ Entries(negative') \subseteq {e} \cup Entries(negative)
    <3> DEFINE S == [key : Keys, answer : Failures]
    <3>1. PICK k : k = e.key
      OBVIOUS
    <3>2. /\ negative \in Seq(S) /\ [key |-> k, answer |-> a] \in S /\ [key |-> k, answer |-> a] = e
          /\ negative' = Added(negative, k, a)
      BY <1>1, <1>3, <1>4, <3>1 DEF CInv, ProbeInv, ProbeCaches
    <3> HIDE DEF S
    <3>3. /\ Added(negative, k, a) \in Seq(S)
          /\ Entries(Added(negative, k, a)) \subseteq {[key |-> k, answer |-> a]} \cup Entries(negative)
      BY <3>2, AddedKeeps
    <3> QED  BY <3>2, <3>3 DEF S
  <2>2. \A x \in Entries(negative') :
          Past(x.key) /\ Honest(x.key, x.answer) /\ x.answer.kind = "failed"
    BY <1>3, <1>4, <2>1 DEF CInv, ProbeInv, ProbeCaches
  <2> QED  BY <1>2, <2>1, <2>2 DEF CInv, ProbeInv, ProbeCaches, Past, Honest, Since, Entries
<1>7. CallerSound(c)'
  BY <1>2, <1>4, <1>5 DEF CallerSound
<1>8. \A f \in ProbeIds : ProbeSound(f)'
  BY <1>2 DEF CInv, ProbeInv, ProbeSound, Past, Honest, Since
<1>9. ProbeInv'
  BY <1>2, <1>5, <1>6, <1>7, <1>8, ProbeCallerStep DEF CInv
<1>10. P!FInv'
  BY <1>2, ProbeGroupStays DEF CInv, FlightsSound
<1> QED  BY <1>2, <1>4, <1>5, <1>9, <1>10, InspectingStep

(* The first steps of a new flight, and its slots. *)
LEMMA ProbeStarts ==
  ASSUME CInv, NEW c \in Callers, NEW k \in Keys, Past(k), want[c] = k,
         Flight!JoinFlight(c, k) \/ Flight!NewFlight(c, k),
         UNCHANGED <<version, ended, want, got>>
  PROVE  /\ P!FInv'
         /\ \A d \in Callers \ {c} :
              /\ probeOf'[d] = probeOf[d]
              /\ probeOf[d] # 0 => probe'[probeOf[d]].key = probe[probeOf[d]].key
         /\ \A f \in ProbeIds : ProbeSound(f)'
         /\ CallerSound(c)'
<1>1. /\ CallerSound(c) /\ k # NoKey
      /\ probeOf \in [Callers -> ProbeIds \cup {0}]
      /\ \A g \in ProbeIds : ProbeSound(g)
  <2>1. k # NoKey
    BY ProbeAssumption DEF Keys, NoKey, Versions
  <2> QED  BY <2>1 DEF CInv, ProbeInv, FlightsSound, P!FInv, P!TypeOK, P!Ids, ProbeIds
<1>2. CASE Flight!JoinFlight(c, k)
  <2>1. /\ P!FInv' /\ probeOf[c] = 0
        /\ \E f \in ProbeIds :
             /\ probe[f].state = "running" /\ probe[f].key = k
             /\ ~probe[f].abandoned
             /\ probeOf'[c] = f
        /\ \A d \in Callers \ {c} : probeOf'[d] = probeOf[d]
        /\ \A g \in ProbeIds :
             /\ Alike(probe'[g], probe[g])
             /\ probe'[g].abandoned = probe[g].abandoned
    BY <1>2, ProbeJoins DEF CInv, FlightsSound
  <2>2. \A g \in ProbeIds : ProbeSound(g)'
    BY <1>1, <2>1 DEF ProbeSound, Alike, Past, Honest, Since
  <2>3. PICK f \in ProbeIds : probe[f].key = k /\ probeOf'[c] = f
    BY <2>1
  <2>4. CallerSound(c)'
    BY <1>1, <2>1, <2>3 DEF CallerSound, Past, Alike
  <2> QED  BY <1>1, <2>1, <2>2, <2>4 DEF Alike
<1>3. CASE Flight!NewFlight(c, k)
  <2>1. /\ P!FInv' /\ probeOf[c] = 0
        /\ \E f \in ProbeIds :
             /\ probe[f] = P!Unused
             /\ probe'[f].state = "running" /\ probe'[f].key = k
             /\ probe'[f].work = Says("reading", 0) /\ ~probe'[f].abandoned
             /\ \A g \in ProbeIds \ {f} : probe'[g] = probe[g]
             /\ probeOf'[c] = f
        /\ \A d \in Callers \ {c} : probeOf'[d] = probeOf[d]
    BY <1>3, ProbeBegins DEF CInv, FlightsSound
  <2>2. PICK f \in ProbeIds : /\ probe[f] = P!Unused
                              /\ probe'[f].state = "running" /\ probe'[f].key = k
                              /\ probe'[f].work = Says("reading", 0) /\ ~probe'[f].abandoned
                              /\ \A g \in ProbeIds \ {f} : probe'[g] = probe[g]
                              /\ probeOf'[c] = f
    BY <2>1
  <2>3. Says("reading", 0) \in Readings /\ Says("reading", 0).version = 0
    BY ProbeAssumption DEF Says, Readings
  <2>4. ProbeSound(f)'
    BY <2>2, <2>3 DEF ProbeSound, Past
  <2>5. \A g \in ProbeIds \ {f} : ProbeSound(g)'
    BY <1>1, <2>2 DEF ProbeSound, Past, Honest, Since
  <2>6. CallerSound(c)'
    BY <1>1, <2>2 DEF CallerSound, Past
  <2>7. \A d \in Callers \ {c} : probeOf[d] # 0 => probe'[probeOf[d]].key = probe[probeOf[d]].key
    <3> TAKE d \in Callers \ {c}
    <3>1. probeOf[d] # 0 => probe[probeOf[d]].state # "unused"
      BY PParameters, P!Referred DEF CInv, FlightsSound
    <3> QED  BY <1>1, <2>2, <3>1 DEF P!Unused
  <2> QED  BY <2>1, <2>4, <2>5, <2>6, <2>7
<1> QED  BY <1>2, <1>3

LEMMA MissProbeKeeps ==
  ASSUME CInv, NEW c \in Callers, Miss(c), UNCHANGED coverVars
  PROVE  CInv'
<1>1. PICK k : k = want[c]
  OBVIOUS
<1>2. /\ k # NoKey /\ negative' = Without(negative, k)
      /\ Flight!JoinFlight(c, k) \/ Flight!NewFlight(c, k)
      /\ UNCHANGED <<version, ended, want, got, positive>>
  BY <1>1 DEF Miss, Looking
<1>3. k \in Keys /\ Past(k)
  BY <1>1, <1>2 DEF CInv, ProbeInv, ProbeTypes, CallerSound
<1>4. /\ P!FInv'
      /\ \A d \in Callers \ {c} :
           /\ probeOf'[d] = probeOf[d]
           /\ probeOf[d] # 0 => probe'[probeOf[d]].key = probe[probeOf[d]].key
      /\ \A f \in ProbeIds : ProbeSound(f)'
      /\ CallerSound(c)'
  BY <1>1, <1>2, <1>3, ProbeStarts
<1>5. ProbeCaches'
  <2>1. /\ negative' \in Seq([key : Keys, answer : Failures])
        /\ Entries(negative') \subseteq Entries(negative)
    BY <1>2, WithoutKeeps DEF CInv, ProbeInv, ProbeCaches
  <2> QED  BY <1>2, <2>1 DEF CInv, ProbeInv, ProbeCaches, Past, Honest, Since, Entries
<1>6. ProbeInv'
  BY <1>2, <1>4, <1>5, ProbeCallerStep DEF CInv, ProbeInv, ProbeTypes
<1> QED  BY <1>1, <1>2, <1>4, <1>6, InspectingStep

(* To leave a probe, and to receive its answer. *)
LEMMA GoesFromProbe ==
  ASSUME CInv, NEW c \in Callers, Flight!Leave(c) \/ Flight!Receive(c),
         NEW a \in Answers, Returns(c, a), want' = [want EXCEPT ![c] = NoKey],
         UNCHANGED <<version, ended, cacheVars>>, UNCHANGED coverVars,
         a.kind = "data" => Since(want[c], a.version),
         a.kind = "cancelled" => c \in ended
  PROVE  CInv'
<1>1. /\ P!FInv'
      /\ probeOf[c] \in ProbeIds /\ probeOf'[c] = 0
      /\ \A d \in Callers \ {c} : probeOf'[d] = probeOf[d]
      /\ \A g \in ProbeIds :
           \/ /\ Alike(probe'[g], probe[g])
              /\ probe[g].abandoned => probe'[g].abandoned
              /\ probe'[g].abandoned => probe[g].abandoned \/ probe[g].state = "running"
           \/ probe[g].state = "landed" /\ probe'[g] = P!Unused
      /\ \A d \in Callers \ {c} :
           probeOf[d] # 0 => Alike(probe'[probeOf[d]], probe[probeOf[d]])
  BY ProbeGoes DEF CInv, FlightsSound
<1>2. CallerSound(c) /\ want[c] \in Keys /\ want[c] # NoKey
  BY <1>1 DEF CInv, ProbeInv, ProbeTypes, CallerSound, ProbeIds
<1>3. /\ want' \in [Callers -> Keys \cup {NoKey}] /\ got' \in [Callers -> Answers \cup {NoAnswer}]
      /\ want'[c] = NoKey /\ got'[c] = a
      /\ \A d \in Callers \ {c} : want'[d] = want[d] /\ got'[d] = got[d]
  BY ReturnShows DEF CInv, ProbeInv
<1>4. a.kind = "data" => want[c].version <= a.version /\ a.version <= version[Track]
  BY <1>2, TheTrack DEF Since
<1>5. CallerSound(c)'
  BY <1>1, <1>3, <1>4 DEF CallerSound
<1>6. \A f \in ProbeIds : ProbeSound(f)'
  <2>1. \A f \in ProbeIds : Alike(probe'[f], probe[f]) \/ probe'[f].state = "unused"
    BY <1>1 DEF P!Unused
  <2> QED  BY <2>1 DEF CInv, ProbeInv, ProbeSound, Alike, Past, Honest, Since
<1>7. ProbeCaches'
  BY DEF CInv, ProbeInv, ProbeCaches, Past, Honest, Since, cacheVars
<1>8. ProbeInv'
  BY <1>1, <1>3, <1>5, <1>6, <1>7, ProbeCallerStep DEF CInv, Alike
<1> QED  BY <1>1, <1>2, <1>3, <1>4, <1>8, InspectingStep

LEMMA ReceiveProbeKeeps ==
  ASSUME CInv, NEW c \in Callers, ReceiveProbe(c), UNCHANGED coverVars
  PROVE  CInv'
<1>1. PICK f : f = probeOf[c]
  OBVIOUS
<1>2. PICK a : a = probe[f].work
  OBVIOUS
<1>3. /\ Flight!Receive(c) /\ Returns(c, a) /\ want' = [want EXCEPT ![c] = NoKey]
      /\ UNCHANGED <<version, ended, cacheVars>>
  BY <1>1, <1>2 DEF ReceiveProbe, Flight!AnswerFor
<1>4. f \in ProbeIds /\ probe[f].state = "landed" /\ f # 0
  BY <1>1, <1>3, ProbeGoes DEF CInv, FlightsSound, Flight!Receive, ProbeIds
<1>5. want[c] = probe[f].key
  BY <1>1, <1>4 DEF CInv, ProbeInv, CallerSound
<1>6. /\ a \in Answers /\ a.kind # "cancelled"
      /\ a.kind = "data" => Since(want[c], a.version)
  BY <1>2, <1>4, <1>5 DEF CInv, ProbeInv, ProbeSound, Honest
<1> QED  BY <1>3, <1>6, GoesFromProbe

LEMMA LeaveFlightKeeps ==
  ASSUME CInv, NEW c \in Callers, LeaveFlight(c), UNCHANGED coverVars
  PROVE  CInv'
<1>1. PICK a : a = Says("cancelled", 0)
  OBVIOUS
<1>2. a \in Answers /\ a.kind = "cancelled"
  BY <1>1 DEF Says, Answers, Failures
<1>3. /\ c \in ended /\ Flight!Leave(c) /\ Returns(c, a) /\ want' = [want EXCEPT ![c] = NoKey]
      /\ UNCHANGED <<version, ended, cacheVars>>
  BY <1>1 DEF LeaveFlight
<1> QED  BY <1>2, <1>3, GoesFromProbe

-----------------------------------------------------------------------------
(* The probes.                                                              *)

LEMMA ProbeFlightStep ==
  ASSUME CInv, ProbeInv', P!FInv', UNCHANGED <<version, ended, want, got>>, UNCHANGED coverVars
  PROVE  CInv'
<1>1. /\ UNCHANGED <<fileVars, lruVars, describeVars, renderVars, req, disturbed>>
      /\ UNCHANGED <<describe, describeOf, render, renderOf>>
  BY DEF coverVars, fileVars, lruVars, describeVars, renderVars
<1>2. FlightsSound'
  BY <1>1, DescribeGroupStays, RenderGroupStays DEF CInv, FlightsSound
<1>3. FilesStay
  BY <1>1 DEF FilesStay, fileVars
<1>4. \A g \in DescribeIds : DescribeSound(g)'
  BY <1>1, <1>3, DescribeStays DEF CInv, FileInv, Alike
<1>5. \A g \in RenderIds : RenderSound(g)'
  BY <1>1, <1>3, RenderStays DEF CInv, FileInv, Alike
<1>6. Files' /\ DescriptorCache'
  BY <1>1, <1>3, CacheQuiet DEF CInv, FileInv, Files, fileVars, lruVars
<1>7. \A q \in Requests : RequestGood(q)'
  BY <1>1, <1>3, Bystander DEF CInv, Alike
<1> QED  BY <1>1, <1>2, <1>4, <1>5, <1>6, <1>7 DEF CInv, FileInv

LEMMA ProbeFlightSound ==
  ASSUME CInv, NEW f \in ProbeIds, UNCHANGED <<version, ended, want, got>>, P!FInv',
         ProbeCaches', probeOf' = probeOf,
         \A g \in ProbeIds \ {f} : probe'[g] = probe[g],
         probe'[f].state # "unused" => probe'[f].key = probe[f].key,
         ProbeSound(f)'
  PROVE  ProbeInv'
<1>1. ProbeTypes'
  BY DEF CInv, ProbeInv, ProbeTypes
<1>2. \A g \in ProbeIds \ {f} : ProbeSound(g)'
  BY DEF CInv, ProbeInv, ProbeSound, Past, Honest, Since
<1>3. ASSUME NEW c \in Callers PROVE CallerSound(c)'
  <2>1. probeOf[c] # 0 => probeOf[c] \in ProbeIds /\ probe'[probeOf[c]].key = probe[probeOf[c]].key
    <3> SUFFICES ASSUME probeOf[c] # 0
                 PROVE  probeOf[c] \in ProbeIds /\ probe'[probeOf[c]].key = probe[probeOf[c]].key
      OBVIOUS
    <3>1. probeOf[c] \in ProbeIds
      BY DEF CInv, FlightsSound, P!FInv, P!TypeOK, P!Ids, ProbeIds
    <3>2. (probe[probeOf[c]].state \in {"running", "landed"})'
      BY P!ReferredThen
    <3>3. probe'[probeOf[c]].state # "unused"
      BY <3>2
    <3> QED  BY <3>1, <3>3
  <2> QED  BY <2>1 DEF CInv, ProbeInv, CallerSound, Past
<1> QED  BY <1>1, <1>2, <1>3 DEF ProbeInv

LEMMA ProbeReadsKeeps ==
  ASSUME CInv, NEW f \in ProbeIds, ProbeReads(f), UNCHANGED coverVars
  PROVE  CInv'
<1>1. PICK k : k = probe[f].key
  OBVIOUS
<1>2. PICK w : w = Says("reading", version[k.path])
  OBVIOUS
<1>3. /\ probe[f].state = "running" /\ Flight!Progress(f, w)
      /\ UNCHANGED <<version, ended, want, got>> /\ UNCHANGED <<positive, negative>>
  BY <1>1, <1>2 DEF ProbeReads, Flight!Running, cacheVars
<1>4. /\ Past(k) /\ k \in Keys
  BY <1>1, <1>3 DEF CInv, ProbeInv, ProbeSound, Past
<1>5. version[k.path] \in Versions /\ version[k.path] \in Nat
  BY <1>4, TheTrack, VersionType
<1>6. w \in Readings /\ w.version = version[k.path]
  BY <1>2, <1>5, ProbeAssumption DEF Says, Readings, Versions
<1>7. Since(k, w.version)
  BY <1>4, <1>5, <1>6 DEF Since, Past
<1>8. /\ P!FInv'
      /\ probe'[f].state = "running" /\ probe'[f].key = k
      /\ probe'[f].work = w /\ probe'[f].abandoned = probe[f].abandoned
      /\ \A g \in ProbeIds \ {f} : probe'[g] = probe[g]
      /\ probeOf' = probeOf
  BY <1>1, <1>3, <1>6, ProbeAdvances DEF CInv, FlightsSound
<1>9. ProbeSound(f)'
  BY <1>3, <1>4, <1>6, <1>7, <1>8 DEF ProbeSound, Past, Since
<1>10. ProbeCaches'
  BY <1>3 DEF CInv, ProbeInv, ProbeCaches, Past, Honest, Since
<1>11. ProbeInv'
  BY <1>1, <1>3, <1>8, <1>9, <1>10, ProbeFlightSound
<1> QED  BY <1>3, <1>8, <1>11, ProbeFlightStep

LEMMA OutcomesGood ==
  ASSUME CInv, NEW f \in ProbeIds, probe[f].state = "running", NEW a \in Outcomes(f)
  PROVE  /\ a \in Answers /\ Honest(probe[f].key, a)
         /\ a.kind = "cancelled" => probe[f].abandoned
<1>1. PICK v : v = probe[f].work.version
  OBVIOUS
<1>2. PICK k : k = probe[f].key
  OBVIOUS
<1>3. /\ v \in 0..MaxVersion
      /\ v # 0 => Since(k, v)
  BY <1>1, <1>2 DEF CInv, ProbeInv, ProbeSound, Readings
<1>4. \A s \in {"cancelled", "busy", "transient", "failed"} :
        /\ Says(s, 0) \in Answers /\ Says(s, 0).kind = s
  BY DEF Says, Answers, Failures
<1>5. \/ a = Says("cancelled", 0) /\ probe[f].abandoned
      \/ a = Says("busy", 0) \/ a = Says("transient", 0) \/ a = Says("failed", 0)
      \/ a = Says("data", v) /\ v # 0
  BY <1>1 DEF Outcomes
<1>6. CASE a = Says("data", v) /\ v # 0
  <2>1. a.kind = "data" /\ a.version = v /\ a \in Answers
    BY <1>3, <1>6, ProbeAssumption DEF Says, Answers, Data, Versions
  <2> QED  BY <1>2, <1>3, <1>6, <2>1 DEF Honest
<1>7. CASE a = Says("busy", 0) \/ a = Says("transient", 0) \/ a = Says("failed", 0)
  BY <1>4, <1>7 DEF Honest
<1>8. CASE a = Says("cancelled", 0) /\ probe[f].abandoned
  BY <1>4, <1>8 DEF Honest
<1> QED  BY <1>5, <1>6, <1>7, <1>8

LEMMA RunFlightKeeps ==
  ASSUME CInv, NEW f \in ProbeIds, NEW a, RunFlight(f, a), UNCHANGED coverVars
  PROVE  CInv'
<1>1. PICK k : k = probe[f].key
  OBVIOUS
<1>2. /\ a \in Outcomes(f) /\ Flight!Land(f, a)
      /\ positive' = positive \/ (a.kind = "data" /\ positive' = Added(positive, k, a))
      /\ negative' = negative \/ (a.kind = "failed" /\ negative' = Added(negative, k, a))
      /\ UNCHANGED <<version, ended, want, got>>
  BY <1>1 DEF RunFlight, Cacheable
<1>3. probe[f].state = "running"
  BY <1>2 DEF Flight!Land, Flight!Running
<1>4. /\ a \in Answers /\ Honest(k, a)
      /\ a.kind = "cancelled" => probe[f].abandoned
      /\ Past(k) /\ k \in Keys
  BY <1>1, <1>2, <1>3, OutcomesGood DEF CInv, ProbeInv, ProbeSound, Past
<1>5. /\ P!FInv'
      /\ \/ probe'[f] = P!Unused
         \/ /\ probe'[f].state = "landed" /\ probe'[f].key = k
            /\ probe'[f].work = a /\ ~probe[f].abandoned /\ ~probe'[f].abandoned
      /\ \A g \in ProbeIds \ {f} : probe'[g] = probe[g]
      /\ probeOf' = probeOf
  BY <1>1, <1>2, <1>4, ProbeLands DEF CInv, FlightsSound
<1>6. ProbeSound(f)'
  <2>1. CASE probe'[f] = P!Unused
    BY <2>1 DEF ProbeSound, P!Unused
  <2>2. CASE /\ probe'[f].state = "landed" /\ probe'[f].key = k
             /\ probe'[f].work = a /\ ~probe[f].abandoned
    BY <1>2, <1>4, <2>2 DEF ProbeSound, Past, Honest, Since
  <2> QED  BY <1>5, <2>1, <2>2
<1>7. PICK e : e = [key |-> k, answer |-> a]
  OBVIOUS
<1>8. e.key = k /\ e.answer = a
  BY <1>7
<1>9. /\ positive' \in Seq([key : Keys, answer : Data])
      /\ \A x \in Entries(positive') : Past(x.key) /\ Honest(x.key, x.answer)
  <2>1. CASE positive' = positive
    BY <2>1 DEF CInv, ProbeInv, ProbeCaches
  <2>2. CASE a.kind = "data" /\ positive' = Added(positive, k, a)
    <3> DEFINE S == [key : Keys, answer : Data]
    <3>1. a \in Data
      BY <1>4, <2>2 DEF Answers, Failures
    <3>2. /\ positive \in Seq(S) /\ [key |-> k, answer |-> a] \in S
      BY <1>4, <3>1 DEF CInv, ProbeInv, ProbeCaches
    <3> HIDE DEF S
    <3>3. /\ Added(positive, k, a) \in Seq(S)
          /\ Entries(Added(positive, k, a)) \subseteq {[key |-> k, answer |-> a]} \cup Entries(positive)
      BY <3>2, AddedKeeps
    <3>4. \A x \in {e} \cup Entries(positive) : Past(x.key) /\ Honest(x.key, x.answer)
      BY <1>4, <1>8 DEF CInv, ProbeInv, ProbeCaches
    <3> QED  BY <1>7, <2>2, <3>3, <3>4 DEF S
  <2> QED  BY <1>2, <2>1, <2>2
<1>10. /\ negative' \in Seq([key : Keys, answer : Failures])
       /\ \A x \in Entries(negative') :
            Past(x.key) /\ Honest(x.key, x.answer) /\ x.answer.kind = "failed"
  <2>1. CASE negative' = negative
    BY <2>1 DEF CInv, ProbeInv, ProbeCaches
  <2>2. CASE a.kind = "failed" /\ negative' = Added(negative, k, a)
    <3> DEFINE S == [key : Keys, answer : Failures]
    <3>1. a \in Failures
      BY <1>4, <2>2 DEF Answers, Data
    <3>2. /\ negative \in Seq(S) /\ [key |-> k, answer |-> a] \in S
      BY <1>4, <3>1 DEF CInv, ProbeInv, ProbeCaches
    <3> HIDE DEF S
    <3>3. /\ Added(negative, k, a) \in Seq(S)
          /\ Entries(Added(negative, k, a)) \subseteq {[key |-> k, answer |-> a]} \cup Entries(negative)
      BY <3>2, AddedKeeps
    <3>4. \A x \in {e} \cup Entries(negative) :
            Past(x.key) /\ Honest(x.key, x.answer) /\ x.answer.kind = "failed"
      BY <1>4, <1>8, <2>2 DEF CInv, ProbeInv, ProbeCaches
    <3> QED  BY <1>7, <2>2, <3>3, <3>4 DEF S
  <2> QED  BY <1>2, <2>1, <2>2
<1>11. ProbeCaches'
  BY <1>2, <1>9, <1>10 DEF ProbeCaches, Past, Honest, Since, Entries
<1>12. ProbeInv'
  BY <1>1, <1>2, <1>5, <1>6, <1>11, ProbeFlightSound DEF P!Unused
<1> QED  BY <1>2, <1>5, <1>12, ProbeFlightStep

-----------------------------------------------------------------------------
(* The environment.                                                         *)

(* A file changes: whoever is not idle is disturbed by it, and what has     *)
(* been read stays true of a version that was there.                        *)
LEMMA FilesMove ==
  ASSUME CInv, UNCHANGED <<want, got, ended, cacheVars, flightVars, req, lruVars, describeVars, renderVars>>,
         disturbed' = Active,
         version' \in [Paths -> Versions], version[Track] <= version'[Track],
         Files', covers <= covers', mtime <= mtime',
         mtime' = mtime => cover' = cover \/ cover # 0
  PROVE  CInv'
<1>1. /\ FlightsSound'
      /\ UNCHANGED <<positive, negative, probe, probeOf, descriptorLRU, describe, describeOf, render, renderOf>>
  BY ProbeGroupStays, DescribeGroupStays, RenderGroupStays
     DEF CInv, FlightsSound, cacheVars, flightVars, lruVars, describeVars, renderVars
<1>2. /\ version[Track] \in Nat /\ version'[Track] \in Nat
      /\ covers \in Nat /\ covers' \in Nat /\ mtime \in Nat /\ mtime' \in Nat
      /\ Versions \subseteq Nat /\ Covers \subseteq Nat
  BY VersionType, CallersAssumption, ProbeAssumption DEF CInv, FileInv, Files, Covers, Versions
<1>3. \A k : Past(k) => Past(k)'
  <2> TAKE k
  <2>1. k \in Keys => k.path = Track /\ k.version \in Nat
    BY <1>2, TheTrack DEF Keys
  <2> QED  BY <1>2, <2>1 DEF Past
<1>4. \A k, v : k \in Keys /\ v \in Nat /\ Since(k, v) => Since(k, v)'
  <2> TAKE k, v
  <2>1. k \in Keys => k.path = Track /\ k.version \in Nat
    BY <1>2, TheTrack DEF Keys
  <2> QED  BY <1>2, <2>1 DEF Since
<1>5. ProbeInv'
  <2>1. ASSUME NEW k \in Keys, NEW a \in Answers, Honest(k, a)
        PROVE  Honest(k, a)'
    <3>1. a.kind = "data" => a.version \in Nat
      BY <1>2 DEF Answers, Data, Failures
    <3> QED  BY <1>4, <2>1, <3>1 DEF Honest
  <2>2. ProbeTypes'
    BY DEF CInv, ProbeInv, ProbeTypes
  <2>3. ProbeCaches'
    <3>1. \A e \in Entries(positive) \cup Entries(negative) : e.key \in Keys /\ e.answer \in Answers
      BY EntryTypes DEF CInv, Answers
    <3> QED  BY <1>1, <1>3, <2>1, <3>1 DEF CInv, ProbeInv, ProbeCaches, Entries
  <2>4. ASSUME NEW f \in ProbeIds PROVE ProbeSound(f)'
    <3>1. ProbeSound(f) /\ probe'[f] = probe[f]
      BY <1>1 DEF CInv, ProbeInv
    <3>2. probe[f].state # "unused" => probe[f].key \in Keys
      BY <3>1 DEF ProbeSound, Past
    <3>3. probe[f].state # "unused" => Past(probe[f].key)'
      BY <1>1, <1>3, <3>1 DEF ProbeSound, Past
    <3>4. probe[f].state = "running" /\ probe[f].work.version # 0 =>
            Since(probe[f].key, probe[f].work.version)'
      <4>1. probe[f].state = "running" => probe[f].work.version \in Nat
        BY <3>1, ProbeAssumption DEF ProbeSound, Readings
      <4> QED  BY <1>1, <1>4, <3>1, <3>2, <4>1 DEF ProbeSound, Since
    <3>5. probe[f].state = "landed" => Honest(probe[f].key, probe[f].work)'
      BY <1>1, <2>1, <3>1, <3>2 DEF ProbeSound, Honest, Since
    <3> QED  BY <1>1, <3>1, <3>3, <3>4, <3>5 DEF ProbeSound
  <2>5. ASSUME NEW c \in Callers PROVE CallerSound(c)'
    <3>1. CallerSound(c) /\ got[c] \in Answers \cup {NoAnswer}
      BY DEF CInv, ProbeInv, ProbeTypes
    <3>2. want[c] # NoKey => Past(want[c])'
      BY <1>3, <3>1 DEF CallerSound, Past
    <3>3. got[c].kind = "data" => got[c].version \in Nat
      <4>1. got[c].kind = "data" => got[c].version \in Versions
        BY <3>1 DEF Answers, Data, Failures, NoAnswer
      <4> QED  BY <1>2, <4>1
    <3> QED  BY <1>1, <1>2, <3>1, <3>2, <3>3 DEF CallerSound, Past
  <2> QED  BY <2>2, <2>3, <2>4, <2>5 DEF ProbeInv
<1>6. \A k : PastPlace(k) => PastPlace(k)'
  <2> TAKE k
  <2>1. k \in Places => k.stamp \in Nat
    BY <1>2 DEF Places
  <2> QED  BY <1>2, <2>1 DEF PastPlace
<1>7. \A k, a : PastPlace(k) /\ Fitting(k, a) => Fitting(k, a)'
  <2> SUFFICES ASSUME NEW k, NEW a, PastPlace(k), Fitting(k, a) PROVE Fitting(k, a)'
    OBVIOUS
  <2>1. \A d : Fits(k, d) => Fits(k, d)'
    BY <1>2, OutcomeTypes DEF Fits
  <2>2. k = Directory' /\ cover' # 0 => k = Directory /\ cover # 0
    <3> SUFFICES ASSUME k = Directory', cover' # 0 PROVE k = Directory /\ cover # 0
      OBVIOUS
    <3>1. k.kind = "directory" /\ k.stamp = mtime'
      BY DEF Directory
    <3>2. mtime' = mtime
      BY <1>2, <3>1 DEF PastPlace
    <3> QED  BY <3>2 DEF Directory
  <2> QED  BY <2>1, <2>2 DEF Fitting
<1>8. DescriptorCache'
  BY <1>1, <1>6, <1>7 DEF CInv, FileInv, DescriptorCache, Cached, Entries
<1>9. ASSUME NEW f \in DescribeIds PROVE DescribeSound(f)'
  <2>1. DescribeSound(f) /\ describe'[f] = describe[f] /\ want' = want /\ got' = got /\ ended' = ended
    BY <1>1 DEF CInv, FileInv
  <2>2. describe[f].state # "unused" => PastPlace(describe[f].key)'
    BY <1>1, <1>6, <2>1 DEF DescribeSound, PastPlace
  <2>3. describe[f].state = "landed" => Fitting(describe[f].key, describe[f].work)'
    BY <1>1, <1>7, <2>1 DEF DescribeSound, Fitting, Fits, Directory
  <2>4. describe[f].state = "running" /\ describe[f].work.step = "found" => describe[f].work.version <= covers'
    <3>1. describe[f].state = "running" /\ describe[f].work.step = "found" => describe[f].work.version \in Nat
      BY <1>2, <2>1 DEF DescribeSound, Searches, Step
    <3> QED  BY <1>2, <2>1, <3>1 DEF DescribeSound
  <2> QED  BY <1>1, <2>1, <2>2, <2>3, <2>4 DEF DescribeSound, Inside, PastPlace, Fitting, Fits, Directory
<1>10. ASSUME NEW f \in RenderIds PROVE RenderSound(f)'
  <2>1. RenderSound(f) /\ render'[f] = render[f]
    BY <1>1 DEF CInv, FileInv
  <2>2. render[f].state # "unused" => render[f].key.id \in Nat
    BY <2>1, OutcomeTypes DEF RenderSound
  <2>3. \A d : Newest(d) \in Nat /\ Newest(d)' \in Nat /\ Newest(d) <= Newest(d)'
    BY <1>2 DEF Newest
  <2>4. \A d, v : v \in Nat /\ ReadFrom(d, v) => ReadFrom(d, v)'
    BY <2>3 DEF ReadFrom
  <2>5. render[f].state = "running" /\ render[f].work.step = "read" => render[f].work.version \in Nat
    BY <1>2, <2>1 DEF RenderSound, Renderings, Step
  <2>6. render[f].state = "landed" /\ render[f].work.kind \in {"original", "rendered"} =>
          render[f].work.version \in Nat
    BY <2>1, ImageTypes DEF RenderSound
  <2>7. render[f].state = "running" /\ render[f].work.step = "checked" =>
          render[f].key.id <= Newest(render[f].key)'
    BY <1>1, <1>2, <2>1, <2>2 DEF RenderSound, Newest
  <2>8. render[f].state = "running" /\ render[f].work.step = "read" =>
          ReadFrom(render[f].key, render[f].work.version)'
    BY <1>1, <2>1, <2>4, <2>5 DEF RenderSound, ReadFrom, Newest
  <2>9. render[f].state = "landed" /\ render[f].work.kind \in {"original", "rendered"} =>
          ReadFrom(render[f].key, render[f].work.version)'
    BY <1>1, <2>1, <2>4, <2>6 DEF RenderSound, ReadFrom, Newest
  <2> QED  BY <1>1, <2>1, <2>7, <2>8, <2>9 DEF RenderSound, ReadFrom, Newest
<1>11. ASSUME NEW r \in Requests PROVE RequestGood(r)'
  <2>1. RequestSound(r) /\ req'[r] = req[r] /\ req[r] \in RequestRecords
    BY DEF CInv, RequestGood
  <2>2. req[r].audio \in Nat
    BY <1>2, <2>1, ProbeAssumption DEF RequestRecords
  <2>3. RequestSound(r)'
    BY <1>1, <1>2, <1>6, <2>1, <2>2 DEF RequestSound, At, Inside, PastPlace
  <2>4. r \notin disturbed' => Fresh(r)'
    <3> SUFFICES ASSUME r \notin disturbed' PROVE Fresh(r)'
      OBVIOUS
    <3>1. req[r].stage = "idle"
      BY DEF Active, At
    <3>2. /\ req[r].audio = 0 /\ want[r] = NoKey /\ got[r] = NoAnswer
          /\ describeOf[r] = 0 /\ renderOf[r] = 0
      BY <2>1, <3>1 DEF RequestSound, At, Inside
    <3> QED  BY <1>1, <2>1, <3>1, <3>2 DEF Fresh, FreshProbe, FreshPlace, FreshDescribe, FreshRender,
                FreshAnswer, At, NoAnswer
  <2> QED  BY <2>3, <2>4 DEF RequestGood
<1> QED  BY <1>1, <1>5, <1>8, <1>9, <1>10, <1>11 DEF CInv, FileInv

LEMMA TrackChangesKeeps ==
  ASSUME CInv, TrackChanges
  PROVE  CInv'
<1>1. /\ version[Track] < MaxVersion /\ version' = [version EXCEPT ![Track] = @ + 1]
      /\ UNCHANGED <<want, got, ended, cacheVars, flightVars, req, lruVars, describeVars, renderVars>>
      /\ UNCHANGED <<cover, covers, mtime>>
      /\ disturbed' = Active
  BY DEF TrackChanges, FileChanges, cacheVars, flightVars, fileVars
<1>2. version \in [Paths -> Versions] /\ Track \in Paths
  BY CallersAssumption DEF CInv, ProbeInv, ProbeTypes
<1>3. version[Track] + 1 \in Versions /\ version[Track] <= version[Track] + 1
  BY <1>1, VersionType, ProbeAssumption DEF Versions
<1>4. version' \in [Paths -> Versions] /\ version'[Track] = version[Track] + 1
  BY <1>1, <1>2, <1>3
<1>5. /\ Files' /\ covers <= covers' /\ mtime <= mtime'
  BY <1>1, CallersAssumption DEF CInv, FileInv, Files, Covers
<1> QED  BY <1>1, <1>3, <1>4, <1>5, FilesMove

LEMMA CoverOverwrittenKeeps ==
  ASSUME CInv, CoverOverwritten
  PROVE  CInv'
<1>1. /\ cover # 0 /\ covers < MaxCover /\ covers' = covers + 1 /\ cover' = covers'
      /\ mtime' = mtime /\ version' = version
      /\ UNCHANGED <<want, got, ended, cacheVars, flightVars, req, lruVars, describeVars, renderVars>>
      /\ disturbed' = Active
  BY DEF CoverOverwritten, probeVars, cacheVars, flightVars
<1>2. Files' /\ covers <= covers' /\ mtime <= mtime'
  BY <1>1, CallersAssumption DEF CInv, FileInv, Files, Covers
<1>3. version' \in [Paths -> Versions] /\ version[Track] <= version'[Track]
  BY <1>1, VersionType DEF CInv, ProbeInv, ProbeTypes
<1> QED  BY <1>1, <1>2, <1>3, FilesMove

LEMMA CoverMovedKeeps ==
  ASSUME CInv, CoverMoved
  PROVE  CInv'
<1>1. /\ mtime' = mtime + 1
      /\ \/ cover' = 0 /\ covers' = covers
         \/ covers < MaxCover /\ covers' = covers + 1 /\ cover' = covers'
      /\ version' = version
      /\ UNCHANGED <<want, got, ended, cacheVars, flightVars, req, lruVars, describeVars, renderVars>>
      /\ disturbed' = Active
  BY DEF CoverMoved, probeVars, cacheVars, flightVars
<1>2. Files' /\ covers <= covers' /\ mtime <= mtime' /\ mtime' # mtime
  BY <1>1, CallersAssumption DEF CInv, FileInv, Files, Covers
<1>3. version' \in [Paths -> Versions] /\ version[Track] <= version'[Track]
  BY <1>1, VersionType DEF CInv, ProbeInv, ProbeTypes
<1> QED  BY <1>1, <1>2, <1>3, FilesMove

(* The contexts of requests end, and their clients come back. *)
LEMMA RequestEndsKeeps ==
  ASSUME CInv, NEW r \in Requests, RequestEnds(r)
  PROVE  CInv'
<1>1. /\ ended' = ended \cup {r}
      /\ UNCHANGED <<version, want, got, positive, negative, probe, probes, probeOf>>
      /\ UNCHANGED <<fileVars, req, disturbed, lruVars, describeVars, renderVars>>
  BY DEF RequestEnds, ContextEnds
<1>2. r \in Callers /\ r \notin DescribeIds
  BY CallersAssumption
<1>3. FlightsSound'
  BY <1>1, ProbeGroupStays, DescribeGroupStays, RenderGroupStays DEF CInv, FlightsSound, flightVars
<1>4. FilesStay /\ UNCHANGED <<describe, describeOf, render, renderOf>>
  BY <1>1 DEF FilesStay, fileVars, describeVars, renderVars
<1>5. ProbeInv'
  <2>1. ended' \subseteq Callers /\ got' \in [Callers -> Answers \cup {NoAnswer}]
    BY <1>1, <1>2 DEF CInv, ProbeInv, ProbeTypes
  <2> QED  BY <1>1, <2>1, ProbeStays DEF CInv
<1>6. \A f \in DescribeIds : DescribeSound(f)'
  BY <1>1, <1>2, <1>4, DescribeStays DEF CInv, FileInv, Alike
<1>7. \A f \in RenderIds : RenderSound(f)'
  BY <1>4, RenderStays DEF CInv, FileInv, Alike
<1>8. \A q \in Requests : RequestGood(q)'
  BY <1>1, <1>4, Bystander DEF CInv, Alike
<1>9. Files' /\ DescriptorCache'
  BY <1>1, <1>4, CacheQuiet DEF CInv, FileInv, Files, fileVars, lruVars
<1> QED  BY <1>1, <1>3, <1>5, <1>6, <1>7, <1>8, <1>9 DEF CInv, FileInv

LEMMA ReconnectKeeps ==
  ASSUME CInv, NEW r \in Requests, Reconnect(r)
  PROVE  CInv'
<1>1. /\ At(r, "answered") /\ req' = [req EXCEPT ![r] = Start("idle", 0, NoPlace)]
      /\ ended' = ended \ {r}
      /\ UNCHANGED <<version, want, got, cacheVars, flightVars>>
      /\ UNCHANGED <<fileVars, inputs, disturbed, lruVars, describeVars, renderVars>>
  BY Starts DEF Reconnect
<1>2. r \in Callers /\ r \notin DescribeIds
  BY CallersAssumption
<1>3. FlightsSound'
  BY <1>1, ProbeGroupStays, DescribeGroupStays, RenderGroupStays DEF CInv, FlightsSound
<1>4. /\ FilesStay /\ UNCHANGED <<describe, describeOf, render, renderOf>>
      /\ UNCHANGED <<positive, negative, probe, probeOf>>
  BY <1>1 DEF FilesStay, fileVars, describeVars, renderVars, cacheVars, flightVars
<1>5. want[r] = NoKey /\ got[r] = NoAnswer /\ describeOf[r] = 0 /\ renderOf[r] = 0
  BY <1>1, AtEase DEF At
<1>6. ProbeInv'
  <2>1. ended' \subseteq Callers /\ got' \in [Callers -> Answers \cup {NoAnswer}]
    BY <1>1 DEF CInv, ProbeInv, ProbeTypes
  <2>2. \A c \in Callers : \/ got'[c] = NoAnswer
                           \/ got'[c] = got[c] /\ (c \in ended => c \in ended')
    BY <1>1, <1>5
  <2> QED  BY <1>1, <1>4, <2>1, <2>2, ProbeStays DEF CInv
<1>7. \A f \in DescribeIds : DescribeSound(f)'
  BY <1>1, <1>4, DescribeStays DEF CInv, FileInv, Alike
<1>8. \A f \in RenderIds : RenderSound(f)'
  BY <1>4, RenderStays DEF CInv, FileInv, Alike
<1>9. /\ req' \in [Requests -> RequestRecords]
      /\ req'[r].stage = "idle" /\ req'[r].audio = 0
      /\ \A q \in Requests \ {r} : req'[q] = req[q]
  <2>1. "idle" \in Stages /\ 0 \in 0..MaxVersion /\ req \in [Requests -> RequestRecords]
    BY VersionType DEF Stages, CInv
  <2> DEFINE k == NoPlace
             v == 0
             s == "idle"
  <2>2. /\ k \in Places \cup {NoPlace} /\ v \in 0..MaxVersion /\ s \in Stages
        /\ req' = [req EXCEPT ![r] = Start(s, v, k)]
    BY <1>1, <2>1
  <2> HIDE DEF k, v, s
  <2>3. /\ req' \in [Requests -> RequestRecords]
        /\ req'[r].stage = s /\ req'[r].audio = v
        /\ \A q \in Requests \ {r} : req'[q] = req[q]
    BY <2>1, <2>2, StartShows
  <2>4. s = "idle" /\ v = 0
    BY DEF s, v
  <2> QED  BY <2>3, <2>4
<1>10. RequestGood(r)'
  <2>1. RequestSound(r)'
    BY <1>1, <1>4, <1>5, <1>9, VersionType DEF RequestSound, At, Inside
  <2>2. Fresh(r)'
    BY <1>1, <1>4, <1>5, <1>9 DEF Fresh, FreshProbe, FreshPlace, FreshDescribe, FreshRender,
       FreshAnswer, At, NoAnswer
  <2> QED  BY <2>1, <2>2 DEF RequestGood
<1>11. \A q \in Requests \ {r} : RequestGood(q)'
  BY <1>1, <1>4, <1>9, Bystander DEF CInv, Alike
<1>12. Files' /\ DescriptorCache'
  BY <1>1, <1>4, CacheQuiet DEF CInv, FileInv, Files, fileVars, lruVars
<1> QED  BY <1>3, <1>6, <1>7, <1>8, <1>9, <1>10, <1>11, <1>12 DEF CInv, FileInv

-----------------------------------------------------------------------------
(* What the entries of a cache add up to: the library adds one chosen       *)
(* element at a time, so that every law has to be shown to hold whatever    *)
(* is chosen, by a least counterexample.                                    *)

(* g adds the weights up as MapThenSumSet does. *)
Chosen(s) == CHOOSE y \in s : TRUE

Adds(w, E, g) ==
  g = [s \in SUBSET E |-> IF s = {} THEN 0 ELSE w[Chosen(s)] + g[s \ {Chosen(s)}]]

LEMMA ChosenIn == ASSUME NEW s, s # {} PROVE Chosen(s) \in s
BY DEF Chosen

LEMMA OneLess ==
  ASSUME NEW T, IsFiniteSet(T), NEW x \in T
  PROVE  /\ IsFiniteSet(T \ {x}) /\ Cardinality(T) \in Nat /\ Cardinality(T) > 0
         /\ Cardinality(T \ {x}) = Cardinality(T) - 1 /\ Cardinality(T \ {x}) \in Nat
<1>1. Cardinality(T) \in Nat /\ IsFiniteSet(T \ {x}) /\ Cardinality(T \ {x}) = Cardinality(T) - 1
  BY FS_RemoveElement, FS_CardinalityType
<1>2. Cardinality(T \ {x}) \in Nat
  BY <1>1, FS_CardinalityType
<1> QED  BY <1>1, <1>2

LEMMA SumExists ==
  ASSUME NEW E, IsFiniteSet(E), NEW w
  PROVE  \E g : Adds(w, E, g)
<1> DEFINE Small(n) == {s \in SUBSET E : Cardinality(s) <= n}
           Has(n) == \E g : g = [s \in Small(n) |->
                        IF s = {} THEN 0 ELSE w[Chosen(s)] + g[s \ {Chosen(s)}]]
           Bad == {n \in Nat : ~Has(n)}
<1>1. \A s \in SUBSET E : IsFiniteSet(s) /\ Cardinality(s) \in Nat /\ Cardinality(s) <= Cardinality(E)
  BY FS_Subset, FS_CardinalityType
<1>2. Bad = {}
  <2> SUFFICES ASSUME Bad # {} PROVE FALSE
    OBVIOUS
  <2>1. PICK n \in Bad : \A m \in Bad : n <= m
    BY Least
  <2>2. CASE n = 0
    <3> DEFINE g == [s \in Small(0) |-> 0]
    <3>1. \A s \in Small(0) : s = {}
      <4> TAKE s \in Small(0)
      <4> SUFFICES ASSUME s # {} PROVE FALSE
        OBVIOUS
      <4>1. IsFiniteSet(s) /\ Chosen(s) \in s /\ Cardinality(s) <= 0
        BY <1>1, ChosenIn
      <4>2. Cardinality(s) \in Nat /\ Cardinality(s) > 0
        BY <4>1, OneLess
      <4> QED  BY <4>1, <4>2
    <3>2. g = [s \in Small(0) |-> IF s = {} THEN 0 ELSE w[Chosen(s)] + g[s \ {Chosen(s)}]]
      BY <3>1
    <3> QED  BY <2>1, <2>2, <3>2
  <2>3. CASE n # 0
    <3>1. n - 1 \in Nat /\ Has(n - 1)
      <4> HIDE DEF Has
      <4>1. n \in Nat /\ n - 1 \in Nat /\ ~ (n <= n - 1)
        BY <2>1, <2>3
      <4> QED  BY <2>1, <4>1
    <3>2. PICK g : g = [s \in Small(n - 1) |->
                         IF s = {} THEN 0 ELSE w[Chosen(s)] + g[s \ {Chosen(s)}]]
      BY <3>1
    <3> DEFINE h == [s \in Small(n) |-> IF s = {} THEN 0 ELSE w[Chosen(s)] + g[s \ {Chosen(s)}]]
    <3>3. ASSUME NEW s \in Small(n), s # {}
          PROVE  h[s \ {Chosen(s)}] = g[s \ {Chosen(s)}]
      <4> DEFINE t == s \ {Chosen(s)}
      <4>1. t \in Small(n - 1) /\ t \in Small(n)
        <5>1. Cardinality(s) <= n /\ n \in Nat
          BY <2>1
        <5> QED  BY <1>1, <3>3, <5>1, ChosenIn, OneLess
      <4> HIDE DEF t, Small
      <4> QED  BY <3>2, <4>1 DEF t
    <3>4. h = [s \in Small(n) |-> IF s = {} THEN 0 ELSE w[Chosen(s)] + h[s \ {Chosen(s)}]]
      BY <3>3
    <3>5. Has(n)
      <4> HIDE DEF h
      <4> QED  BY <3>4
    <3> QED  BY <2>1, <3>5
  <2> QED  BY <2>2, <2>3
<1>3. Cardinality(E) \in Nat /\ Small(Cardinality(E)) = SUBSET E
  BY <1>1, FS_CardinalityType
<1>4. Has(Cardinality(E))
  BY <1>2, <1>3
<1> QED  BY <1>3, <1>4 DEF Adds

LEMMA SumLaw ==
  ASSUME NEW E, IsFiniteSet(E), NEW w \in [E -> Nat], NEW g, Adds(w, E, g)
  PROVE  /\ g[{}] = 0
         /\ \A T \in SUBSET E : g[T] \in Nat
         /\ \A T \in SUBSET E : \A x \in T : g[T] = w[x] + g[T \ {x}]
<1>1. \A s \in SUBSET E : g[s] = IF s = {} THEN 0 ELSE w[Chosen(s)] + g[s \ {Chosen(s)}]
  BY DEF Adds
<1>2. \A s \in SUBSET E : IsFiniteSet(s) /\ Cardinality(s) \in Nat
  BY FS_Subset, FS_CardinalityType
<1> DEFINE Right(T) == g[T] \in Nat /\ \A x \in T : g[T] = w[x] + g[T \ {x}]
           Bad == {n \in Nat : \E T \in SUBSET E : Cardinality(T) = n /\ ~Right(T)}
<1>3. g[{}] = 0
  BY <1>1
<1>4. Bad = {}
  <2> SUFFICES ASSUME Bad # {} PROVE FALSE
    OBVIOUS
  <2>1. PICK n \in Bad : \A m \in Bad : n <= m
    BY Least
  <2>2. PICK T \in SUBSET E : Cardinality(T) = n /\ ~Right(T)
    BY <2>1
  <2>3. \A x \in T : Right(T \ {x})
    <3> TAKE x \in T
    <3>1. T \ {x} \in SUBSET E /\ Cardinality(T \ {x}) = n - 1 /\ n - 1 \in Nat
      BY <1>2, <2>2, OneLess
    <3>2. n - 1 \notin Bad
      BY <2>1, <3>1
    <3> QED  BY <3>1, <3>2
  <2>4. T # {}
    <3>1. g[{}] \in Nat /\ \A x \in {} : FALSE
      BY <1>3
    <3> QED  BY <2>2, <3>1
  <2> DEFINE c == Chosen(T)
  <2>5. c \in T /\ g[T] = w[c] + g[T \ {c}]
    BY <1>1, <2>4, ChosenIn
  <2> HIDE DEF c, Right
  <2>6. g[T] \in Nat
    <3>1. w[c] \in Nat /\ g[T \ {c}] \in Nat
      BY <2>2, <2>3, <2>5 DEF Right
    <3> QED  BY <2>5, <3>1
  <2>7. ASSUME NEW x \in T PROVE g[T] = w[x] + g[T \ {x}]
    <3>1. CASE x = c
      BY <2>5, <3>1
    <3>2. CASE x # c
      <4>1. g[T \ {c}] = w[x] + g[(T \ {c}) \ {x}]
        BY <2>3, <2>5, <3>2 DEF Right
      <4>2. g[T \ {x}] = w[c] + g[(T \ {x}) \ {c}]
        BY <2>3, <2>5, <3>2 DEF Right
      <4>3. (T \ {c}) \ {x} = (T \ {x}) \ {c}
        OBVIOUS
      <4>4. w[x] \in Nat /\ w[c] \in Nat /\ g[T \ {c}] \in Nat /\ g[T \ {x}] \in Nat
        BY <2>2, <2>3, <2>5, <2>7 DEF Right
      <4>5. (T \ {x}) \ {c} \in SUBSET E
        BY <2>2
      <4>6. g[(T \ {x}) \ {c}] \in Nat
        <5>1. (T \ {x}) \ {c} = (T \ {c}) \ {x} /\ x \in T \ {c}
          BY <3>2
        <5>2. (T \ {x}) \ {c} \in SUBSET E /\ Cardinality((T \ {c}) \ {x}) = n - 2 /\ n - 2 \in Nat
          <6>1. IsFiniteSet(T) /\ IsFiniteSet(T \ {c})
            BY <1>2, <2>2
          <6>2. Cardinality(T \ {c}) = n - 1 /\ n \in Nat
            BY <2>1, <2>2, <2>5, <6>1, OneLess
          <6>3. /\ Cardinality((T \ {c}) \ {x}) = Cardinality(T \ {c}) - 1
                /\ Cardinality((T \ {c}) \ {x}) \in Nat
            BY <5>1, <6>1, OneLess
          <6> QED  BY <2>2, <5>1, <6>2, <6>3
        <5>3. n - 2 \notin Bad
          BY <2>1, <5>2
        <5> QED  BY <5>1, <5>2, <5>3 DEF Right
      <4> QED  BY <2>5, <4>1, <4>2, <4>3, <4>4, <4>6
    <3> QED  BY <3>1, <3>2
  <2>8. Right(T)
    BY <2>6, <2>7 DEF Right
  <2> QED  BY <2>2, <2>8
<1>5. \A T \in SUBSET E : Right(T)
  BY <1>2, <1>4
<1> QED  BY <1>3, <1>5

LEMMA SumAgrees ==
  ASSUME NEW E, IsFiniteSet(E), NEW Part \in SUBSET E, NEW w,
         NEW g, Adds(w, E, g), NEW h, Adds(w, Part, h)
  PROVE  \A T \in SUBSET Part : h[T] = g[T]
<1>1. \A s \in SUBSET E : g[s] = IF s = {} THEN 0 ELSE w[Chosen(s)] + g[s \ {Chosen(s)}]
  BY DEF Adds
<1>2. \A s \in SUBSET Part : h[s] = IF s = {} THEN 0 ELSE w[Chosen(s)] + h[s \ {Chosen(s)}]
  BY DEF Adds
<1>3. \A s \in SUBSET Part : IsFiniteSet(s) /\ Cardinality(s) \in Nat /\ s \in SUBSET E
  BY FS_Subset, FS_CardinalityType
<1> DEFINE Bad == {n \in Nat : \E T \in SUBSET Part : Cardinality(T) = n /\ h[T] # g[T]}
<1>4. Bad = {}
  <2> SUFFICES ASSUME Bad # {} PROVE FALSE
    OBVIOUS
  <2>1. PICK n \in Bad : \A m \in Bad : n <= m
    BY Least
  <2>2. PICK T \in SUBSET Part : Cardinality(T) = n /\ h[T] # g[T]
    BY <2>1
  <2>3. T # {}
    BY <1>1, <1>2, <2>2
  <2> DEFINE c == Chosen(T)
  <2>4. c \in T /\ T \ {c} \in SUBSET Part /\ Cardinality(T \ {c}) = n - 1 /\ n - 1 \in Nat
    BY <1>3, <2>2, <2>3, ChosenIn, OneLess
  <2>5. n - 1 \notin Bad
    BY <2>1, <2>4
  <2>6. h[T \ {c}] = g[T \ {c}]
    BY <2>2, <2>4, <2>5
  <2>7. g[T] = w[c] + g[T \ {c}] /\ h[T] = w[c] + h[T \ {c}]
    BY <1>1, <1>2, <1>3, <2>2, <2>3
  <2> QED  BY <2>2, <2>6, <2>7
<1> QED  BY <1>3, <1>4

LEMMA BytesAre ==
  ASSUME NEW E, IsFiniteSet(E), NEW w, \A e \in E : w[e] = SizeOf(e.answer)
  PROVE  \E g : Adds(w, E, g) /\ Bytes(E) = g[E]
<1> DEFINE iter[s \in SUBSET E] ==
             IF s = {} THEN 0
             ELSE LET x == CHOOSE y \in s : TRUE IN SizeOf(x.answer) + iter[s \ {x}]
           Round(g) == [s \in SUBSET E |->
             IF s = {} THEN 0
             ELSE LET x == CHOOSE y \in s : TRUE IN SizeOf(x.answer) + g[s \ {x}]]
<1>1. Bytes(E) = iter[E]
  BY DEF Bytes, MapThenSumSet, MapThenFoldSet
<1>2. iter = CHOOSE g : g = Round(g)
  OBVIOUS
<1>3. ASSUME NEW g PROVE Adds(w, E, g) <=> g = Round(g)
  <2>1. \A s \in SUBSET E : s # {} => w[Chosen(s)] = SizeOf(Chosen(s).answer)
    BY ChosenIn
  <2> QED  BY <2>1 DEF Adds, Chosen
<1>4. \E g : g = Round(g)
  <2>1. PICK g : Adds(w, E, g)
    BY SumExists
  <2> HIDE DEF Round
  <2> QED  BY <1>3, <2>1
<1> HIDE DEF iter, Round
<1> QED  BY <1>1, <1>2, <1>3, <1>4

LEMMA BytesWithin ==
  ASSUME NEW E, IsFiniteSet(E), NEW w, \A e \in E : w[e] = SizeOf(e.answer),
         NEW g, Adds(w, E, g), NEW T, T \subseteq E
  PROVE  Bytes(T) = g[T]
<1>1. IsFiniteSet(T) /\ \A e \in T : w[e] = SizeOf(e.answer)
  BY FS_Subset
<1>2. PICK h : Adds(w, T, h) /\ Bytes(T) = h[T]
  BY <1>1, BytesAre
<1>3. \A V \in SUBSET T : h[V] = g[V]
  <2>1. T \in SUBSET E /\ Adds(w, T, h) /\ Adds(w, E, g) /\ IsFiniteSet(E)
    BY <1>2
  <2> QED  BY ONLY <2>1, SumAgrees
<1> QED  BY <1>2, <1>3

LEMMA BytesLaw ==
  ASSUME NEW E, IsFiniteSet(E)
  PROVE  /\ Bytes({}) = 0 /\ Bytes(E) \in Nat
         /\ \A x \in E : Bytes(E) = SizeOf(x.answer) + Bytes(E \ {x})
<1> DEFINE w == [e \in E |-> SizeOf(e.answer)]
<1>1. w \in [E -> Nat] /\ \A e \in E : w[e] = SizeOf(e.answer)
  BY DEF SizeOf
<1> HIDE DEF w
<1>2. PICK g : Adds(w, E, g)
  BY <1>1, SumExists
<1>3. \A T \in SUBSET E : Bytes(T) = g[T]
  BY <1>1, <1>2, BytesWithin
<1>4. /\ g[{}] = 0 /\ g[E] \in Nat
      /\ \A x \in E : g[E] = w[x] + g[E \ {x}]
  BY <1>1, <1>2, SumLaw
<1>5. {} \in SUBSET E /\ E \in SUBSET E /\ \A x \in E : E \ {x} \in SUBSET E
  OBVIOUS
<1> QED  BY <1>1, <1>3, <1>4, <1>5

LEMMA BytesOfBoth ==
  ASSUME NEW E, IsFiniteSet(E), NEW A, IsFiniteSet(A), E \cap A = {}
  PROVE  Bytes(E \cup A) = Bytes(E) + Bytes(A)
<1> DEFINE Bad == {n \in Nat : \E T \in SUBSET A : /\ Cardinality(T) = n
                                                   /\ Bytes(E \cup T) # Bytes(E) + Bytes(T)}
<1>1. Bad = {}
  <2> SUFFICES ASSUME Bad # {} PROVE FALSE
    OBVIOUS
  <2>1. PICK n \in Bad : \A m \in Bad : n <= m
    BY Least
  <2>2. PICK T \in SUBSET A : Cardinality(T) = n /\ Bytes(E \cup T) # Bytes(E) + Bytes(T)
    BY <2>1
  <2>3. IsFiniteSet(T)
    BY FS_Subset
  <2>4. T # {}
    <3> SUFFICES ASSUME T = {} PROVE FALSE
      OBVIOUS
    <3>1. E \cup T = E /\ Bytes(E) \in Nat /\ Bytes(T) = 0
      BY BytesLaw
    <3> QED  BY <2>2, <3>1
  <2>5. PICK x : x \in T
    BY <2>4
  <2> DEFINE V == T \ {x}
  <2>6. /\ V \in SUBSET A /\ IsFiniteSet(V) /\ Cardinality(V) = n - 1 /\ n - 1 \in Nat /\ n \in Nat
    BY <2>2, <2>3, <2>5, OneLess
  <2>7. Bytes(E \cup V) = Bytes(E) + Bytes(V)
    <3>1. n - 1 \notin Bad
      BY <2>1, <2>6
    <3> QED  BY <2>6, <3>1
  <2>8. IsFiniteSet(E \cup T) /\ (E \cup T) \ {x} = E \cup V /\ x \in E \cup T
    BY <2>3, <2>5, FS_Union
  <2>9. /\ Bytes(E \cup T) = SizeOf(x.answer) + Bytes(E \cup V)
        /\ Bytes(T) = SizeOf(x.answer) + Bytes(V)
    BY <2>3, <2>5, <2>8, BytesLaw
  <2>10. Bytes(E) \in Nat /\ Bytes(V) \in Nat /\ SizeOf(x.answer) \in Nat
    BY <2>6, BytesLaw DEF SizeOf
  <2> QED  BY <2>2, <2>7, <2>9, <2>10
<1>2. Cardinality(A) \in Nat /\ A \in SUBSET A
  BY FS_CardinalityType
<1> QED  BY <1>1, <1>2

-----------------------------------------------------------------------------
(* One entry for each key. *)
OnePerKey(lru) == \A i, j \in 1..Len(lru) : lru[i].key = lru[j].key => i = j

LEMMA EntriesFinite ==
  ASSUME NEW S, NEW lru \in Seq(S)
  PROVE  IsFiniteSet(Entries(lru))
<1> DEFINE f == [i \in 1..Len(lru) |-> lru[i]]
<1>1. IsFiniteSet(1..Len(lru))
  BY FS_Interval
<1>2. f \in Surjection(1..Len(lru), Entries(lru))
  BY DEF Entries, Surjection
<1> QED  BY <1>1, <1>2, FS_Surjection

LEMMA OthersOf ==
  ASSUME NEW S, NEW lru \in Seq(S), OnePerKey(lru), NEW k
  PROVE  /\ OnePerKey(Without(lru, k))
         /\ Entries(Without(lru, k)) = {e \in Entries(lru) : e.key # k}
         /\ Len(Without(lru, k)) =
              IF \E e \in Entries(lru) : e.key = k THEN Len(lru) - 1 ELSE Len(lru)
<1>1. CASE (\A i \in 1..Len(lru) : lru[i].key # k) /\ Without(lru, k) = lru
  BY <1>1 DEF Entries
<1>2. ASSUME NEW i \in 1..Len(lru), lru[i].key = k, Without(lru, k) = RemoveAt(lru, i)
      PROVE  /\ OnePerKey(Without(lru, k))
             /\ Entries(Without(lru, k)) = {e \in Entries(lru) : e.key # k}
             /\ Len(Without(lru, k)) =
                  IF \E e \in Entries(lru) : e.key = k THEN Len(lru) - 1 ELSE Len(lru)
  <2> DEFINE w == RemoveAt(lru, i)
             Old(j) == IF j < i THEN j ELSE j + 1
  <2>1. /\ w \in Seq(S) /\ Len(w) = Len(lru) - 1
        /\ \A j \in 1..Len(lru) - 1 : w[j] = IF j < i THEN lru[j] ELSE lru[j + 1]
    BY RemovedAt
  <2> HIDE DEF w
  <2>2. \A j \in 1..Len(lru) - 1 : Old(j) \in 1..Len(lru) /\ Old(j) # i /\ w[j] = lru[Old(j)]
    BY <2>1
  <2>3. \A j, l \in 1..Len(lru) - 1 : Old(j) = Old(l) => j = l
    OBVIOUS
  <2>4. \A j \in 1..Len(lru) : j # i => \E l \in 1..Len(lru) - 1 : Old(l) = j
    <3> TAKE j \in 1..Len(lru)
    <3>1. CASE j < i
      <4>1. j \in 1..Len(lru) - 1 /\ Old(j) = j
        BY <3>1
      <4> QED  BY <4>1
    <3>2. CASE j > i
      <4>1. j - 1 \in 1..Len(lru) - 1 /\ Old(j - 1) = j
        BY <3>2
      <4> QED  BY <4>1
    <3> QED  BY <3>1, <3>2
  <2> HIDE DEF Old
  <2>5. OnePerKey(w)
    BY <2>1, <2>2, <2>3 DEF OnePerKey
  <2>6. Entries(w) \subseteq {e \in Entries(lru) : e.key # k}
    BY <1>2, <2>1, <2>2 DEF Entries, OnePerKey
  <2>7. {e \in Entries(lru) : e.key # k} \subseteq Entries(w)
    <3>1. ASSUME NEW j \in 1..Len(lru), lru[j].key # k PROVE lru[j] \in Entries(w)
      <4>1. j # i
        BY <1>2, <3>1
      <4>2. PICK l \in 1..Len(lru) - 1 : Old(l) = j
        BY <2>4, <4>1
      <4> QED  BY <2>1, <2>2, <4>2 DEF Entries
    <3> QED  BY <3>1 DEF Entries
  <2>8. \E e \in Entries(lru) : e.key = k
    BY <1>2 DEF Entries
  <2> QED  BY <1>2, <2>1, <2>5, <2>6, <2>7, <2>8 DEF w
<1> QED  BY <1>1, <1>2, WithoutOne

LEMMA InFrontOf ==
  ASSUME NEW S, NEW s \in Seq(S), OnePerKey(s), NEW e \in S,
         \A x \in Entries(s) : x.key # e.key
  PROVE  /\ <<e>> \o s \in Seq(S) /\ OnePerKey(<<e>> \o s)
         /\ Len(<<e>> \o s) = Len(s) + 1
         /\ Entries(<<e>> \o s) = {e} \cup Entries(s)
         /\ Bytes(Entries(<<e>> \o s)) = SizeOf(e.answer) + Bytes(Entries(s))
<1> DEFINE t == <<e>> \o s
<1>1. /\ t \in Seq(S) /\ Len(t) = Len(s) + 1 /\ t[1] = e
      /\ \A j \in 1..Len(s) : t[j + 1] = s[j]
  OBVIOUS
<1> HIDE DEF t
<1>2. \A j \in 1..Len(t) : j = 1 \/ (j - 1 \in 1..Len(s) /\ t[j] = s[j - 1])
  <2> TAKE j \in 1..Len(t)
  <2>1. CASE j # 1
    <3>1. j - 1 \in 1..Len(s) /\ (j - 1) + 1 = j
      BY <1>1, <2>1
    <3> QED  BY <1>1, <3>1
  <2> QED  BY <2>1
<1>3. \A j \in 1..Len(s) : s[j] \in Entries(s)
  BY DEF Entries
<1>4. OnePerKey(t)
  <2> SUFFICES ASSUME NEW i \in 1..Len(t), NEW j \in 1..Len(t), t[i].key = t[j].key PROVE i = j
    BY DEF OnePerKey
  <2>1. CASE i = 1 \/ j = 1
    BY <1>1, <1>2, <1>3, <2>1
  <2>2. CASE i # 1 /\ j # 1
    <3>1. i - 1 = j - 1
      BY <1>2, <2>2 DEF OnePerKey
    <3> QED  BY <3>1
  <2> QED  BY <2>1, <2>2
<1>5. Entries(t) = {e} \cup Entries(s)
  BY FrontKeeps DEF t
<1>6. IsFiniteSet(Entries(t)) /\ e \in Entries(t) /\ Entries(t) \ {e} = Entries(s)
  BY <1>1, <1>5, EntriesFinite
<1>7. Bytes(Entries(t)) = SizeOf(e.answer) + Bytes(Entries(s))
  BY <1>6, BytesLaw
<1> QED  BY <1>1, <1>4, <1>5, <1>7 DEF t

Accounts ==
  /\ OnePerKey(descriptorLRU)
  /\ totalBytes = Bytes(Entries(descriptorLRU))
  /\ totalBytes <= MaxBytes
  /\ Len(descriptorLRU) <= MaxEntries

Record == [key : Places, answer : Findings]

LEMMA CacheType == CInv => descriptorLRU \in Seq(Record)
BY DEF CInv, FileInv, DescriptorCache, Record

(* What is left when the entry of a key has been dropped. *)
LEMMA FreedIs ==
  ASSUME descriptorLRU \in Seq(Record), Accounts, NEW k
  PROVE  LET others == Without(descriptorLRU, k)
         IN  /\ others \in Seq(Record) /\ OnePerKey(others)
             /\ \A e \in Entries(others) : e.key # k
             /\ Freed(k) = Bytes(Entries(others)) /\ Freed(k) \in Nat
             /\ Freed(k) <= totalBytes
             /\ Len(others) <= Len(descriptorLRU)
<1> DEFINE others == Without(descriptorLRU, k)
           mine == {e \in Entries(descriptorLRU) : e.key = k}
<1>1. others \in Seq(Record) /\ Len(others) <= Len(descriptorLRU)
  BY WithoutKeeps
<1>2. OnePerKey(others) /\ Entries(others) = {e \in Entries(descriptorLRU) : e.key # k}
  BY OthersOf DEF Accounts
<1>3. IsFiniteSet(Entries(others)) /\ IsFiniteSet(Entries(descriptorLRU))
  BY <1>1, EntriesFinite
<1>4. IsFiniteSet(mine)
  BY <1>3, FS_Subset
<1>5. Entries(others) \cap mine = {} /\ Entries(others) \cup mine = Entries(descriptorLRU)
  BY <1>2
<1> HIDE DEF others, mine
<1>6. Bytes(Entries(descriptorLRU)) = Bytes(Entries(others)) + Bytes(mine)
  BY <1>3, <1>4, <1>5, BytesOfBoth
<1>7. Bytes(Entries(others)) \in Nat /\ Bytes(mine) \in Nat
  BY <1>3, <1>4, BytesLaw
<1>8. Freed(k) = Bytes(Entries(others)) /\ Freed(k) <= totalBytes
  BY <1>6, <1>7 DEF Freed, Accounts, mine
<1> QED  BY <1>1, <1>2, <1>7, <1>8 DEF others

LEMMA EnforcedAccounts ==
  ASSUME NEW lru \in Seq(Record), OnePerKey(lru), NEW total, total = Bytes(Entries(lru))
  PROVE  LET now == Enforced(lru, total)
         IN  /\ OnePerKey(now.lru)
             /\ now.total = Bytes(Entries(now.lru))
             /\ now.total <= MaxBytes
             /\ Len(now.lru) <= MaxEntries
<1> DEFINE Rest(n) == SubSeq(lru, n + 1, Len(lru))
           After(n) == total - Bytes(Entries(Rest(n)))
           T == {n \in 0..Len(lru) : n <= MaxEntries /\ (n = 0 \/ After(n) <= MaxBytes)}
<1>1. Len(lru) \in Nat /\ T \subseteq 0..Len(lru) /\ 0 \in T
  BY CallersAssumption
<1>2. Enforced(lru, total) = [lru |-> SubSeq(lru, 1, Max(T)), total |-> After(Max(T))]
  BY DEF Enforced
<1>3. Max(T) \in T
  <2> HIDE DEF T
  <2>1. \E n \in T : \A l \in T : n >= l
    BY <1>1, Greatest
  <2> QED  BY <2>1 DEF Max
<1>4. PICK n : n = Max(T)
  OBVIOUS
<1>5. n \in 0..Len(lru) /\ n <= MaxEntries /\ (n = 0 \/ After(n) <= MaxBytes)
  BY <1>3, <1>4
<1>6. Enforced(lru, total) = [lru |-> SubSeq(lru, 1, n), total |-> After(n)]
  BY <1>2, <1>4
<1> HIDE DEF T
<1> DEFINE kept == SubSeq(lru, 1, n)
<1>7. /\ kept \in Seq(Record) /\ Len(kept) = n
      /\ \A j \in 1..n : kept[j] = lru[j] /\ j \in 1..Len(lru)
  BY <1>5
<1>8. /\ Rest(n) \in Seq(Record) /\ Len(Rest(n)) = Len(lru) - n
      /\ \A j \in 1..Len(lru) - n : Rest(n)[j] = lru[n + j] /\ n + j \in 1..Len(lru)
  BY <1>1, <1>5
<1> HIDE DEF kept, Rest
<1>9. OnePerKey(kept)
  BY <1>7 DEF OnePerKey
<1>10. Entries(kept) \cup Entries(Rest(n)) = Entries(lru)
  <2>1. \A j \in 1..Len(lru) : j \in 1..n \/ (j - n \in 1..Len(lru) - n /\ n + (j - n) = j)
    BY <1>5
  <2>2. \A j \in 1..Len(lru) : lru[j] \in Entries(kept) \/ lru[j] \in Entries(Rest(n))
    <3> TAKE j \in 1..Len(lru)
    <3>1. CASE j \in 1..n
      BY <1>7, <3>1 DEF Entries
    <3>2. CASE j - n \in 1..Len(lru) - n /\ n + (j - n) = j
      BY <1>8, <3>2 DEF Entries
    <3> QED  BY <2>1, <3>1, <3>2
  <2>3. Entries(kept) \subseteq Entries(lru) /\ Entries(Rest(n)) \subseteq Entries(lru)
    BY <1>7, <1>8 DEF Entries
  <2> QED  BY <2>2, <2>3 DEF Entries
<1>11. Entries(kept) \cap Entries(Rest(n)) = {}
  <2> SUFFICES ASSUME NEW i \in 1..Len(kept), NEW j \in 1..Len(Rest(n)), kept[i] = Rest(n)[j]
               PROVE  FALSE
    BY DEF Entries
  <2>1. lru[i] = lru[n + j] /\ i \in 1..Len(lru) /\ n + j \in 1..Len(lru)
    BY <1>7, <1>8
  <2>2. i = n + j
    BY <2>1 DEF OnePerKey
  <2> QED  BY <1>5, <1>7, <1>8, <2>2
<1>12. IsFiniteSet(Entries(kept)) /\ IsFiniteSet(Entries(Rest(n)))
  BY <1>7, <1>8, EntriesFinite
<1>13. Bytes(Entries(lru)) = Bytes(Entries(kept)) + Bytes(Entries(Rest(n)))
  BY <1>10, <1>11, <1>12, BytesOfBoth
<1>14. Bytes(Entries(kept)) \in Nat /\ Bytes(Entries(Rest(n))) \in Nat
  BY <1>12, BytesLaw
<1>15. After(n) = Bytes(Entries(kept))
  BY <1>13, <1>14
<1>16. After(n) <= MaxBytes
  <2>1. CASE n = 0
    <3>1. Entries(kept) = {}
      BY <1>7, <2>1 DEF Entries
    <3>2. After(n) = 0
      BY <1>15, <3>1, BytesLaw, FS_EmptySet
    <3> QED  BY <3>2, CallersAssumption
  <2> QED  BY <1>5, <2>1
<1>17. Enforced(lru, total).lru = kept /\ Enforced(lru, total).total = After(n)
  <2>1. PICK a : a = After(n)
    OBVIOUS
  <2>2. Enforced(lru, total) = [lru |-> kept, total |-> a]
    BY <1>6, <2>1 DEF kept
  <2> QED  BY <2>1, <2>2
<1> HIDE DEF After
<1> QED  BY <1>5, <1>7, <1>9, <1>15, <1>16, <1>17

LEMMA KeptAccounts ==
  ASSUME descriptorLRU \in Seq(Record), Accounts, NEW k \in Places, NEW a \in Findings, Kept(k, a)
  PROVE  Accounts'
<1> DEFINE others == Without(descriptorLRU, k)
           e == [key |-> k, answer |-> a]
<1>1. e \in Record /\ e.key = k /\ e.answer = a
  BY DEF Record
<1>2. /\ others \in Seq(Record) /\ OnePerKey(others)
      /\ \A x \in Entries(others) : x.key # k
      /\ Freed(k) = Bytes(Entries(others)) /\ Freed(k) \in Nat
  BY FreedIs
<1>3. /\ descriptorLRU' = Enforced(<<e>> \o others, Freed(k) + SizeOf(a)).lru
      /\ totalBytes' = Enforced(<<e>> \o others, Freed(k) + SizeOf(a)).total
  BY DEF Kept
<1> HIDE DEF others, e
<1>4. /\ <<e>> \o others \in Seq(Record) /\ OnePerKey(<<e>> \o others)
      /\ Bytes(Entries(<<e>> \o others)) = SizeOf(e.answer) + Bytes(Entries(others))
  BY <1>1, <1>2, InFrontOf
<1>5. Freed(k) + SizeOf(a) = Bytes(Entries(<<e>> \o others))
  BY <1>1, <1>2, <1>4 DEF SizeOf
<1> DEFINE lru == <<e>> \o others
           total == Freed(k) + SizeOf(a)
<1>6. lru \in Seq(Record) /\ OnePerKey(lru) /\ total = Bytes(Entries(lru))
  BY <1>4, <1>5
<1>7. descriptorLRU' = Enforced(lru, total).lru /\ totalBytes' = Enforced(lru, total).total
  BY <1>3
<1> HIDE DEF lru, total
<1>8. /\ OnePerKey(descriptorLRU') /\ totalBytes' = Bytes(Entries(descriptorLRU'))
      /\ totalBytes' <= MaxBytes /\ Len(descriptorLRU') <= MaxEntries
  BY <1>6, <1>7, EnforcedAccounts
<1> QED  BY <1>8 DEF Accounts, OnePerKey

LEMMA MissAccounts ==
  ASSUME descriptorLRU \in Seq(Record), Accounts, NEW r \in Requests, MissDescriptor(r)
  PROVE  Accounts'
<1> DEFINE k == req[r].place
<1>1. descriptorLRU' = Without(descriptorLRU, k) /\ totalBytes' = Freed(k)
  BY DEF MissDescriptor
<1>2. /\ OnePerKey(descriptorLRU') /\ totalBytes' = Bytes(Entries(descriptorLRU'))
      /\ totalBytes' \in Nat /\ totalBytes' <= totalBytes
      /\ Len(descriptorLRU') <= Len(descriptorLRU) /\ descriptorLRU' \in Seq(Record)
  BY <1>1, FreedIs
<1>3. totalBytes \in Nat
  BY EntriesFinite, BytesLaw DEF Accounts
<1>4. totalBytes' <= MaxBytes /\ Len(descriptorLRU') <= MaxEntries
  <2>1. Len(descriptorLRU) \in Nat /\ Len(descriptorLRU') \in Nat
    BY <1>2
  <2> QED  BY <1>2, <1>3, <2>1, CallersAssumption DEF Accounts
<1> QED  BY <1>2, <1>4 DEF Accounts, OnePerKey

LEMMA HitAccounts ==
  ASSUME descriptorLRU \in Seq(Record), Accounts, NEW r \in Requests, HitDescriptor(r)
  PROVE  Accounts'
<1>1. PICK e \in Entries(descriptorLRU) : descriptorLRU' = <<e>> \o Without(descriptorLRU, e.key)
  BY DEF HitDescriptor
<1>2. totalBytes' = totalBytes /\ e \in Record
  BY ElementOfSeq DEF HitDescriptor, Entries
<1> DEFINE others == Without(descriptorLRU, e.key)
<1>3. /\ others \in Seq(Record) /\ OnePerKey(others)
      /\ \A x \in Entries(others) : x.key # e.key
  BY FreedIs
<1>4. /\ Entries(others) = {x \in Entries(descriptorLRU) : x.key # e.key}
      /\ Len(others) = Len(descriptorLRU) - 1
  BY OthersOf DEF Accounts
<1> HIDE DEF others
<1>5. /\ OnePerKey(<<e>> \o others)
      /\ Len(<<e>> \o others) = Len(others) + 1
      /\ Entries(<<e>> \o others) = {e} \cup Entries(others)
  BY <1>2, <1>3, InFrontOf
<1>6. {e} \cup Entries(others) = Entries(descriptorLRU)
  <2>1. \A x \in Entries(descriptorLRU) : x.key = e.key => x = e
    BY DEF Entries, Accounts, OnePerKey
  <2> QED  BY <1>4, <2>1
<1>7. descriptorLRU' = <<e>> \o others
  BY <1>1 DEF others
<1>8. /\ OnePerKey(descriptorLRU') /\ Entries(descriptorLRU') = Entries(descriptorLRU)
      /\ Len(descriptorLRU') = Len(descriptorLRU)
  <2>1. Len(descriptorLRU) \in Nat
    OBVIOUS
  <2>2. OnePerKey(descriptorLRU')
    BY <1>5, <1>7
  <2>3. Entries(descriptorLRU') = Entries(descriptorLRU)
    BY <1>5, <1>6, <1>7
  <2>4. Len(descriptorLRU') = Len(descriptorLRU)
    BY <1>4, <1>5, <1>7, <2>1
  <2> QED  BY <2>2, <2>3, <2>4
<1>9. totalBytes' = Bytes(Entries(descriptorLRU'))
  BY <1>2, <1>8 DEF Accounts
<1> QED  BY <1>2, <1>8, <1>9 DEF Accounts, OnePerKey

-----------------------------------------------------------------------------
LEMMA CInit == Init => CInv
<1> SUFFICES ASSUME Init PROVE CInv
  OBVIOUS
<1>1. FlightsSound
  <2>1. P!FInv
    BY PParameters, P!FInit, ProbeSame DEF Init, ProbeInit
  <2>2. D!FInv
    BY DParameters, D!FInit, DescribeSame DEF Init
  <2>3. R!FInv
    BY RParameters, R!FInit, RenderSame DEF Init
  <2> QED  BY <2>1, <2>2, <2>3 DEF FlightsSound
<1>2. /\ \A f \in ProbeIds : probe[f].state = "unused"
      /\ \A f \in DescribeIds : describe[f].state = "unused" /\ ~describe[f].abandoned
      /\ \A f \in RenderIds : render[f].state = "unused"
      /\ \A c \in Callers : probeOf[c] = 0
      /\ \A r \in Requests : describeOf[r] = 0 /\ renderOf[r] = 0
  BY DEF Init, ProbeInit, Flight!Init, Flight!Ids, Flight!Unused, Describing!Init, Describing!Ids,
         Describing!Unused, Rendering!Init, Rendering!Ids, Rendering!Unused, ProbeIds, DescribeIds, RenderIds
<1>3. /\ ended = {} /\ positive = <<>> /\ negative = <<>> /\ descriptorLRU = <<>>
      /\ \A c \in Callers : want[c] = NoKey /\ got[c] = NoAnswer
      /\ cover \in {0, 1} /\ covers = 1 /\ mtime = 0
  BY DEF Init, ProbeInit
<1>4. Entries(<<>>) = {}
  BY DEF Entries
<1>5. 1 \in Versions /\ 1 \in Covers
  BY ProbeAssumption, CallersAssumption DEF Versions, Covers
<1>6. ProbeInv
  <2>1. ProbeTypes
    BY <1>5 DEF ProbeTypes, Init, ProbeInit
  <2>2. ProbeCaches
    BY <1>3, <1>4 DEF ProbeCaches
  <2>3. \A f \in ProbeIds : ProbeSound(f)
    BY <1>2 DEF ProbeSound
  <2>4. \A c \in Callers : CallerSound(c)
    BY <1>2, <1>3 DEF CallerSound, NoAnswer
  <2> QED  BY <2>1, <2>2, <2>3, <2>4 DEF ProbeInv
<1>7. FileInv
  <2>1. Files
    BY <1>3, <1>5 DEF Files
  <2>2. DescriptorCache
    BY <1>3, <1>4 DEF DescriptorCache
  <2>3. \A f \in DescribeIds : DescribeSound(f)
    <3>1. \A f \in DescribeIds : f \in Callers
      BY CallersAssumption
    <3> QED  BY <1>2, <1>3, <3>1 DEF DescribeSound, Inside
  <2>4. \A f \in RenderIds : RenderSound(f)
    BY <1>2 DEF RenderSound
  <2> QED  BY <2>1, <2>2, <2>3, <2>4 DEF FileInv
<1>8. Idle \in RequestRecords /\ Idle.stage = "idle" /\ Idle.audio = 0
  <2>1. 0 \in 0..MaxVersion
    BY ProbeAssumption
  <2>2. Problem("none") \in Ended
    BY DEF Ended
  <2>3. NoPlace \in Places \cup {NoPlace} /\ NoDescriptor \in Descriptors \cup {NoDescriptor}
    OBVIOUS
  <2> HIDE DEF NoPlace, NoDescriptor
  <2> QED  BY <2>1, <2>2, <2>3 DEF Idle, RequestRecords, Stages
<1>9. req \in [Requests -> RequestRecords]
  BY <1>8 DEF Init
<1>10. ASSUME NEW r \in Requests PROVE RequestGood(r)
  <2>1. req[r] = Idle /\ r \in Callers
    BY CallersAssumption DEF Init
  <2>2. version[Track] = 1
    BY CallersAssumption DEF Init, ProbeInit
  <2>3. RequestSound(r)
    BY <1>2, <1>3, <1>8, <2>1, <2>2 DEF RequestSound, At, Inside
  <2>4. Fresh(r)
    BY <1>2, <1>3, <1>8, <2>1 DEF Fresh, FreshProbe, FreshPlace, FreshDescribe, FreshRender,
       FreshAnswer, At, NoAnswer
  <2> QED  BY <2>3, <2>4 DEF RequestGood
<1> QED  BY <1>1, <1>6, <1>7, <1>9, <1>10 DEF CInv

LEMMA CStutter == CInv /\ UNCHANGED vars => CInv'
<1> SUFFICES ASSUME CInv, UNCHANGED vars PROVE CInv'
  OBVIOUS
<1>1. UNCHANGED coverVars /\ UNCHANGED probeVars
  BY DEF vars
<1>2. ProbeInv'
  BY <1>1, ProbeQuiet DEF CInv
<1>3. P!FInv'
  BY <1>1, ProbeGroupStays DEF CInv, FlightsSound, probeVars, flightVars
<1> QED  BY <1>1, <1>2, <1>3, ProbeFlightStep DEF probeVars

LEMMA CStep == CInv /\ [Next]_vars => CInv'
<1> SUFFICES ASSUME CInv, [Next]_vars PROVE CInv'
  OBVIOUS
<1>1. ASSUME NEW r \in Requests, AskMetadata(r) PROVE CInv'
  BY <1>1, AskMetadataKeeps
<1>2. ASSUME NEW r \in Requests, AskTrackCover(r) PROVE CInv'
  BY <1>2, AskTrackKeeps
<1>3. ASSUME NEW r \in Requests, AskDirectoryCover(r) PROVE CInv'
  BY <1>3, AskDirectoryKeeps
<1>4. ASSUME NEW r \in Requests, RequestEnds(r) PROVE CInv'
  BY <1>4, RequestEndsKeeps
<1>5. ASSUME NEW r \in Requests, Reconnect(r) PROVE CInv'
  BY <1>5, ReconnectKeeps
<1>6. ASSUME NEW r \in Requests, RequestSteps(r) PROVE CInv'
  BY <1>6, IdentifyKeeps, HitKeeps, MissKeeps, ReceiveDescriptorKeeps, LeaveDescribeKeeps,
     ServeDescriptorKeeps, RenderKeeps, ReceiveRenderKeeps, LeaveRenderKeeps, TakeMetadataKeeps
     DEF RequestSteps
<1>7. ASSUME NEW c \in Callers, InspectSteps(c) PROVE CInv'
  BY <1>7, HitPositiveKeeps, HitNegativeKeeps, MissProbeKeeps, ReceiveProbeKeeps, LeaveFlightKeeps
     DEF InspectSteps
<1>8. ASSUME NEW f \in ProbeIds, ProbeSteps(f) PROVE CInv'
  <2>1. CASE ProbeReads(f) /\ UNCHANGED coverVars
    BY <2>1, ProbeReadsKeeps
  <2>2. ASSUME NEW a \in Outcomes(f), RunFlight(f, a), UNCHANGED coverVars PROVE CInv'
    BY <2>2, RunFlightKeeps
  <2> QED  BY <1>8, <2>1, <2>2 DEF ProbeSteps
<1>9. ASSUME NEW f \in DescribeIds, DescribeSteps(f) PROVE CInv'
  BY <1>9, FindCoverKeeps, ProbeEmbeddedKeeps, RunDescribeKeeps DEF DescribeSteps
<1>10. ASSUME NEW f \in RenderIds, RenderSteps(f) PROVE CInv'
  BY <1>10, CheckSourceKeeps, FfmpegReadsKeeps, RunRenderKeeps DEF RenderSteps
<1>11. CASE TrackChanges \/ CoverOverwritten \/ CoverMoved
  BY <1>11, TrackChangesKeeps, CoverOverwrittenKeeps, CoverMovedKeeps
<1>12. CASE UNCHANGED vars
  BY <1>12, CStutter
<1>13. Flight!Ids = ProbeIds /\ Rendering!Ids = RenderIds
  BY DEF Flight!Ids, Rendering!Ids, ProbeIds, RenderIds
<1> QED  BY <1>1, <1>2, <1>3, <1>4, <1>5, <1>6, <1>7, <1>8, <1>9, <1>10, <1>11, <1>12, <1>13 DEF Next

(* Through every interleaving of requests, probes, flights and changes of   *)
(* files: the counters of the three groups are exact, what has been read of *)
(* a file, in a cache or a flight, is of a version that was there since the *)
(* key was read, and what an undisturbed request has in hand is true of the *)
(* files as they are.                                                       *)
THEOREM CoverInvariant == Spec => []CInv
BY CInit, CStep, PTL DEF Spec

(* No answer is older than the file: nothing that happens between the       *)
(* identification of a file and the answer, in another request, a flight or *)
(* a cache, lets an undisturbed request be told of a file that is not there *)
(* any more.                                                                *)
THEOREM AnswersAreCurrent == Spec => []AnswersCurrent
<1>1. CInv => AnswersCurrent
  BY DEF CInv, AnswersCurrent, RequestGood, Fresh, FreshAnswer, UpToDate
<1> QED  BY <1>1, CoverInvariant, PTL

(* A request whose context is alive is not answered as cancelled because    *)
(* somebody who shared its flight, or the probe of its flight, has left.    *)
THEOREM OthersDoNotCancel == Spec => []NoForeignCancellation
<1>1. CInv => NoForeignCancellation
  BY DEF CInv, NoForeignCancellation, RequestGood, RequestSound
<1> QED  BY <1>1, CoverInvariant, PTL

(* Whatever requests, flights and changes of files do between them, what    *)
(* the caches hold under an identity that a file still has was read from    *)
(* that file: metadata, both halves of a descriptor, and that a directory   *)
(* has no cover.  Nothing is said of failures, which the code remembers of  *)
(* good files too.                                                          *)
THEOREM CachesAreTrue == Spec => []CacheTruthful
<1>1. CInv => CacheTruthful
  <2> SUFFICES ASSUME CInv PROVE CacheTruthful
    OBVIOUS
  <2>1. ASSUME NEW e \in Entries(positive), e.key.version = version[e.key.path]
        PROVE  e.answer = Says("data", e.key.version)
    <3>1. e.key \in Keys /\ e.answer \in Data /\ e.answer.kind = "data" /\ Honest(e.key, e.answer)
      BY EntryTypes DEF CInv, ProbeInv, ProbeCaches
    <3>2. e.answer.version \in Nat /\ version[e.key.path] \in Nat
      BY <3>1, TheTrack, VersionType, ProbeAssumption DEF Data, Versions
    <3>3. e.answer.version = e.key.version
      BY <2>1, <3>1, <3>2 DEF Honest, Since
    <3> QED  BY <3>1, <3>3 DEF Data, Says
  <2>2. ASSUME NEW e \in Entries(descriptorLRU), NEW d, d = e.answer.descriptor,
               e.answer.kind = "found"
        PROVE  /\ d.kind = "fallback" /\ cover = d.id => d.seen = cover
               /\ d.kind = "embedded" /\ e.key.stamp = version[Track] =>
                    d.id = version[Track] /\ d.seen = version[Track]
    <3>1. Fits(e.key, d)
      BY <2>2 DEF CInv, FileInv, DescriptorCache, Cached, Fitting
    <3>2. d.id \in Nat /\ d.seen \in Nat /\ covers \in Nat /\ version[Track] \in Nat
      BY <3>1, VersionType, OutcomeTypes, CallersAssumption, ProbeAssumption
         DEF Fits, CInv, FileInv, Files, Covers, Versions
    <3>3. cover \in {0, covers} /\ d.id # 0
      BY <3>1, OutcomeTypes DEF Fits, CInv, FileInv, Files
    <3> QED  BY <3>1, <3>2, <3>3 DEF Fits
  <2>3. ASSUME NEW e \in Entries(descriptorLRU), e.answer.kind = "absent", e.key = Directory
        PROVE  cover = 0
    BY <2>3 DEF CInv, FileInv, DescriptorCache, Cached, Fitting
  <2> QED  BY <2>1, <2>2, <2>3 DEF CacheTruthful
<1> QED  BY <1>1, CoverInvariant, PTL

(* Two ffprobe runs of one identity are never both wanted. *)
THEOREM ProbesAreShared == Spec => []OneProbePerIdentity
<1>1. CInv => OneProbePerIdentity
  <2>1. P!FInv => P!OneFlightPerKey
    BY DEF P!FInv, P!Counted, P!OneMapped, P!OneFlightPerKey
  <2>2. P!OneFlightPerKey => Flight!OneFlightPerKey
    BY DEF P!OneFlightPerKey, Flight!OneFlightPerKey, P!Ids, Flight!Ids, P!Running, Flight!Running
  <2> QED  BY <2>1, <2>2 DEF OneProbePerIdentity, CInv, FlightsSound
<1> QED  BY <1>1, CoverInvariant, PTL

LEMMA RunDescribeAccounts ==
  ASSUME CInv, Accounts, NEW f \in DescribeIds, RunDescribe(f)
  PROVE  Accounts'
<1>1. descriptorLRU \in Seq(Record)
  BY CacheType
<1>2. PICK a \in Discovered(f) : UNCHANGED lruVars \/ Kept(describe[f].key, a)
  BY DEF RunDescribe
<1>3. Describing!Running(f)
  BY DEF RunDescribe
<1>4. a \in Findings
  BY <1>3, DiscoveredGood
<1>5. PICK k : k = describe[f].key
  OBVIOUS
<1>6. k \in Places
  BY <1>3, <1>5 DEF CInv, FileInv, DescribeSound, PastPlace, Describing!Running
<1>7. CASE Kept(k, a)
  BY <1>1, <1>4, <1>6, <1>7, KeptAccounts
<1>8. CASE UNCHANGED lruVars
  BY <1>8 DEF lruVars, Accounts, OnePerKey
<1> QED  BY <1>2, <1>5, <1>7, <1>8

LEMMA AccountsInit == Init => Accounts
<1> SUFFICES ASSUME Init PROVE Accounts
  OBVIOUS
<1>1. descriptorLRU = <<>> /\ totalBytes = 0
  BY DEF Init
<1>2. Entries(<<>>) = {} /\ Bytes({}) = 0
  BY BytesLaw, FS_EmptySet DEF Entries
<1>3. Len(descriptorLRU) = 0 /\ \A i \in 1..0 : FALSE
  BY <1>1
<1>4. OnePerKey(descriptorLRU)
  BY <1>3 DEF OnePerKey
<1>5. totalBytes = Bytes(Entries(descriptorLRU))
  BY <1>1, <1>2
<1>6. totalBytes <= MaxBytes /\ Len(descriptorLRU) <= MaxEntries
  BY <1>1, <1>3, CallersAssumption
<1> QED  BY <1>4, <1>5, <1>6 DEF Accounts

LEMMA AccountsStep == CInv /\ Accounts /\ [Next]_vars => Accounts'
<1> SUFFICES ASSUME CInv, Accounts, [Next]_vars PROVE Accounts'
  OBVIOUS
<1>1. descriptorLRU \in Seq(Record)
  BY CacheType
<1>2. ASSUME NEW r \in Requests, HitDescriptor(r) PROVE Accounts'
  BY <1>1, <1>2, HitAccounts
<1>3. ASSUME NEW r \in Requests, MissDescriptor(r) PROVE Accounts'
  BY <1>1, <1>3, MissAccounts
<1>4. ASSUME NEW f \in DescribeIds, RunDescribe(f) PROVE Accounts'
  BY <1>4, RunDescribeAccounts
<1>5. CASE UNCHANGED lruVars
  BY <1>5 DEF lruVars, Accounts, OnePerKey
<1>6. ASSUME NEW r \in Requests, AskMetadata(r) \/ AskTrackCover(r) \/ AskDirectoryCover(r)
                                 \/ RequestEnds(r) \/ Reconnect(r)
      PROVE  UNCHANGED lruVars
  BY <1>6 DEF AskMetadata, AskTrackCover, AskDirectoryCover, RequestEnds, Reconnect
<1>7. ASSUME NEW r \in Requests, RequestSteps(r)
      PROVE  HitDescriptor(r) \/ MissDescriptor(r) \/ UNCHANGED lruVars
  BY <1>7 DEF RequestSteps, IdentifyDirectory, ReceiveDescriptor, LeaveDescribe, ServeDescriptor,
              ServeOriginal, Render, ReceiveRender, LeaveRender, TakeMetadata
<1>8. ASSUME NEW f \in DescribeIds, DescribeSteps(f)
      PROVE  RunDescribe(f) \/ UNCHANGED lruVars
  BY <1>8 DEF DescribeSteps, FindCover, ProbeEmbedded, coverVars, lruVars
<1>9. ASSUME NEW f, RenderSteps(f) PROVE UNCHANGED lruVars
  BY <1>9 DEF RenderSteps, CheckSource, FfmpegReads, RunRender
<1>10. CASE \/ \E c \in Callers : InspectSteps(c)
            \/ \E f \in Flight!Ids : ProbeSteps(f)
            \/ TrackChanges \/ CoverOverwritten \/ CoverMoved
            \/ UNCHANGED vars
  <2>1. UNCHANGED lruVars
    BY <1>10 DEF InspectSteps, ProbeSteps, TrackChanges, CoverOverwritten, CoverMoved, vars,
                 coverVars, lruVars
  <2> QED  BY <1>5, <2>1
<1> QED  BY <1>2, <1>3, <1>4, <1>5, <1>6, <1>7, <1>8, <1>9, <1>10 DEF Next

(* The byte account of the descriptor cache: whatever is put in front,      *)
(* replaced, found stale or evicted, the total is what the entries add up   *)
(* to, each key has one entry, and the cache is within both of its limits.  *)
THEOREM DescriptorsAreAccounted == Spec => []DescriptorAccounts
<1>1. Init => CInv /\ Accounts
  BY CInit, AccountsInit
<1>2. CInv /\ Accounts /\ [Next]_vars => CInv' /\ Accounts'
  BY CStep, AccountsStep
<1>3. CInv /\ Accounts => DescriptorAccounts
  BY DEF Accounts, DescriptorAccounts, OnePerKey
<1> QED  BY <1>1, <1>2, <1>3, PTL DEF Spec
====================================================================
