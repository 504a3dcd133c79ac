---------------------------- MODULE CoverLoader ----------------------------
(***************************************************************************)
(* cover/loader.go and its HTTP side, api/cover.go, over MetadataProbe.    *)
(* A request for the cover of a track first asks for a cover file in the   *)
(* track's directory; only if there is none does it ask for the picture    *)
(* inside the track, whose discovery is a flight that itself waits on an   *)
(* ffprobe flight.  What is found is a descriptor.  It is cached, a cached *)
(* descriptor of a file is compared with the file before it is used, and   *)
(* the bytes are read (or rendered by ffmpeg, in a third kind of flight)   *)
(* only after that, by path.                                               *)
(*                                                                         *)
(* The model has one directory, with one track and at most one cover file. *)
(* Overwriting the cover in place leaves the directory's mtime, replacing  *)
(* or removing it does not.                                                *)
(***************************************************************************)
EXTENDS MetadataProbe

CONSTANTS
  Requests,      \* HTTP requests, for metadata or for a cover
  Track,         \* the one member of Paths
  MaxDescribes,  \* bound: descriptor flights that exist at a time
  MaxRenders,    \* bound: render flights that exist at a time
  MaxCover,      \* bound on the versions of the cover file
  MaxInputs,     \* bound on what comes from outside: requests, file changes,
                 \* contexts that end
  Unusable,      \* cover versions that are too large or no image
  Heavy,         \* cover versions of more than compressCoverBytes
  Wide,          \* cover versions with an edge over compressCoverEdge
  Jpegs,         \* cover versions that are JPEG files; the others are PNG
  Pictures,      \* track versions with a usable embedded picture
  MaxEntries,    \* Config.Entries
  MaxBytes       \* Config.Bytes

DescribeIds == 1..MaxDescribes

(* A descriptor flight is a caller of the probe. *)
ASSUME CallersAssumption ==
  /\ Callers = Requests \cup DescribeIds
  /\ Requests \cap DescribeIds = {}
  /\ Paths = {Track}
  /\ MaxCover \in Nat \ {0} /\ MaxEntries \in Nat \ {0} /\ MaxBytes \in Nat \ {0}

Covers == 1..MaxCover

(* Where a descriptor is looked up: the directory at an mtime, or the      *)
(* track at a version.                                                     *)
Places == [kind : {"directory"}, stamp : Nat] \cup [kind : {"embedded"}, stamp : Versions]

NoPlace == [kind |-> "none", stamp |-> 0]

(* A descriptor names the version whose size and mtime it carries, and the *)
(* one whose dimensions were read: the file is opened again for those.     *)
(* Its ETag is a hash of both.                                             *)
Descriptors == [kind : {"fallback"}, id : Covers, seen : Covers]
               \cup [kind : {"embedded"}, id : Versions, seen : Versions]

NoDescriptor == [kind |-> "none", id |-> 0, seen |-> 0]

(* What describing and rendering end in: a descriptor or an image, or why  *)
(* not.  "absent" is the ErrNotFound sentinel itself, "unusable" an error  *)
(* that wraps it, "stale" is ErrStale, and "failed" stands for busy, timed *)
(* out and every other error.                                              *)
Problems == {"absent", "unusable", "stale", "failed", "cancelled"}

Found(d) == [kind |-> "found", descriptor |-> d]
Image(how, v) == [kind |-> how, version |-> v]
Problem(p) == [kind |-> p]

Findings == {Found(d) : d \in Descriptors} \cup {Problem(p) : p \in Problems}

Images == {Image(how, v) : how \in {"original", "rendered"}, v \in Covers \cup Versions}
          \cup {Problem(p) : p \in Problems}

(* How far a flight is.  For a directory: new, file found.  For a          *)
(* rendering: new, identity checked, source opened.                        *)
Step(name, v) == [step |-> name, version |-> v]

Searches == {Step("new", 0)} \cup {Step("found", v) : v \in Covers}

Renderings == {Step("new", 0), Step("checked", 0)} \cup {Step("read", v) : v \in Covers \cup Versions}

VARIABLES
  cover,         \* the version of the cover file, 0 if there is none
  covers,        \* versions of the cover file written so far
  mtime,         \* the directory's mtime
  req,           \* req[r]: what an HTTP request is doing
  inputs,        \* how much has come from outside
  disturbed,     \* history: requests during which a file changed, or that
                 \* joined the directory flight of an earlier request
  descriptorLRU, \* cached descriptors and absences, most recently used first
  totalBytes,
  describe, describeCalls, describeOf,
  render, renderCalls, renderOf

describeVars == <<describe, describeCalls, describeOf>>
renderVars == <<render, renderCalls, renderOf>>
fileVars == <<cover, covers, mtime>>
lruVars == <<descriptorLRU, totalBytes>>
coverVars == <<cover, covers, mtime, req, inputs, disturbed, descriptorLRU, totalBytes,
               describe, describeCalls, describeOf, render, renderCalls, renderOf>>
vars == <<probeVars, coverVars>>

Describing == INSTANCE Flights WITH
  Callers <- Requests, MaxFlights <- MaxDescribes, Keys <- Places, NoKey <- NoPlace,
  Works <- Searches, New <- Step("new", 0), Answers <- Findings,
  flight <- describe, mapped <- describeCalls, at <- describeOf

Rendering == INSTANCE Flights WITH
  Callers <- Requests, MaxFlights <- MaxRenders, Keys <- Descriptors, NoKey <- NoDescriptor,
  Works <- Renderings, New <- Step("new", 0), Answers <- Images,
  flight <- render, mapped <- renderCalls, at <- renderOf

Idle == [stage |-> "idle", audio |-> 0, place |-> NoPlace,
         found |-> NoDescriptor, outcome |-> Problem("none")]

Init ==
  /\ ProbeInit
  /\ cover \in 0..1
  /\ covers = 1
  /\ mtime = 0
  /\ req = [r \in Requests |-> Idle]
  /\ inputs = 0
  /\ disturbed = {}
  /\ descriptorLRU = <<>>
  /\ totalBytes = 0
  /\ Describing!Init
  /\ Rendering!Init

-----------------------------------------------------------------------------
(* Requests *)

(* Mutation: the mtime is not part of what is looked up. *)
DirectoryByPath == [kind |-> "directory", stamp |-> 0]

(* DescribeDirectory looks a directory up at the mtime it has. *)
Directory == [kind |-> "directory", stamp |-> mtime]

At(r, stage) == req[r].stage = stage

Goes(r, stage) == req' = [req EXCEPT ![r].stage = stage]

Ends(r, outcome) ==
  req' = [req EXCEPT ![r] = [Idle EXCEPT !.stage = "answered", !.found = req[r].found,
                                         !.outcome = outcome]]

Occurs == inputs < MaxInputs /\ inputs' = inputs + 1

(* A connection makes one request after the other while its client stays. *)
Asks(r) ==
  /\ At(r, "idle") \/ At(r, "answered")
  /\ r \notin ended
  /\ Occurs
  /\ disturbed' = disturbed \ {r}

(* handleFileMetadata: the request is itself a caller of inspect. *)
AskMetadata(r) ==
  /\ Asks(r)
  /\ Inspect(r, Track)
  /\ req' = [req EXCEPT ![r] = [Idle EXCEPT !.stage = "probing"]]
  /\ UNCHANGED <<fileVars, lruVars, describeVars, renderVars>>

TakeMetadata(r) ==
  /\ At(r, "probing")
  /\ got[r] # NoAnswer
  /\ got' = [got EXCEPT ![r] = NoAnswer]
  /\ Ends(r, got[r])
  /\ UNCHANGED <<version, ended, want, cacheVars, flightVars>>
  /\ UNCHANGED <<fileVars, inputs, disturbed, lruVars, describeVars, renderVars>>

(* Describe identifies the track before the directory. *)
AskTrackCover(r) ==
  /\ Asks(r)
  /\ req' = [req EXCEPT ![r] = [Idle EXCEPT !.stage = "directory", !.audio = version[Track]]]
  /\ UNCHANGED <<probeVars, fileVars, lruVars, describeVars, renderVars>>

AskDirectoryCover(r) ==
  /\ Asks(r)
  /\ req' = [req EXCEPT ![r] = [Idle EXCEPT !.stage = "lookup", !.place = Directory]]
  /\ UNCHANGED <<probeVars, fileVars, lruVars, describeVars, renderVars>>

(* DescribeDirectory looks at the context and identifies the directory. *)
IdentifyDirectory(r) ==
  /\ At(r, "directory")
  /\ IF r \in ended
     THEN Ends(r, Problem("cancelled"))
     ELSE req' = [req EXCEPT ![r].stage = "lookup", ![r].place = Directory]
  /\ UNCHANGED <<probeVars, fileVars, inputs, disturbed, lruVars, describeVars, renderVars>>

(* What a request does with what describing it has ended in.  Only the     *)
(* sentinel itself lets Describe go on to the embedded picture.            *)
Described(r, a) ==
  IF a.kind = "found"
  THEN req' = [req EXCEPT ![r] = [Idle EXCEPT !.stage = "serve", !.found = a.descriptor]]
  ELSE IF a.kind = "absent" /\ req[r].audio # 0 /\ req[r].place.kind = "directory"
  THEN req' = [req EXCEPT ![r].stage = "lookup",
                          ![r].place = [kind |-> "embedded", stamp |-> req[r].audio]]
  ELSE Ends(r, a)

-----------------------------------------------------------------------------
(* The descriptor cache *)

(* Strings make the entry of a descriptor longer than that of an absence. *)
SizeOf(a) == IF a.kind = "found" THEN 2 ELSE 1

Bytes(entries) == MapThenSumSet(LAMBDA e : SizeOf(e.answer), entries)

(* Mutation: an entry that is replaced or dropped keeps its bytes. *)
FreedNothing(k) == totalBytes

(* removeDescriptorLocked *)
Freed(k) == totalBytes - Bytes({e \in Entries(descriptorLRU) : e.key = k})

(* enforceLimitsLocked: the oldest entries go, and their bytes with them.  *)
Enforced(lru, total) ==
  LET After(n) == total - Bytes(Entries(SubSeq(lru, n + 1, Len(lru))))
      kept == Max({n \in 0..Len(lru) : n <= MaxEntries /\ (n = 0 \/ After(n) <= MaxBytes)})
  IN [lru |-> SubSeq(lru, 1, kept), total |-> After(kept)]

(* addDescriptorLocked *)
Kept(k, a) ==
  LET now == Enforced(<<[key |-> k, answer |-> a]>> \o Without(descriptorLRU, k),
                      Freed(k) + SizeOf(a))
  IN /\ descriptorLRU' = now.lru
     /\ totalBytes' = now.total

(* Mutation: a cached descriptor is believed. *)
StillValidUnchecked(d) == TRUE

(* descriptorStillValid *)
StillValid(d) == d.kind = "fallback" => cover = d.id

HitDescriptor(r) ==
  /\ At(r, "lookup")
  /\ \E e \in Entries(descriptorLRU) :
       /\ e.key = req[r].place
       /\ e.answer.kind = "found" => StillValid(e.answer.descriptor)
       /\ descriptorLRU' = <<e>> \o Without(descriptorLRU, e.key)
       /\ Described(r, e.answer)
  /\ UNCHANGED <<probeVars, fileVars, inputs, disturbed, totalBytes, describeVars, renderVars>>

(* There is no entry, or that of a file that has changed, or an absence    *)
(* whose deadline has passed, which may be at any time.                    *)
MissDescriptor(r) ==
  /\ At(r, "lookup")
  /\ LET k == req[r].place
     IN /\ \A e \in Entries(descriptorLRU) :
             e.key = k /\ e.answer.kind = "found" => ~StillValid(e.answer.descriptor)
        /\ descriptorLRU' = Without(descriptorLRU, k)
        /\ totalBytes' = Freed(k)
        /\ \/ /\ Describing!JoinFlight(r, k)
              /\ disturbed' = IF k.kind = "directory" THEN disturbed \cup {r} ELSE disturbed
           \/ /\ Describing!NewFlight(r, k)
              /\ UNCHANGED disturbed
  /\ Goes(r, "describing")
  /\ UNCHANGED <<probeVars, fileVars, inputs, renderVars>>

ReceiveDescriptor(r) ==
  /\ Describing!Receive(r)
  /\ Described(r, Describing!AnswerFor(r))
  /\ UNCHANGED <<probeVars, fileVars, inputs, disturbed, lruVars, renderVars>>

(* Leaving a flight that nobody else waits on ends the context it works in. *)
LeaveDescribe(r) ==
  /\ r \in ended
  /\ Describing!Leave(r)
  /\ ended' = ended \cup {f \in DescribeIds : describe'[f].abandoned}
  /\ Ends(r, Problem("cancelled"))
  /\ UNCHANGED <<version, want, got, cacheVars, flightVars>>
  /\ UNCHANGED <<fileVars, inputs, disturbed, lruVars, renderVars>>

-----------------------------------------------------------------------------
(* Descriptor flights *)

DescribesA(f, kind) == Describing!Running(f) /\ describe[f].key.kind = kind

(* findDirectoryCover: the size and mtime of the file that is there. *)
FindCover(f) ==
  /\ DescribesA(f, "directory")
  /\ describe[f].work.step = "new"
  /\ cover # 0
  /\ Describing!Progress(f, Step("found", cover))
  /\ UNCHANGED <<probeVars, fileVars, req, inputs, disturbed, lruVars, renderVars>>

(* discoverEmbedded calls ProbeEmbedded in the context of the flight. *)
ProbeEmbedded(f) ==
  /\ DescribesA(f, "embedded")
  /\ Inspect(f, Track)
  /\ UNCHANGED coverVars

(* discoverDescriptor: no cover in the directory, or the file found, which *)
(* is opened again for its dimensions; or what the probe says, of which    *)
(* only busy, timeout and cancelled are told apart from having no picture. *)
Discovered(f) ==
  LET d == describe[f]
      a == got[f]
  IN IF d.key.kind = "directory"
     THEN IF d.work.step = "new" THEN IF cover = 0 THEN {Problem("absent")} ELSE {}
          ELSE IF cover = 0 THEN {Problem("failed")}
          ELSE IF cover \in Unusable THEN {Problem("unusable")}
          ELSE {Found([kind |-> "fallback", id |-> d.work.version, seen |-> cover])}
     ELSE IF got[f] = NoAnswer THEN {}
     ELSE IF a.kind = "data" /\ a.version \in Pictures
          THEN {Found([kind |-> "embedded", id |-> d.key.stamp, seen |-> a.version])}
     ELSE IF a.kind = "cancelled" THEN {Problem("cancelled")}
     ELSE IF a.kind = "busy" THEN {Problem("failed")}
     ELSE {Problem("absent")}

(* runDescribe, under the mutex. *)
RunDescribe(f) ==
  /\ Describing!Running(f)
  /\ \E a \in Discovered(f) :
       /\ Describing!Land(f, a)
       /\ IF ~describe[f].abandoned /\ a.kind \in {"found", "absent", "unusable"}
          THEN Kept(describe[f].key, a)
          ELSE UNCHANGED lruVars
  /\ got' = [got EXCEPT ![f] = NoAnswer]
  /\ ended' = ended \ {f}
  /\ UNCHANGED <<version, want, cacheVars, flightVars>>
  /\ UNCHANGED <<fileVars, req, inputs, disturbed, renderVars>>

-----------------------------------------------------------------------------
(* Bytes *)

RequiresRender(d) == d.kind = "embedded" \/ d.id \in Heavy \/ d.seen \in Wide

(* Whether the source is still the one that was described. *)
SameSource(d) == d.id = IF d.kind = "embedded" THEN version[Track] ELSE cover

(* OpenFallback compares the file it has opened. *)
Original(d) == IF SameSource(d) THEN Image("original", d.id) ELSE Problem("stale")

(* serveCover: HEAD and 304 need the descriptor only. *)
ServeDescriptor(r) ==
  /\ At(r, "serve")
  /\ Ends(r, Image("unchanged", req[r].found.id))
  /\ UNCHANGED <<probeVars, fileVars, inputs, disturbed, lruVars, describeVars, renderVars>>

ServeOriginal(r) ==
  /\ At(r, "serve")
  /\ ~RequiresRender(req[r].found)
  /\ Ends(r, Original(req[r].found))
  /\ UNCHANGED <<probeVars, fileVars, inputs, disturbed, lruVars, describeVars, renderVars>>

Render(r) ==
  /\ At(r, "serve")
  /\ RequiresRender(req[r].found)
  /\ IF r \in ended
     THEN /\ Ends(r, Problem("cancelled"))
          /\ UNCHANGED renderVars
     ELSE /\ Rendering!JoinFlight(r, req[r].found) \/ Rendering!NewFlight(r, req[r].found)
          /\ Goes(r, "rendering")
  /\ UNCHANGED <<probeVars, fileVars, inputs, disturbed, lruVars, describeVars>>

ReceiveRender(r) ==
  /\ Rendering!Receive(r)
  /\ Ends(r, Rendering!AnswerFor(r))
  /\ UNCHANGED <<probeVars, fileVars, inputs, disturbed, lruVars, describeVars>>

LeaveRender(r) ==
  /\ r \in ended
  /\ Rendering!Leave(r)
  /\ Ends(r, Problem("cancelled"))
  /\ UNCHANGED <<probeVars, fileVars, inputs, disturbed, lruVars, describeVars>>

(* renderDescriptor compares the identity before it asks for a lane ... *)
CheckSource(f) ==
  /\ Rendering!Running(f)
  /\ render[f].work.step = "new"
  /\ SameSource(render[f].key)
  /\ Rendering!Progress(f, Step("checked", 0))
  /\ UNCHANGED <<probeVars, fileVars, req, inputs, disturbed, lruVars, describeVars>>

(* ... and ffmpeg opens whatever the path holds when it has one. *)
FfmpegReads(f) ==
  /\ Rendering!Running(f)
  /\ render[f].work.step = "checked"
  /\ LET v == IF render[f].key.kind = "embedded" THEN version[Track] ELSE cover
     IN v # 0 /\ Rendering!Progress(f, Step("read", v))
  /\ UNCHANGED <<probeVars, fileVars, req, inputs, disturbed, lruVars, describeVars>>

Killed(f) == IF render[f].abandoned THEN {Problem("cancelled")} ELSE {}

(* Mutation: when no ffmpeg gets to read the source, nobody is told. *)
RefusedSilently(f) == Killed(f)

(* No lane, no process, or no file any more. *)
Refused(f) == Killed(f) \cup {Problem("failed")}

(* What the rendering may say.  A JPEG that rendering does not shorten     *)
(* enough is sent as it is, after another look at its identity.            *)
Rendered(f) ==
  LET d == render[f].key
      v == render[f].work.version
      image == {Image("rendered", v)}
               \cup IF d.kind = "fallback" /\ d.seen \in Jpegs THEN {Original(d)} ELSE {}
  IN CASE render[f].work.step = "new"     -> IF SameSource(d) THEN {} ELSE {Problem("stale")}
       [] render[f].work.step = "checked" -> Refused(f)
       [] render[f].work.step = "read"    ->
            Refused(f) \cup IF d.kind = "embedded" /\ v \notin Pictures THEN {} ELSE image

(* runRender *)
RunRender(f) ==
  /\ Rendering!Running(f)
  /\ \E a \in Rendered(f) : Rendering!Land(f, a)
  /\ UNCHANGED <<probeVars, fileVars, req, inputs, disturbed, lruVars, describeVars>>

-----------------------------------------------------------------------------
(* The environment *)

Active == {r \in Requests : ~At(r, "idle")}

TrackChanges ==
  /\ Occurs
  /\ FileChanges(Track)
  /\ disturbed' = Active
  /\ UNCHANGED <<fileVars, req, lruVars, describeVars, renderVars>>

(* The cover file is overwritten in place. *)
CoverOverwritten ==
  /\ Occurs
  /\ cover # 0 /\ covers < MaxCover
  /\ covers' = covers + 1
  /\ cover' = covers'
  /\ disturbed' = Active
  /\ UNCHANGED <<probeVars, mtime, req, lruVars, describeVars, renderVars>>

(* A cover file is renamed into the directory, or removed from it. *)
CoverMoved ==
  /\ Occurs
  /\ mtime' = mtime + 1
  /\ \/ cover # 0 /\ cover' = 0 /\ UNCHANGED covers
     \/ covers < MaxCover /\ covers' = covers + 1 /\ cover' = covers'
  /\ disturbed' = Active
  /\ UNCHANGED <<probeVars, req, lruVars, describeVars, renderVars>>

RequestEnds(r) ==
  /\ r \in Active /\ ~At(r, "answered")
  /\ ContextEnds(r)
  /\ Occurs
  /\ UNCHANGED <<fileVars, req, disturbed, lruVars, describeVars, renderVars>>

(* In place of a connection whose client has gone there is another. *)
Reconnect(r) ==
  /\ At(r, "answered")
  /\ r \in ended
  /\ req' = [req EXCEPT ![r] = Idle]
  /\ ended' = ended \ {r}
  /\ UNCHANGED <<version, want, got, cacheVars, flightVars>>
  /\ UNCHANGED <<fileVars, inputs, disturbed, lruVars, describeVars, renderVars>>

(* The steps a request makes of itself, and those of the flights. *)
RequestSteps(r) ==
  \/ IdentifyDirectory(r) \/ HitDescriptor(r) \/ MissDescriptor(r)
  \/ ReceiveDescriptor(r) \/ LeaveDescribe(r)
  \/ ServeDescriptor(r) \/ ServeOriginal(r) \/ Render(r)
  \/ ReceiveRender(r) \/ LeaveRender(r)
  \/ TakeMetadata(r)

InspectSteps(c) ==
  /\ HitPositive(c) \/ HitNegative(c) \/ Miss(c) \/ ReceiveProbe(c) \/ LeaveFlight(c)
  /\ UNCHANGED coverVars

ProbeSteps(f) ==
  /\ Flight!Running(f)
  /\ ProbeReads(f) \/ \E a \in Outcomes(f) : RunFlight(f, a)
  /\ UNCHANGED coverVars

DescribeSteps(f) == FindCover(f) \/ ProbeEmbedded(f) \/ RunDescribe(f)

RenderSteps(f) == CheckSource(f) \/ FfmpegReads(f) \/ RunRender(f)

Next ==
  \/ \E r \in Requests : \/ AskMetadata(r)
                         \/ AskTrackCover(r)
                         \/ AskDirectoryCover(r)
                         \/ RequestEnds(r)
                         \/ Reconnect(r)
                         \/ RequestSteps(r)
  \/ \E c \in Callers : InspectSteps(c)
  \/ \E f \in Flight!Ids : ProbeSteps(f)
  \/ \E f \in DescribeIds : DescribeSteps(f)
  \/ \E f \in Rendering!Ids : RenderSteps(f)
  \/ TrackChanges
  \/ CoverOverwritten
  \/ CoverMoved

Spec == Init /\ [][Next]_vars

-----------------------------------------------------------------------------
(* No answer is older than the file: if nothing changed while a request    *)
(* was in progress, and it shared nobody else's reading of the directory,  *)
(* the metadata and the descriptor it got, cached or not, are those of the *)
(* files as they are, the bytes belong to its ETag, and it is not told     *)
(* that the cover is stale.                                                *)
AnswersCurrent ==
  \A r \in Requests \ disturbed :
    At(r, "answered") =>
      LET a == req[r].outcome
          d == req[r].found
      IN /\ a.kind # "stale"
         /\ a.kind = "data" => a.version = version[Track]
         /\ a.kind \in {"unchanged", "original", "rendered"} =>
              /\ d.id = d.seen /\ a.version = d.id
              /\ d.kind = "fallback" => cover = d.id
              /\ d.kind = "embedded" => cover = 0 /\ version[Track] = d.id

(* A request whose own context is alive is never answered as cancelled     *)
(* because another one that shared its descriptor, its probe or its        *)
(* rendering went away.                                                    *)
NoForeignCancellation ==
  \A r \in Requests :
    At(r, "answered") /\ req[r].outcome.kind = "cancelled" => r \in ended

(* The byte account of the descriptor cache is what its entries add up to, *)
(* within the limits, with one entry per key.                              *)
DescriptorAccounts ==
  /\ totalBytes = Bytes(Entries(descriptorLRU))
  /\ totalBytes <= MaxBytes
  /\ Len(descriptorLRU) <= MaxEntries
  /\ \A i, j \in 1..Len(descriptorLRU) :
       descriptorLRU[i].key = descriptorLRU[j].key => i = j

(* A request during which a file changes may itself be told half of the    *)
(* old and half of the new; what it leaves behind may not be.  Whatever is *)
(* cached under an identity that a file still has was read from that file: *)
(* metadata, both halves of a descriptor, and that a directory has no      *)
(* cover.  (Of failures, and so of tracks without a picture, nothing is    *)
(* said: see FailuresAreOfTheFile.)                                        *)
CacheTruthful ==
  /\ \A e \in Entries(positive) :
       e.key.version = version[e.key.path] => e.answer = Says("data", e.key.version)
  /\ \A e \in Entries(descriptorLRU) :
       LET d == e.answer.descriptor
       IN /\ e.answer.kind = "found" /\ d.kind = "fallback" /\ cover = d.id => d.seen = cover
          /\ e.answer.kind = "found" /\ d.kind = "embedded" /\ e.key.stamp = version[Track] =>
               d.id = version[Track] /\ d.seen = version[Track]
          /\ e.answer.kind = "absent" /\ e.key = Directory => cover = 0

(* docs/ARCHITECTURE.md:222: deterministic failures of the command or of   *)
(* its JSON are remembered for 30 seconds, temporary I/O is not.  What is  *)
(* remembered as a failure of a file that has not changed since would then *)
(* fail again.                                                             *)
FailuresAreOfTheFile ==
  \A e \in Entries(negative) :
    e.key.version = version[e.key.path] => e.key.version \in Broken

(* Two ffprobe runs of one identity are never both wanted. *)
OneProbePerIdentity == Flight!OneFlightPerKey

(* No request is forgotten: one that has no answer yet can take a step, or *)
(* the flight it waits on can, or the probe that flight waits on.  (Every  *)
(* step brings it nearer to its answer, so that none waits for ever as     *)
(* long as probes and renderings end.)                                     *)
NobodyForgotten ==
  LET ProbeGoesOn(c) == \/ probeOf[c] # 0 /\ ENABLED ProbeSteps(probeOf[c])
                        \/ ENABLED InspectSteps(c)
      DescriptionGoesOn(f) == \/ ENABLED FindCover(f)
                              \/ ENABLED ProbeEmbedded(f)
                              \/ /\ Describing!Running(f)
                                 /\ \E a \in Discovered(f) : ENABLED Describing!Land(f, a)
                              \/ ProbeGoesOn(f)
  IN \A r \in Requests :
       \/ At(r, "idle") \/ At(r, "answered")
       \/ describeOf[r] # 0 /\ DescriptionGoesOn(describeOf[r])
       \/ renderOf[r] # 0 /\ ENABLED RenderSteps(renderOf[r])
       \/ ProbeGoesOn(r)
       \/ ENABLED RequestSteps(r)
=============================================================================
