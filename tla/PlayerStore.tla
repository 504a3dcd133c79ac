---------------------------- MODULE PlayerStore -----------------------------
(***************************************************************************)
(* web/src/stores/player.ts: the player of the web client, one audio       *)
(* element and one play queue that the server keeps.  Its functions are    *)
(* coroutines of one thread: a call runs up to an await, others run, and   *)
(* it goes on in a world that may have moved.  Three counters tell a late  *)
(* call that it is late: playEpoch (another track or queue was asked for), *)
(* playbackIntent (another wish to play, or to pause) and sourceRequest    *)
(* (another source was loaded).  A counter is only ever compared with a    *)
(* value read from it before, so a call carries, for each, whether it has  *)
(* stayed the same; and, for the queue, whether it is still the one the    *)
(* call has asked about.                                                   *)
(*                                                                         *)
(* The server answers a request, refuses it or has lost the queue, at any  *)
(* time, and what a queue holds is its choice: which track is the next one *)
(* or the first available one is open here, and so is whether a page is in *)
(* the cache.  Tags, metadata, volume, the stream mode, the keep-alive of  *)
(* the audio device and the messages on the screen are left out;           *)
(* isBuffering only decides what the play button means, playlistLoading    *)
(* when the playlist can be asked for: all of these are always open.       *)
(***************************************************************************)
EXTENDS Naturals, FiniteSets

CONSTANTS
  Calls,    \* bound: calls of the store's functions in progress at once
  NoCall,
  Tracks,
  NoTrack

ASSUME PlayerAssumption ==
  IsFiniteSet(Calls) /\ NoCall \notin Calls /\ NoTrack \notin Tracks

VARIABLES
  list,     \* the store: its queue and recoveryUsed
  player,   \* the store and its audio element
  call,     \* the calls in progress
  said      \* history: what the user last said, and recoveries since a queue

vars == <<list, player, call, said>>

(* "replace" is a createReplacement that is to play what it creates,        *)
(* "silent" a source that is loaded only.                                   *)
Ops == {"none", "create", "replace", "prepend", "playAt", "next", "previous",
        "playTrack", "resume", "reload", "silent", "page"}

(* Where a call awaits the server; the others are preparePlaylist's caller, *)
(* next or previous before it calls itself, and the two awaits of the       *)
(* element.                                                                 *)
QueueWork == {"create", "createAnew", "recover", "prepend", "temporary", "prependNew"}

SelectWork == {"select", "reselect"}

Requests == QueueWork \cup SelectWork \cup {"page"}

Places == Requests \cup {"idle", "prepared", "restart", "loading", "starting"}

Idle ==
  [op |-> "none", at |-> "idle", reply |-> "none", same |-> FALSE, track |-> NoTrack,
   pin |-> FALSE, epoch |-> FALSE, intent |-> FALSE, source |-> FALSE]

NoList == [queue |-> "none", recoveryUsed |-> FALSE]

(* "on" is an element that plays or tries to; "event" a pause event on its *)
(* way; "active" the call that activeMediaPlaybackIntent belongs to.       *)
NoPlayer ==
  [current |-> NoTrack, src |-> NoTrack, on |-> FALSE, event |-> FALSE,
   playing |-> FALSE, active |-> NoCall]

Init ==
  /\ list = NoList
  /\ player = NoPlayer
  /\ call = [c \in Calls |-> Idle]
  /\ said = [choice |-> NoTrack, silenced |-> FALSE, recoveries |-> 0]

CallRecords ==
  [op : Ops, at : Places, reply : {"none", "ok", "missing", "failed", "aborted"},
   same : BOOLEAN, track : Tracks \cup {NoTrack}, pin : BOOLEAN,
   epoch : BOOLEAN, intent : BOOLEAN, source : BOOLEAN]

PlayerRecords ==
  [current : Tracks \cup {NoTrack}, src : Tracks \cup {NoTrack}, on : BOOLEAN,
   event : BOOLEAN, playing : BOOLEAN, active : Calls \cup {NoCall}]

TypeOK ==
  /\ list \in [queue : {"none", "empty", "some"}, recoveryUsed : BOOLEAN]
  /\ player \in PlayerRecords
  /\ call \in [Calls -> CallRecords]
  /\ said \in [choice : Tracks \cup {NoTrack}, silenced : BOOLEAN, recoveries : Nat]

-----------------------------------------------------------------------------
(* The counters, the controllers and the element.                           *)

EpochPasses(cs) == [d \in Calls |-> [cs[d] EXCEPT !.epoch = FALSE]]

IntentPasses(cs) == [d \in Calls |-> [cs[d] EXCEPT !.intent = FALSE]]

SourcePasses(cs) == [d \in Calls |-> [cs[d] EXCEPT !.source = FALSE]]

(* Abort the requests in the given places.  queueController and             *)
(* selectController are those of the latest call; earlier ones have been    *)
(* aborted when it took over.                                               *)
Abort(cs, places) ==
  [d \in Calls |-> IF cs[d].at \in places THEN [cs[d] EXCEPT !.reply = "aborted"] ELSE cs[d]]

AbortQueueWork(cs) == Abort(cs, Requests)

(* Another queue takes the place of the store's.                            *)
QueuePasses(cs) == [d \in Calls |-> [Abort(cs, {"page"})[d] EXCEPT !.same = FALSE]]

(* Pausing and loading reject the promises of play().                       *)
Interrupt(cs) ==
  [d \in Calls |-> IF cs[d].at = "starting" THEN [cs[d] EXCEPT !.reply = "failed"] ELSE cs[d]]

PauseElement(p) == [p EXCEPT !.on = FALSE, !.event = @ \/ p.on]

(* beginPlaybackIntent: what plays already goes on under the new intent.    *)
Begin(p, c) == [p EXCEPT !.active = IF p.on /\ p.playing THEN c ELSE @]

(* What the history keeps of a new wish to play.                            *)
Wishes(choice) == [said EXCEPT !.choice = choice, !.silenced = FALSE]

(* c ends, or goes on as rec.                                               *)
Becomes(c, rec, cs, p) ==
  /\ call' = [cs EXCEPT ![c] = rec]
  /\ player' = IF rec = Idle /\ p.active = c THEN [p EXCEPT !.active = NoCall] ELSE p

(* abandonPlayback: only who has the current intent can give it up.         *)
Abandon(c, rec, cs, p) ==
  IF call[c].intent
  THEN Becomes(c, [rec EXCEPT !.intent = FALSE], IntentPasses(cs), [p EXCEPT !.active = NoCall])
  ELSE Becomes(c, rec, cs, p)

(* loadCurrentSource for the track t, in a call whose intent is the current *)
(* one; what was heard before ends.                                         *)
Load(c, rec, cs, p, t) ==
  /\ call' = [Interrupt(SourcePasses(cs)) EXCEPT
       ![c] = [rec EXCEPT !.at = "starting", !.reply = "none", !.source = TRUE]]
  /\ player' = [PauseElement(p) EXCEPT !.current = t, !.src = t, !.on = TRUE, !.active = c]

(* The same from a position other than 0: first its metadata must load.     *)
LoadFrom(c, rec, cs, p, t) ==
  /\ call' = [Interrupt(SourcePasses(cs)) EXCEPT
       ![c] = [rec EXCEPT !.at = "loading", !.reply = "none", !.source = TRUE]]
  /\ player' = [PauseElement(p) EXCEPT !.current = t, !.src = t]

Free(c) == call[c].at = "idle"

(* The server answers; it misses only a queue that the request names.       *)
Answers(c, reply) ==
  /\ call[c].at \in Requests
  /\ call[c].reply = "none"
  /\ reply = "missing" => call[c].at \in {"create", "prepend", "prependNew", "select", "page"}
  /\ call' = [call EXCEPT ![c].reply = reply]
  /\ UNCHANGED <<list, player, said>>

(* Mutation: the epoch is not compared, as if late requests were aborted.   *)
TimelyUnlessAborted(c) == call[c].reply = "ok"

Timely(c) == call[c].reply = "ok" /\ call[c].epoch

(* Another call has taken over.                                             *)
Late(c) == ~call[c].epoch \/ ~call[c].intent

-----------------------------------------------------------------------------
(* createReplacement.                                                       *)

(* c, as rec, asks for a new queue; cs and p are those after its intent.    *)
Create(c, rec, cs, p) ==
  Becomes(c, [rec EXCEPT !.at = IF list.queue = "none" THEN "createAnew" ELSE "create",
                         !.reply = "none", !.epoch = TRUE],
          AbortQueueWork(EpochPasses(cs)), p)

(* Asked for by the user, who hears the new queue if he hears one now.      *)
Recreate(c, pin) ==
  /\ Free(c)
  /\ IF player.playing
     THEN /\ Create(c, [Idle EXCEPT !.op = "replace", !.pin = pin, !.intent = TRUE],
                    IntentPasses(call), Begin(player, c))
          /\ said' = Wishes(NoTrack)
     ELSE /\ Create(c, [Idle EXCEPT !.op = "create", !.pin = pin], call, player)
          /\ said' = [said EXCEPT !.choice = NoTrack]
  /\ UNCHANGED list

RandomizePlaylist(c) == Recreate(c, FALSE)

FilterPlaylistByTag(c) == Recreate(c, player.current # NoTrack)

(* Called by the application when the library becomes ready.                *)
PreparePlaylist(c) ==
  /\ Free(c)
  /\ list.queue = "none"
  /\ Create(c, [Idle EXCEPT !.op = "create"], call, player)
  /\ said' = [said EXCEPT !.choice = NoTrack]
  /\ UNCHANGED list

(* Without the queue that was to be replaced, which is gone, once more.     *)
CreateRetries(c) ==
  /\ call[c].at = "create" /\ call[c].reply = "missing"
  /\ call' = [call EXCEPT ![c].at = "createAnew", ![c].reply = "none"]
  /\ UNCHANGED <<list, player, said>>

(* next and resume go on after preparePlaylist whatever became of it.       *)
AfterCreate(c) ==
  IF call[c].op \in {"create", "replace"} THEN Idle ELSE [call[c] EXCEPT !.at = "prepared"]

(* A later call has taken over, or the controller was aborted.              *)
CreateIgnored(c) ==
  /\ call[c].at \in {"create", "createAnew"}
  /\ \/ call[c].reply = "aborted"
     \/ call[c].reply \in {"ok", "failed"} /\ ~call[c].epoch
  /\ Becomes(c, AfterCreate(c), call, player)
  /\ UNCHANGED <<list, said>>

(* Only a queue that was to be played had an intent of its own.             *)
Quits(c, rec, cs, p) ==
  IF call[c].op = "replace" THEN Abandon(c, rec, cs, p) ELSE Becomes(c, rec, cs, p)

CreateFails(c) ==
  /\ call[c].at \in {"create", "createAnew"} /\ call[c].reply = "failed" /\ call[c].epoch
  /\ IF player.playing
     THEN Becomes(c, AfterCreate(c), call, player)
     ELSE Quits(c, AfterCreate(c), call, player)
  /\ UNCHANGED <<list, said>>

(* applyCreatedQueue: the call goes on as rec, unless it loads a source.    *)
(* The current track may stay only when the request had a pin and the       *)
(* server has applied it; otherwise the first available one is selected.    *)
Applies(c, rec, queue) ==
  LET cs    == QueuePasses(call)
      keeps == call[c].pin \/ call[c].at = "recover"
  IN  \/ /\ queue = "empty" /\ keeps
         /\ Quits(c, rec, cs, player)
      \/ /\ queue = "empty" /\ ~keeps
         /\ Quits(c, rec, Interrupt(cs), [PauseElement(player) EXCEPT !.current = NoTrack])
      \/ /\ queue = "some" /\ call[c].pin /\ player.current # NoTrack
         /\ Becomes(c, rec, cs, player)
      \/ /\ queue = "some"
         /\ Quits(c, rec, cs, player)
      \/ /\ queue = "some"
         /\ \E t \in Tracks :
              CASE call[c].op # "replace" ->
                     Becomes(c, rec, Interrupt(cs), [PauseElement(player) EXCEPT !.current = t])
                [] call[c].op = "replace" /\ call[c].intent -> Load(c, call[c], cs, player, t)
                [] OTHER -> Becomes(c, rec, cs, [player EXCEPT !.current = t])

CreateSucceeds(c) ==
  /\ call[c].at \in {"create", "createAnew"}
  /\ Timely(c)
  /\ \E queue \in {"empty", "some"} :
       /\ list' = [queue |-> queue, recoveryUsed |-> FALSE]
       /\ Applies(c, AfterCreate(c), queue)
  /\ said' = [said EXCEPT !.recoveries = 0]

-----------------------------------------------------------------------------
(* Pages of the queue, and recoverQueue when the server has lost it.        *)

(* showQueuePage, and syncLibraryGeneration after a poll.                   *)
AskPage(c) ==
  /\ Free(c)
  /\ list.queue # "none"
  /\ call' = [call EXCEPT ![c] = [Idle EXCEPT !.op = "page", !.at = "page", !.same = TRUE,
                                             !.epoch = TRUE]]
  /\ UNCHANGED <<list, player, said>>

MayRecover(c) == ~list.recoveryUsed /\ call[c].epoch

Recovers(c) ==
  /\ call[c].at = "page" /\ call[c].reply = "missing"
  /\ MayRecover(c)
  /\ list' = [list EXCEPT !.recoveryUsed = TRUE]
  /\ call' = [Abort(call, QueueWork) EXCEPT
       ![c] = [@ EXCEPT !.at = "recover", !.reply = "none", !.pin = player.current # NoTrack]]
  /\ said' = [said EXCEPT !.recoveries = @ + 1]
  /\ UNCHANGED player

(* playAt and resume read the page again, from the new queue; next and      *)
(* previous see that the queue is another one, and call themselves again.   *)
AfterRecovery(c) ==
  CASE call[c].op = "page" -> Idle
    [] call[c].op \in {"next", "previous"} -> [call[c] EXCEPT !.at = "restart", !.pin = FALSE]
    [] OTHER -> [call[c] EXCEPT !.at = "page", !.reply = "none", !.same = TRUE, !.pin = FALSE]

(* The user's choice ends with a recovery that cannot keep it.              *)
RecoverySucceeds(c) ==
  /\ call[c].at = "recover"
  /\ Timely(c)
  /\ \E queue \in {"empty", "some"} :
       /\ list' = [list EXCEPT !.queue = queue]
       /\ Applies(c, AfterRecovery(c), queue)
  /\ said' = [said EXCEPT !.choice = IF player'.current = @ THEN @ ELSE NoTrack]

(* The page is empty then; playAt, next, previous and resume read on.       *)
RecoveryFails(c) ==
  /\ call[c].at = "recover"
  /\ call[c].reply \in {"aborted", "failed"} \/ (call[c].reply = "ok" /\ ~call[c].epoch)
  /\ Becomes(c, IF call[c].op = "page" THEN Idle
                ELSE [call[c] EXCEPT !.at = "page", !.reply = "failed", !.pin = FALSE],
             call, player)
  /\ UNCHANGED <<list, said>>

PageFails(c) ==
  /\ call[c].at = "page"
  /\ call[c].reply \in {"aborted", "failed"} \/ (call[c].reply = "missing" /\ ~MayRecover(c))

(* A page that nobody plays from only goes into the cache.                  *)
PageDone(c) ==
  /\ call[c].op = "page"
  /\ PageFails(c) \/ (call[c].at = "page" /\ call[c].reply = "ok")
  /\ Becomes(c, Idle, call, player)
  /\ UNCHANGED <<list, said>>

-----------------------------------------------------------------------------
(* playAt, next, previous: a place in the queue is looked up and played.    *)

(* c, as rec, looks in the queue, which is not empty.                       *)
LookUp(c, rec, cs, p) ==
  Becomes(c, [rec EXCEPT !.at = "page", !.reply = "none", !.same = TRUE, !.epoch = TRUE],
          LET passed == EpochPasses(cs)
          IN  IF rec.op = "playAt" THEN Abort(passed, SelectWork) ELSE passed, p)

(* A call of next or previous, by the user, by the element or by itself,    *)
(* where before and p are the calls and the player it finds; the epoch goes *)
(* up only when there is something to look up.                              *)
Move(c, op, before, p) ==
  LET rec == [Idle EXCEPT !.op = op, !.intent = TRUE]
      cs  == IntentPasses(before)
  IN  CASE list.queue = "none"  -> Create(c, rec, cs, Begin(p, c))
        [] list.queue = "empty" -> Becomes(c, Idle, cs, [p EXCEPT !.active = NoCall])
        [] list.queue = "some"  -> LookUp(c, rec, cs, Begin(p, c))

(* From an item on the screen.                                              *)
PlayAt(c) ==
  /\ Free(c)
  /\ list.queue = "some"
  /\ LookUp(c, [Idle EXCEPT !.op = "playAt", !.intent = TRUE], IntentPasses(call), Begin(player, c))
  /\ said' = Wishes(NoTrack)
  /\ UNCHANGED list

NextTrack(c) ==
  /\ Free(c)
  /\ Move(c, "next", call, player)
  /\ said' = Wishes(NoTrack)
  /\ UNCHANGED list

(* On the first track, seek: Reload, or a position of no interest here.     *)
Previous(c) ==
  /\ Free(c)
  /\ list.queue = "some"
  /\ Move(c, "previous", call, player)
  /\ said' = Wishes(NoTrack)
  /\ UNCHANGED list

(* The end of the track pauses the element and calls next.                  *)
TrackEnds(c) ==
  /\ player.on /\ player.playing
  /\ Free(c)
  /\ Move(c, "next", Interrupt(call), [player EXCEPT !.on = FALSE, !.playing = FALSE])
  /\ said' = Wishes(NoTrack)
  /\ UNCHANGED list

(* next is back from preparePlaylist.                                       *)
NextPrepared(c) ==
  /\ call[c].at = "prepared" /\ call[c].op = "next"
  /\ IF call[c].intent /\ list.queue = "some"
     THEN LookUp(c, call[c], call, player)
     ELSE Abandon(c, Idle, call, player)
  /\ UNCHANGED <<list, said>>

Restart(c) ==
  /\ call[c].at = "restart"
  /\ \/ /\ ~Late(c) /\ (call[c].op = "previous" => list.queue = "some")
        /\ Move(c, call[c].op, call, player)
     \/ /\ Late(c) \/ call[c].op = "previous"
        /\ Becomes(c, Idle, call, player)
  /\ UNCHANGED <<list, said>>

(* The page may also have been in the cache.                                *)
Found(c, t) ==
  /\ call[c].at = "page" /\ call[c].op \in {"playAt", "next", "previous"}
  /\ call[c].reply \in {"none", "ok"}
  /\ ~Late(c)
  /\ Load(c, call[c], call, player, t)
  /\ UNCHANGED <<list, said>>

(* Nothing to play there, or no answer: next makes a new queue, unless the  *)
(* queue has been exchanged meanwhile.                                      *)
NotFound(c) ==
  /\ call[c].at = "page" /\ call[c].op \in {"playAt", "next", "previous"}
  /\ PageFails(c) \/ call[c].reply = "ok"
  /\ CASE Late(c) -> Becomes(c, Idle, call, player)
       [] ~Late(c) /\ call[c].op # "playAt" /\ ~call[c].same ->
            Becomes(c, [call[c] EXCEPT !.at = "restart"], call, player)
       [] ~Late(c) /\ call[c].op = "next" /\ call[c].same ->
            Create(c, [Idle EXCEPT !.op = "replace", !.intent = TRUE], call, player)
       [] OTHER -> Abandon(c, Idle, call, player)
  /\ UNCHANGED <<list, said>>

-----------------------------------------------------------------------------
(* playTrack: the track plays at once, the queue follows.                   *)
PlayTrack(c, t) ==
  /\ Free(c)
  /\ Load(c, [Idle EXCEPT !.op = "playTrack", !.track = t, !.epoch = TRUE, !.intent = TRUE],
          Abort(EpochPasses(IntentPasses(call)), SelectWork), Begin(player, c), t)
  /\ said' = Wishes(t)
  /\ UNCHANGED list

(* reconcileSelection: c, whose source is loaded or has failed to, looks    *)
(* for its track in the queue, or makes a queue with it.                    *)
Reconcile(c, cs, p) ==
  Becomes(c, [call[c] EXCEPT !.at = IF list.queue = "none" THEN "reselect" ELSE "select",
                             !.reply = "none", !.source = FALSE],
          Abort(cs, SelectWork), p)

(* Mutation: the first recovery is not remembered here.                     *)
MayReselectAgain == TRUE

MayReselect == ~list.recoveryUsed

Reselects(c) ==
  /\ call[c].at = "select" /\ call[c].reply = "missing"
  /\ MayReselect
  /\ list' = [list EXCEPT !.recoveryUsed = TRUE]
  /\ call' = [call EXCEPT ![c].at = "reselect", ![c].reply = "none"]
  /\ said' = [said EXCEPT !.recoveries = @ + 1]
  /\ UNCHANGED player

(* The queue is the same one when the track was in it.                      *)
SelectionSucceeds(c) ==
  /\ call[c].at \in SelectWork
  /\ Timely(c) /\ player.current = call[c].track
  /\ list' = [list EXCEPT !.queue = "some"]
  /\ \/ call[c].at = "select" /\ Becomes(c, Idle, call, player)
     \/ Becomes(c, Idle, QueuePasses(call), player)
  /\ UNCHANGED said

SelectionFails(c) ==
  /\ call[c].at \in SelectWork
  /\ \/ call[c].reply \in {"aborted", "failed"}
     \/ call[c].reply = "missing" /\ ~MayReselect
     \/ call[c].reply = "ok" /\ ~(Timely(c) /\ player.current = call[c].track)
  /\ Becomes(c, Idle, call, player)
  /\ UNCHANGED <<list, said>>

-----------------------------------------------------------------------------
(* The rest of loadCurrentSource, and the element's events.                 *)

AfterPlaying(c, cs, p) ==
  IF call[c].op = "playTrack" /\ call[c].epoch THEN Reconcile(c, cs, p) ELSE Becomes(c, Idle, cs, p)

(* Mutation: only the source and the epoch are compared.                    *)
WantedBySource(c) == call[c].source /\ call[c].epoch

(* resume plays a source that is there ("reload" is one that is loaded for  *)
(* it) and does not compare it.                                             *)
Wanted(c) ==
  /\ call[c].source \/ call[c].op = "resume"
  /\ call[c].epoch
  /\ call[c].intent

(* The metadata has come; of another source, perhaps.  A source that was    *)
(* loaded without playing is now the paused one.                            *)
MetadataLoaded(c) ==
  /\ call[c].at = "loading"
  /\ CASE call[c].op = "silent" /\ call[c].source ->
            Becomes(c, Idle, call, [player EXCEPT !.playing = FALSE, !.active = NoCall])
       [] call[c].op # "silent" /\ Wanted(c) ->
            /\ call' = [call EXCEPT ![c].at = "starting"]
            /\ player' = [player EXCEPT !.on = TRUE, !.active = c]
       [] OTHER -> Becomes(c, Idle, call, player)
  /\ UNCHANGED <<list, said>>

(* play() has succeeded, and a pause event of before has been delivered.    *)
(* The playing event comes first, and only looks at the intent.             *)
Started(c) ==
  /\ call[c].at = "starting" /\ call[c].reply = "none"
  /\ ~player.event
  /\ CASE Wanted(c) ->
            AfterPlaying(c, call, [player EXCEPT !.playing = TRUE])
       [] ~Wanted(c) /\ player.active = c ->
            AfterPlaying(c, Interrupt(call),
                         [PauseElement(player) EXCEPT !.active = NoCall, !.playing = @ \/ call[c].intent])
       [] OTHER -> AfterPlaying(c, call, player)
  /\ UNCHANGED <<list, said>>

(* It has been rejected, by a pause or another load.                        *)
StartRejected(c) ==
  /\ call[c].at = "starting" /\ call[c].reply = "failed"
  /\ LET paused == [player EXCEPT !.playing = FALSE, !.active = NoCall]
         silent == call[c].op = "silent" /\ call[c].source /\ call[c].epoch
     IN  AfterPlaying(c, call, IF Wanted(c) \/ silent THEN paused ELSE player)
  /\ UNCHANGED <<list, said>>

(* The error event: the source cannot be played, or no longer.              *)
MediaError ==
  /\ player.src # NoTrack
  /\ player' = [player EXCEPT !.on = FALSE, !.playing = FALSE]
  /\ call' = [d \in Calls |->
       IF call[d].at = "loading" THEN [call[d] EXCEPT !.at = "starting", !.reply = "failed"]
       ELSE Interrupt(call)[d]]
  /\ UNCHANGED <<list, said>>

PauseEvent ==
  /\ player.event
  /\ player' = [player EXCEPT !.event = FALSE, !.playing = FALSE]
  /\ UNCHANGED <<list, call, said>>

-----------------------------------------------------------------------------
(* pause, resume, seek and setStreamMode, reset, releaseQueue.              *)

Pause ==
  /\ call' = Interrupt(IntentPasses(call))
  /\ player' = [PauseElement(player) EXCEPT !.playing = FALSE, !.active = NoCall]
  /\ said' = [said EXCEPT !.silenced = TRUE]
  /\ UNCHANGED list

(* The source of the current track is there, or is loaded from where it was.*)
Plays(c, cs, p) ==
  LET rec == [Idle EXCEPT !.op = IF p.src = p.current THEN "resume" ELSE "reload",
                          !.epoch = TRUE, !.intent = TRUE]
  IN  IF p.src = p.current
      THEN /\ call' = [cs EXCEPT ![c] = [rec EXCEPT !.at = "starting"]]
           /\ player' = [p EXCEPT !.on = TRUE, !.active = c]
      ELSE Load(c, rec, cs, p, p.current) \/ LoadFrom(c, rec, cs, p, p.current)

Resume(c) ==
  LET rec == [Idle EXCEPT !.op = "resume", !.epoch = TRUE, !.intent = TRUE]
      cs  == IntentPasses(call)
      p   == Begin(player, c)
  IN  /\ Free(c)
      /\ CASE player.current # NoTrack -> Plays(c, cs, p)
           [] player.current = NoTrack /\ list.queue = "none"  -> Create(c, rec, cs, p)
           [] player.current = NoTrack /\ list.queue = "empty" ->
                Becomes(c, Idle, cs, [p EXCEPT !.active = NoCall])
           [] player.current = NoTrack /\ list.queue = "some" ->
                Becomes(c, [rec EXCEPT !.at = "page", !.same = TRUE], cs, p)
      /\ said' = Wishes(said.choice)
      /\ UNCHANGED list

(* Back from preparePlaylist, which has selected a track or not.            *)
ResumePrepared(c) ==
  /\ call[c].at = "prepared" /\ call[c].op = "resume"
  /\ IF call[c].intent /\ list.queue = "some"
     THEN Becomes(c, [call[c] EXCEPT !.at = "page", !.reply = "none", !.same = TRUE, !.epoch = TRUE],
                  call, player)
     ELSE Abandon(c, Idle, call, player)
  /\ UNCHANGED <<list, said>>

ResumeFound(c, t) ==
  /\ call[c].at = "page" /\ call[c].op = "resume"
  /\ call[c].reply \in {"none", "ok"}
  /\ ~Late(c)
  /\ Plays(c, call, [player EXCEPT !.current = t])
  /\ UNCHANGED <<list, said>>

(* A recovery, or another call, may have selected a track meanwhile.        *)
ResumeNotFound(c) ==
  /\ call[c].at = "page" /\ call[c].op = "resume"
  /\ PageFails(c) \/ call[c].reply = "ok"
  /\ IF call[c].intent /\ player.current # NoTrack
     THEN Plays(c, call, player)
     ELSE Abandon(c, Idle, call, player)
  /\ UNCHANGED <<list, said>>

(* setStreamMode, and seek in a transcoded stream: the source is loaded     *)
(* anew, and goes on playing if it was.                                     *)
Reload(c) ==
  LET rec    == [Idle EXCEPT !.op = "reload", !.epoch = TRUE, !.intent = TRUE]
      silent == [Idle EXCEPT !.op = "silent", !.at = "loading", !.epoch = TRUE, !.source = TRUE]
      cs     == Interrupt(SourcePasses(call))
      p      == [PauseElement(player) EXCEPT !.src = player.current]
  IN  /\ Free(c)
      /\ player.current # NoTrack
      /\ \/ /\ player.playing
            /\ \/ Load(c, rec, IntentPasses(call), Begin(player, c), player.current)
               \/ LoadFrom(c, rec, IntentPasses(call), Begin(player, c), player.current)
            /\ said' = Wishes(said.choice)
         \/ /\ ~player.playing
            /\ \/ call' = cs /\ player' = [p EXCEPT !.active = NoCall]
               \/ call' = [cs EXCEPT ![c] = silent] /\ player' = p
            /\ UNCHANGED said
      /\ UNCHANGED list

Reset ==
  /\ call' = AbortQueueWork(Interrupt(EpochPasses(IntentPasses(SourcePasses(QueuePasses(call))))))
  /\ list' = NoList
  /\ player' = [NoPlayer EXCEPT !.event = PauseElement(player).event]
  /\ said' = [choice |-> NoTrack, silenced |-> TRUE, recoveries |-> 0]

(* Before the logout; the store keeps the description of the deleted queue. *)
ReleaseQueue ==
  /\ list.queue # "none"
  /\ call' = AbortQueueWork(call)
  /\ UNCHANGED <<list, player, said>>

-----------------------------------------------------------------------------
(* prependDirectory: a directory comes first in the queue, or in a new one, *)
(* which is created first (the temporary one), when there is none.          *)
PrependDirectory(c) ==
  /\ Free(c)
  /\ Becomes(c, [Idle EXCEPT !.op = "prepend", !.epoch = TRUE, !.intent = TRUE,
                             !.at = IF list.queue = "none" THEN "temporary" ELSE "prepend"],
             AbortQueueWork(EpochPasses(IntentPasses(call))), Begin(player, c))
  /\ said' = Wishes(NoTrack)
  /\ UNCHANGED list

(* The queue of the store is gone.                                          *)
PrependMisses(c) ==
  /\ call[c].at = "prepend" /\ call[c].reply = "missing"
  /\ call' = [call EXCEPT ![c].at = "temporary", ![c].reply = "none"]
  /\ UNCHANGED <<list, player, said>>

PrependGoesOn(c) ==
  /\ call[c].at = "temporary"
  /\ Timely(c)
  /\ call' = [call EXCEPT ![c].at = "prependNew", ![c].reply = "none"]
  /\ UNCHANGED <<list, player, said>>

PrependIgnored(c) ==
  /\ call[c].at \in {"prepend", "temporary", "prependNew"}
  /\ call[c].reply = "aborted" \/ (call[c].reply = "ok" /\ ~call[c].epoch)
  /\ Becomes(c, Idle, call, player)
  /\ UNCHANGED <<list, said>>

PrependFails(c) ==
  /\ call[c].at \in {"prepend", "temporary", "prependNew"}
  /\ call[c].reply = "failed" \/ (call[c].reply = "missing" /\ call[c].at = "prependNew")
  /\ IF call[c].epoch /\ ~player.playing
     THEN Abandon(c, Idle, call, player)
     ELSE Becomes(c, Idle, call, player)
  /\ UNCHANGED <<list, said>>

(* Without a first track that is available, the call fails after all.       *)
PrependSucceeds(c) ==
  /\ call[c].at \in {"prepend", "prependNew"}
  /\ Timely(c)
  /\ list' = [queue |-> "some", recoveryUsed |-> FALSE]
  /\ said' = [said EXCEPT !.recoveries = 0]
  /\ LET cs == QueuePasses(call)
     IN  \/ \E t \in Tracks :
              IF call[c].intent
              THEN Load(c, call[c], cs, player, t)
              ELSE Becomes(c, Idle, cs, [player EXCEPT !.current = t])
         \/ IF player.playing
            THEN Becomes(c, Idle, cs, player)
            ELSE Abandon(c, Idle, cs, player)

-----------------------------------------------------------------------------
Creates(c) == CreateRetries(c) \/ CreateIgnored(c) \/ CreateFails(c) \/ CreateSucceeds(c)

Pages(c) == PageDone(c) \/ Recovers(c) \/ RecoverySucceeds(c) \/ RecoveryFails(c)

Moves(c) == NextPrepared(c) \/ Restart(c) \/ NotFound(c) \/ (\E t \in Tracks : Found(c, t))

Selects(c) == Reselects(c) \/ SelectionSucceeds(c) \/ SelectionFails(c)

Loads(c) == MetadataLoaded(c) \/ Started(c) \/ StartRejected(c)

Resumes(c) ==
  ResumePrepared(c) \/ ResumeNotFound(c) \/ (\E t \in Tracks : ResumeFound(c, t))

Prepends(c) ==
  \/ PrependMisses(c) \/ PrependGoesOn(c) \/ PrependIgnored(c)
  \/ PrependFails(c) \/ PrependSucceeds(c)

GoesOn(c) ==
  Creates(c) \/ Pages(c) \/ Moves(c) \/ Selects(c) \/ Loads(c) \/ Resumes(c) \/ Prepends(c)

(* What the user, the application and the element call.                     *)
Asked(c) ==
  \/ RandomizePlaylist(c) \/ FilterPlaylistByTag(c) \/ PreparePlaylist(c)
  \/ AskPage(c) \/ PlayAt(c) \/ NextTrack(c) \/ Previous(c) \/ TrackEnds(c)
  \/ \E t \in Tracks : PlayTrack(c, t)
  \/ Resume(c) \/ Reload(c) \/ PrependDirectory(c)

Next ==
  \/ \E c \in Calls : Asked(c) \/ GoesOn(c)
  \/ \E c \in Calls, reply \in {"ok", "missing", "failed"} : Answers(c, reply)
  \/ MediaError \/ PauseEvent \/ Pause \/ Reset \/ ReleaseQueue

Spec == Init /\ [][Next]_vars

-----------------------------------------------------------------------------
(* Properties.                                                              *)

(* After pause and reset nothing sounds until the user wishes to hear       *)
(* something again, whatever loads, pages and queues are still on their     *)
(* way: docs/ARCHITECTURE.md promises that they invalidate the old intents. *)
PausedStaysSilent == said.silenced => ~player.on

(* A track that the user has chosen stays the current one: no queue that    *)
(* was asked for before, and no look-up that began before, replaces it when *)
(* it comes.  (The user's next command, the end of the track, a recovery    *)
(* whose pin is refused, and PreparePlaylist, with which the application    *)
(* makes a queue when there is none, end the choice.)                       *)
ChoiceStays == said.choice # NoTrack => player.current = said.choice

(* A queue that the server has lost is made again at most once before a     *)
(* queue is made by the user's command, though pages, moves and selections  *)
(* all may find out that it is lost.                                        *)
OneRecovery == said.recoveries <= 1

(* docs/ARCHITECTURE.md: another selection invalidates the old intent, and  *)
(* a late task cannot start the old audio.  So what sounds when no call is  *)
(* in progress is what a current wish has started, and is shown as playing. *)
LateStartIsStopped ==
  (\A c \in Calls : Free(c)) /\ player.on => player.playing

=============================================================================
