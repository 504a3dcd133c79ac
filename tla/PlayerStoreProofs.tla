-------------------------- MODULE PlayerStoreProofs --------------------------
(***************************************************************************)
(* Proofs about PlayerStore, for any number of calls in progress and any   *)
(* tracks.  A pause, or a reset, is final: it leaves no call with the      *)
(* current intent, only a wish of the user makes one, and the element is   *)
(* only started by a call that has it.  A lost queue is recovered once,    *)
(* and a chosen track stays the current one.                               *)
(***************************************************************************)
EXTENDS PlayerStore, TLAPS

Intentless(cs) == \A d \in Calls : ~cs[d].intent

Silent == said.silenced => ~player.on /\ Intentless(call)

PInv == TypeOK /\ Silent

(* cs is a table of calls, without an intent if the store's is.             *)
Sober(cs) == cs \in [Calls -> CallRecords] /\ (Intentless(call) => Intentless(cs))

-----------------------------------------------------------------------------
(* What the helpers do to a table of calls.                                 *)
LEMMA PassesSober ==
  ASSUME NEW cs, Sober(cs), NEW places
  PROVE  /\ Sober(EpochPasses(cs)) /\ Sober(SourcePasses(cs)) /\ Sober(Abort(cs, places))
         /\ Sober(QueuePasses(cs)) /\ Sober(Interrupt(cs))
         /\ Sober(IntentPasses(cs)) /\ Intentless(IntentPasses(cs))
<1>1. cs \in [Calls -> CallRecords]  BY DEF Sober
<1>2. Sober(EpochPasses(cs))  BY <1>1 DEF Sober, Intentless, EpochPasses, CallRecords
<1>3. Sober(SourcePasses(cs))  BY <1>1 DEF Sober, Intentless, SourcePasses, CallRecords
<1>4. ASSUME NEW S  PROVE Sober(Abort(cs, S))
  BY <1>1 DEF Sober, Intentless, Abort, CallRecords
<1>5. Sober(QueuePasses(cs))
  <2> DEFINE as == Abort(cs, {"page"})
  <2>1. Sober(as)  BY <1>4
  <2>2. QueuePasses(cs) = [d \in Calls |-> [as[d] EXCEPT !.same = FALSE]]  BY DEF QueuePasses
  <2> HIDE DEF as
  <2>3. as \in [Calls -> CallRecords] /\ (Intentless(call) => Intentless(as))  BY <2>1 DEF Sober
  <2>4. ASSUME NEW d \in Calls
        PROVE  /\ [as[d] EXCEPT !.same = FALSE] \in CallRecords
               /\ [as[d] EXCEPT !.same = FALSE].intent = as[d].intent
    <3>1. as[d] \in CallRecords  BY <2>3
    <3> QED  BY <3>1 DEF CallRecords
  <2>5. QueuePasses(cs) \in [Calls -> CallRecords]  BY <2>2, <2>4
  <2>6. Intentless(as) => Intentless(QueuePasses(cs))  BY <2>2, <2>4 DEF Intentless
  <2> QED  BY <2>3, <2>5, <2>6 DEF Sober
<1>6. Sober(Interrupt(cs))  BY <1>1 DEF Sober, Intentless, Interrupt, CallRecords
<1>7. Sober(IntentPasses(cs)) /\ Intentless(IntentPasses(cs))
  BY <1>1 DEF Sober, Intentless, IntentPasses, CallRecords
<1> QED  BY <1>2, <1>3, <1>4, <1>5, <1>6, <1>7

(* What they do to the player.                                              *)
LEMMA ElementTyped ==
  ASSUME NEW p \in PlayerRecords, NEW c \in Calls
  PROVE  /\ PauseElement(p) \in PlayerRecords /\ ~PauseElement(p).on
         /\ Begin(p, c) \in PlayerRecords /\ Begin(p, c).on = p.on
BY DEF PauseElement, Begin, PlayerRecords

(* A call that goes on, or ends, without an intent leaves the silence.      *)
LEMMA BecomesSober ==
  ASSUME NEW c \in Calls, NEW rec \in CallRecords, NEW cs, Sober(cs), NEW p \in PlayerRecords,
         Becomes(c, rec, cs, p)
  PROVE  /\ call' \in [Calls -> CallRecords] /\ player' \in PlayerRecords
         /\ player'.on = p.on
         /\ Intentless(call) /\ ~rec.intent => Intentless(call')
<1>1. player' \in PlayerRecords /\ player'.on = p.on  BY DEF Becomes, PlayerRecords
<1>2. call' \in [Calls -> CallRecords]  BY DEF Becomes, Sober
<1>3. ASSUME Intentless(call), ~rec.intent  PROVE Intentless(call')
  BY <1>3 DEF Becomes, Sober, Intentless
<1> QED  BY <1>1, <1>2, <1>3

LEMMA IdleTyped == Idle \in CallRecords /\ ~Idle.intent
BY DEF Idle, CallRecords, Ops, Places

LEMMA AbandonSober ==
  ASSUME TypeOK, NEW c \in Calls, NEW rec \in CallRecords, NEW cs, Sober(cs),
         NEW p \in PlayerRecords, Abandon(c, rec, cs, p)
  PROVE  /\ call' \in [Calls -> CallRecords] /\ player' \in PlayerRecords
         /\ player'.on = p.on
         /\ Intentless(call) /\ ~rec.intent => Intentless(call')
<1>1. CASE ~call[c].intent  BY <1>1, BecomesSober DEF Abandon
<1>2. CASE call[c].intent
  <2> DEFINE r == [rec EXCEPT !.intent = FALSE]
             q == [p EXCEPT !.active = NoCall]
  <2>1. r \in CallRecords /\ ~r.intent  BY DEF CallRecords
  <2>2. q \in PlayerRecords /\ q.on = p.on  BY DEF PlayerRecords
  <2>3. Sober(IntentPasses(cs))  BY PassesSober
  <2>4. Becomes(c, r, IntentPasses(cs), q)  BY <1>2 DEF Abandon
  <2> QED  BY <2>1, <2>2, <2>3, <2>4, BecomesSober
<1> QED  BY <1>1, <1>2

LEMMA LoadTyped ==
  ASSUME NEW c \in Calls, NEW rec \in CallRecords, NEW cs, Sober(cs), NEW p \in PlayerRecords,
         NEW t \in Tracks \cup {NoTrack}, Load(c, rec, cs, p, t) \/ LoadFrom(c, rec, cs, p, t)
  PROVE  call' \in [Calls -> CallRecords] /\ player' \in PlayerRecords
<1>1. Interrupt(SourcePasses(cs)) \in [Calls -> CallRecords]  BY PassesSober DEF Sober
<1>2. PauseElement(p) \in PlayerRecords  BY ElementTyped
<1>3. CASE Load(c, rec, cs, p, t)
  BY <1>1, <1>2, <1>3 DEF Load, CallRecords, PlayerRecords, Places
<1>4. CASE LoadFrom(c, rec, cs, p, t)
  BY <1>1, <1>2, <1>4 DEF LoadFrom, CallRecords, PlayerRecords, Places
<1> QED  BY <1>3, <1>4

LEMMA PlaysTyped ==
  ASSUME NEW c \in Calls, NEW cs, Sober(cs), NEW p \in PlayerRecords, Plays(c, cs, p)
  PROVE  call' \in [Calls -> CallRecords] /\ player' \in PlayerRecords
<1> DEFINE rec == [Idle EXCEPT !.op = IF p.src = p.current THEN "resume" ELSE "reload",
                               !.epoch = TRUE, !.intent = TRUE]
<1>1. rec \in CallRecords  BY IdleTyped DEF Idle, CallRecords, Ops, Places
<1>2. CASE p.src = p.current
  <2> DEFINE r == [rec EXCEPT !.at = "starting"]
  <2>1. r \in CallRecords  BY <1>1 DEF CallRecords, Places
  <2>2. call' = [cs EXCEPT ![c] = r] /\ player' = [p EXCEPT !.on = TRUE, !.active = c]
    BY <1>2 DEF Plays
  <2> HIDE DEF r
  <2> QED  BY <2>1, <2>2 DEF Sober, PlayerRecords
<1>3. CASE p.src # p.current
  <2>1. p.current \in Tracks \cup {NoTrack}  BY DEF PlayerRecords
  <2>2. Load(c, rec, cs, p, p.current) \/ LoadFrom(c, rec, cs, p, p.current)  BY <1>3 DEF Plays
  <2> QED  BY <1>1, <2>1, <2>2, LoadTyped
<1> QED  BY <1>2, <1>3

(* createReplacement and look-ups keep the intent that rec has.             *)
LEMMA CreateSober ==
  ASSUME NEW c \in Calls, NEW rec \in CallRecords, NEW cs, Sober(cs), NEW p \in PlayerRecords,
         Create(c, rec, cs, p)
  PROVE  /\ call' \in [Calls -> CallRecords] /\ player' \in PlayerRecords
         /\ player'.on = p.on
         /\ Intentless(call) /\ ~rec.intent => Intentless(call')
<1> DEFINE r == [rec EXCEPT !.at = IF list.queue = "none" THEN "createAnew" ELSE "create",
                            !.reply = "none", !.epoch = TRUE]
<1>1. r \in CallRecords /\ r.intent = rec.intent
  BY DEF CallRecords, Places, Requests, QueueWork
<1>2. Sober(AbortQueueWork(EpochPasses(cs)))  BY PassesSober DEF AbortQueueWork
<1>3. Becomes(c, r, AbortQueueWork(EpochPasses(cs)), p)  BY DEF Create
<1> QED  BY <1>1, <1>2, <1>3, BecomesSober

LEMMA LookUpSober ==
  ASSUME NEW c \in Calls, NEW rec \in CallRecords, NEW cs, Sober(cs), NEW p \in PlayerRecords,
         LookUp(c, rec, cs, p)
  PROVE  /\ call' \in [Calls -> CallRecords] /\ player' \in PlayerRecords
         /\ player'.on = p.on
         /\ Intentless(call) /\ ~rec.intent => Intentless(call')
<1> DEFINE r  == [rec EXCEPT !.at = "page", !.reply = "none", !.same = TRUE, !.epoch = TRUE]
           ds == IF rec.op = "playAt" THEN Abort(EpochPasses(cs), SelectWork) ELSE EpochPasses(cs)
<1>1. r \in CallRecords /\ r.intent = rec.intent  BY DEF CallRecords, Places, Requests
<1>2. Sober(ds)
  <2>1. Sober(EpochPasses(cs))  BY PassesSober
  <2> QED  BY <2>1, PassesSober
<1>3. Becomes(c, r, ds, p)  BY DEF LookUp
<1> QED  BY <1>1, <1>2, <1>3, BecomesSober

LEMMA MoveTyped ==
  ASSUME NEW c \in Calls, NEW op \in Ops, NEW cs, Sober(cs),
         NEW p \in PlayerRecords, list.queue \in {"none", "empty", "some"}, Move(c, op, cs, p)
  PROVE  call' \in [Calls -> CallRecords] /\ player' \in PlayerRecords
<1> DEFINE rec == [Idle EXCEPT !.op = op, !.intent = TRUE]
           q   == [p EXCEPT !.active = NoCall]
<1>1. rec \in CallRecords  BY DEF Idle, CallRecords, Ops, Places
<1>2. Sober(IntentPasses(cs))  BY PassesSober
<1>3. Begin(p, c) \in PlayerRecords  BY ElementTyped
<1>4. q \in PlayerRecords  BY DEF PlayerRecords
<1>5. CASE list.queue = "none"
  <2>1. Create(c, rec, IntentPasses(cs), Begin(p, c))  BY <1>5 DEF Move
  <2> QED  BY <1>1, <1>2, <1>3, <2>1, CreateSober
<1>6. CASE list.queue = "empty"
  <2>1. Becomes(c, Idle, IntentPasses(cs), q)  BY <1>6 DEF Move
  <2> QED  BY <1>2, <1>4, <2>1, IdleTyped, BecomesSober
<1>7. CASE list.queue = "some"
  <2>1. LookUp(c, rec, IntentPasses(cs), Begin(p, c))  BY <1>7 DEF Move
  <2> QED  BY <1>1, <1>2, <1>3, <2>1, LookUpSober
<1> QED  BY <1>5, <1>6, <1>7

-----------------------------------------------------------------------------
(* What a step must do to keep the silence, or to end it.                   *)
Keeps ==
  /\ call' \in [Calls -> CallRecords] /\ player' \in PlayerRecords
  /\ ~player.on /\ Intentless(call) => ~player'.on /\ Intentless(call')

Lists == [queue : {"none", "empty", "some"}, recoveryUsed : BOOLEAN]

Words == [choice : Tracks \cup {NoTrack}, silenced : BOOLEAN, recoveries : Nat]

LEMMA SilenceKept ==
  ASSUME PInv, Keeps, list' \in Lists, said' \in Words, said'.silenced = said.silenced
  PROVE  PInv'
BY DEF PInv, Silent, Keeps, TypeOK, Lists, Words

LEMMA SilenceEnded ==
  ASSUME PInv, call' \in [Calls -> CallRecords], player' \in PlayerRecords, list' \in Lists,
         NEW t \in Tracks \cup {NoTrack}, said' = Wishes(t)
  PROVE  PInv'
BY DEF PInv, Silent, TypeOK, Lists, Wishes

LEMMA Typed ==
  ASSUME PInv
  PROVE  /\ Sober(call) /\ player \in PlayerRecords /\ list \in Lists /\ said \in Words
         /\ \A c \in Calls : call[c] \in CallRecords
BY DEF PInv, TypeOK, Sober, Lists, Words

LEMMA BecomesKeeps ==
  ASSUME PInv, NEW c \in Calls, NEW rec \in CallRecords, NEW cs, Sober(cs),
         NEW p \in PlayerRecords, Becomes(c, rec, cs, p) \/ Abandon(c, rec, cs, p),
         rec.intent => call[c].intent, p.on => player.on
  PROVE  Keeps
<1>1. Intentless(call) => ~rec.intent  BY DEF Intentless
<1>2. TypeOK  BY DEF PInv
<1>3. CASE Becomes(c, rec, cs, p)  BY <1>1, <1>3, BecomesSober DEF Keeps
<1>4. CASE Abandon(c, rec, cs, p)  BY <1>1, <1>2, <1>4, AbandonSober DEF Keeps
<1> QED  BY <1>3, <1>4

LEMMA AsksKeeps ==
  ASSUME PInv, NEW c \in Calls, NEW rec \in CallRecords, NEW cs, Sober(cs),
         NEW p \in PlayerRecords, Create(c, rec, cs, p) \/ LookUp(c, rec, cs, p),
         rec.intent => call[c].intent, p.on => player.on
  PROVE  Keeps
<1>1. Intentless(call) => ~rec.intent  BY DEF Intentless
<1>2. CASE Create(c, rec, cs, p)  BY <1>1, <1>2, CreateSober DEF Keeps
<1>3. CASE LookUp(c, rec, cs, p)  BY <1>1, <1>3, LookUpSober DEF Keeps
<1> QED  BY <1>2, <1>3

(* The element is started by a call with the intent: no silence is broken.  *)
LEMMA IntentKeeps ==
  ASSUME NEW c \in Calls, call[c].intent,
         call' \in [Calls -> CallRecords], player' \in PlayerRecords
  PROVE  Keeps
BY DEF Keeps, Intentless

(* AfterPlaying, with reconcileSelection.                                   *)
LEMMA AfterPlayingKeeps ==
  ASSUME PInv, NEW c \in Calls, NEW cs, Sober(cs), NEW p \in PlayerRecords,
         p.on => player.on, AfterPlaying(c, cs, p)
  PROVE  Keeps
<1>1. CASE call[c].op = "playTrack" /\ call[c].epoch
  <2> DEFINE r == [call[c] EXCEPT !.at = IF list.queue = "none" THEN "reselect" ELSE "select",
                                  !.reply = "none", !.source = FALSE]
  <2>1. r \in CallRecords /\ r.intent = call[c].intent
    BY Typed DEF CallRecords, Places, Requests, SelectWork
  <2>2. Becomes(c, r, Abort(cs, SelectWork), p)  BY <1>1 DEF AfterPlaying, Reconcile
  <2>3. Sober(Abort(cs, SelectWork))  BY PassesSober
  <2> QED  BY <2>1, <2>2, <2>3, BecomesKeeps
<1>2. CASE ~(call[c].op = "playTrack" /\ call[c].epoch)
  <2>1. Becomes(c, Idle, cs, p)  BY <1>2 DEF AfterPlaying
  <2> QED  BY <2>1, IdleTyped, BecomesKeeps
<1> QED  BY <1>1, <1>2

(* applyCreatedQueue, for a call that goes on as rec.                       *)
LEMMA AppliesKeeps ==
  ASSUME PInv, NEW c \in Calls, NEW rec \in CallRecords, rec.intent => call[c].intent,
         NEW queue, Applies(c, rec, queue)
  PROVE  Keeps
<1> DEFINE cs == QueuePasses(call)
<1>1. Sober(cs) /\ Sober(Interrupt(cs))  BY Typed, PassesSober
<1>2. ASSUME NEW ds, Sober(ds), NEW p \in PlayerRecords, p.on => player.on,
             Becomes(c, rec, ds, p) \/ Quits(c, rec, ds, p)
      PROVE  Keeps
  <2>1. Becomes(c, rec, ds, p) \/ Abandon(c, rec, ds, p)  BY <1>2 DEF Quits
  <2> QED  BY <1>2, <2>1, BecomesKeeps
<1>3. player \in PlayerRecords  BY Typed
<1>4. ASSUME NEW t \in Tracks \cup {NoTrack}
      PROVE  LET q == [PauseElement(player) EXCEPT !.current = t]
             IN  q \in PlayerRecords /\ ~q.on
  <2>1. PauseElement(player) \in PlayerRecords /\ ~PauseElement(player).on  BY <1>3, ElementTyped
  <2> QED  BY <2>1 DEF PlayerRecords
<1>5. CASE Quits(c, rec, cs, player)  BY <1>1, <1>2, <1>3, <1>5
<1>6. CASE Quits(c, rec, Interrupt(cs), [PauseElement(player) EXCEPT !.current = NoTrack])
  BY <1>1, <1>2, <1>4, <1>6
<1>7. CASE Becomes(c, rec, cs, player)  BY <1>1, <1>2, <1>3, <1>7
<1>8. ASSUME NEW t \in Tracks,
             Becomes(c, rec, Interrupt(cs), [PauseElement(player) EXCEPT !.current = t])
      PROVE  Keeps
  BY <1>1, <1>2, <1>4, <1>8
<1>9. ASSUME NEW t \in Tracks, call[c].intent, Load(c, call[c], cs, player, t)  PROVE Keeps
  BY <1>1, <1>3, <1>9, Typed, LoadTyped, IntentKeeps
<1>10. ASSUME NEW t \in Tracks, Becomes(c, rec, cs, [player EXCEPT !.current = t])  PROVE Keeps
  <2>1. [player EXCEPT !.current = t] \in PlayerRecords /\ [player EXCEPT !.current = t].on = player.on
    BY <1>3 DEF PlayerRecords
  <2> QED  BY <1>1, <1>2, <1>10, <2>1
<1>11. \/ Quits(c, rec, cs, player)
       \/ Quits(c, rec, Interrupt(cs), [PauseElement(player) EXCEPT !.current = NoTrack])
       \/ Becomes(c, rec, cs, player)
       \/ \E t \in Tracks :
            \/ Becomes(c, rec, Interrupt(cs), [PauseElement(player) EXCEPT !.current = t])
            \/ call[c].intent /\ Load(c, call[c], cs, player, t)
            \/ Becomes(c, rec, cs, [player EXCEPT !.current = t])
  BY DEF Applies
<1> QED  BY <1>5, <1>6, <1>7, <1>8, <1>9, <1>10, <1>11

-----------------------------------------------------------------------------
(* The steps.                                                               *)

LEMMA QuietStep ==
  ASSUME PInv, Keeps, UNCHANGED <<list, said>>
  PROVE  PInv'
BY Typed, SilenceKept

LEMMA InitInv == Init => PInv
BY IdleTyped, PlayerAssumption
   DEF Init, PInv, TypeOK, Silent, Intentless, NoList, NoPlayer, PlayerRecords

(* What the user, the application or the element asks for.                  *)
LEMMA AskedStep ==
  ASSUME PInv, NEW c \in Calls, Asked(c)
  PROVE  PInv'
<1>1. /\ Sober(call) /\ player \in PlayerRecords /\ list \in Lists /\ said \in Words
      /\ list.queue \in {"none", "empty", "some"}
  BY Typed DEF Lists
<1>2. Sober(IntentPasses(call)) /\ Begin(player, c) \in PlayerRecords
  BY <1>1, PassesSober, ElementTyped
<1>3. ASSUME NEW t \in Tracks \cup {NoTrack}, said' = Wishes(t), UNCHANGED list,
             call' \in [Calls -> CallRecords], player' \in PlayerRecords
      PROVE  PInv'
  BY <1>1, <1>3, SilenceEnded
<1>4. ASSUME NEW b \in BOOLEAN, Recreate(c, b)  PROVE PInv'
  <2> DEFINE loud  == [Idle EXCEPT !.op = "replace", !.pin = b, !.intent = TRUE]
             quiet == [Idle EXCEPT !.op = "create", !.pin = b]
  <2>1. loud \in CallRecords /\ quiet \in CallRecords /\ ~quiet.intent
    BY IdleTyped DEF CallRecords, Ops
  <2>2. CASE player.playing
    <3>1. Create(c, loud, IntentPasses(call), Begin(player, c)) /\ said' = Wishes(NoTrack)
      BY <1>4, <2>2 DEF Recreate
    <3> QED  BY <1>2, <1>3, <1>4, <2>1, <3>1, CreateSober DEF Recreate
  <2>3. CASE ~player.playing
    <3>1. Create(c, quiet, call, player) /\ said' = [said EXCEPT !.choice = NoTrack]
      BY <1>4, <2>3 DEF Recreate
    <3>2. Keeps  BY <1>1, <2>1, <3>1, AsksKeeps
    <3>3. said' \in Words /\ said'.silenced = said.silenced  BY <1>1, <3>1 DEF Words
    <3> QED  BY <1>1, <1>4, <3>2, <3>3, SilenceKept DEF Recreate
  <2> QED  BY <2>2, <2>3
<1>5. CASE RandomizePlaylist(c)  BY <1>4, <1>5 DEF RandomizePlaylist
<1>6. CASE FilterPlaylistByTag(c)  BY <1>4, <1>6 DEF FilterPlaylistByTag
<1>7. CASE PreparePlaylist(c)
  <2> DEFINE quiet == [Idle EXCEPT !.op = "create"]
  <2>1. quiet \in CallRecords /\ ~quiet.intent  BY IdleTyped DEF CallRecords, Ops
  <2>2. Keeps  BY <1>1, <1>7, <2>1, AsksKeeps DEF PreparePlaylist
  <2>3. said' \in Words /\ said'.silenced = said.silenced
    BY <1>1, <1>7 DEF Words, PreparePlaylist
  <2> QED  BY <1>1, <1>7, <2>2, <2>3, SilenceKept DEF PreparePlaylist
<1>8. CASE AskPage(c)
  <2> DEFINE r == [Idle EXCEPT !.op = "page", !.at = "page", !.same = TRUE, !.epoch = TRUE]
  <2>1. r \in CallRecords /\ ~r.intent  BY IdleTyped DEF Idle, CallRecords, Ops, Places, Requests
  <2>2. call' = [call EXCEPT ![c] = r] /\ UNCHANGED <<list, player, said>>
    BY <1>8 DEF AskPage
  <2> HIDE DEF r
  <2>3. Keeps  BY <1>1, <2>1, <2>2 DEF Keeps, Sober, Intentless
  <2> QED  BY <2>2, <2>3, QuietStep
<1>9. CASE PlayAt(c)
  <2> DEFINE r == [Idle EXCEPT !.op = "playAt", !.intent = TRUE]
  <2>1. r \in CallRecords  BY IdleTyped DEF CallRecords, Ops
  <2> QED  BY <1>2, <1>3, <1>9, <2>1, LookUpSober DEF PlayAt
<1>10. CASE NextTrack(c)
  <2>1. Move(c, "next", call, player)  BY <1>10 DEF NextTrack
  <2> QED  BY <1>1, <1>3, <1>10, <2>1, MoveTyped DEF NextTrack, Ops
<1>11. CASE Previous(c)
  <2>1. Move(c, "previous", call, player)  BY <1>11 DEF Previous
  <2> QED  BY <1>1, <1>3, <1>11, <2>1, MoveTyped DEF Previous, Ops
<1>12. CASE TrackEnds(c)
  <2> DEFINE q == [player EXCEPT !.on = FALSE, !.playing = FALSE]
  <2>1. q \in PlayerRecords /\ Sober(Interrupt(call))
    BY <1>1, PassesSober DEF PlayerRecords
  <2>2. Move(c, "next", Interrupt(call), q)  BY <1>12 DEF TrackEnds
  <2> QED  BY <1>1, <1>3, <1>12, <2>1, <2>2, MoveTyped DEF TrackEnds, Ops
<1>13. ASSUME NEW t \in Tracks, PlayTrack(c, t)  PROVE PInv'
  <2> DEFINE r  == [Idle EXCEPT !.op = "playTrack", !.track = t, !.epoch = TRUE, !.intent = TRUE]
             cs == Abort(EpochPasses(IntentPasses(call)), SelectWork)
  <2>1. r \in CallRecords  BY IdleTyped DEF CallRecords, Ops
  <2>2. Sober(EpochPasses(IntentPasses(call)))  BY <1>2, PassesSober
  <2>3. Sober(cs)  BY <2>2, PassesSober
  <2>4. Load(c, r, cs, Begin(player, c), t)  BY <1>13 DEF PlayTrack
  <2> QED  BY <1>2, <1>3, <1>13, <2>1, <2>3, <2>4, LoadTyped DEF PlayTrack
<1>14. CASE Resume(c)
  <2> DEFINE r == [Idle EXCEPT !.op = "resume", !.epoch = TRUE, !.intent = TRUE]
             s == [r EXCEPT !.at = "page", !.same = TRUE]
             q == [Begin(player, c) EXCEPT !.active = NoCall]
  <2>1. r \in CallRecords  BY IdleTyped DEF CallRecords, Ops
  <2>2. s \in CallRecords  BY <2>1 DEF CallRecords, Places, Requests
  <2>3. q \in PlayerRecords  BY <1>2 DEF PlayerRecords
  <2>4. \/ Plays(c, IntentPasses(call), Begin(player, c))
        \/ Create(c, r, IntentPasses(call), Begin(player, c))
        \/ Becomes(c, Idle, IntentPasses(call), q)
        \/ Becomes(c, s, IntentPasses(call), Begin(player, c))
    BY <1>1, <1>14 DEF Resume
  <2>5. call' \in [Calls -> CallRecords] /\ player' \in PlayerRecords
    <3>1. CASE Plays(c, IntentPasses(call), Begin(player, c))  BY <1>2, <3>1, PlaysTyped
    <3>2. CASE Create(c, r, IntentPasses(call), Begin(player, c))
      BY <1>2, <2>1, <3>2, CreateSober
    <3>3. CASE Becomes(c, Idle, IntentPasses(call), q)
      BY <1>2, <2>3, <3>3, IdleTyped, BecomesSober
    <3>4. CASE Becomes(c, s, IntentPasses(call), Begin(player, c))
      BY <1>2, <2>2, <3>4, BecomesSober
    <3> QED  BY <2>4, <3>1, <3>2, <3>3, <3>4
  <2>6. said.choice \in Tracks \cup {NoTrack} /\ said' = Wishes(said.choice) /\ UNCHANGED list
    BY <1>1, <1>14 DEF Resume, Words
  <2> QED  BY <1>3, <2>5, <2>6
<1>15. CASE Reload(c)
  <2> DEFINE r == [Idle EXCEPT !.op = "reload", !.epoch = TRUE, !.intent = TRUE]
             silent == [Idle EXCEPT !.op = "silent", !.at = "loading", !.epoch = TRUE, !.source = TRUE]
             cs == Interrupt(SourcePasses(call))
             p  == [PauseElement(player) EXCEPT !.src = player.current]
  <2>1. r \in CallRecords /\ silent \in CallRecords /\ ~silent.intent
    BY IdleTyped DEF Idle, CallRecords, Ops, Places
  <2>2. player.current \in Tracks \cup {NoTrack}  BY <1>1 DEF PlayerRecords
  <2>3. CASE /\ \/ Load(c, r, IntentPasses(call), Begin(player, c), player.current)
                \/ LoadFrom(c, r, IntentPasses(call), Begin(player, c), player.current)
             /\ said' = Wishes(said.choice)
    <3>1. call' \in [Calls -> CallRecords] /\ player' \in PlayerRecords
      BY <1>2, <2>1, <2>2, <2>3, LoadTyped
    <3>2. said.choice \in Tracks \cup {NoTrack} /\ UNCHANGED list
      BY <1>1, <1>15 DEF Reload, Words
    <3> QED  BY <1>3, <2>3, <3>1, <3>2
  <2>4. CASE /\ \/ call' = cs /\ player' = [p EXCEPT !.active = NoCall]
                \/ call' = [cs EXCEPT ![c] = silent] /\ player' = p
             /\ UNCHANGED said
    <3>1. Sober(cs)
      <4>1. Sober(SourcePasses(call))  BY <1>1, PassesSober
      <4> QED  BY <4>1, PassesSober
    <3>2. PauseElement(player) \in PlayerRecords /\ ~PauseElement(player).on
      BY <1>1, ElementTyped
    <3>3. /\ p \in PlayerRecords /\ ~p.on
          /\ [p EXCEPT !.active = NoCall] \in PlayerRecords /\ ~[p EXCEPT !.active = NoCall].on
      BY <2>2, <3>2 DEF PlayerRecords
    <3> HIDE DEF cs, p, silent
    <3>4. Keeps  BY <2>1, <2>4, <3>1, <3>3 DEF Keeps, Sober, Intentless
    <3> QED  BY <1>15, <2>4, <3>4, QuietStep DEF Reload
  <2> QED  BY <1>15, <2>3, <2>4 DEF Reload
<1>16. CASE PrependDirectory(c)
  <2> DEFINE r == [Idle EXCEPT !.op = "prepend", !.epoch = TRUE, !.intent = TRUE,
                               !.at = IF list.queue = "none" THEN "temporary" ELSE "prepend"]
             cs == EpochPasses(IntentPasses(call))
  <2>1. r \in CallRecords  BY IdleTyped DEF CallRecords, Ops, Places, Requests, QueueWork
  <2>2. Sober(cs)  BY <1>2, PassesSober
  <2>3. Sober(AbortQueueWork(cs))  BY <2>2, PassesSober DEF AbortQueueWork
  <2>4. Becomes(c, r, AbortQueueWork(cs), Begin(player, c))  BY <1>16 DEF PrependDirectory
  <2> QED  BY <1>2, <1>3, <1>16, <2>1, <2>3, <2>4, BecomesSober DEF PrependDirectory
<1> QED
  BY <1>5, <1>6, <1>7, <1>8, <1>9, <1>10, <1>11, <1>12, <1>13, <1>14, <1>15, <1>16 DEF Asked

LEMMA CreatesStep ==
  ASSUME PInv, NEW c \in Calls, Creates(c)
  PROVE  PInv'
<1>1. /\ Sober(call) /\ player \in PlayerRecords /\ list \in Lists /\ said \in Words
      /\ call[c] \in CallRecords
  BY Typed
<1>2. AfterCreate(c) \in CallRecords /\ (AfterCreate(c).intent => call[c].intent)
  BY <1>1, IdleTyped DEF AfterCreate, CallRecords, Places
<1>3. CASE CreateRetries(c)
  <2> DEFINE r == [call[c] EXCEPT !.at = "createAnew", !.reply = "none"]
  <2>1. r \in CallRecords /\ r.intent = call[c].intent
    BY <1>1 DEF CallRecords, Places, Requests, QueueWork
  <2>2. call' = [call EXCEPT ![c] = r] /\ UNCHANGED <<list, player, said>>
    BY <1>3 DEF CreateRetries
  <2> HIDE DEF r
  <2>3. Keeps  BY <1>1, <2>1, <2>2 DEF Keeps, Sober, Intentless
  <2> QED  BY <2>2, <2>3, QuietStep
<1>4. CASE CreateIgnored(c)
  <2>1. Becomes(c, AfterCreate(c), call, player) /\ UNCHANGED <<list, said>>
    BY <1>4 DEF CreateIgnored
  <2> QED  BY <1>1, <1>2, <2>1, BecomesKeeps, QuietStep
<1>5. CASE CreateFails(c)
  <2>1. /\ \/ Becomes(c, AfterCreate(c), call, player)
           \/ Abandon(c, AfterCreate(c), call, player)
        /\ UNCHANGED <<list, said>>
    BY <1>5 DEF CreateFails, Quits
  <2> QED  BY <1>1, <1>2, <2>1, BecomesKeeps, QuietStep
<1>6. CASE CreateSucceeds(c)
  <2>1. PICK queue \in {"empty", "some"} :
          /\ list' = [queue |-> queue, recoveryUsed |-> FALSE]
          /\ Applies(c, AfterCreate(c), queue)
    BY <1>6 DEF CreateSucceeds
  <2>2. Keeps  BY <1>2, <2>1, AppliesKeeps
  <2>3. list' \in Lists  BY <2>1 DEF Lists
  <2>4. said' \in Words /\ said'.silenced = said.silenced
    BY <1>1, <1>6 DEF CreateSucceeds, Words
  <2> QED  BY <2>2, <2>3, <2>4, SilenceKept
<1> QED  BY <1>3, <1>4, <1>5, <1>6 DEF Creates

LEMMA PagesStep ==
  ASSUME PInv, NEW c \in Calls, Pages(c)
  PROVE  PInv'
<1>1. /\ Sober(call) /\ player \in PlayerRecords /\ list \in Lists /\ said \in Words
      /\ call[c] \in CallRecords
  BY Typed
<1>2. CASE PageDone(c)
  <2>1. Becomes(c, Idle, call, player) /\ UNCHANGED <<list, said>>  BY <1>2 DEF PageDone
  <2> QED  BY <1>1, <2>1, IdleTyped, BecomesKeeps, QuietStep
<1>3. CASE Recovers(c)
  <2> DEFINE cs == Abort(call, QueueWork)
  <2>1. Sober(cs)  BY <1>1, PassesSober
  <2>2. cs[c] \in CallRecords /\ cs[c].intent = call[c].intent
    BY <1>1 DEF Abort, CallRecords
  <2> HIDE DEF cs
  <2> DEFINE r == [cs[c] EXCEPT !.at = "recover", !.reply = "none", !.pin = player.current # NoTrack]
  <2>3. r \in CallRecords /\ r.intent = call[c].intent
    BY <2>2 DEF CallRecords, Places, Requests, QueueWork
  <2>4. call' = [cs EXCEPT ![c] = r] /\ UNCHANGED player
    BY <1>3 DEF Recovers, cs
  <2> HIDE DEF r
  <2>5. Keeps  BY <1>1, <2>1, <2>3, <2>4 DEF Keeps, Sober, Intentless
  <2>6. list' \in Lists  BY <1>1, <1>3 DEF Recovers, Lists
  <2>7. said' \in Words /\ said'.silenced = said.silenced
    <3>1. said.recoveries + 1 \in Nat  BY <1>1 DEF Words
    <3>2. said' = [said EXCEPT !.recoveries = @ + 1]  BY <1>3 DEF Recovers
    <3> QED  BY <1>1, <3>1, <3>2 DEF Words
  <2> QED  BY <2>5, <2>6, <2>7, SilenceKept
<1>4. CASE RecoverySucceeds(c)
  <2>1. PICK queue \in {"empty", "some"} :
          /\ list' = [list EXCEPT !.queue = queue]
          /\ Applies(c, AfterRecovery(c), queue)
    BY <1>4 DEF RecoverySucceeds
  <2>2. AfterRecovery(c) \in CallRecords /\ (AfterRecovery(c).intent => call[c].intent)
    BY <1>1, IdleTyped DEF AfterRecovery, CallRecords, Places, Requests
  <2>3. Keeps  BY <2>1, <2>2, AppliesKeeps
  <2>4. list' \in Lists  BY <1>1, <2>1 DEF Lists
  <2>5. said' \in Words /\ said'.silenced = said.silenced
    BY <1>1, <1>4 DEF RecoverySucceeds, Words
  <2> QED  BY <2>3, <2>4, <2>5, SilenceKept
<1>5. CASE RecoveryFails(c)
  <2> DEFINE r == IF call[c].op = "page" THEN Idle
                  ELSE [call[c] EXCEPT !.at = "page", !.reply = "failed", !.pin = FALSE]
  <2>1. r \in CallRecords /\ (r.intent => call[c].intent)
    <3>1. CASE call[c].op = "page"  BY <3>1, IdleTyped
    <3>2. CASE call[c].op # "page"  BY <1>1, <3>2 DEF CallRecords, Places, Requests
    <3> QED  BY <3>1, <3>2
  <2>2. Becomes(c, r, call, player) /\ UNCHANGED <<list, said>>  BY <1>5 DEF RecoveryFails
  <2> QED  BY <1>1, <2>1, <2>2, BecomesKeeps, QuietStep
<1> QED  BY <1>2, <1>3, <1>4, <1>5 DEF Pages

LEMMA MovesStep ==
  ASSUME PInv, NEW c \in Calls, Moves(c)
  PROVE  PInv'
<1>1. /\ Sober(call) /\ player \in PlayerRecords /\ list.queue \in {"none", "empty", "some"}
      /\ call[c] \in CallRecords /\ call[c].op \in Ops
  BY Typed DEF Lists, CallRecords
<1>2. ASSUME Becomes(c, Idle, call, player) \/ Abandon(c, Idle, call, player)  PROVE Keeps
  BY <1>1, <1>2, IdleTyped, BecomesKeeps
<1>3. CASE NextPrepared(c)
  <2>1. CASE LookUp(c, call[c], call, player)
    <3>1. Keeps  BY <1>1, <2>1, AsksKeeps
    <3> QED  BY <1>3, <3>1, QuietStep DEF NextPrepared
  <2>2. CASE Abandon(c, Idle, call, player)
    BY <1>2, <1>3, <2>2, QuietStep DEF NextPrepared
  <2> QED  BY <1>3, <2>1, <2>2 DEF NextPrepared
<1>4. CASE Restart(c)
  <2>1. CASE ~Late(c) /\ Move(c, call[c].op, call, player)
    <3>1. call' \in [Calls -> CallRecords] /\ player' \in PlayerRecords
      BY <1>1, <2>1, MoveTyped
    <3>2. Keeps  BY <2>1, <3>1, IntentKeeps DEF Late
    <3> QED  BY <1>4, <3>2, QuietStep DEF Restart
  <2>2. CASE Becomes(c, Idle, call, player)
    BY <1>2, <1>4, <2>2, QuietStep DEF Restart
  <2> QED  BY <1>4, <2>1, <2>2 DEF Restart
<1>5. CASE NotFound(c)
  <2> DEFINE r == [call[c] EXCEPT !.at = "restart"]
             s == [Idle EXCEPT !.op = "replace", !.intent = TRUE]
  <2>1. r \in CallRecords /\ r.intent = call[c].intent  BY <1>1 DEF CallRecords, Places
  <2>2. s \in CallRecords  BY IdleTyped DEF CallRecords, Ops
  <2>3. \/ Becomes(c, Idle, call, player)
        \/ Becomes(c, r, call, player)
        \/ ~Late(c) /\ Create(c, s, call, player)
        \/ Abandon(c, Idle, call, player)
    BY <1>5 DEF NotFound
  <2>4. ASSUME ~Late(c), Create(c, s, call, player)  PROVE Keeps
    BY <1>1, <2>2, <2>4, AsksKeeps DEF Late
  <2>5. ASSUME Becomes(c, r, call, player)  PROVE Keeps
    BY <1>1, <2>1, <2>5, BecomesKeeps
  <2>6. Keeps  BY <1>2, <2>3, <2>4, <2>5
  <2> QED  BY <1>5, <2>6, QuietStep DEF NotFound
<1>6. ASSUME NEW t \in Tracks, Found(c, t)  PROVE PInv'
  <2>1. ~Late(c) /\ Load(c, call[c], call, player, t)  BY <1>6 DEF Found
  <2>2. Keeps  BY <1>1, <2>1, LoadTyped, IntentKeeps DEF Late
  <2> QED  BY <1>6, <2>2, QuietStep DEF Found
<1> QED  BY <1>3, <1>4, <1>5, <1>6 DEF Moves

LEMMA SelectsStep ==
  ASSUME PInv, NEW c \in Calls, Selects(c)
  PROVE  PInv'
<1>1. /\ Sober(call) /\ player \in PlayerRecords /\ list \in Lists /\ said \in Words
      /\ call[c] \in CallRecords
  BY Typed
<1>2. Sober(QueuePasses(call))  BY <1>1, PassesSober
<1>3. CASE Reselects(c)
  <2> DEFINE r == [call[c] EXCEPT !.at = "reselect", !.reply = "none"]
  <2>1. r \in CallRecords /\ r.intent = call[c].intent
    BY <1>1 DEF CallRecords, Places, Requests, SelectWork
  <2>2. call' = [call EXCEPT ![c] = r] /\ UNCHANGED player  BY <1>3 DEF Reselects
  <2> HIDE DEF r
  <2>3. Keeps  BY <1>1, <2>1, <2>2 DEF Keeps, Sober, Intentless
  <2>4. list' \in Lists  BY <1>1, <1>3 DEF Reselects, Lists
  <2>5. said' \in Words /\ said'.silenced = said.silenced
    <3>1. said.recoveries + 1 \in Nat  BY <1>1 DEF Words
    <3>2. said' = [said EXCEPT !.recoveries = @ + 1]  BY <1>3 DEF Reselects
    <3> QED  BY <1>1, <3>1, <3>2 DEF Words
  <2> QED  BY <2>3, <2>4, <2>5, SilenceKept
<1>4. CASE SelectionSucceeds(c)
  <2>1. Keeps  BY <1>1, <1>2, <1>4, IdleTyped, BecomesKeeps DEF SelectionSucceeds
  <2>2. list' \in Lists /\ UNCHANGED said  BY <1>1, <1>4 DEF SelectionSucceeds, Lists
  <2> QED  BY <1>1, <2>1, <2>2, SilenceKept
<1>5. CASE SelectionFails(c)
  <2>1. Becomes(c, Idle, call, player) /\ UNCHANGED <<list, said>>  BY <1>5 DEF SelectionFails
  <2> QED  BY <1>1, <2>1, IdleTyped, BecomesKeeps, QuietStep
<1> QED  BY <1>3, <1>4, <1>5 DEF Selects

LEMMA LoadsStep ==
  ASSUME PInv, NEW c \in Calls, Loads(c)
  PROVE  PInv'
<1>1. /\ Sober(call) /\ player \in PlayerRecords /\ call[c] \in CallRecords
      /\ Sober(Interrupt(call))
  BY Typed, PassesSober
<1>2. CASE MetadataLoaded(c)
  <2> DEFINE q == [player EXCEPT !.playing = FALSE, !.active = NoCall]
             r == [call[c] EXCEPT !.at = "starting"]
             p == [player EXCEPT !.on = TRUE, !.active = c]
  <2>1. q \in PlayerRecords /\ q.on = player.on /\ p \in PlayerRecords  BY <1>1 DEF PlayerRecords
  <2>2. r \in CallRecords  BY <1>1 DEF CallRecords, Places
  <2>3. \/ Becomes(c, Idle, call, q)
        \/ Wanted(c) /\ call' = [call EXCEPT ![c] = r] /\ player' = p
        \/ Becomes(c, Idle, call, player)
    BY <1>2 DEF MetadataLoaded
  <2>4. ASSUME Becomes(c, Idle, call, q)  PROVE Keeps
    BY <1>1, <2>1, <2>4, IdleTyped, BecomesKeeps
  <2>5. ASSUME Wanted(c), call' = [call EXCEPT ![c] = r], player' = p  PROVE Keeps
    <3> HIDE DEF r, p
    <3>1. call' \in [Calls -> CallRecords] /\ player' \in PlayerRecords
      BY <1>1, <2>1, <2>2, <2>5 DEF Sober
    <3> QED  BY <2>5, <3>1, IntentKeeps DEF Wanted
  <2>6. ASSUME Becomes(c, Idle, call, player)  PROVE Keeps
    BY <1>1, <2>6, IdleTyped, BecomesKeeps
  <2>7. Keeps  BY <2>3, <2>4, <2>5, <2>6
  <2> QED  BY <1>2, <2>7, QuietStep DEF MetadataLoaded
<1>3. CASE Started(c)
  <2> DEFINE p == [player EXCEPT !.playing = TRUE]
             q == [PauseElement(player) EXCEPT !.active = NoCall,
                                               !.playing = @ \/ call[c].intent]
  <2>1. p \in PlayerRecords /\ p.on = player.on  BY <1>1 DEF PlayerRecords
  <2>2. q \in PlayerRecords /\ ~q.on
    BY <1>1 DEF PauseElement, PlayerRecords, CallRecords
  <2>3. \/ AfterPlaying(c, call, p)
        \/ AfterPlaying(c, Interrupt(call), q)
        \/ AfterPlaying(c, call, player)
    BY <1>3 DEF Started
  <2>4. Keeps  BY <1>1, <2>1, <2>2, <2>3, AfterPlayingKeeps
  <2> QED  BY <1>3, <2>4, QuietStep DEF Started
<1>4. CASE StartRejected(c)
  <2> DEFINE p == [player EXCEPT !.playing = FALSE, !.active = NoCall]
  <2>1. p \in PlayerRecords /\ p.on = player.on  BY <1>1 DEF PlayerRecords
  <2>2. AfterPlaying(c, call, p) \/ AfterPlaying(c, call, player)  BY <1>4 DEF StartRejected
  <2>3. Keeps  BY <1>1, <2>1, <2>2, AfterPlayingKeeps
  <2> QED  BY <1>4, <2>3, QuietStep DEF StartRejected
<1> QED  BY <1>2, <1>3, <1>4 DEF Loads

LEMMA ResumesStep ==
  ASSUME PInv, NEW c \in Calls, Resumes(c)
  PROVE  PInv'
<1>1. /\ Sober(call) /\ player \in PlayerRecords /\ call[c] \in CallRecords
      /\ player.current \in Tracks \cup {NoTrack}
  BY Typed DEF PlayerRecords
<1>2. ASSUME Abandon(c, Idle, call, player)  PROVE Keeps
  BY <1>1, <1>2, IdleTyped, BecomesKeeps
<1>3. ASSUME call[c].intent, NEW p \in PlayerRecords, Plays(c, call, p)  PROVE Keeps
  BY <1>1, <1>3, PlaysTyped, IntentKeeps
<1>4. CASE ResumePrepared(c)
  <2> DEFINE r == [call[c] EXCEPT !.at = "page", !.reply = "none", !.same = TRUE, !.epoch = TRUE]
  <2>1. r \in CallRecords /\ r.intent = call[c].intent
    BY <1>1 DEF CallRecords, Places, Requests
  <2>2. Becomes(c, r, call, player) \/ Abandon(c, Idle, call, player)
    BY <1>4 DEF ResumePrepared
  <2>3. Keeps  BY <1>1, <1>2, <2>1, <2>2, BecomesKeeps
  <2> QED  BY <1>4, <2>3, QuietStep DEF ResumePrepared
<1>5. CASE ResumeNotFound(c)
  <2>1. (call[c].intent /\ Plays(c, call, player)) \/ Abandon(c, Idle, call, player)
    BY <1>5 DEF ResumeNotFound
  <2>2. Keeps  BY <1>1, <1>2, <1>3, <2>1
  <2> QED  BY <1>5, <2>2, QuietStep DEF ResumeNotFound
<1>6. ASSUME NEW t \in Tracks, ResumeFound(c, t)  PROVE PInv'
  <2>1. [player EXCEPT !.current = t] \in PlayerRecords  BY <1>1 DEF PlayerRecords
  <2>2. call[c].intent /\ Plays(c, call, [player EXCEPT !.current = t])
    BY <1>6 DEF ResumeFound, Late
  <2>3. Keeps  BY <1>3, <2>1, <2>2
  <2> QED  BY <1>6, <2>3, QuietStep DEF ResumeFound
<1> QED  BY <1>4, <1>5, <1>6 DEF Resumes

LEMMA PrependsStep ==
  ASSUME PInv, NEW c \in Calls, Prepends(c)
  PROVE  PInv'
<1>1. /\ Sober(call) /\ player \in PlayerRecords /\ list \in Lists /\ said \in Words
      /\ call[c] \in CallRecords
  BY Typed
<1>2. ASSUME NEW at \in {"temporary", "prependNew"},
             call' = [call EXCEPT ![c].at = at, ![c].reply = "none"],
             UNCHANGED <<list, player, said>>
      PROVE  PInv'
  <2> DEFINE r == [call[c] EXCEPT !.at = at, !.reply = "none"]
  <2>1. r \in CallRecords /\ r.intent = call[c].intent
    BY <1>1 DEF CallRecords, Places, Requests, QueueWork
  <2>2. call' = [call EXCEPT ![c] = r]  BY <1>2
  <2> HIDE DEF r
  <2>3. Keeps  BY <1>1, <1>2, <2>1, <2>2 DEF Keeps, Sober, Intentless
  <2> QED  BY <1>2, <2>3, QuietStep
<1>3. ASSUME NEW cs, Sober(cs), Becomes(c, Idle, cs, player) \/ Abandon(c, Idle, cs, player)
      PROVE  Keeps
  BY <1>1, <1>3, IdleTyped, BecomesKeeps
<1>4. CASE PrependMisses(c)  BY <1>2, <1>4 DEF PrependMisses
<1>5. CASE PrependGoesOn(c)  BY <1>2, <1>5 DEF PrependGoesOn
<1>6. CASE PrependIgnored(c)  BY <1>1, <1>3, <1>6, QuietStep DEF PrependIgnored
<1>7. CASE PrependFails(c)  BY <1>1, <1>3, <1>7, QuietStep DEF PrependFails
<1>8. CASE PrependSucceeds(c)
  <2> DEFINE cs == QueuePasses(call)
  <2>1. Sober(cs)  BY <1>1, PassesSober
  <2>2. \/ \E t \in Tracks : call[c].intent /\ Load(c, call[c], cs, player, t)
        \/ \E t \in Tracks : Becomes(c, Idle, cs, [player EXCEPT !.current = t])
        \/ Becomes(c, Idle, cs, player) \/ Abandon(c, Idle, cs, player)
    BY <1>8 DEF PrependSucceeds
  <2>3. ASSUME NEW t \in Tracks, call[c].intent, Load(c, call[c], cs, player, t)  PROVE Keeps
    BY <1>1, <2>1, <2>3, LoadTyped, IntentKeeps
  <2>4. ASSUME NEW t \in Tracks, Becomes(c, Idle, cs, [player EXCEPT !.current = t])  PROVE Keeps
    <3>1. /\ [player EXCEPT !.current = t] \in PlayerRecords
          /\ [player EXCEPT !.current = t].on = player.on
      BY <1>1 DEF PlayerRecords
    <3> QED  BY <2>1, <2>4, <3>1, IdleTyped, BecomesKeeps
  <2>5. Keeps  BY <1>3, <2>1, <2>2, <2>3, <2>4
  <2>6. list' \in Lists  BY <1>8 DEF PrependSucceeds, Lists
  <2>7. said' \in Words /\ said'.silenced = said.silenced
    BY <1>1, <1>8 DEF PrependSucceeds, Words
  <2> QED  BY <2>5, <2>6, <2>7, SilenceKept
<1> QED  BY <1>4, <1>5, <1>6, <1>7, <1>8 DEF Prepends

LEMMA AnswersStep ==
  ASSUME PInv, NEW c \in Calls, NEW reply \in {"ok", "missing", "failed"}, Answers(c, reply)
  PROVE  PInv'
<1>1. Sober(call) /\ player \in PlayerRecords /\ call[c] \in CallRecords  BY Typed
<1> DEFINE r == [call[c] EXCEPT !.reply = reply]
<1>2. r \in CallRecords /\ r.intent = call[c].intent  BY <1>1 DEF CallRecords
<1>3. call' = [call EXCEPT ![c] = r] /\ UNCHANGED <<list, player, said>>  BY DEF Answers
<1> HIDE DEF r
<1>4. Keeps  BY <1>1, <1>2, <1>3 DEF Keeps, Sober, Intentless
<1> QED  BY <1>3, <1>4, QuietStep

(* What the element and the server do, and pause, reset and releaseQueue:   *)
(* those that silence the store leave no call with an intent.               *)
LEMMA OthersStep ==
  ASSUME PInv, MediaError \/ PauseEvent \/ Pause \/ Reset \/ ReleaseQueue
  PROVE  PInv'
<1>1. /\ Sober(call) /\ player \in PlayerRecords /\ list \in Lists /\ said \in Words
      /\ call \in [Calls -> CallRecords]
  BY Typed DEF Sober
<1>2. CASE MediaError
  <2> DEFINE q == [player EXCEPT !.on = FALSE, !.playing = FALSE]
             cs == [d \in Calls |->
                      IF call[d].at = "loading"
                      THEN [call[d] EXCEPT !.at = "starting", !.reply = "failed"]
                      ELSE Interrupt(call)[d]]
  <2>1. q \in PlayerRecords /\ ~q.on  BY <1>1 DEF PlayerRecords
  <2>2. Sober(Interrupt(call))  BY <1>1, PassesSober
  <2>3. ASSUME NEW d \in Calls
        PROVE  /\ [call[d] EXCEPT !.at = "starting", !.reply = "failed"] \in CallRecords
               /\ [call[d] EXCEPT !.at = "starting", !.reply = "failed"].intent = call[d].intent
    <3>1. call[d] \in CallRecords  BY <1>1
    <3> QED  BY <3>1 DEF CallRecords, Places
  <2>4. Sober(cs)
    <3>1. cs \in [Calls -> CallRecords]  BY <2>2, <2>3 DEF Sober
    <3>2. Intentless(call) => Intentless(cs)  BY <2>2, <2>3 DEF Sober, Intentless
    <3> QED  BY <3>1, <3>2 DEF Sober
  <2>5. player' = q /\ call' = cs /\ UNCHANGED <<list, said>>  BY <1>2 DEF MediaError
  <2> HIDE DEF q, cs
  <2>6. Keeps  BY <2>1, <2>4, <2>5 DEF Keeps, Sober, Intentless
  <2> QED  BY <2>5, <2>6, QuietStep
<1>3. CASE PauseEvent
  <2>1. player' \in PlayerRecords /\ player'.on = player.on
    BY <1>1, <1>3 DEF PauseEvent, PlayerRecords
  <2>2. Keeps  BY <1>1, <1>3, <2>1 DEF PauseEvent, Keeps, Intentless
  <2> QED  BY <1>3, <2>2, QuietStep DEF PauseEvent
<1>4. CASE Pause
  <2> DEFINE cs == IntentPasses(call)
             q  == [PauseElement(player) EXCEPT !.playing = FALSE, !.active = NoCall]
  <2>1. Sober(cs) /\ Intentless(cs)  BY <1>1, PassesSober
  <2>2. Sober(Interrupt(cs))  BY <2>1, PassesSober
  <2>3. q \in PlayerRecords /\ ~q.on  BY <1>1 DEF PauseElement, PlayerRecords
  <2>4. Intentless(Interrupt(cs))
    <3>1. ASSUME NEW d \in Calls  PROVE ~Interrupt(cs)[d].intent
      <4>1. cs[d] \in CallRecords /\ ~cs[d].intent  BY <2>1 DEF Sober, Intentless
      <4>2. Interrupt(cs)[d] = IF cs[d].at = "starting" THEN [cs[d] EXCEPT !.reply = "failed"]
                               ELSE cs[d]
        BY DEF Interrupt
      <4> HIDE DEF cs
      <4> QED  BY <4>1, <4>2 DEF CallRecords
    <3> QED  BY <3>1 DEF Intentless
  <2>5. call' = Interrupt(cs) /\ player' = q /\ UNCHANGED list  BY <1>4 DEF Pause
  <2> HIDE DEF cs, q
  <2>6. Keeps /\ Intentless(call') /\ ~player'.on
    BY <2>2, <2>3, <2>4, <2>5 DEF Keeps, Sober, Intentless
  <2>7. list' \in Lists /\ said' \in Words  BY <1>1, <1>4 DEF Pause, Words
  <2> QED  BY <2>6, <2>7 DEF PInv, Silent, TypeOK, Keeps, Lists, Words, Intentless
<1>5. CASE Reset
  <2> DEFINE a == QueuePasses(call)
             b == SourcePasses(a)
             d == IntentPasses(b)
             e == EpochPasses(d)
             f == Interrupt(e)
             g == AbortQueueWork(f)
             q == [NoPlayer EXCEPT !.event = PauseElement(player).event]
  <2>1. Sober(a)  BY <1>1, PassesSober
  <2>2. Sober(b)  BY <2>1, PassesSober
  <2>3. Sober(d) /\ Intentless(d)  BY <2>2, PassesSober
  <2>4. Sober(e)  BY <2>3, PassesSober
  <2>5. Sober(f)  BY <2>4, PassesSober
  <2>6. Sober(g)  BY <2>5, PassesSober DEF AbortQueueWork
  <2>7. Intentless(g)
    <3>1. \A x \in Calls : e[x].intent = FALSE
      BY <2>3 DEF Sober, Intentless, EpochPasses, CallRecords
    <3> QED
      BY <2>4, <3>1 DEF Sober, Interrupt, AbortQueueWork, Abort, Intentless, CallRecords
  <2>8. q \in PlayerRecords /\ ~q.on
    BY <1>1 DEF NoPlayer, PauseElement, PlayerRecords
  <2>9. call' = g /\ player' = q /\ list' = NoList
    BY <1>5 DEF Reset
  <2> HIDE DEF g, q
  <2>10. Intentless(call)' /\ call' \in [Calls -> CallRecords]
    BY <2>6, <2>7, <2>9 DEF Sober, Intentless
  <2>11. list' \in Lists /\ said' \in Words
    BY <1>5, <2>9 DEF Reset, NoList, Lists, Words
  <2> QED  BY <2>8, <2>9, <2>10, <2>11 DEF PInv, Silent, TypeOK, Lists, Words
<1>6. CASE ReleaseQueue
  <2>1. Sober(AbortQueueWork(call))  BY <1>1, PassesSober DEF AbortQueueWork
  <2>2. Keeps  BY <1>1, <1>6, <2>1 DEF ReleaseQueue, Keeps, Sober, Intentless
  <2> QED  BY <1>6, <2>2, QuietStep DEF ReleaseQueue
<1> QED  BY <1>2, <1>3, <1>4, <1>5, <1>6

-----------------------------------------------------------------------------
(* In every reachable state of the player store the state is typed and,     *)
(* when the user has silenced it, nothing sounds and no call in progress    *)
(* has the current intent: the guard of every play() of the store.          *)
THEOREM PlayerInvariant == Spec => []PInv
<1>1. PInv /\ [Next]_vars => PInv'
  <2> SUFFICES ASSUME PInv, [Next]_vars  PROVE PInv'
    OBVIOUS
  <2>1. ASSUME NEW c \in Calls, GoesOn(c)  PROVE PInv'
    BY <2>1, CreatesStep, PagesStep, MovesStep, SelectsStep, LoadsStep, ResumesStep, PrependsStep
       DEF GoesOn
  <2>2. ASSUME NEW c \in Calls, Asked(c)  PROVE PInv'
    BY <2>2, AskedStep
  <2>3. ASSUME NEW c \in Calls, NEW reply \in {"ok", "missing", "failed"}, Answers(c, reply)
        PROVE  PInv'
    BY <2>3, AnswersStep
  <2>4. CASE MediaError \/ PauseEvent \/ Pause \/ Reset \/ ReleaseQueue
    BY <2>4, OthersStep
  <2>5. CASE UNCHANGED vars
    BY <2>5 DEF vars, PInv, TypeOK, Silent, Intentless
  <2> QED  BY <2>1, <2>2, <2>3, <2>4, <2>5 DEF Next
<1> QED  BY <1>1, InitInv, PTL DEF Spec

(* pause and reset are final: until the user wishes to hear something again *)
(* the audio element does not play, whatever answers, loads or selections   *)
(* of earlier calls still arrive, however many of them there are.           *)
THEOREM PauseIsFinal == Spec => []PausedStaysSilent
<1>1. PInv => PausedStaysSilent  BY DEF PInv, Silent, PausedStaysSilent
<1> QED  BY <1>1, PlayerInvariant, PTL
-----------------------------------------------------------------------------
(* One recovery: the store remembers the one that the history has counted.  *)
Remembered == said.recoveries <= 1 /\ (said.recoveries = 1 => list.recoveryUsed)

LEMMA CountKept ==
  ASSUME Remembered, list'.recoveryUsed = list.recoveryUsed, said'.recoveries = said.recoveries
  PROVE  Remembered'
BY DEF Remembered

LEMMA CountRestarted ==
  ASSUME said'.recoveries = 0
  PROVE  Remembered'
BY DEF Remembered

LEMMA CountRaised ==
  ASSUME PInv, Remembered, ~list.recoveryUsed,
         list' = [list EXCEPT !.recoveryUsed = TRUE],
         said' = [said EXCEPT !.recoveries = @ + 1]
  PROVE  Remembered'
<1>1. said.recoveries \in Nat /\ said \in Words /\ list \in Lists  BY Typed DEF Words
<1>2. said.recoveries = 0  BY <1>1 DEF Remembered
<1>3. said'.recoveries = 1 /\ list'.recoveryUsed  BY <1>1, <1>2 DEF Words, Lists
<1> QED  BY <1>3 DEF Remembered

LEMMA AskedCounts ==
  ASSUME PInv, NEW c \in Calls, Asked(c)
  PROVE  UNCHANGED list /\ said'.recoveries = said.recoveries
<1>1. said \in Words  BY Typed
<1>2. UNCHANGED list
  BY DEF Asked, RandomizePlaylist, FilterPlaylistByTag, Recreate, PreparePlaylist, AskPage,
         PlayAt, NextTrack, Previous, TrackEnds, PlayTrack, Resume, Reload, PrependDirectory
<1>3. \/ UNCHANGED said
      \/ \E t \in Tracks \cup {NoTrack} : said' = Wishes(t)
      \/ said' = Wishes(said.choice)
      \/ said' = [said EXCEPT !.choice = NoTrack]
  BY DEF Asked, RandomizePlaylist, FilterPlaylistByTag, Recreate, PreparePlaylist, AskPage,
         PlayAt, NextTrack, Previous, TrackEnds, PlayTrack, Resume, Reload, PrependDirectory
<1> QED  BY <1>1, <1>2, <1>3 DEF Wishes, Words

LEMMA RememberedStep ==
  ASSUME PInv, Remembered, [Next]_vars
  PROVE  Remembered'
<1>1. list \in Lists /\ said \in Words  BY Typed
<1>2. ASSUME UNCHANGED <<list, said>>  PROVE Remembered'  BY <1>2, CountKept
<1>3. ASSUME NEW c \in Calls, Asked(c)  PROVE Remembered'  BY <1>3, AskedCounts, CountKept
<1>4. ASSUME NEW c \in Calls, Creates(c)  PROVE Remembered'
  <2>1. CASE CreateSucceeds(c)  BY <1>1, <2>1, CountRestarted DEF CreateSucceeds, Words
  <2> QED  BY <1>2, <1>4, <2>1 DEF Creates, CreateRetries, CreateIgnored, CreateFails
<1>5. ASSUME NEW c \in Calls, Pages(c)  PROVE Remembered'
  <2>1. CASE Recovers(c)  BY <2>1, CountRaised DEF Recovers, MayRecover
  <2>2. CASE RecoverySucceeds(c)
    <3>1. list'.recoveryUsed = list.recoveryUsed  BY <1>1, <2>2 DEF RecoverySucceeds, Lists
    <3>2. said'.recoveries = said.recoveries  BY <1>1, <2>2 DEF RecoverySucceeds, Words
    <3> QED  BY <3>1, <3>2, CountKept
  <2> QED  BY <1>2, <1>5, <2>1, <2>2 DEF Pages, PageDone, RecoveryFails
<1>6. ASSUME NEW c \in Calls, Selects(c)  PROVE Remembered'
  <2>1. CASE Reselects(c)  BY <2>1, CountRaised DEF Reselects, MayReselect
  <2>2. CASE SelectionSucceeds(c)
    BY <1>1, <2>2, CountKept DEF SelectionSucceeds, Lists
  <2> QED  BY <1>2, <1>6, <2>1, <2>2 DEF Selects, SelectionFails
<1>7. ASSUME NEW c \in Calls, Moves(c) \/ Loads(c) \/ Resumes(c)  PROVE Remembered'
  <2>1. UNCHANGED <<list, said>>
    BY <1>7 DEF Moves, NextPrepared, Restart, NotFound, Found, Loads, MetadataLoaded, Started,
                StartRejected, Resumes, ResumePrepared, ResumeNotFound, ResumeFound
  <2> QED  BY <1>2, <2>1
<1>8. ASSUME NEW c \in Calls, Prepends(c)  PROVE Remembered'
  <2>1. CASE PrependSucceeds(c)  BY <1>1, <2>1, CountRestarted DEF PrependSucceeds, Words
  <2> QED  BY <1>2, <1>8, <2>1
           DEF Prepends, PrependMisses, PrependGoesOn, PrependIgnored, PrependFails
<1>9. CASE Pause
  <2>1. UNCHANGED list /\ said'.recoveries = said.recoveries  BY <1>1, <1>9 DEF Pause, Words
  <2> QED  BY <2>1, CountKept
<1>10. CASE Reset  BY <1>10, CountRestarted DEF Reset
<1>11. CASE MediaError \/ PauseEvent \/ ReleaseQueue
  BY <1>2, <1>11 DEF MediaError, PauseEvent, ReleaseQueue
<1>12. ASSUME NEW c \in Calls, NEW reply \in {"ok", "missing", "failed"}, Answers(c, reply)
       PROVE  Remembered'
  BY <1>2, <1>12 DEF Answers
<1>13. CASE UNCHANGED vars  BY <1>2, <1>13 DEF vars
<1> QED  BY <1>3, <1>4, <1>5, <1>6, <1>7, <1>8, <1>9, <1>10, <1>11, <1>12, <1>13 DEF Next, GoesOn

(* A queue that the server has lost is made again at most once before a     *)
(* queue is made by the user's command, however many pages, moves and       *)
(* selections find out together: whoever recovers marks the store, and only *)
(* a queue of the user's clears the mark.                                   *)
THEOREM RecoveryIsOnce == Spec => []OneRecovery
<1>1. Init => Remembered  BY DEF Init, Remembered
<1>2. PInv /\ Remembered /\ [Next]_vars => Remembered'  BY RememberedStep
<1>3. Remembered => OneRecovery  BY DEF Remembered, OneRecovery
<1> QED  BY <1>1, <1>2, <1>3, PlayerInvariant, PTL DEF Spec

-----------------------------------------------------------------------------
(* The choice.  While a chosen track stays, a call in progress that could   *)
(* select another one has lost both its epoch and its intent; the others    *)
(* only load or look for the current track, or read pages.                  *)
Harmless(r) ==
  \/ ~r.epoch /\ ~r.intent
  \/ r.op = "playTrack" /\ r.at \in {"starting"} \cup SelectWork
  \/ r.op \in {"reload", "silent", "resume"} /\ r.at \in {"loading", "starting"}
  \/ r.op = "page" /\ r.at \in {"page", "recover"}

Tame(cs) == cs \in [Calls -> CallRecords] /\ \A d \in Calls : Harmless(cs[d])

Chosen == said.choice # NoTrack => player.current = said.choice /\ Tame(call)

(* A record that differs in what no call compares, or has lost more.        *)
LEMMA HarmlessLess ==
  ASSUME NEW r \in CallRecords, Harmless(r), NEW s \in CallRecords,
         s.op = r.op, s.at = r.at, s.epoch => r.epoch, s.intent => r.intent
  PROVE  Harmless(s)
BY DEF Harmless

LEMMA PassesTame ==
  ASSUME NEW cs, Tame(cs), NEW places
  PROVE  /\ Tame(EpochPasses(cs)) /\ Tame(SourcePasses(cs)) /\ Tame(IntentPasses(cs))
         /\ Tame(Abort(cs, places)) /\ Tame(QueuePasses(cs)) /\ Tame(Interrupt(cs))
<1>1. cs \in [Calls -> CallRecords] /\ \A d \in Calls : Harmless(cs[d])  BY DEF Tame
<1>2. ASSUME NEW r \in CallRecords, Harmless(r)
      PROVE  /\ [r EXCEPT !.epoch = FALSE] \in CallRecords /\ Harmless([r EXCEPT !.epoch = FALSE])
             /\ [r EXCEPT !.source = FALSE] \in CallRecords /\ Harmless([r EXCEPT !.source = FALSE])
             /\ [r EXCEPT !.intent = FALSE] \in CallRecords /\ Harmless([r EXCEPT !.intent = FALSE])
             /\ [r EXCEPT !.same = FALSE] \in CallRecords /\ Harmless([r EXCEPT !.same = FALSE])
             /\ [r EXCEPT !.reply = "aborted"] \in CallRecords
             /\ Harmless([r EXCEPT !.reply = "aborted"])
             /\ [r EXCEPT !.reply = "failed"] \in CallRecords
             /\ Harmless([r EXCEPT !.reply = "failed"])
  BY <1>2, HarmlessLess DEF CallRecords
<1>3. Tame(EpochPasses(cs))  BY <1>1, <1>2 DEF Tame, EpochPasses
<1>4. Tame(SourcePasses(cs))  BY <1>1, <1>2 DEF Tame, SourcePasses
<1>5. Tame(IntentPasses(cs))  BY <1>1, <1>2 DEF Tame, IntentPasses
<1>6. ASSUME NEW S  PROVE Tame(Abort(cs, S))  BY <1>1, <1>2 DEF Tame, Abort
<1>7. Tame(QueuePasses(cs))
  <2> DEFINE as == Abort(cs, {"page"})
  <2>1. as \in [Calls -> CallRecords] /\ \A d \in Calls : Harmless(as[d])  BY <1>6 DEF Tame
  <2>2. QueuePasses(cs) = [d \in Calls |-> [as[d] EXCEPT !.same = FALSE]]  BY DEF QueuePasses
  <2> HIDE DEF as
  <2> QED  BY <1>2, <2>1, <2>2 DEF Tame
<1>8. Tame(Interrupt(cs))  BY <1>1, <1>2 DEF Tame, Interrupt
<1> QED  BY <1>3, <1>4, <1>5, <1>6, <1>7, <1>8

(* What a step does that keeps the choice.                                  *)
Steady == Tame(call)' /\ player'.current = player.current

LEMMA ChoiceKept ==
  ASSUME Chosen, said.choice # NoTrack => Steady, said'.choice = said.choice
  PROVE  Chosen'
BY DEF Chosen, Steady

LEMMA ChoiceEnded ==
  ASSUME said'.choice = NoTrack
  PROVE  Chosen'
BY DEF Chosen

LEMMA CurrentStays ==
  ASSUME NEW p \in PlayerRecords, NEW c \in Calls
  PROVE  Begin(p, c).current = p.current /\ PauseElement(p).current = p.current
BY DEF Begin, PauseElement, PlayerRecords

LEMMA IdleHarmless == Idle \in CallRecords /\ Harmless(Idle)
BY IdleTyped DEF Idle, Harmless

LEMMA BecomesTame ==
  ASSUME NEW c \in Calls, NEW rec \in CallRecords, Harmless(rec), NEW cs, Tame(cs),
         NEW p \in PlayerRecords, p.current = player.current, Becomes(c, rec, cs, p)
  PROVE  Steady
<1>1. Tame(call)'  BY DEF Becomes, Tame
<1>2. player'.current = p.current  BY DEF Becomes, PlayerRecords
<1> QED  BY <1>1, <1>2 DEF Steady

LEMMA AbandonTame ==
  ASSUME NEW c \in Calls, NEW rec \in CallRecords, Harmless(rec), NEW cs, Tame(cs),
         NEW p \in PlayerRecords, p.current = player.current, Abandon(c, rec, cs, p)
  PROVE  Steady
<1>1. CASE ~call[c].intent  BY <1>1, BecomesTame DEF Abandon
<1>2. CASE call[c].intent
  <2> DEFINE r == [rec EXCEPT !.intent = FALSE]
             q == [p EXCEPT !.active = NoCall]
  <2>1. r \in CallRecords /\ Harmless(r)
    <3>1. r \in CallRecords /\ r.op = rec.op /\ r.at = rec.at /\ r.epoch = rec.epoch /\ ~r.intent
      BY DEF CallRecords
    <3> HIDE DEF r
    <3> QED  BY <3>1, HarmlessLess
  <2>2. q \in PlayerRecords /\ q.current = player.current  BY DEF PlayerRecords
  <2>3. Tame(IntentPasses(cs))  BY PassesTame
  <2>4. Becomes(c, r, IntentPasses(cs), q)  BY <1>2 DEF Abandon
  <2> QED  BY <2>1, <2>2, <2>3, <2>4, BecomesTame
<1> QED  BY <1>1, <1>2

(* Loading the current track again, for a call that was asked to.           *)
LEMMA LoadTame ==
  ASSUME NEW c \in Calls, NEW rec \in CallRecords, NEW cs, Tame(cs),
         NEW p \in PlayerRecords, player.current \in Tracks \cup {NoTrack},
         rec.op \in {"resume", "reload"},
         Load(c, rec, cs, p, player.current) \/ LoadFrom(c, rec, cs, p, player.current)
  PROVE  Steady
<1> DEFINE ds == Interrupt(SourcePasses(cs))
           r  == [rec EXCEPT !.at = "starting", !.reply = "none", !.source = TRUE]
           s  == [rec EXCEPT !.at = "loading", !.reply = "none", !.source = TRUE]
<1>1. Tame(ds)
  <2>1. Tame(SourcePasses(cs))  BY PassesTame
  <2> QED  BY <2>1, PassesTame
<1>2. /\ r \in CallRecords /\ r.op = rec.op /\ r.at = "starting"
      /\ s \in CallRecords /\ s.op = rec.op /\ s.at = "loading"
  BY DEF CallRecords, Places
<1>3. call' = [ds EXCEPT ![c] = r] \/ call' = [ds EXCEPT ![c] = s]  BY DEF Load, LoadFrom
<1>4. player'.current = player.current
  <2>1. PauseElement(p) \in PlayerRecords  BY ElementTyped
  <2> QED  BY <2>1 DEF Load, LoadFrom, PlayerRecords
<1> HIDE DEF ds, r, s
<1>5. Harmless(r) /\ Harmless(s)  BY <1>2 DEF Harmless
<1> QED  BY <1>1, <1>2, <1>3, <1>4, <1>5 DEF Steady, Tame

LEMMA PlaysTame ==
  ASSUME NEW c \in Calls, NEW cs, Tame(cs), NEW p \in PlayerRecords,
         p.current = player.current, Plays(c, cs, p)
  PROVE  Steady
<1> DEFINE rec == [Idle EXCEPT !.op = IF p.src = p.current THEN "resume" ELSE "reload",
                               !.epoch = TRUE, !.intent = TRUE]
<1>1. rec \in CallRecords /\ rec.op \in {"resume", "reload"}
  BY IdleTyped DEF Idle, CallRecords, Ops, Places
<1> HIDE DEF rec
<1>2. CASE p.src = p.current
  <2> DEFINE r == [rec EXCEPT !.at = "starting"]
  <2>1. r \in CallRecords /\ r.op \in {"resume", "reload"} /\ r.at = "starting"
    BY <1>1 DEF CallRecords, Places
  <2>2. call' = [cs EXCEPT ![c] = r] /\ player' = [p EXCEPT !.on = TRUE, !.active = c]
    BY <1>2 DEF Plays, rec
  <2> HIDE DEF r
  <2>3. Harmless(r)  BY <2>1 DEF Harmless
  <2> QED  BY <2>1, <2>2, <2>3 DEF Steady, Tame, PlayerRecords
<1>3. CASE p.src # p.current
  <2>1. player.current \in Tracks \cup {NoTrack}  BY DEF PlayerRecords
  <2>2. Load(c, rec, cs, p, player.current) \/ LoadFrom(c, rec, cs, p, player.current)
    BY <1>3 DEF Plays, rec
  <2> QED  BY <1>1, <2>1, <2>2, LoadTame
<1> QED  BY <1>2, <1>3

LEMMA ChosenTyped ==
  ASSUME PInv, Chosen
  PROVE  /\ player \in PlayerRecords /\ said \in Words /\ list \in Lists
         /\ player.current \in Tracks \cup {NoTrack}
         /\ \A c \in Calls : call[c] \in CallRecords
         /\ said.choice # NoTrack =>
              /\ Tame(call) /\ player.current # NoTrack
              /\ \A c \in Calls : Harmless(call[c])
BY Typed DEF Chosen, Tame, PlayerRecords

(* A call that ends, and one that goes on elsewhere without having been     *)
(* able to do any harm.                                                     *)
LEMMA EndsSteady ==
  ASSUME Tame(call), NEW c \in Calls, player \in PlayerRecords,
         Becomes(c, Idle, call, player) \/ Abandon(c, Idle, call, player)
  PROVE  Steady
BY IdleHarmless, BecomesTame, AbandonTame

LEMMA MovedHarmless ==
  ASSUME NEW r \in CallRecords, ~r.epoch /\ ~r.intent, NEW at \in Places,
         NEW reply \in {"none", "ok", "missing", "failed", "aborted"}
  PROVE  /\ [r EXCEPT !.at = at] \in CallRecords /\ Harmless([r EXCEPT !.at = at])
         /\ [r EXCEPT !.at = at, !.reply = reply] \in CallRecords
         /\ Harmless([r EXCEPT !.at = at, !.reply = reply])
<1> DEFINE s == [r EXCEPT !.at = at]
           t == [r EXCEPT !.at = at, !.reply = reply]
<1>1. s \in CallRecords /\ ~s.epoch /\ ~s.intent /\ t \in CallRecords /\ ~t.epoch /\ ~t.intent
  BY DEF CallRecords
<1> HIDE DEF s, t
<1>2. Harmless(s) /\ Harmless(t)  BY <1>1 DEF Harmless
<1> QED  BY <1>1, <1>2 DEF s, t

LEMMA AskedChosen ==
  ASSUME PInv, Chosen, NEW c \in Calls, Asked(c)
  PROVE  Chosen'
<1>1. /\ player \in PlayerRecords /\ said \in Words /\ list \in Lists
      /\ player.current \in Tracks \cup {NoTrack}
  BY ChosenTyped
<1>2. /\ Begin(player, c) \in PlayerRecords /\ Begin(player, c).current = player.current
      /\ PauseElement(player) \in PlayerRecords /\ PauseElement(player).current = player.current
  BY <1>1, ElementTyped, CurrentStays
<1>3. ASSUME said' = Wishes(NoTrack) \/ said' = [said EXCEPT !.choice = NoTrack]  PROVE Chosen'
  BY <1>1, <1>3, ChoiceEnded DEF Wishes, Words
<1>4. ASSUME said' = Wishes(said.choice), said.choice # NoTrack => Steady  PROVE Chosen'
  <2>1. said'.choice = said.choice  BY <1>1, <1>4 DEF Wishes, Words
  <2> QED  BY <1>4, <2>1, ChoiceKept
<1>5. ASSUME said.choice # NoTrack  PROVE Tame(call) /\ Tame(IntentPasses(call)) /\ player.current # NoTrack
  <2>1. Tame(call) /\ player.current # NoTrack  BY <1>5, ChosenTyped
  <2> QED  BY <2>1, PassesTame
<1>6. CASE RandomizePlaylist(c) \/ FilterPlaylistByTag(c) \/ PreparePlaylist(c)
  BY <1>3, <1>6 DEF RandomizePlaylist, FilterPlaylistByTag, Recreate, PreparePlaylist
<1>7. CASE PlayAt(c) \/ NextTrack(c) \/ Previous(c) \/ TrackEnds(c) \/ PrependDirectory(c)
  BY <1>3, <1>7 DEF PlayAt, NextTrack, Previous, TrackEnds, PrependDirectory
<1>8. CASE AskPage(c)
  <2> DEFINE r == [Idle EXCEPT !.op = "page", !.at = "page", !.same = TRUE, !.epoch = TRUE]
  <2>1. r \in CallRecords /\ r.op = "page" /\ r.at = "page"
    BY IdleTyped DEF Idle, CallRecords, Ops, Places, Requests
  <2>2. call' = [call EXCEPT ![c] = r] /\ UNCHANGED <<list, player, said>>
    BY <1>8 DEF AskPage
  <2> HIDE DEF r
  <2>3. Harmless(r)  BY <2>1 DEF Harmless
  <2>4. ASSUME said.choice # NoTrack  PROVE Steady
    BY <1>5, <2>1, <2>2, <2>3, <2>4 DEF Steady, Tame
  <2> QED  BY <2>2, <2>4, ChoiceKept
<1>9. ASSUME NEW t \in Tracks, PlayTrack(c, t)  PROVE Chosen'
  <2> DEFINE r  == [Idle EXCEPT !.op = "playTrack", !.track = t, !.epoch = TRUE, !.intent = TRUE]
             ds == EpochPasses(IntentPasses(call))
             es == SourcePasses(Abort(ds, SelectWork))
             s  == [r EXCEPT !.at = "starting", !.reply = "none", !.source = TRUE]
  <2>1. r \in CallRecords /\ r.op = "playTrack"  BY IdleTyped DEF Idle, CallRecords, Ops
  <2>2. Tame(ds)
    <3>1. call \in [Calls -> CallRecords]  BY Typed DEF Sober
    <3>2. ds \in [Calls -> CallRecords]
      BY <3>1 DEF EpochPasses, IntentPasses, CallRecords
    <3>3. \A d \in Calls : ~ds[d].epoch /\ ~ds[d].intent
      BY <3>1 DEF EpochPasses, IntentPasses, CallRecords
    <3> HIDE DEF ds
    <3> QED  BY <3>2, <3>3 DEF Tame, Harmless
  <2> HIDE DEF ds, r
  <2>3. Tame(Abort(ds, SelectWork))  BY <2>2, PassesTame
  <2>4. Tame(es)  BY <2>3, PassesTame
  <2>5. Tame(Interrupt(es))  BY <2>4, PassesTame
  <2>6. s \in CallRecords /\ s.op = "playTrack" /\ s.at = "starting"
    BY <2>1 DEF CallRecords, Places
  <2>7. /\ call' = [Interrupt(es) EXCEPT ![c] = s]
        /\ player' = [PauseElement(Begin(player, c)) EXCEPT !.current = t, !.src = t, !.on = TRUE,
                                                            !.active = c]
    BY <1>9 DEF PlayTrack, Load, ds, r
  <2> HIDE DEF es, s
  <2>8. Tame(call)'
    <3>1. Harmless(s)  BY <2>6 DEF Harmless
    <3> QED  BY <2>5, <2>6, <2>7, <3>1 DEF Tame
  <2>9. player'.current = t
    <3>1. PauseElement(Begin(player, c)) \in PlayerRecords  BY <1>2, ElementTyped
    <3> QED  BY <2>7, <3>1 DEF PlayerRecords
  <2>10. said'.choice = t  BY <1>1, <1>9 DEF PlayTrack, Wishes, Words
  <2> QED  BY <2>8, <2>9, <2>10 DEF Chosen
<1>10. CASE Resume(c)
  <2>1. ASSUME said.choice # NoTrack  PROVE Steady
    <3>1. Plays(c, IntentPasses(call), Begin(player, c))  BY <1>5, <1>10, <2>1 DEF Resume
    <3> QED  BY <1>2, <1>5, <2>1, <3>1, PlaysTame
  <2> QED  BY <1>4, <1>10, <2>1 DEF Resume
<1>11. CASE Reload(c)
  <2> DEFINE r == [Idle EXCEPT !.op = "reload", !.epoch = TRUE, !.intent = TRUE]
             silent == [Idle EXCEPT !.op = "silent", !.at = "loading", !.epoch = TRUE, !.source = TRUE]
             cs == Interrupt(SourcePasses(call))
             p  == [PauseElement(player) EXCEPT !.src = player.current]
  <2>1. /\ r \in CallRecords /\ r.op = "reload"
        /\ silent \in CallRecords /\ silent.op = "silent" /\ silent.at = "loading"
    BY IdleTyped DEF Idle, CallRecords, Ops, Places
  <2>2. CASE /\ \/ Load(c, r, IntentPasses(call), Begin(player, c), player.current)
                \/ LoadFrom(c, r, IntentPasses(call), Begin(player, c), player.current)
             /\ said' = Wishes(said.choice)
    <3>1. ASSUME said.choice # NoTrack  PROVE Steady
      BY <1>1, <1>2, <1>5, <2>1, <2>2, <3>1, LoadTame
    <3> QED  BY <1>4, <2>2, <3>1
  <2>3. CASE /\ \/ call' = cs /\ player' = [p EXCEPT !.active = NoCall]
                \/ call' = [cs EXCEPT ![c] = silent] /\ player' = p
             /\ UNCHANGED said
    <3>1. p.current = player.current /\ [p EXCEPT !.active = NoCall].current = player.current
      BY <1>2 DEF PlayerRecords
    <3>2. ASSUME said.choice # NoTrack  PROVE Steady
      <4>1. Tame(SourcePasses(call))  BY <1>5, <3>2, PassesTame
      <4>2. Tame(cs)  BY <4>1, PassesTame
      <4> HIDE DEF cs, p, silent
      <4>3. Harmless(silent)  BY <2>1 DEF Harmless
      <4> QED  BY <2>1, <2>3, <3>1, <4>2, <4>3 DEF Steady, Tame
    <3> QED  BY <2>3, <3>2, ChoiceKept
  <2> QED  BY <1>11, <2>2, <2>3 DEF Reload
<1> QED  BY <1>6, <1>7, <1>8, <1>9, <1>10, <1>11 DEF Asked

(* While the choice stays, no queue, page or selection of a call in         *)
(* progress gets through its comparisons.                                   *)
LEMMA GoesOnChosen ==
  ASSUME PInv, Chosen, NEW c \in Calls, GoesOn(c)
  PROVE  Chosen'
<1>1. /\ player \in PlayerRecords /\ said \in Words /\ call[c] \in CallRecords
  BY ChosenTyped
<1>2. CASE said.choice = NoTrack
  <2>1. said'.choice = NoTrack
    <3>1. CASE RecoverySucceeds(c)  BY <1>1, <1>2, <3>1 DEF RecoverySucceeds, Words
    <3>2. CASE CreateSucceeds(c)  BY <1>1, <1>2, <3>2 DEF CreateSucceeds, Words
    <3>3. CASE PrependSucceeds(c)  BY <1>1, <1>2, <3>3 DEF PrependSucceeds, Words
    <3>4. CASE Recovers(c) \/ Reselects(c)  BY <1>1, <1>2, <3>4 DEF Recovers, Reselects, Words
    <3>5. CASE UNCHANGED said  BY <1>2, <3>5
    <3> QED
      BY <3>1, <3>2, <3>3, <3>4, <3>5
         DEF GoesOn, Creates, CreateRetries, CreateIgnored, CreateFails, Pages, PageDone,
             RecoveryFails, Moves, NextPrepared, Restart, NotFound, Found, Selects,
             SelectionSucceeds, SelectionFails, Loads, MetadataLoaded, Started, StartRejected,
             Resumes, ResumePrepared, ResumeNotFound, ResumeFound, Prepends, PrependMisses,
             PrependGoesOn, PrependIgnored, PrependFails
  <2> QED  BY <2>1, ChoiceEnded
<1>3. CASE said.choice # NoTrack
  <2>1. Tame(call) /\ Harmless(call[c]) /\ player.current = said.choice
    BY <1>3, ChosenTyped DEF Chosen
  <2>2. Steady /\ UNCHANGED said => Chosen'  BY ChoiceKept
  <2>3. ASSUME Becomes(c, Idle, call, player) \/ Abandon(c, Idle, call, player), UNCHANGED said
        PROVE  Chosen'
    BY <1>1, <2>1, <2>2, <2>3, EndsSteady
  <2>4. ASSUME NEW r \in CallRecords, Harmless(r), call' = [call EXCEPT ![c] = r], UNCHANGED player
        PROVE  Steady
    BY <2>1, <2>4 DEF Steady, Tame
  <2>5. ASSUME ~call[c].epoch, ~call[c].intent, NEW at \in Places,
               call' = [call EXCEPT ![c].at = at, ![c].reply = "none"], UNCHANGED player
        PROVE  Steady
    <3> DEFINE r == [call[c] EXCEPT !.at = at, !.reply = "none"]
    <3>1. r \in CallRecords /\ Harmless(r)  BY <1>1, <2>5, MovedHarmless
    <3>2. call' = [call EXCEPT ![c] = r]  BY <2>5
    <3> HIDE DEF r
    <3> QED  BY <2>4, <2>5, <3>1, <3>2
  <2>6. CASE Creates(c)
    <3>1. ~call[c].epoch /\ ~call[c].intent
      BY <2>1, <2>6 DEF Harmless, Creates, CreateRetries, CreateIgnored, CreateFails,
                        CreateSucceeds, SelectWork
    <3>2. AfterCreate(c) \in CallRecords /\ Harmless(AfterCreate(c))
      BY <1>1, <3>1, IdleHarmless, MovedHarmless DEF AfterCreate, Places
    <3>3. CASE CreateRetries(c)
      BY <2>2, <2>5, <3>1, <3>3 DEF CreateRetries, Places, Requests, QueueWork
    <3>4. CASE CreateIgnored(c)
      BY <1>1, <2>1, <2>2, <3>2, <3>4, BecomesTame DEF CreateIgnored
    <3> QED  BY <2>6, <3>1, <3>3, <3>4 DEF Creates, CreateFails, CreateSucceeds, Timely
  <2>7. CASE Pages(c)
    <3>1. CASE PageDone(c)  BY <2>3, <3>1 DEF PageDone
    <3>2. CASE Recovers(c)
      <4> DEFINE cs == Abort(call, QueueWork)
                 r  == [cs[c] EXCEPT !.at = "recover", !.reply = "none",
                                     !.pin = player.current # NoTrack]
      <4>1. Tame(cs)  BY <2>1, PassesTame
      <4>2. cs[c].op = call[c].op  BY <1>1 DEF Abort, CallRecords
      <4>3. call' = [cs EXCEPT ![c] = r] /\ UNCHANGED player  BY <3>2 DEF Recovers
      <4>4. cs[c] \in CallRecords  BY <4>1 DEF Tame
      <4>5. call[c].op = "page"
        BY <2>1, <3>2 DEF Harmless, Recovers, MayRecover, SelectWork
      <4> HIDE DEF cs
      <4>6. r \in CallRecords /\ r.op = "page" /\ r.at = "recover"
        BY <4>2, <4>4, <4>5 DEF CallRecords, Places, Requests, QueueWork
      <4> HIDE DEF r
      <4>7. Harmless(r)  BY <4>6 DEF Harmless
      <4>8. Steady  BY <4>1, <4>3, <4>6, <4>7 DEF Steady, Tame
      <4>9. said'.choice = said.choice  BY <1>1, <3>2 DEF Recovers, Words
      <4> QED  BY <4>8, <4>9, ChoiceKept
    <3>3. CASE RecoverySucceeds(c)
      <4>1. call[c].op = "page"
        BY <2>1, <3>3 DEF Harmless, RecoverySucceeds, Timely, SelectWork
      <4>2. said'.choice = IF player'.current = said.choice THEN said.choice ELSE NoTrack
        BY <1>1, <3>3 DEF RecoverySucceeds, Words
      <4>3. PICK queue : Applies(c, Idle, queue)
        BY <3>3, <4>1 DEF RecoverySucceeds, AfterRecovery
      <4>4. Tame(call)'
        <5> DEFINE cs == QueuePasses(call)
        <5>1. Tame(cs)  BY <2>1, PassesTame
        <5> HIDE DEF cs
        <5>2. Tame(Interrupt(cs))  BY <5>1, PassesTame
        <5>3. call' = [cs EXCEPT ![c] = Idle] \/ call' = [Interrupt(cs) EXCEPT ![c] = Idle]
          BY <4>1, <4>3 DEF Applies, Quits, Becomes, cs
        <5> QED  BY <5>1, <5>2, <5>3, IdleHarmless DEF Tame
      <4> QED  BY <4>2, <4>4 DEF Chosen
    <3>4. CASE RecoveryFails(c)
      <4>1. CASE call[c].op = "page"  BY <2>3, <3>4, <4>1 DEF RecoveryFails
      <4>2. CASE call[c].op # "page"
        <5> DEFINE q == [call[c] EXCEPT !.at = "page", !.reply = "failed"]
                   r == [call[c] EXCEPT !.at = "page", !.reply = "failed", !.pin = FALSE]
        <5>1. ~call[c].epoch /\ ~call[c].intent
          BY <2>1, <3>4, <4>2 DEF Harmless, RecoveryFails, SelectWork
        <5>2. q \in CallRecords /\ Harmless(q)
          BY <1>1, <5>1, MovedHarmless DEF Places, Requests
        <5>3. r = [q EXCEPT !.pin = FALSE]  OBVIOUS
        <5>4. Becomes(c, r, call, player) /\ UNCHANGED said  BY <3>4, <4>2 DEF RecoveryFails
        <5> HIDE DEF q
        <5>5. [q EXCEPT !.pin = FALSE] \in CallRecords /\ Harmless([q EXCEPT !.pin = FALSE])
          BY <5>2, HarmlessLess DEF CallRecords
        <5> HIDE DEF r
        <5> QED  BY <1>1, <2>1, <2>2, <5>3, <5>4, <5>5, BecomesTame
      <4> QED  BY <4>1, <4>2
    <3> QED  BY <2>7, <3>1, <3>2, <3>3, <3>4 DEF Pages
  <2>8. CASE Moves(c)
    <3>1. call[c].at \in {"prepared", "restart", "page"}
      BY <2>8 DEF Moves, NextPrepared, Restart, NotFound, Found
    <3>2. ~call[c].epoch /\ ~call[c].intent
      BY <2>1, <2>8, <3>1 DEF Harmless, SelectWork, Moves, NextPrepared, Restart, NotFound, Found
    <3>3. /\ Becomes(c, Idle, call, player) \/ Abandon(c, Idle, call, player)
          /\ UNCHANGED said
      BY <2>8, <3>2 DEF Moves, NextPrepared, Restart, NotFound, Found, Late
    <3> QED  BY <2>3, <3>3
  <2>9. CASE Selects(c)
    <3>1. CASE Reselects(c)
      <4> DEFINE r == [call[c] EXCEPT !.at = "reselect", !.reply = "none"]
      <4>1. /\ r \in CallRecords /\ r.op = call[c].op /\ r.at = "reselect"
            /\ r.epoch = call[c].epoch /\ r.intent = call[c].intent
        BY <1>1 DEF CallRecords, Places, Requests, SelectWork
      <4>2. call' = [call EXCEPT ![c] = r] /\ UNCHANGED player  BY <3>1 DEF Reselects
      <4> HIDE DEF r
      <4>3. Harmless(r)  BY <2>1, <3>1, <4>1 DEF Harmless, Reselects, SelectWork
      <4>4. said'.choice = said.choice  BY <1>1, <3>1 DEF Reselects, Words
      <4> QED  BY <2>4, <4>1, <4>2, <4>3, <4>4, ChoiceKept
    <3>2. CASE SelectionSucceeds(c)
      <4>1. Tame(QueuePasses(call))  BY <2>1, PassesTame
      <4>2. Becomes(c, Idle, call, player) \/ Becomes(c, Idle, QueuePasses(call), player)
        BY <3>2 DEF SelectionSucceeds
      <4>3. Steady  BY <1>1, <2>1, <4>1, <4>2, IdleHarmless, BecomesTame
      <4> QED  BY <2>2, <3>2, <4>3 DEF SelectionSucceeds
    <3>3. CASE SelectionFails(c)  BY <2>3, <3>3 DEF SelectionFails
    <3> QED  BY <2>9, <3>1, <3>2, <3>3 DEF Selects
  <2>10. ASSUME NEW cs, Tame(cs), NEW p \in PlayerRecords, p.current = player.current,
                AfterPlaying(c, cs, p)
         PROVE  Steady
    <3>1. CASE call[c].op = "playTrack" /\ call[c].epoch
      <4> DEFINE r == [call[c] EXCEPT !.at = IF list.queue = "none" THEN "reselect" ELSE "select",
                                      !.reply = "none", !.source = FALSE]
      <4>1. r \in CallRecords /\ r.op = "playTrack" /\ r.at \in SelectWork
        BY <1>1, <3>1 DEF CallRecords, Places, Requests, SelectWork
      <4>2. Becomes(c, r, Abort(cs, SelectWork), p)  BY <2>10, <3>1 DEF AfterPlaying, Reconcile
      <4> HIDE DEF r
      <4>3. Harmless(r)  BY <4>1 DEF Harmless
      <4>4. Tame(Abort(cs, SelectWork))  BY <2>10, PassesTame
      <4> QED  BY <2>10, <4>1, <4>2, <4>3, <4>4, BecomesTame
    <3>2. CASE ~(call[c].op = "playTrack" /\ call[c].epoch)
      <4>1. Becomes(c, Idle, cs, p)  BY <2>10, <3>2 DEF AfterPlaying
      <4> QED  BY <2>10, <4>1, IdleHarmless, BecomesTame
    <3> QED  BY <3>1, <3>2
  <2>11. CASE Loads(c)
    <3>1. CASE MetadataLoaded(c)
      <4> DEFINE q == [player EXCEPT !.playing = FALSE, !.active = NoCall]
                 r == [call[c] EXCEPT !.at = "starting"]
                 p == [player EXCEPT !.on = TRUE, !.active = c]
      <4>1. /\ q \in PlayerRecords /\ q.current = player.current
            /\ p \in PlayerRecords /\ p.current = player.current
        BY <1>1 DEF PlayerRecords
      <4>2. /\ r \in CallRecords /\ r.op = call[c].op /\ r.at = "starting"
            /\ r.epoch = call[c].epoch /\ r.intent = call[c].intent
        BY <1>1 DEF CallRecords, Places
      <4>3. \/ Becomes(c, Idle, call, q)
            \/ call' = [call EXCEPT ![c] = r] /\ player' = p
            \/ Becomes(c, Idle, call, player)
        BY <3>1 DEF MetadataLoaded
      <4> HIDE DEF r, p, q
      <4>4. Harmless(r)
        BY <2>1, <3>1, <4>2 DEF Harmless, MetadataLoaded, SelectWork
      <4>5. CASE Becomes(c, Idle, call, q) \/ Becomes(c, Idle, call, player)
        <5>1. Steady  BY <1>1, <2>1, <4>1, <4>5, IdleHarmless, BecomesTame
        <5> QED  BY <2>2, <3>1, <5>1 DEF MetadataLoaded
      <4>6. CASE call' = [call EXCEPT ![c] = r] /\ player' = p
        <5>1. Steady  BY <2>1, <4>1, <4>2, <4>4, <4>6 DEF Steady, Tame
        <5> QED  BY <2>2, <3>1, <5>1 DEF MetadataLoaded
      <4> QED  BY <4>3, <4>5, <4>6
    <3>2. CASE Started(c)
      <4> DEFINE p == [player EXCEPT !.playing = TRUE]
                 q == [PauseElement(player) EXCEPT !.active = NoCall,
                                                   !.playing = @ \/ call[c].intent]
      <4>1. p \in PlayerRecords /\ p.current = player.current  BY <1>1 DEF PlayerRecords
      <4>2. q \in PlayerRecords /\ q.current = player.current
        BY <1>1 DEF PauseElement, PlayerRecords, CallRecords
      <4>3. Tame(Interrupt(call))  BY <2>1, PassesTame
      <4>4. \/ AfterPlaying(c, call, p)
            \/ AfterPlaying(c, Interrupt(call), q)
            \/ AfterPlaying(c, call, player)
        BY <3>2 DEF Started
      <4>5. Steady  BY <1>1, <2>1, <2>10, <4>1, <4>2, <4>3, <4>4
      <4> QED  BY <2>2, <3>2, <4>5 DEF Started
    <3>3. CASE StartRejected(c)
      <4> DEFINE p == [player EXCEPT !.playing = FALSE, !.active = NoCall]
      <4>1. p \in PlayerRecords /\ p.current = player.current  BY <1>1 DEF PlayerRecords
      <4>2. AfterPlaying(c, call, p) \/ AfterPlaying(c, call, player)  BY <3>3 DEF StartRejected
      <4>3. Steady  BY <1>1, <2>1, <2>10, <4>1, <4>2
      <4> QED  BY <2>2, <3>3, <4>3 DEF StartRejected
    <3> QED  BY <2>11, <3>1, <3>2, <3>3 DEF Loads
  <2>12. CASE Resumes(c)
    <3>1. ~call[c].epoch /\ ~call[c].intent
      BY <2>1, <2>12 DEF Harmless, SelectWork, Resumes, ResumePrepared, ResumeNotFound, ResumeFound
    <3>2. Abandon(c, Idle, call, player) /\ UNCHANGED said
      BY <2>12, <3>1 DEF Resumes, ResumePrepared, ResumeNotFound, ResumeFound, Late
    <3> QED  BY <2>3, <3>2
  <2>13. CASE Prepends(c)
    <3>1. call[c].at \in {"prepend", "temporary", "prependNew"}
      BY <2>13 DEF Prepends, PrependMisses, PrependGoesOn, PrependIgnored, PrependFails,
                   PrependSucceeds
    <3>2. ~call[c].epoch /\ ~call[c].intent  BY <2>1, <3>1 DEF Harmless, SelectWork
    <3>3. CASE PrependMisses(c)
      BY <2>2, <2>5, <3>2, <3>3 DEF PrependMisses, Places, Requests, QueueWork
    <3>4. CASE PrependIgnored(c) \/ PrependFails(c)
      BY <2>3, <3>4 DEF PrependIgnored, PrependFails
    <3> QED  BY <2>13, <3>2, <3>3, <3>4 DEF Prepends, PrependGoesOn, PrependSucceeds, Timely
  <2> QED  BY <2>6, <2>7, <2>8, <2>9, <2>11, <2>12, <2>13 DEF GoesOn
<1> QED  BY <1>2, <1>3

LEMMA OthersChosen ==
  ASSUME PInv, Chosen,
         \/ \E c \in Calls, reply \in {"ok", "missing", "failed"} : Answers(c, reply)
         \/ MediaError \/ PauseEvent \/ Pause \/ Reset \/ ReleaseQueue
  PROVE  Chosen'
<1>1. player \in PlayerRecords /\ said \in Words  BY ChosenTyped
<1>2. CASE Reset  BY <1>2, ChoiceEnded DEF Reset
<1>3. CASE ~Reset
  <2>1. said'.choice = said.choice
    BY <1>1, <1>3 DEF Answers, MediaError, PauseEvent, Pause, ReleaseQueue, Words
  <2>2. player'.current = player.current
    BY <1>1, <1>3 DEF Answers, MediaError, PauseEvent, Pause, ReleaseQueue, PauseElement,
                      PlayerRecords
  <2>3. ASSUME said.choice # NoTrack  PROVE Tame(call)'
    <3>1. Tame(call) /\ \A c \in Calls : call[c] \in CallRecords /\ Harmless(call[c])
      BY <2>3, ChosenTyped
    <3>2. ASSUME NEW c \in Calls, NEW reply \in {"ok", "missing", "failed"}, Answers(c, reply)
          PROVE  Tame(call)'
      <4> DEFINE r == [call[c] EXCEPT !.reply = reply]
      <4>1. /\ r \in CallRecords /\ r.op = call[c].op /\ r.at = call[c].at
            /\ r.epoch = call[c].epoch /\ r.intent = call[c].intent
        BY <3>1 DEF CallRecords
      <4>2. call' = [call EXCEPT ![c] = r]  BY <3>2 DEF Answers
      <4> HIDE DEF r
      <4>3. Harmless(r)  BY <3>1, <4>1, HarmlessLess
      <4> QED  BY <3>1, <4>1, <4>2, <4>3 DEF Tame
    <3>3. CASE MediaError
      <4> DEFINE cs == [d \in Calls |->
                          IF call[d].at = "loading"
                          THEN [call[d] EXCEPT !.at = "starting", !.reply = "failed"]
                          ELSE Interrupt(call)[d]]
      <4>1. Tame(Interrupt(call))  BY <3>1, PassesTame
      <4>2. ASSUME NEW d \in Calls, call[d].at = "loading"
            PROVE  /\ [call[d] EXCEPT !.at = "starting", !.reply = "failed"] \in CallRecords
                   /\ Harmless([call[d] EXCEPT !.at = "starting", !.reply = "failed"])
        <5> DEFINE r == [call[d] EXCEPT !.at = "starting", !.reply = "failed"]
        <5>1. /\ r \in CallRecords /\ r.op = call[d].op /\ r.at = "starting"
              /\ r.epoch = call[d].epoch /\ r.intent = call[d].intent
          BY <3>1 DEF CallRecords, Places
        <5> HIDE DEF r
        <5>2. Harmless(r)  BY <3>1, <4>2, <5>1 DEF Harmless, SelectWork
        <5> QED  BY <5>1, <5>2 DEF r
      <4>3. call' = cs  BY <3>3 DEF MediaError
      <4>4. Tame(cs)  BY <4>1, <4>2 DEF Tame
      <4> HIDE DEF cs
      <4> QED  BY <4>3, <4>4 DEF Tame
    <3>4. CASE Pause
      <4>1. Tame(IntentPasses(call))  BY <3>1, PassesTame
      <4>2. Tame(Interrupt(IntentPasses(call)))  BY <4>1, PassesTame
      <4> QED  BY <3>4, <4>2 DEF Pause, Tame
    <3>5. CASE ReleaseQueue
      <4>1. Tame(AbortQueueWork(call))  BY <3>1, PassesTame DEF AbortQueueWork
      <4> QED  BY <3>5, <4>1 DEF ReleaseQueue, Tame
    <3>6. CASE PauseEvent  BY <3>1, <3>6 DEF PauseEvent, Tame
    <3> QED  BY <1>3, <3>2, <3>3, <3>4, <3>5, <3>6
  <2> QED  BY <2>1, <2>2, <2>3, ChoiceKept DEF Steady
<1> QED  BY <1>2, <1>3

(* A chosen track stays the current one until the user's next command, the  *)
(* end of the track, a recovery whose pin is refused or a first queue made  *)
(* by the application: what was asked before the choice has lost both       *)
(* counters by which it could select another, and what is asked after it    *)
(* cannot select one at all.                                                *)
THEOREM ChoiceIsKept == Spec => []ChoiceStays
<1>1. Init => Chosen  BY DEF Init, Chosen
<1>2. PInv /\ Chosen /\ [Next]_vars => Chosen'
  <2>1. ASSUME Chosen, UNCHANGED vars  PROVE Chosen'  BY <2>1 DEF vars, Chosen, Tame
  <2> QED  BY <2>1, AskedChosen, GoesOnChosen, OthersChosen DEF Next
<1>3. Chosen => ChoiceStays  BY DEF Chosen, ChoiceStays
<1> QED  BY <1>1, <1>2, <1>3, PlayerInvariant, PTL DEF Spec
=============================================================================
