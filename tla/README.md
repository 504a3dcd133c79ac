# ShuffleMuse: specifications, model checking and proofs

ShuffleMuse is a self-hosted music server: one Go process that scans a music
directory, serves browsing, tags and shuffled play queues over HTTP, streams
files natively or through ffmpeg, and ships a Vue single-page client. This
directory holds TLA+ specifications of its concurrent and stateful parts, the
TLC configurations that check them on small instances, and proofs, checked by
TLAPS, that hold for every value of the constants. `PROJECT.json` maps each
definition to the lines of source it was translated from.

## 1. Inventory

### Parts, their state and operations

| Part | Source | State | Operations |
|---|---|---|---|
| Media process manager | `internal/mediaexec/manager.go` | lane counters, three wait queues, active tasks, WaitGroup, closing flag | `Start`, `Task.Done`, `Shutdown` |
| Rescanner | `internal/index/rescan.go` | status (state, ready, generation), published index, trigger channel, three locks | `run` (scan, publish), `Rescan`, `View`, `WithSnapshot`, `BeginShutdown`, `Stop` |
| Tag store | `internal/tags/store.go` | two bbolt buckets (`files`, `tags`) | `AddTag`, `RemoveTag`, `DeleteOrphan`, `MigrateToRelativePaths` |
| Tag and graveyard handlers | `internal/api/handler.go`, `graveyard.go` | the snapshot a request was admitted with | add, remove, delete graveyard record |
| Play queues | `internal/playqueue/manager.go`, `internal/api/queue.go` | queues by token digest, shared snapshots with reference counts, byte total, build gate | `Create`, `Page`, `Select`, `Prepend`, `Delete`, expiry, eviction |
| Metadata reader | `internal/stream/metadata.go` | cache, in-flight probes with waiters | join, leave, complete, expire |
| Cover loader | `internal/cover/loader.go` | byte-bounded cache, describe and render flights | describe, render, store, evict |
| Transcoded stream | `internal/stream/transcode.go` | commit state of the response, startup timer, process | first byte, timeout, end of process |
| Sessions and login guard | `internal/auth/auth.go`, `login_guard.go` | sessions by digest, attempts and bans by address | create, validate, evict; check, failure, success |
| Server | `cmd/server/main.go` | the order of start and shutdown | `BeginShutdown`, `srv.Shutdown` (30 s, then `Close`), `rescanner.Stop`, `mediaManager.Shutdown`, `tagStore.Close` |
| Player store (client) | `web/src/stores/player.ts` | queue, cached pages, position, audio intents, epochs | create, page, select, prepend, recover, release |
| Library, tag, auth stores (client) | `web/src/stores/{library,tags,auth}.ts` | polled status, tag pages, login state | poll, rescan, load page, check, login, logout |
| Pure reads and I/O | browse, search, pagination, tag export, resolver, config, middleware, client address, native streaming, views | none that outlives a request | |

### How they interact

* Every ffmpeg and ffprobe invocation (stream, cover, metadata) asks the media
  process manager for a task and gives it back with `Done`.
* `withLibraryReady` gives each request one snapshot (index, generation); browse,
  tags, queues and covers use that pair to the end, however long ago it was
  published.
* Before a snapshot is published, the Rescanner calls a hook of `main` that
  migrates the tag database against the new paths, under the write lock that
  `WithSnapshot` takes for reading. Graveyard deletion runs inside
  `WithSnapshot`.
* Play queues share one retained index per generation. They rely on the
  Rescanner's promise that equal generations have equal paths.
* The client polls the status, and recovers a queue that the server has evicted.
* `main` shuts everything down in a fixed order with a deadline for the HTTP part.

### What is hard here, and the properties that make each part correct

* **Media manager**: a wait ends by grant, timeout, cancellation or shutdown, and
  Go's `select` picks any ready branch, so a grant can race a cancellation. Never
  more processes than the limit; no task without a caller that ends it; no lost
  wakeup and no blocking send under the mutex; no free lane beside a waiter; order
  within a kind; no starvation of renders; nothing after a drained shutdown.
* **Rescanner**: a scan is claimed under a lock but triggered after it; three locks
  and an atomic flag; errors at three places. One owner per announced scan; a
  generation names one path set; publication excludes `WithSnapshot`; readiness
  survives failed scans; nobody admitted after the signal; scans and `Stop` end.
* **Tag store**: the duplicate check looks at one bucket, the append goes to the
  other; removal reads in one transaction and writes in another; migration merges.
  The buckets agree; an online file keeps its tags; migration loses nothing, over
  crashes.
* **Play queues**: building and searching happen outside the mutex on objects that
  others replace, delete or evict. Exact reference counts and bytes; limits; no
  track twice; positions keep their meaning; a replacement happens once and loses
  no track; no leaked build slot.
* **Metadata, covers**: flights that several requests join and leave, one kind of
  which waits on another; files that change between stat, discovery and rendering. No
  request is cancelled by another's departure, none is forgotten, one wanted flight for
  each key; what is cached of an unchanged file was read from it; an undisturbed request
  gets what the files hold; the bytes of the cache add up.
* **Transcoding**: handler, watcher, process, client, startup deadline and shutdown end
  a stream in any order. The process dies before its lane comes back, the answer fits
  what happened, and a lane is not held by a stream that does not flow.
* **Login**: check, password and record are separate sections. Map and lists of the
  guard agree; a running ban is not lifted by others; at the limit only the least
  recently used session goes.
* **Client stores**: late responses after newer intents, events of the audio element
  after the element has moved on. A pause is final; a chosen track is not replaced by
  older work; a lost queue is recovered once.

`PROJECT.json` lists these as hazards at their lines.

## 2. Modules and how they correspond to the code

| Module | Models |
|---|---|
| `MediaManager` | `mediaexec.Manager`, every branch of `Start`, `cancelWaiter`, `finish`, `scheduleLocked`, `Shutdown` |
| `MediaLanes` | abstract specification: lanes of fixed size, without queues, channels or locks |
| `MediaTurns` | the order of service across kinds that share a lane, over `MediaManager` with a history variable |
| `LibraryPaths` | constants shared by everything that names files |
| `LibrarySnapshots` | abstract specification: the published pair (index, generation) |
| `Rescanner` | `index.Rescanner`, the requests that use it, and `main`'s start and stop of it |
| `TagStore` | `tags.Store` as transactions on two buckets |
| `TaggedFiles` | abstract specification: one relation of files and tags, and the files online |
| `Library` | Rescanner composed with TagStore: the hook of `main`, the tag and graveyard handlers, a crash |
| `Playlists` | abstract specification: the playlists a client sees under its tokens |
| `PlayQueue` | `playqueue.Manager` over `LibrarySnapshots` |
| `Flights` | the shared-work group: flights in a map, joined, left, abandoned, landed |
| `MetadataProbe` | `stream/metadata.go`: identity by stat, two caches, one ffprobe flight per identity |
| `CoverLoader` | `cover/loader.go` and `api/cover.go` over `MetadataProbe`: description, cache of descriptors, rendering |
| `Transcode` | `stream/transcode.go` and the stream handler over `MediaLanes` |
| `Login` | the login and logout handlers over `LoginGuard` and the session table |
| `PlayerStore` | `web/src/stores/player.ts` with its audio element, against any server |
| `MC...` | TLC instances of `MediaManager`, `MediaTurns`, `Rescanner`, `Library`, `PlayQueue`, `CoverLoader`, `Transcode`, `Login` and `PlayerStore`: symmetry sets and constant values only |
| `...Proofs` | theorems and proofs: one module each for `MediaManager` with `MediaTurns`, `Rescanner` with `Library`, `PlayQueue`, `Flights`, `MetadataProbe` with `CoverLoader`, `Transcode`, `Login`, `PlayerStore` |

Composition:

* `Library` EXTENDS `Rescanner` and `TagStore`, and implements `TaggedFiles`: `tagged`
  holds the union of what the two buckets record, `online` the published Index.
* `PlayQueue` EXTENDS `LibrarySnapshots`, which `Rescanner` implements, so what is
  checked of the queues over the small abstraction holds over the real publisher.
  `PlayQueue` implements `Playlists`: `lists` has the live queues, each as what `Page`
  would read of it, `asked` and `given` the operation and the token of each request.
* `Transcode` takes its steps with the manager from an instance of `MediaLanes`, which
  `MediaManager` implements.
* `CoverLoader` EXTENDS `MetadataProbe`, so that requests for metadata and for covers
  share probes, and `Flights` is instantiated three times: for probes, descriptions and
  renderings.

**MediaManager.** A caller is a goroutine between `Start` and `Done` and stands for
its waiter and its task. The mutex is a variable only where the lock is held over
several steps, in `scheduleLocked`: contexts end, timers fire and results are
received between two iterations of its loop. All other critical sections are one
action with the guard `mu = {}`. The sequence numbers, which are only compared, are
the relation `ahead`. The three counters are one function over lanes; `Lane` and
`LaneSize` say which of them a configuration uses. Refusals return with nothing
changed and are stuttering. The value of the high-priority streak is kept up to
`HighBurst`, beyond which it makes no difference. `MediaTurns` adds the one variable
`passed`, which counts, for each waiting render, the AuxHigh processes started since it was
queued; it restricts no step of the manager.

**Rescanner.** `runner` is the program counter of the scanning goroutine, with a
step between the walk and the `stopping` check, between that check and
`publishMu.Lock`, and between the hook and the publication. `RWMutex` lets no new
reader in while a writer waits, hence the guard of `EnterSnapshot`. `main` goes
through its sequence; the flag and the status of `BeginShutdown` are two steps, for
the flag is atomic and the status under a lock. `scanError`, `lastScan` and the
initial non-nil index of `NewRescanner`, which `main` does not use, are left out.

**TagStore and Library.** A bbolt update is one atomic, durable action. The arrays
of the `tags` bucket are modelled by how often they list a path, because `AddTag`
appends blindly and `removeFromSlice` drops one occurrence. `handleRemoveTag` is two
actions, as its two transactions are. `Crash` resets everything except the buckets.
The configuration without a legacy root is the instance with no `Legacy` paths.

**PlayQueue.** `store` is what `Manager.mu` guards; each locked section is one
action that includes expiry, replacement, retention and eviction, as the code does
them under one lock. What happens outside the mutex is a step of its own:
`CreateBuilds` reads the canonical snapshot, `SelectReads` and `PrependReads`
capture an immutable queue, and the commits re-check. Times are abstract: eviction
takes any minimal sufficient set of other queues, which includes the least recently
used ones, and any queue may be found expired; so no property here depends on LRU.
The deferred release of the build slot never blocks and is part of the step that
knows the answer.
A shuffled order is its set of positions, and a position is the path it has in the
index it was computed from (`built`). `Drop` is `Delete`, and also the removal of an
expired queue that `Page`, `Select` or `Prepend` come across. Found tracks in
`Select` and all of `Page` only read.

**Flights.** The code has this group three times, with the same mutex discipline: a map
from key to flight, a count of waiters, a context that the last waiter cancels as it takes
the flight out of the map, and a goroutine that lands the result later, perhaps when a
second flight of the key is in the air. `at` says which flight each caller waits on; the
count in the record is kept as the code keeps it, and that the two agree is a theorem.

**MetadataProbe.** A file is its path and the number of its version; `Inspect` is the stat
before the mutex, `ProbeReads` the moment when ffprobe opens the path, `RunFlight` the end
of the goroutine, which caches under the identity it was given. What ffprobe reads of a
version is fixed by `Broken` and `Pictures`. Of any file, and before it is opened as well as
after, the run may be refused or killed, its output may be lost, or ffprobe may exit with an
error: this last outcome, "failed", is the one that the code takes for a property of the file
and remembers, whatever the reason was. Both LRU lists are sequences, with entries that may
lapse.

**CoverLoader.** A request goes through the stages of the handler: description from the
directory, then from the track, then the original bytes or a rendering, each from the
cache or in a flight. A description flight is a caller of the probe flights, so an
abandoned description leaves its probe, as the cancelled context does. `inputs` bounds what
comes from outside. `disturbed` marks the requests that no promise is made to: those during
which a file changed, and those that joined a reading of the directory which began
earlier.

**Transcode.** Three parties per request: the handler with its program counter, the
watcher goroutine, the process. The client leaves or stalls, the startup deadline passes,
the manager closes. `Write` in `io.Copy` may fail, may return a positive count with an error,
and blocks on a stalled client until the write deadline. `Result` is what
`TranscodeAtWithConfig` returns; `AnswerTo` is what the handler makes of it.

**Login.** An attempt is a handler between its sections: `Check`, the body and the
password, then `Failure` or `Success` and a session. Time is a counter; bans and sessions
lapse by it. The recency list of pending failures is the relation `newer`. Sweeps are part
of the steps that call them.

**PlayerStore.** A function of the store runs from one `await` to the next in one step. The
three counters (`playEpoch`, `playbackIntent`, `sourceRequest`) are only compared with a
value read before, so a call carries, for each, whether it is still the same. The
abort controllers answer a request with "aborted". The server answers anything at any time. The
audio element is on or off, with a pause event on its way. `said` is history: the
track the user chose last, whether silence was asked for, recoveries since a queue was
made.

## 3. Runs

| Run | Instance | Question |
|---|---|---|
| `lanes` | 4 callers, 2 places, 1 reserved, queues of 2 transcodes and 3 others, burst 1 | safety of the manager with dedicated lanes, how often a waiting render is passed, refinement of `MediaLanes` |
| `timed` | 2 callers, 1 shared place, timers and kills fair | every `Start` returns; shutdown ends every task |
| `busy` | 3 patient callers, 1 shared place, burst 4 | no waiter starves; who starts before a waiting transcode |
| `rescanner` | 3 requests, 2 paths, 3 generations | safety of scans, snapshots and shutdown; refinement of `LibrarySnapshots`; scans end and so does `Stop` |
| `library` | 2 requests, 2 paths, 2 legacy paths of one file, 2 tags, 2 generations | tags over migration, deletion, crash; refinement of `TaggedFiles` |
| `queues` | 2 requests, 3 tokens, 2 paths, 2 generations, 2 queues, 8 bytes, 1 slot, 1 waiting place | accounts, limits, positions and replacement of the play queues, and their build gate; refinement of `Playlists` |
| `covers` | 2 connections, 1 track, 3 probes, 3 descriptions, 2 renderings, 2 track and 3 cover versions, 4 outside inputs, caches of 1 reading and of 2 descriptors in 3 bytes | answers, sharing and caches of metadata and covers; nobody cancelled by others or forgotten |
| `transcode` | 2 requests, 1 place, 2 pieces of output | process within its lane, answers that fit, lanes that come back |
| `login` | 3 clients, 2 attempts, 3 tokens, 2 failures to a ban, 2 entries, 2 sessions, clock to 3 | guard, bans and sessions at their limits |
| `covers_failures` | the same as `covers` | expected violation, see the findings below |
| `player` | 2 calls in progress, 2 tracks | silence, choice and single recovery over all functions of the store |
| `player_sound` | the same | expected violation, see the findings below |

Every property of a passing run has a mutant: a plausible bug put in the place of
one mapped definition, under which TLC finds that property violated in the same run.
The mutated forms stand before the definitions, marked "Mutation".

### Bounds and why they are enough

* Four callers over two one-place lanes fill every lane, fill a queue and still leave
  a caller to race; queues of two and three show order and removal from the middle; a burst of
  one reaches the burst branch with few callers, and `busy` uses the code's 4, where
  the bound matters because the property is about an endless stream.
* A queue of three in `lanes` holds two renders and an AuxHigh. The bound of
  `RendersGetTheirTurn` is reached there: with `<` in the place of `<=`, TLC finds a
  counterexample. `ListenersKeepTheirPlace` says something only of a shared lane, as in `busy`.
* Three requests against one publisher are a claimer, a reader and a latecomer; three
  generations allow a path set to come back after another (the A-B-A case).
  `MaxGeneration` only stops the disk from changing, not scans or errors.
* Two legacy paths for one file make migration merge two records into one that may
  have tags; two tags distinguish a lost tag from a lost file.
* Two queue requests may both replace the same queue, with deletions, expiry and
  publications between; the third token is always free for one of them. With one build
  slot and one place, one of them waits for the other with the queue and the generation
  it has read, or gives up; deletions, selections and publications go on beside a build.
  That two builds at a time do no harm either is left to the theorems of section 4,
  which hold for any number of slots. Eight bytes hold a full queue of two tracks with
  its snapshot, but not one with both tracks in its prefix, nor two full queues of
  different generations, so the refusal for size and the eviction by bytes and by number
  all occur.
* Two connections share one probe, description or rendering, or use one each; three probes
  or descriptions let an abandoned one, its successor and a third coexist, and two
  renderings an abandoned one and its successor. The four inputs are shared by requests,
  file changes and departures, so that, for example, a cached descriptor meets a changed
  file and a second request. A cache of two descriptors in three bytes (a found descriptor
  takes two, a miss one) is full by number and, with other contents, by bytes.
* Two requests for one place are a stream and one that waits for its lane. Two pieces of
  output are the first write and one after it, which is all that the code tells apart.
* Two attempts are one login that stands between its sections and one that overtakes it;
  three clients for two entries make room necessary; two sessions and three tokens make
  eviction necessary; the clock reaches a ban, its end and a second ban.
* Two calls of the store are an earlier and a later one, which is the shape of every race
  in it; a call that has ended is free to be the next one, so longer histories occur too.

`CHECK_DEADLOCK FALSE` is in the configurations of the server because it may stop:
it has been shut down, its clients ask for nothing more, or a bound is used up. The two
configurations of the player check for deadlock.

### What the violated runs show

`covers_failures` states what `docs/ARCHITECTURE.md:222` says of failures: those of the
command or its JSON that are deterministic are remembered for 30 seconds, temporary I/O is
not. `FailuresAreOfTheFile` is violated in four steps: a good file is identified, ffprobe
exits with an error (before it has opened the file, because it is unreadable for a moment,
or later, because of a read error or a kill from outside), and `probeCommand`
(`metadata.go:319-322`) makes of any exit with an error a `deterministicMetadataError`, which
`runFlight` caches under the identity of the good file. Until the entry lapses, metadata are
refused and the track has no embedded cover.

`player_sound` states what `docs/ARCHITECTURE.md:268` says of pausing and of another
selection: the old intent becomes invalid, and a late task cannot start the old audio.
`LateStartIsStopped` is violated: while a track is starting, the user prepends a directory,
or skips to another track; this takes over the intent (`player.ts:371`); it fails, and
`abandonPlayback` (`player.ts:396`) clears `activeMediaPlaybackIntent` but leaves the
element alone. Then the element's `play()` succeeds; the call that started it is late and,
as the active intent is not its own any more, does not stop the element (`player.ts:628`).
The older track sounds, and the store shows it as paused.

### Fairness and what in the code justifies it

* A runnable goroutine runs: weak fairness of local steps and channel receives.
* A blocked `sync.Mutex.Lock` succeeds when the mutex is free again and again,
  which Go's starvation mode provides: strong fairness of the steps that take the
  mutex in `cancelWaiter` and `finish`.
* `time.NewTimer` fires: weak fairness of `TimerFires`, in `TimedSpec` only.
* A process whose context is cancelled is killed (`exec.CommandContext`), and its
  caller then calls `Done`: strong fairness of `Finish` for killed tasks. No other
  task is assumed to end, except in `BusySpec`, whose question is what happens while
  tasks do end.
* The walk and the hook end, and `main` goes on after a signal, at its 30 second
  deadline at the latest. Ticks, requests and the signal itself are not fair.
* Readers leave `WithSnapshot`: its function is one database transaction.
* In `Transcode`, runnable goroutines step, a killed process dies and the startup deadline
  passes. A process owes no output and no exit, and a client owes no reading.

`CoverLoader`, `Login` and `PlayerStore` have no fairness. Instead of a liveness property,
`NobodyForgotten` says of the covers, in each state, that every unanswered request has a
step it, its flight or the probe below that flight can take.

## 4. Proofs

### Media manager

`MediaManagerProofs` proves for any finite set of callers and any configuration that
`NewManager` accepts (`ConfigAssumption`):

* `TypeCorrect`, `LaneLimit`, `NoLeak`, `NoLostWakeup`, `NoIdleLane`,
  `ShutdownIsFinal`: the safety invariants of the run `lanes`;
* `ServedInOrder`: first come, first served within a kind, as an action property;
* `LanesImplemented`: the manager implements `MediaLanes`;
* `ListenersServedInTurn`: in the lane of a waiting transcode nothing starts that has
  not waited longer, covers and metadata included;
* `RendersPassedBoundedly`: a waiting render is passed by at most
  `HighBurst * (AuxWaiters - 1)` AuxHigh processes, whatever others do.

The argument is one inductive invariant, `IInv`. The invariants are not inductive by
themselves: that a lane counter is exact after `Done` needs to know that the task is
in the active map and the kind of its caller (`Control`, which ties program counter,
queue membership, result channel and active map together); that the WaitGroup does
not pass zero needs its value as the number of tasks not yet past `wg.Done`
(`ShutdownState`); that the first waiter is the oldest needs `ahead` to be a strict
order on the queued callers (`QueueOrder`). That no lane is left free beside a waiter
follows because the scheduling loop gives the mutex back only when `NextWaiter` finds
nothing, and every step taken with the mutex free keeps it (`WorkConserving`).
`InvariantHolds` has one step per action and one
lemma per conjunct. The refinement maps a waiter to `waiting` and an active task to
`holding`, at the moment the manager's mutex changes them.

`HowTasksStart` says that a step makes at most one process, for a caller that had no
waiter beside it in its lane or for the first of a queue that `NextWaiter` chose; the three
properties about the order of service follow from it. The bound on passing is not inductive
either: `TurnsInv` says that the bursts a passed render may still see, the rest of the
present one and one for each render ahead of it, fit into the bound. A render that starts
ends a burst and leaves one render less ahead; an AuxHigh that starts beside a waiting
render takes one of the present burst; and whoever gives up takes its burst with it. The
first term comes from the moment a render is passed for the first time: the AuxHigh that
passes it is in the queue too, so that at most `AuxWaiters - 2` renders are ahead.

### Rescanner

The first half of `LibraryProofs` proves, for any finite sets of requests and paths and any bound on
the generations (`RescannerAssumption`, `PathsAssumption`), everything the run
`rescanner` checks: `ScansHaveOneOwner`, `GenerationsIdentify`, `SnapshotsAreHeld`,
`ReadinessLasts`, `AdmissionEnds` and, against the abstract publisher,
`SnapshotsImplemented`.

The inductive invariant `RInv` adds to the three state properties what they lean on:

* `Lifecycle`: the flags `stopping` and `cancelled` follow `main` through its
  sequence. Without it `Start` might find a scan already announced, and readiness
  might be lost outside a shutdown.
* `FoundPaths`: what has been scanned is an Index and not the nil one, and readiness
  means that one has been published.
* `PublishLock`: `readers` is the set of requests inside `WithSnapshot`, and it is
  empty while the hook runs and the snapshot is exchanged. `SnapshotHeld` needs it in
  the step that publishes.

`OneClaim` counts claims in three places (a request about to fill the channel, the
channel, the working goroutine); the proof carries the cardinality of the first set
through each step with the library's facts on finite sets. Its delicate step is
`Rescan`, which claims only when nothing is announced, so that no second request can be
on its way to the channel.

### Library

The second half of `LibraryProofs` is about the composition with the tag store, for any
sets of tags and any legacy paths that are not themselves library paths
(`TagStoreAssumption`): `BucketsAlwaysAgree`, `PublishedIsMigrated`,
`OnlineTagsAreSafe`, `MigrationIsLossless`, and `LibraryImplemented`, that all of it
implements `TaggedFiles`.

`LInv` is `RInv`, the types, `BucketsAgree`, `OnlineIsMigrated` and one more part: once
the hook has committed and until the publication, the scanned Index is migrated. That
is what makes `OnlineIsMigrated` inductive, since publication itself touches no tag, and
tags are added to library paths only. Each transaction has a lemma about the buckets;
`TagSteps` says that a step of the composition is one transaction or none; a crash leads
back to an initial state of the Rescanner. `OnlineTagsAreSafe` rests on `SnapshotHeld`:
a graveyard deletion happens inside `WithSnapshot`, so the Index it takes for the online
files is still the published one.

`LibraryImplemented` says with one theorem what a user may rely on: every step, of a
handler between its transactions, of the migration hook, of the publisher or a restart, is
one step on one relation of files and tags, or none. A migration is `Rename` there,
possibly of some files that are never published, because the hook commits before the
publication; a publication has no record left under an old name of its files by
`OnlineIsMigrated`, and a deletion meets an offline file by `SnapshotHeld`.

### Play queues

`PlayQueueProofs` proves, for any numbers of requests, tokens and paths and any limits
(`PlayQueueAssumption`, `PathsAssumption`):

* `GateStaysExact`: the gate's channels hold one element for every builder and one for
  every waiter. The invariant adds that a request which waits is never a `Select`.
* `SharingStaysExact` and, from it, `PositionsStayValid`: every shared Index is retained by
  as many references as queues share it, and a queue is read with the Index it was built from.
* `QueuesStayValid` and `TracksAreKept`: no track is ever twice in a queue, and a
  replacement takes the old queue away and loses none of its tracks.
* `StoreIsAccounted`: references and bytes are exact, and both limits hold.
* `PlaylistsImplemented`: the queues implement `Playlists`.

The invariant `QInv` collects in `Known` every pair of an Index and a generation that
somebody holds: the library, an admitted request, a draft, the store. Any two pairs of one
generation have the same Index. This is what lets a queue, built from the canonical snapshot or from
the request's own, be stored under a generation whose Index others have freed or retained
meanwhile. A step of a request adds no pair to `Known`; a rescan adds one, of a new
generation. The references are carried by three lemmas, one for each thing the store does:
removal of a set of queues, addition, exchange.

`PInv` adds that every live queue and every draft is a permutation, and that the draft of a
`Select` or `Prepend` has all tracks of the queue it will replace while that queue is there.
The last part is stable because a token names one queue for ever: a queue is immutable, and a
token that somebody still holds is never used again. `Prepend` searches the old prefix one
place after the other (`Remaining`); that this leaves out exactly the directory's tracks and
keeps the rest once is `RemainingTracks`, shown by the least number of places for which it
would fail.

`AInv` is the byte account and the limits. The library's sum adds a chosen element at a
time, so the laws of sums (`SumOneLess`, `SumOfBoth`, `SumSame`) are first shown to hold
whatever is chosen. The limits need the account: eviction stops within them or when only
the queue just made is left, which then is all that is charged, with its one Index, and
the size checks of `Create`, `Select` and `Prepend` cover exactly that (`EvictedFits`).

`PlaylistsImplemented` needs all three, and that a request works exactly while it asks for
something (`Asking`). A queue that stays is played as before because, in the old state as in
the new one, its generation has the Index it was built from (`Sharing`): this is what
retained snapshots are for, and a rescan is a stutter. A queue that appears is a playlist
by `PInv`, under a token that nobody else can mean, within `MaxQueues` by `AInv`; and the
playlist a `Select` or `Prepend` makes continues the one its request named, of the same
Index, with all of its tracks.

### Flights

`FlightsProofs` proves, for any finite set of callers, any bound and any keys, works and
answers (`Parameters`), `WorkIsShared` and `CancelledWhenUnwanted`: one mapped flight per
key, and a flight is cancelled exactly when its last waiter left before it landed. `FInv`
adds the exact count of waiters, and that a running flight is mapped exactly while it is
not abandoned. The metadata reader and the cover loader use these theorems three times.

### Metadata and covers

`CoverLoaderProofs` proves, for any finite set of requests, any bounds on flights, versions and
inputs, any limits of the caches and any broken or pictured versions (`ProbeAssumption`,
`CallersAssumption`), every safety property of the run `covers` but `NobodyForgotten`:
`AnswersAreCurrent`, `OthersDoNotCancel`, `CachesAreTrue`, `ProbesAreShared`,
`DescriptorsAreAccounted`. What the first of them says, it says of requests that are not
`disturbed`; `CachesAreTrue` says what those that are leave behind: no entry under an
identity that a file still has was read from another version of that file, in whatever
order identification, reading, change and caching came. Neither says anything of
remembered failures, which are not always those of the file.

`FlightsProofs` is instantiated for probes, descriptions and renderings, and the lemmas of each
operation of a flight serve the three. The invariant `CInv` has, next to the three `FInv`:

* `ProbeInv`: versions only grow, and whatever ffprobe has read under an identity, in a
  flight, in a cache or on its way to a caller, it has read of a version between that of the
  identity and the present one (`Since`, `Honest`). If the file is still the one of the
  identity the interval is one point: this is all that makes a cached answer true.
* `FileInv`: the same of descriptors, with the cover file, which may also be missing, and
  the directory's mtime, which rises with every change of it.
* `RequestGood`: the stage of a request agrees with the flight it waits on, and, unless it is
  `disturbed`, what it holds is of the files as they are.

A request is never told of another's departure because a flight is cancelled only once
nobody waits on it, so that a flight which somebody waits on has not been cancelled; for a
probe below a description the waiter is the description's own flight, which leaves only
when it is abandoned itself.

`DescriptorsAreAccounted` stands on `CInv` and an invariant of its own: the total is the sum
of the entries, one for each key. As in the play queues, the sum is that of a chosen element
at a time and its laws come first; taking an entry out, putting one in front and evicting from
the end are one lemma each.

### Transcoded streams

`TranscodeProofs` proves `ProcessesStayWithinLane` and `AnswersAlwaysFit` for any finite set
of requests, any lane and any amount of output. `TInv` says, for each place of the handler,
what it holds of lane and process; `Reasons` says why something is as it is: a process is
killed only if a context has ended, `cancelProcess` was called only after a timeout, an ended
context or a failed copy, and nothing has been committed that was not sent.

### Login

`LoginProofs` proves `GuardStaysExact`, `BansAlwaysHold` and `SessionsAreKept` for any
finite sets of clients and tokens, any attempts and any positive limits. `GuardExact` with
the types and the session limit is inductive (`LoginInv`). `BansAlwaysHold` rests on
`RoomIsNoBan`: what is removed for a new client is never a running ban.

### Player store

`PlayerStoreProofs` proves `PauseIsFinal`, `RecoveryIsOnce` and `ChoiceIsKept` for any numbers
of calls and tracks. While silence
is asked for, `Silent` holds: the element is off and no call in progress carries the
current intent. Only a call with the current intent starts the element, and only a wish of
the user makes a current intent. There is a lemma for each group of functions, and under
it a step for each function.

`RecoveryIsOnce`: the call that starts a recovery marks the store before its first `await`,
every later one finds the mark (`Remembered`), and only a queue that the user's own command has
made clears it. `ChoiceIsKept`: at the moment of the choice, each earlier call has lost
the counter by which it could still select a track, and a call that begins afterwards without
being a command is of a kind that selects none (`Harmless`, `Tame`); the next command of
the user, the end of the track and a refused pin are the exceptions that the property names.

## 5. Only model-checked

* All liveness: `EveryStartReturns`, `ShutdownEndsTasks`, `NoStarvation`, `ScanEnds`,
  `StopEnds`, `LaneComesBack`. The proof system has no rules for fairness. Of
  `NoStarvation` the part without fairness is a theorem, `RendersPassedBoundedly`.
* `NobodyForgotten`, which uses ENABLED, and which holds only where the bounds on
  flights leave a slot for whoever needs a new one.

Every invariant and action property of the passing runs other than these is a theorem.
Some theorems state more than the runs check, because the run checks the refinement instead:
`ReadinessLasts` of the Rescanner; `PublishedIsMigrated`, `OnlineTagsAreSafe` and
`MigrationIsLossless`, of which `TaggedFiles` has the part users see, and `TracksAreKept`, of
which `Playlists` has it. Where a
definition adds up or searches data, its laws are proved by a least counterexample
(`Least`, from the well-foundedness of the natural numbers), because the induction theorems
of the library cannot be instantiated by the installed provers. The properties of the
violated runs are false and stay with TLC.

## 6. Not modelled, and why

* Times, texts, formats: scan errors, log lines, JSON shapes, token encoding, the sizes and
  codecs of images.
* The nil `Manager` and its `noopTask`, the legacy `Limiter`: not used by `main`.
* The directory walk, the containment check of the resolver, browsing, searching,
  pagination, tag export: sequential code that changes no shared state.
* Native streaming and HEAD requests: file I/O without a process or shared state.
* Configuration, middleware, client addresses, static files: pure functions.
* Saturating arithmetic of the queue sizes: the estimates are bounded by memory.
* The `library`, `tags` and `auth` stores of the client: request counters, each around one
  request. Views and components: their state is in the stores.
* In `CoverLoader`: `Manager.Shutdown`, which ends a probe or a rendering like any failure
  to start.
* In `PlayerStore`: tags, metadata, the page cache, volume, stream mode, the media session,
  the keep-alive of the audio device and the messages on the screen. `isBuffering` and
  `playlistLoading` only narrow what the user can ask for; here everything can always be asked.
  So does the branch of `playAt` for a store without a queue, which the views cannot reach.
  Requests for one page share a promise through `pageRequests`; here each call has a request
  of its own, whose answers may then differ. A pause event may be on its way over the load of
  another source, although a browser drops it; the model has more behaviours by that.

### Observations made while modelling

Behaviour of the code that the modules reproduce and no property forbids:

* Covers: any failure of ffprobe that is not a refusal, a timeout or a cancellation becomes
  "no embedded cover", which the cache of descriptors keeps for 30 seconds even where the
  probe itself is not remembered. Rendered bytes may be newer than the ETag they are sent with. A request that
  joins an earlier reading of the directory may get an older descriptor. A cover repaired in
  place is seen after that cache entry has lapsed. The branch of `addDescriptorLocked` that replaces
  an entry is never taken.
* Streams: one that is cut after its first byte ends like a complete response; at shutdown
  before the first byte, the client gets an empty 200; the watcher's `select` may take the timer
  although the first write came in time (`docs/ARCHITECTURE.md:230` gives that write 15
  seconds).
* Player: (a) a recovery whose pin is refused replaces or pauses the current track,
  contrary to `docs/ARCHITECTURE.md:160`; (b) `playlistLoading` stays set when a newer
  selection overtakes a replacement or a prepend; (c) the response of a replacement that
  comes too late is dropped without deleting its queue, while `prependDirectory` deletes
  its own; (d) after a Randomize during playback, a pause and a resume before the response let
  the old audio go on under the new current track; (e) a page answered 404 during a
  Randomize starts a recovery that aborts the Randomize; (f) the queue `reconcileSelection`
  creates with a pin that is not tagged makes the first position current although another
  track is playing; (g) a change of the stream mode while buffering drops the pending start.

## 7. Plan

Done: the modules of section 2 and the proofs of section 4. What is left, in order:

1. The client's `library`, `tags` and `auth` stores: the request counters around polling, a
   session check that overtakes a login or a logout.
2. `PlayerStore` against `PlayQueue` instead of an arbitrary server: the queues that late
   responses leave behind until they expire.
3. Server shutdown as one composition: the HTTP drain with manager, rescanner and tag store.
