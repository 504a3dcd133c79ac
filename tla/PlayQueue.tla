----------------------------- MODULE PlayQueue ------------------------------
(***************************************************************************)
(* internal/playqueue/manager.go: shuffled play queues kept in memory for  *)
(* the clients.  A queue is immutable once published; selecting a track    *)
(* that is not in it, or playing a directory, replaces it by a new queue   *)
(* under a new token.  Queues of one library generation share one retained *)
(* Index, in which their orders are positions, and everything together is  *)
(* kept within a number of queues and a number of bytes by eviction.       *)
(*                                                                         *)
(* Building and searching happen outside the mutex, so a request reads,    *)
(* works, and commits against a store that others have changed meanwhile.  *)
(* A build gate bounds how many build at once.                             *)
(*                                                                         *)
(* Times are left out: any queue may be the least recently used one, and   *)
(* any may have been idle for too long.  A token is 32 random bytes, so a  *)
(* new one is a token that nobody knows.  A shuffle is a permutation, so   *)
(* the shuffled order is its set of positions; a position is the path it   *)
(* has in the Index it was computed from, which the queue remembers here   *)
(* as "built".  The sizes stay far below saturation.                       *)
(***************************************************************************)
EXTENDS Naturals, FiniteSets, Sequences, Functions, LibrarySnapshots

CONSTANTS
  Requests,       \* HTTP request goroutines
  Tokens,         \* queue tokens, which are also the keys of the map
  NoToken,
  MaxQueues,      \* Config.MaxQueues
  MaxBytes,       \* Config.MaxBytes
  BuildSlots,     \* Config.BuildSlots
  BuildQueue,     \* Config.BuildQueue
  QueueBytes,     \* what estimateQueue charges for a queue,
  PositionBytes,  \* for a position of its order,
  EntryBytes,     \* and for an entry of a prefix or an Index
  MaxGeneration   \* bound: the path set changes at most this often

ASSUME PlayQueueAssumption ==
  /\ IsFiniteSet(Requests)
  /\ IsFiniteSet(Tokens)
  /\ NoToken \notin Tokens
  /\ MaxQueues \in Nat \ {0}
  /\ MaxBytes \in Nat \ {0}
  /\ BuildSlots \in Nat \ {0}
  /\ BuildQueue \in Nat
  /\ QueueBytes \in Nat
  /\ PositionBytes \in Nat
  /\ EntryBytes \in Nat
  /\ MaxGeneration \in Nat

VARIABLES
  store,     \* what Manager.mu guards: queues, index, refs, bytes
  slots,     \* the length of the gate's slots channel
  waiters,   \* and of its waiters channel
  pc,        \* where each request stands
  op,        \* what it does
  target,    \* the token it was given, or NoToken
  view,      \* the Index and generation it was admitted with
  draft      \* the queue it has built

queueVars == <<store, slots, waiters, pc, op, target, view, draft>>
vars == <<libraryVars, queueVars>>

Generations == 1..MaxGeneration

Queue == [gen : Generations, built : SUBSET Paths, order : SUBSET Paths, prefix : Seq(Paths)]

NoQueue == [gen |-> 0, built |-> NoIndex, order |-> {}, prefix |-> <<>>]

Stores ==
  [queues : [Tokens -> Queue \cup {NoQueue}],   \* Manager.queues
   index  : [Generations -> Indexes],           \* Manager.snapshots: the Index of each
   refs   : [Generations -> Nat],               \* and how many queues share it
   bytes  : Nat]                                \* Manager.totalBytes

NoView == [index |-> NoIndex, generation |-> 0]

PCs == {"idle",
        "wait",      \* in the gate, counted in waiters
        "build",     \* holding a slot, nothing read yet
        "commit"}    \* the new queue is built, the mutex is next

Ops == {"none", "create", "select", "prepend"}

TypeOK ==
  /\ store \in Stores
  /\ slots \in Nat
  /\ waiters \in Nat
  /\ pc \in [Requests -> PCs]
  /\ op \in [Requests -> Ops]
  /\ target \in [Requests -> Tokens \cup {NoToken}]
  /\ view \in [Requests -> [index : Indexes, generation : 0..MaxGeneration]]
  /\ draft \in [Requests -> Queue \cup {NoQueue}]

Init ==
  /\ SnapshotsInit
  /\ store = [queues |-> [t \in Tokens |-> NoQueue],
              index |-> [g \in Generations |-> NoIndex],
              refs |-> [g \in Generations |-> 0],
              bytes |-> 0]
  /\ slots = 0
  /\ waiters = 0
  /\ pc = [c \in Requests |-> "idle"]
  /\ op = [c \in Requests |-> "none"]
  /\ target = [c \in Requests |-> NoToken]
  /\ view = [c \in Requests |-> NoView]
  /\ draft = [c \in Requests |-> NoQueue]

-----------------------------------------------------------------------------
(* The store.                                                               *)

Live(s) == {t \in Tokens : s.queues[t] # NoQueue}

OfGeneration(s, g) == {t \in Live(s) : s.queues[t].gen = g}

Tracks(q) == q.order \cup Range(q.prefix)

(* estimateQueue and estimateSnapshot *)
SizeOf(q) ==
  QueueBytes + PositionBytes * Cardinality(q.order) + EntryBytes * Len(q.prefix)

SizeOfIndex(index) == EntryBytes * Cardinality(index)

SizeOfQueues(s, T) == SumFunctionOnSet([t \in T |-> SizeOf(s.queues[t])], T)

SizeOfSnapshots(s, G) == SumFunctionOnSet([g \in G |-> SizeOfIndex(s.index[g])], G)

(* removeLocked and releaseSnapshotLocked, for a set of queues.             *)
Without(s, T) ==
  LET left  == [g \in Generations |-> s.refs[g] - Cardinality(T \cap OfGeneration(s, g))]
      freed == {g \in Generations : s.refs[g] # 0 /\ left[g] = 0}
  IN  [queues |-> [t \in Tokens |-> IF t \in T THEN NoQueue ELSE s.queues[t]],
       index  |-> [g \in Generations |-> IF g \in freed THEN NoIndex ELSE s.index[g]],
       refs   |-> left,
       bytes  |-> s.bytes - SizeOfQueues(s, T) - SizeOfSnapshots(s, freed)]

(* retainSnapshotLocked *)
Retained(s, g, index) ==
  IF s.index[g] = NoIndex
  THEN [s EXCEPT !.index[g] = index, !.refs[g] = 1, !.bytes = @ + SizeOfIndex(index)]
  ELSE [s EXCEPT !.refs[g] = @ + 1]

Stored(s, t, q) == [s EXCEPT !.queues[t] = q, !.bytes = @ + SizeOf(q)]

(* Mutation: the old queue stays beside the new one.                        *)
ExchangedBeside(s, old, t, q) == Stored(s, t, q)

(* The new queue takes over the old one's reference to the snapshot.        *)
Exchanged(s, old, t, q) ==
  Stored([s EXCEPT !.queues[old] = NoQueue, !.bytes = @ - SizeOf(s.queues[old])], t, q)

OverLimit(s) == Cardinality(Live(s)) > MaxQueues \/ s.bytes > MaxBytes

(* evictLocked takes queues one by one until the store is within its limits *)
(* or only the protected queue is left.                                     *)
Evictions(s, t) ==
  LET others == Live(s) \ {t}
  IN  {V \in SUBSET others :
         /\ OverLimit(Without(s, V)) => V = others
         /\ V # {} => \E v \in V : OverLimit(Without(s, V \ {v}))}

(* Create checks before it locks, Select and Prepend do under the lock.     *)
Fits(q, index) == SizeOfIndex(index) + SizeOf(q) <= MaxBytes

Fresh(t) == t \in Tokens \ (Live(store) \cup Range(target))

-----------------------------------------------------------------------------
(* The build gate.                                                          *)

Starts(c, o, t) ==
  /\ pc[c] = "idle"
  /\ current # NoIndex
  /\ op' = [op EXCEPT ![c] = o]
  /\ target' = [target EXCEPT ![c] = t]
  /\ view' = [view EXCEPT ![c] = [index |-> current, generation |-> generation]]

Ends(c) ==
  /\ pc' = [pc EXCEPT ![c] = "idle"]
  /\ op' = [op EXCEPT ![c] = "none"]
  /\ target' = [target EXCEPT ![c] = NoToken]
  /\ view' = [view EXCEPT ![c] = NoView]
  /\ draft' = [draft EXCEPT ![c] = NoQueue]

(* Create names the queue it replaces, or none; Prepend names its queue.    *)
Names(o, t) ==
  \/ o = "create" /\ t \in Live(store) \cup {NoToken}
  \/ o = "prepend" /\ t \in Live(store)

AcquireAtOnce(c, o, t) ==
  /\ Names(o, t)
  /\ Starts(c, o, t)
  /\ slots < BuildSlots
  /\ slots' = slots + 1
  /\ pc' = [pc EXCEPT ![c] = "build"]
  /\ UNCHANGED <<libraryVars, store, waiters, draft>>

(* When the waiters channel is full too the answer is ErrBusy.              *)
AcquireWaits(c, o, t) ==
  /\ Names(o, t)
  /\ Starts(c, o, t)
  /\ slots = BuildSlots
  /\ waiters < BuildQueue
  /\ waiters' = waiters + 1
  /\ pc' = [pc EXCEPT ![c] = "wait"]
  /\ UNCHANGED <<libraryVars, store, slots, draft>>

AcquireSlot(c) ==
  /\ pc[c] = "wait"
  /\ slots < BuildSlots
  /\ slots' = slots + 1
  /\ waiters' = waiters - 1
  /\ pc' = [pc EXCEPT ![c] = "build"]
  /\ UNCHANGED <<libraryVars, store, op, target, view, draft>>

(* Mutation: a waiter that gives up keeps its place.                        *)
AcquireFailsKeepingPlace(c) ==
  /\ pc[c] = "wait"
  /\ Ends(c)
  /\ UNCHANGED <<libraryVars, store, slots, waiters>>

(* The timer or the context ends the wait.                                  *)
AcquireFails(c) ==
  /\ pc[c] = "wait"
  /\ waiters' = waiters - 1
  /\ Ends(c)
  /\ UNCHANGED <<libraryVars, store, slots>>

(* The answer is known; the deferred release never blocks and is part of    *)
(* the step.                                                                *)
Releases(c) ==
  /\ slots' = slots - 1
  /\ Ends(c)

-----------------------------------------------------------------------------
(* Create.                                                                  *)

(* canonicalSnapshot: the retained Index of the generation, if there is one.*)
Canonical(v) ==
  IF store.index[v.generation] # NoIndex THEN store.index[v.generation] ELSE v.index

(* buildOrder: the candidates are the whole Index or its tagged files, and  *)
(* the pinned one among them moves to the front.                            *)
CreateBuilds(c, candidates, pin) ==
  /\ pc[c] = "build"
  /\ op[c] = "create"
  /\ candidates \subseteq Canonical(view[c])
  /\ pin \subseteq candidates
  /\ Cardinality(pin) <= 1
  /\ draft' = [draft EXCEPT ![c] =
       [gen |-> view[c].generation, built |-> Canonical(view[c]),
        order |-> candidates \ pin,
        prefix |-> IF pin = {} THEN <<>> ELSE <<CHOOSE p \in pin : TRUE>>]]
  /\ pc' = [pc EXCEPT ![c] = "commit"]
  /\ UNCHANGED <<libraryVars, store, slots, waiters, op, target, view>>

(* cleanupExpiredLocked, the replaced queue, the snapshot, the queue and    *)
(* the eviction under one lock.                                             *)
CreateCommits(c, t, expired) ==
  /\ pc[c] = "commit"
  /\ op[c] = "create"
  /\ Fits(draft[c], draft[c].built)
  /\ Fresh(t)
  /\ target[c] \in (Live(store) \ expired) \cup {NoToken}
  /\ LET gone  == expired \cup ({target[c]} \ {NoToken})
         added == Stored(Retained(Without(store, gone), draft[c].gen, draft[c].built), t, draft[c])
     IN  \E evicted \in Evictions(added, t) : store' = Without(added, evicted)
  /\ Releases(c)
  /\ UNCHANGED <<libraryVars, waiters>>

(* The queue to replace is gone, or expires right now.                      *)
CreateNotFound(c, expired) ==
  /\ pc[c] = "commit"
  /\ op[c] = "create"
  /\ Fits(draft[c], draft[c].built)
  /\ target[c] \notin (Live(store) \ expired) \cup {NoToken}
  /\ store' = Without(store, expired)
  /\ Releases(c)
  /\ UNCHANGED <<libraryVars, waiters>>

-----------------------------------------------------------------------------
(* Select and Prepend: read under the lock, build without it, commit under  *)
(* it.  The draft is computed from an immutable queue, so it may be written *)
(* down at the read.                                                        *)

(* Select of a track the queue has changes nothing; of another online track *)
(* it puts that in front.                                                   *)
SelectReads(c, t, path) ==
  /\ t \in Live(store)
  /\ Starts(c, "select", t)
  /\ path \in current \ Tracks(store.queues[t])
  /\ draft' = [draft EXCEPT ![c] = [store.queues[t] EXCEPT !.prefix = <<path>> \o @]]
  /\ pc' = [pc EXCEPT ![c] = "commit"]
  /\ UNCHANGED <<libraryVars, store, slots, waiters>>

Listings(paths) == UNION {Injection(1..Cardinality(P), P) : P \in (SUBSET paths) \ {{}}}

(* Mutation: the old prefix is not searched for the directory's tracks.     *)
InFrontKeeping(q, entries) ==
  [q EXCEPT !.prefix = entries \o @, !.order = @ \ Range(entries)]

(* The old prefix, searched one by one for the directory's tracks. *)
Remaining(prefix, selected) ==
  LET left[n \in 0..Len(prefix)] ==
        IF n = 0 THEN <<>>
        ELSE IF prefix[n] \in selected THEN left[n - 1]
        ELSE Append(left[n - 1], prefix[n])
  IN  left[Len(prefix)]

InFront(q, entries) ==
  [q EXCEPT !.prefix = entries \o Remaining(@, Range(entries)),
            !.order = @ \ Range(entries)]

(* The online tracks of a directory, in the order of its listing.           *)
PrependReads(c, entries) ==
  /\ pc[c] = "build"
  /\ op[c] = "prepend"
  /\ target[c] \in Live(store)
  /\ entries \in Listings(view[c].index)
  /\ draft' = [draft EXCEPT ![c] = InFront(store.queues[target[c]], entries)]
  /\ pc' = [pc EXCEPT ![c] = "commit"]
  /\ UNCHANGED <<libraryVars, store, slots, waiters, op, target, view>>

(* Mutation: the queue's identity is not checked again.                     *)
StillThereUnchecked(t) == TRUE

StillThere(t) == t \in Live(store)

Replaces(c, t) ==
  /\ pc[c] = "commit"
  /\ op[c] \in {"select", "prepend"}
  /\ StillThere(target[c])
  /\ Fits(draft[c], store.index[draft[c].gen])
  /\ Fresh(t)
  /\ LET exchanged == Exchanged(store, target[c], t, draft[c])
     IN  \E evicted \in Evictions(exchanged, t) : store' = Without(exchanged, evicted)

PrependCommits(c, t) ==
  /\ op[c] = "prepend"
  /\ Replaces(c, t)
  /\ Releases(c)
  /\ UNCHANGED <<libraryVars, waiters>>

SelectCommits(c, t) ==
  /\ op[c] = "select"
  /\ Replaces(c, t)
  /\ Ends(c)
  /\ UNCHANGED <<libraryVars, slots, waiters>>

(* Any error answer of a request that holds a slot: the client is gone, the *)
(* queue is, the new one does not fit, nothing to play, no random bytes.    *)
BuildFails(c) ==
  /\ pc[c] \in {"build", "commit"}
  /\ op[c] # "select"
  /\ Releases(c)
  /\ UNCHANGED <<libraryVars, store, waiters>>

SelectFails(c) ==
  /\ pc[c] = "commit"
  /\ op[c] = "select"
  /\ Ends(c)
  /\ UNCHANGED <<libraryVars, store, slots, waiters>>

-----------------------------------------------------------------------------
(* Delete, and Page, Select or Prepend that find the queue expired.         *)
Drop(t) ==
  /\ t \in Live(store)
  /\ store' = Without(store, {t})
  /\ UNCHANGED <<libraryVars, slots, waiters, pc, op, target, view, draft>>

Rescans ==
  /\ \E paths \in SUBSET Paths :
       (paths = current \/ generation < MaxGeneration) /\ Publish(paths)
  /\ UNCHANGED queueVars

GateStep(c) ==
  \/ \E o \in Ops, t \in Tokens \cup {NoToken} : AcquireAtOnce(c, o, t) \/ AcquireWaits(c, o, t)
  \/ AcquireSlot(c) \/ AcquireFails(c)

CreateStep(c) ==
  \/ \E candidates, pin \in SUBSET Paths : CreateBuilds(c, candidates, pin)
  \/ \E t \in Tokens, expired \in SUBSET Live(store) : CreateCommits(c, t, expired)
  \/ \E expired \in SUBSET Live(store) : CreateNotFound(c, expired)
  \/ BuildFails(c)

ReplaceStep(c) ==
  \/ \E t \in Tokens, path \in Paths : SelectReads(c, t, path)
  \/ \E entries \in Listings(view[c].index \cap Paths) : PrependReads(c, entries)
  \/ \E t \in Tokens : PrependCommits(c, t) \/ SelectCommits(c, t)
  \/ SelectFails(c)

Next ==
  \/ \E c \in Requests : GateStep(c) \/ CreateStep(c) \/ ReplaceStep(c)
  \/ \E t \in Tokens : Drop(t)
  \/ Rescans

Spec == Init /\ [][Next]_vars
-----------------------------------------------------------------------------
(* Properties.                                                              *)

(* A snapshot is retained exactly while queues share it, and totalBytes is  *)
(* the sum of the queues and of each shared snapshot once: a drift would    *)
(* evict everything, or nothing, for the life of the process.  Replacement  *)
(* hands a reference over, so two requests that replace the same queue, or  *)
(* one that races a deletion or an eviction, must not both do it.           *)
AccountsExact ==
  /\ \A g \in Generations :
       /\ store.refs[g] = Cardinality(OfGeneration(store, g))
       /\ store.refs[g] = 0 <=> store.index[g] = NoIndex
  /\ store.bytes = SizeOfQueues(store, Live(store))
                     + SizeOfSnapshots(store, {g \in Generations : store.index[g] # NoIndex})

(* The store never exceeds its limits when the mutex is free, although the  *)
(* eviction spares the queue just made: the checks of its size suffice.     *)
WithinLimits == Cardinality(Live(store)) <= MaxQueues /\ store.bytes <= MaxBytes

(* The store counts what it holds, and holds no more than it may.           *)
StoreAccounted == AccountsExact /\ WithinLimits

(* No track is twice in a queue, whatever was pinned, selected and put in   *)
(* front over the life of a queue and over library generations.             *)
NoTrackTwice ==
  \A t \in Live(store) :
    LET q == store.queues[t]
    IN  IsInjective(q.prefix) /\ q.order \cap Range(q.prefix) = {}

(* The positions of a queue mean the files they meant when it was built:    *)
(* the Index it is read with is the one it was built from, although Create  *)
(* chose that before it took the lock and others have released it or        *)
(* retained another one meanwhile.                                          *)
PositionsValid ==
  \A t \in Live(store) : store.queues[t].built = store.index[store.queues[t].gen]

(* Every live queue is a permutation, of the files it was made from.        *)
QueuesValid == NoTrackTwice /\ PositionsValid

(* The gate's channels hold one element for every builder and every waiter: *)
(* no path leaks a slot, which would make the server answer "busy" for ever.*)
GateExact ==
  /\ slots = Cardinality({c \in Requests :
               /\ pc[c] \in {"build", "commit"}
               /\ op[c] # "select"})
  /\ slots <= BuildSlots
  /\ waiters = Cardinality({c \in Requests : pc[c] = "wait"})

(* Select and Prepend lose no track: when a request replaces a queue, the   *)
(* new one has every track of the old one, though it was built from what    *)
(* the request had read earlier.                                            *)
ReplacementKeepsTracks ==
  [][\A c \in Requests :
       /\ pc[c] = "commit" /\ op[c] \in {"select", "prepend"} /\ pc'[c] # "commit"
       /\ Live(store') \ Live(store) # {}
       => /\ target[c] \in Live(store) \ Live(store')
          /\ \A t \in Live(store') \ Live(store) :
               Tracks(store.queues[target[c]]) \subseteq Tracks(store'.queues[t])]_vars

(* A queue as a client plays it: its positions are looked up in the Index   *)
(* the store retains for its generation.                                    *)
Played(t) ==
  [from  |-> store.index[store.queues[t].gen],
   first |-> store.queues[t].prefix,
   rest  |-> store.queues[t].order]

Promise == INSTANCE Playlists WITH
  lists <- [t \in Live(store) |-> Played(t)],
  asked <- [c \in Requests |-> IF op[c] \in {"select", "prepend"} THEN "extend" ELSE op[c]],
  given <- target

(* Builds outside the mutex, replacement, eviction, expiry and the sharing  *)
(* of snapshots keep the promise of Playlists: what a client plays under a  *)
(* token does not change until it is gone, and a request that replaces a    *)
(* queue puts its tracks in front of that queue and takes it away.          *)
ImplementsPlaylists == Promise!Spec
=============================================================================
