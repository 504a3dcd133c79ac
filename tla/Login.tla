-------------------------------- MODULE Login --------------------------------
(***************************************************************************)
(* handleLogin and handleLogout over internal/auth: the guard that bans    *)
(* clients after repeated failures, and the sessions.  A login holds       *)
(* neither mutex from end to end: LoginGuard.Check, Auth.Login and then    *)
(* LoginGuard.Failure or Success are separate critical sections, and any   *)
(* number of logins of one client may stand between them.                  *)
(*                                                                         *)
(* The order of blockedLRU decides nothing (a sweep visits all of it) and  *)
(* is left out; so are answers that change no state, such as 429 by Check. *)
(***************************************************************************)
EXTENDS Naturals, FiniteSets

CONSTANTS
  Clients, NoClient,
  Attempts,       \* handlers of login requests
  Tokens,         \* bound: session tokens that are ever drawn; no draw repeats
  MaxFailures, BanDuration, MaxEntries, MaxSessions,
  Ages,           \* lifetimes of a session: one hour, or a month
  MaxTime         \* bound: the clock stops there

ASSUME LoginAssumption ==
  /\ IsFiniteSet(Clients) /\ NoClient \notin Clients
  /\ IsFiniteSet(Tokens)
  /\ {MaxFailures, BanDuration, MaxEntries, MaxSessions} \subseteq Nat \ {0}
  /\ Ages \subseteq Nat \ {0}
  /\ MaxTime \in Nat

VARIABLES
  now,
  pc, client,     \* each attempt: where it stands and whose it is
  pending,        \* clients in pendingLRU: some failures, no ban
  blocked,        \* clients in blockedLRU
  count,          \* loginFailure.count
  until,          \* loginFailure.blockedUntil, 0 for the zero time
  newer,          \* newer[c]: clients moved to the front of pendingLRU after c
  sessions,       \* tokens in the session table
  created, expires, lastAccess,
  drawn           \* tokens drawn so far

guard == <<pending, blocked, count, until, newer>>
table == <<sessions, created, expires, lastAccess, drawn>>
vars  == <<now, pc, client, guard, table>>

TypeOK ==
  /\ now \in Nat
  /\ pc \in [Attempts -> {"idle", "checked", "welcome"}]
  /\ client \in [Attempts -> Clients \cup {NoClient}]
  /\ \A a \in Attempts : pc[a] # "idle" => client[a] \in Clients
  /\ pending \subseteq Clients /\ blocked \subseteq Clients
  /\ count \in [Clients -> Nat]
  /\ until \in [Clients -> Nat]
  /\ newer \in [Clients -> SUBSET Clients]
  /\ sessions \subseteq drawn /\ drawn \subseteq Tokens
  /\ created \in [Tokens -> Nat]
  /\ expires \in [Tokens -> Nat]
  /\ lastAccess \in [Tokens -> Nat]

Init ==
  /\ now = 0
  /\ pc = [a \in Attempts |-> "idle"]
  /\ client = [a \in Attempts |-> NoClient]
  /\ pending = {} /\ blocked = {}
  /\ count = [c \in Clients |-> 0]
  /\ until = [c \in Clients |-> 0]
  /\ newer = [c \in Clients |-> {}]
  /\ sessions = {} /\ drawn = {}
  /\ created = [t \in Tokens |-> 0]
  /\ expires = [t \in Tokens |-> 0]
  /\ lastAccess = [t \in Tokens |-> 0]

-----------------------------------------------------------------------------
(* The guard.                                                               *)

Failing == pending \cup blocked

Banned(c) == until[c] > now

Lapsed == {c \in blocked : ~Banned(c)}

(* pendingLRU.Back *)
LeastRecent == {c \in pending : pending \subseteq newer[c] \cup {c}}

(* Mutation: at capacity the oldest ban makes room like any other entry.    *)
MakeRoomAnyBan ==
  IF Cardinality(Failing) < MaxEntries THEN {}
  ELSE IF Lapsed # {} THEN Lapsed
  ELSE IF pending # {} THEN LeastRecent
  ELSE {c \in blocked : \A d \in blocked : until[c] <= until[d]}

(* makeRoomLocked: the entries removed for a new client.                    *)
MakeRoom ==
  IF Cardinality(Failing) < MaxEntries THEN {}
  ELSE IF Lapsed # {} THEN Lapsed
  ELSE LeastRecent

NoRoom == Cardinality(Failing \ MakeRoom) >= MaxEntries

(* Mutation: the entry stays in its list.                                   *)
RemovedFromMapOnly(gone) ==
  /\ UNCHANGED <<pending, newer>>
  /\ blocked' = blocked \ gone
  /\ count' = [c \in Clients |-> IF c \in gone THEN 0 ELSE count[c]]
  /\ until' = [c \in Clients |-> IF c \in gone THEN 0 ELSE until[c]]

(* removeLocked *)
Removed(gone) ==
  /\ pending' = pending \ gone
  /\ blocked' = blocked \ gone
  /\ count' = [c \in Clients |-> IF c \in gone THEN 0 ELSE count[c]]
  /\ until' = [c \in Clients |-> IF c \in gone THEN 0 ELSE until[c]]
  /\ newer' = [c \in Clients |-> IF c \in gone THEN {} ELSE newer[c] \ gone]

(* MoveToFront and PushFront of c, once those of gone are out.              *)
InFront(c, gone) ==
  newer' = [d \in Clients |->
    IF d = c \/ d \notin pending \ gone THEN {} ELSE (newer[d] \ gone) \cup {c}]

Leaves(a) ==
  /\ pc' = [pc EXCEPT ![a] = "idle"]
  /\ client' = [client EXCEPT ![a] = NoClient]

(* Check of a client that is not banned: the entry is touched, a ban that   *)
(* has lapsed is removed.                                                   *)
Check(a, c) ==
  /\ pc[a] = "idle"
  /\ ~Banned(c)
  /\ pc' = [pc EXCEPT ![a] = "checked"]
  /\ client' = [client EXCEPT ![a] = c]
  /\ IF c \in pending
     THEN InFront(c, {}) /\ UNCHANGED <<pending, blocked, count, until>>
     ELSE Removed({c})
  /\ UNCHANGED <<now, table>>

(* decodeStrictJSON refuses the body: no failure is counted.                *)
BadBody(a) ==
  /\ pc[a] = "checked"
  /\ Leaves(a)
  /\ UNCHANGED <<now, guard, table>>

(* Failure of a client that was banned meanwhile, or for which no room can  *)
(* be made: answered as banned, nothing kept.                               *)
FailureUncounted(a) ==
  /\ pc[a] = "checked"
  /\ Banned(client[a]) \/ (client[a] \notin Failing /\ NoRoom)
  /\ Leaves(a)
  /\ UNCHANGED <<now, guard, table>>

(* Failure counts: a new entry, or one whose ban has lapsed, starts from    *)
(* nothing, and the last failure allowed turns it into a ban.               *)
FailureCounted(a) ==
  LET c == client[a]
      gone == IF c \in Failing THEN {} ELSE MakeRoom
      failures == IF c \in pending THEN count[c] + 1 ELSE 1
      ban == failures >= MaxFailures
  IN
  /\ pc[a] = "checked"
  /\ ~Banned(c)
  /\ c \in Failing \/ ~NoRoom
  /\ pending' = IF ban THEN pending \ (gone \cup {c}) ELSE (pending \ gone) \cup {c}
  /\ blocked' = IF ban THEN (blocked \ gone) \cup {c} ELSE blocked \ (gone \cup {c})
  /\ count' = [d \in Clients |-> IF d = c THEN failures ELSE IF d \in gone THEN 0 ELSE count[d]]
  /\ until' = [d \in Clients |-> IF d = c THEN IF ban THEN now + BanDuration ELSE 0
                                 ELSE IF d \in gone THEN 0 ELSE until[d]]
  /\ IF ban THEN newer' = [d \in Clients |-> IF d \in gone \cup {c} THEN {}
                                             ELSE newer[d] \ (gone \cup {c})]
     ELSE InFront(c, gone)
  /\ Leaves(a)
  /\ UNCHANGED <<now, table>>

Success(a) ==
  /\ pc[a] = "welcome"
  /\ Removed({client[a]})
  /\ Leaves(a)
  /\ UNCHANGED <<now, table>>

-----------------------------------------------------------------------------
(* The sessions.                                                            *)

Current == {t \in sessions : expires[t] > now}

Staler(t, u) ==
  \/ lastAccess[t] < lastAccess[u]
  \/ lastAccess[t] = lastAccess[u] /\ created[t] < created[u]

(* Mutation: the session created first goes, used or not.                   *)
EvictableByAge == {t \in Current : \A u \in Current : created[t] <= created[u]}

(* evictOldestLocked; among equals the order of the map decides.            *)
Evictable == {t \in Current : \A u \in Current : ~Staler(u, t)}

(* Auth.Login with the right password: expired sessions go, then the least  *)
(* recently used one if the table is full.  The table never holds more than *)
(* MaxSessions, so one is enough.                                           *)
SignIn(a, t, age) ==
  /\ pc[a] = "checked"
  /\ t \notin drawn
  /\ IF Cardinality(Current) >= MaxSessions
     THEN \E out \in Evictable : sessions' = (Current \ {out}) \cup {t}
     ELSE sessions' = Current \cup {t}
  /\ drawn' = drawn \cup {t}
  /\ created' = [created EXCEPT ![t] = now]
  /\ expires' = [expires EXCEPT ![t] = now + age]
  /\ lastAccess' = [lastAccess EXCEPT ![t] = now]
  /\ pc' = [pc EXCEPT ![a] = "welcome"]
  /\ UNCHANGED <<now, client, guard>>

(* Validate: a session in time is touched, an expired one removed.          *)
Validate(t) ==
  /\ t \in sessions
  /\ IF t \in Current
     THEN lastAccess' = [lastAccess EXCEPT ![t] = now] /\ UNCHANGED sessions
     ELSE sessions' = sessions \ {t} /\ UNCHANGED lastAccess
  /\ UNCHANGED <<now, pc, client, guard, created, expires, drawn>>

Logout(t) ==
  /\ t \in sessions
  /\ sessions' = sessions \ {t}
  /\ UNCHANGED <<now, pc, client, guard, created, expires, lastAccess, drawn>>

Tick ==
  /\ now < MaxTime
  /\ now' = now + 1
  /\ UNCHANGED <<pc, client, guard, table>>

Next ==
  \/ \E a \in Attempts :
       \/ \E c \in Clients : Check(a, c)
       \/ BadBody(a) \/ FailureUncounted(a) \/ FailureCounted(a) \/ Success(a)
       \/ \E t \in Tokens, age \in Ages : SignIn(a, t, age)
  \/ \E t \in Tokens : Validate(t) \/ Logout(t)
  \/ Tick

Spec == Init /\ [][Next]_vars

-----------------------------------------------------------------------------
(* Properties.                                                              *)

(* The map of failures and its two lists agree, over logins that overtake   *)
(* each other between Check and Failure: no client is in both, exactly the  *)
(* bans carry a deadline and a full count, the recency of the pending ones  *)
(* is a strict order, and the table keeps its capacity.                     *)
GuardExact ==
  /\ pending \cap blocked = {}
  /\ Cardinality(Failing) <= MaxEntries
  /\ \A c \in Clients :
       /\ c \in blocked <=> until[c] # 0
       /\ c \in blocked => count[c] >= MaxFailures
       /\ c \in pending => count[c] \in 1..(MaxFailures - 1)
       /\ c \notin Failing => count[c] = 0
       /\ newer[c] \subseteq pending \ {c}
  /\ \A c, d \in pending : c # d => (c \in newer[d] <=> d \notin newer[c])

(* A ban that runs keeps its deadline: neither more failures, nor a login   *)
(* that was checked before it, nor the need for room for another client     *)
(* moves or lifts it; only a success of the client itself does.             *)
BansHold ==
  [][\A c \in Clients : Banned(c) /\ until'[c] # until[c]
       => \E a \in Attempts : client[a] = c /\ pc[a] = "welcome" /\ pc'[a] = "idle"]_vars

(* A session in time is lost only by its own logout or, at the limit, when  *)
(* every other one has been used since; and the limit holds.                *)
SessionsKept ==
  [][/\ Cardinality(sessions') <= MaxSessions
     /\ \A t \in Current \ sessions' :
          \/ Logout(t)
          \/ /\ Cardinality(Current) = MaxSessions
             /\ \A u \in Current : lastAccess[t] <= lastAccess[u]]_vars
=============================================================================
