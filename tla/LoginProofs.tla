---------------------------- MODULE LoginProofs ----------------------------
(***************************************************************************)
(* Proofs about Login.  The state is typed, the tables of the guard agree  *)
(* with one another and neither table exceeds its limit; both steps'       *)
(* promises, BansHold and SessionsKept, follow from that invariant.        *)
(***************************************************************************)
EXTENDS Login, FiniteSetTheorems, TLAPS

LoginInv ==
  /\ TypeOK
  /\ GuardExact
  /\ Cardinality(sessions) <= MaxSessions

(* The sets the limits speak of are finite.                                 *)
LEMMA FiniteTables ==
  ASSUME TypeOK
  PROVE  /\ IsFiniteSet(Failing) /\ IsFiniteSet(sessions) /\ IsFiniteSet(Current)
         /\ Cardinality(Failing) \in Nat
         /\ Cardinality(sessions) \in Nat
         /\ Cardinality(Current) \in Nat
         /\ Cardinality(Current) <= Cardinality(sessions)
<1>1. Failing \subseteq Clients /\ sessions \subseteq Tokens /\ Current \subseteq sessions
  BY DEF TypeOK, Failing, Current
<1>2. IsFiniteSet(Failing) /\ IsFiniteSet(sessions)
  BY <1>1, FS_Subset, LoginAssumption
<1>3. IsFiniteSet(Current) /\ Cardinality(Current) <= Cardinality(sessions)
  BY <1>1, <1>2, FS_Subset
<1> QED  BY <1>2, <1>3, FS_CardinalityType

LEMMA OneMore ==
  ASSUME NEW S, IsFiniteSet(S), NEW x
  PROVE  /\ Cardinality(S) \in Nat
         /\ Cardinality(S \cup {x}) \in Nat
         /\ Cardinality(S \cup {x}) <= Cardinality(S) + 1
<1>1. Cardinality(S) \in Nat
  BY FS_CardinalityType
<1>2. CASE x \in S
  <2>1. S \cup {x} = S  BY <1>2
  <2> QED  BY <1>1, <2>1
<1>3. CASE x \notin S
  BY <1>1, <1>3, FS_AddElement
<1> QED  BY <1>1, <1>2, <1>3

(* What makes room is an entry without a running ban, and enough goes.      *)
LEMMA RoomIsNoBan ==
  ASSUME TypeOK, GuardExact
  PROVE  /\ MakeRoom \subseteq Failing
         /\ \A c \in MakeRoom : ~Banned(c)
<1>1. \A c \in pending : until[c] = 0
  BY DEF GuardExact, TypeOK
<1>2. \A c \in LeastRecent : c \in pending /\ ~Banned(c)
  BY <1>1 DEF LeastRecent, Banned, TypeOK
<1>3. \A c \in Lapsed : c \in blocked /\ ~Banned(c)
  BY DEF Lapsed
<1> QED  BY <1>2, <1>3 DEF MakeRoom, Failing

-----------------------------------------------------------------------------
LEMMA InitInv == Init => LoginInv
<1> SUFFICES ASSUME Init PROVE LoginInv  OBVIOUS
<1>1. TypeOK
  BY LoginAssumption DEF Init, TypeOK
<1>2. Failing = {}
  BY DEF Init, Failing
<1>3. GuardExact
  BY <1>2, FS_EmptySet, LoginAssumption DEF Init, GuardExact
<1>4. Cardinality(sessions) <= MaxSessions
  BY FS_EmptySet, LoginAssumption DEF Init
<1> QED  BY <1>1, <1>3, <1>4 DEF LoginInv

LEMMA TypePreserved ==
  ASSUME TypeOK, [Next]_vars
  PROVE  TypeOK'
<1> USE LoginAssumption
<1>1. ASSUME NEW a \in Attempts, NEW c \in Clients, Check(a, c)  PROVE TypeOK'
  BY <1>1 DEF Check, TypeOK, Removed, InFront, table
<1>2. ASSUME NEW a \in Attempts, BadBody(a)  PROVE TypeOK'
  BY <1>2 DEF BadBody, TypeOK, Leaves, guard, table
<1>3. ASSUME NEW a \in Attempts, FailureUncounted(a)  PROVE TypeOK'
  BY <1>3 DEF FailureUncounted, TypeOK, Leaves, guard, table
<1>4. ASSUME NEW a \in Attempts, FailureCounted(a)  PROVE TypeOK'
  <2> DEFINE c == client[a]
             gone == IF c \in Failing THEN {} ELSE MakeRoom
             failures == IF c \in pending THEN count[c] + 1 ELSE 1
             ban == failures >= MaxFailures
  <2>1. c \in Clients /\ failures \in Nat /\ now + BanDuration \in Nat
    BY <1>4 DEF FailureCounted, TypeOK
  <2>2. pending' \subseteq Clients /\ blocked' \subseteq Clients
    BY <1>4, <2>1 DEF FailureCounted, TypeOK
  <2>3. count' \in [Clients -> Nat] /\ until' \in [Clients -> Nat]
    BY <1>4, <2>1 DEF FailureCounted, TypeOK
  <2>4. newer' \in [Clients -> SUBSET Clients]
    <3>1. CASE ban
      BY <1>4, <2>1, <3>1 DEF FailureCounted, TypeOK
    <3>2. CASE ~ban
      BY <1>4, <2>1, <3>2 DEF FailureCounted, TypeOK, InFront
    <3> QED  BY <3>1, <3>2
  <2>5. pc' \in [Attempts -> {"idle", "checked", "welcome"}]
        /\ client' \in [Attempts -> Clients \cup {NoClient}]
        /\ \A b \in Attempts : pc'[b] # "idle" => client'[b] \in Clients
    BY <1>4 DEF FailureCounted, Leaves, TypeOK
  <2> QED  BY <1>4, <2>2, <2>3, <2>4, <2>5 DEF FailureCounted, TypeOK, table
<1>5. ASSUME NEW a \in Attempts, Success(a)  PROVE TypeOK'
  BY <1>5 DEF Success, TypeOK, Leaves, Removed, table
<1>6. ASSUME NEW a \in Attempts, NEW t \in Tokens, NEW age \in Ages, SignIn(a, t, age)
      PROVE TypeOK'
  <2>1. now + age \in Nat  BY DEF TypeOK
  <2>2. sessions' \subseteq drawn' /\ drawn' \subseteq Tokens
    BY <1>6 DEF SignIn, TypeOK, Current, Evictable
  <2> QED  BY <1>6, <2>1, <2>2 DEF SignIn, TypeOK, guard
<1>7. ASSUME NEW t \in Tokens, Validate(t)  PROVE TypeOK'
  BY <1>7 DEF Validate, TypeOK, guard, Current
<1>8. ASSUME NEW t \in Tokens, Logout(t)  PROVE TypeOK'
  BY <1>8 DEF Logout, TypeOK, guard
<1>9. CASE Tick
  BY <1>9 DEF Tick, TypeOK, guard, table
<1>10. CASE UNCHANGED vars
  BY <1>10 DEF vars, TypeOK, guard, table
<1> QED  BY <1>1, <1>2, <1>3, <1>4, <1>5, <1>6, <1>7, <1>8, <1>9, <1>10 DEF Next

-----------------------------------------------------------------------------
(* The order of pendingLRU survives the removals and moves.                 *)

LEMMA RemovedExact ==
  ASSUME TypeOK, GuardExact, NEW c \in Clients, Removed({c})
  PROVE  GuardExact'
<1>1. Failing' \subseteq Failing
  BY DEF Removed, Failing
<1>2. Cardinality(Failing') <= MaxEntries
  <2>1. Cardinality(Failing') \in Nat /\ Cardinality(Failing') <= Cardinality(Failing)
    BY <1>1, FiniteTables, FS_Subset, FS_CardinalityType
  <2> QED  BY <2>1, FiniteTables, LoginAssumption DEF GuardExact
<1>3. \A d \in Clients :
        /\ d \in blocked' <=> until'[d] # 0
        /\ d \in blocked' => count'[d] >= MaxFailures
        /\ d \in pending' => count'[d] \in 1..(MaxFailures - 1)
        /\ d \notin Failing' => count'[d] = 0
  BY DEF Removed, GuardExact, Failing, TypeOK
<1>4. \A d \in Clients : newer'[d] \subseteq pending' \ {d}
  BY DEF Removed, GuardExact, TypeOK
<1>5. \A d, e \in pending' : d # e => (d \in newer'[e] <=> e \notin newer'[d])
  BY DEF Removed, GuardExact, TypeOK
<1>6. pending' \cap blocked' = {}
  BY DEF Removed, GuardExact
<1> QED  BY <1>2, <1>3, <1>4, <1>5, <1>6 DEF GuardExact

LEMMA TouchedExact ==
  ASSUME TypeOK, GuardExact, NEW c \in pending, InFront(c, {}),
         UNCHANGED <<pending, blocked, count, until>>
  PROVE  GuardExact'
<1>1. Failing' = Failing
  BY DEF Failing
<1>2. \A d \in Clients : newer'[d] \subseteq pending \ {d}
  BY DEF InFront, GuardExact, TypeOK
<1>3. \A d, e \in pending : d # e => (d \in newer'[e] <=> e \notin newer'[d])
  BY DEF InFront, GuardExact, TypeOK
<1> QED  BY <1>1, <1>2, <1>3 DEF GuardExact

(* A failure that counts keeps the tables exact: the room made is real.     *)
LEMMA CountedExact ==
  ASSUME TypeOK, GuardExact, NEW a \in Attempts, FailureCounted(a)
  PROVE  GuardExact'
<1> DEFINE c == client[a]
           gone == IF c \in Failing THEN {} ELSE MakeRoom
           failures == IF c \in pending THEN count[c] + 1 ELSE 1
           ban == failures >= MaxFailures
<1> USE LoginAssumption
<1>1. /\ c \in Clients /\ c \notin gone /\ gone \subseteq Failing
      /\ failures \in Nat \ {0}
  BY RoomIsNoBan DEF FailureCounted, TypeOK, GuardExact
<1>2. Failing' = (Failing \ gone) \cup {c}
  BY <1>1 DEF FailureCounted, Failing
<1>3. Cardinality(Failing') <= MaxEntries
  <2>1. CASE c \in Failing
    <3>1. Failing' = Failing
      BY <1>2, <2>1
    <3> QED  BY <3>1 DEF GuardExact
  <2>2. CASE c \notin Failing
    <3>1. IsFiniteSet(Failing \ MakeRoom) /\ Cardinality(Failing \ MakeRoom) \in Nat
      BY FiniteTables, FS_Subset, FS_CardinalityType
    <3>2. Cardinality(Failing \ MakeRoom) < MaxEntries
      BY <2>2, <3>1 DEF FailureCounted, NoRoom
    <3>3. Failing' = (Failing \ MakeRoom) \cup {c}
      BY <1>2, <2>2
    <3>4. /\ Cardinality(Failing') \in Nat
          /\ Cardinality(Failing') <= Cardinality(Failing \ MakeRoom) + 1
      BY <3>1, <3>3, OneMore
    <3> QED  BY <3>1, <3>2, <3>4
  <2> QED  BY <2>1, <2>2
<1>4. now + BanDuration \in Nat \ {0}
  BY DEF TypeOK
<1>5. \A d \in Clients :
        /\ d \in blocked' <=> until'[d] # 0
        /\ d \in blocked' => count'[d] >= MaxFailures
        /\ d \in pending' => count'[d] \in 1..(MaxFailures - 1)
        /\ d \notin Failing' => count'[d] = 0
  <2> SUFFICES ASSUME NEW d \in Clients
               PROVE  /\ d \in blocked' <=> until'[d] # 0
                      /\ d \in blocked' => count'[d] >= MaxFailures
                      /\ d \in pending' => count'[d] \in 1..(MaxFailures - 1)
                      /\ d \notin Failing' => count'[d] = 0
    OBVIOUS
  <2>1. CASE d = c
    BY <1>1, <1>2, <1>4, <2>1 DEF FailureCounted, TypeOK
  <2>2. CASE d # c
    BY <1>1, <1>2, <2>2 DEF FailureCounted, TypeOK, GuardExact, Failing
  <2> QED  BY <2>1, <2>2
<1>6. pending' \cap blocked' = {}
  BY <1>1 DEF FailureCounted, GuardExact
<1>7. /\ \A d \in Clients : newer'[d] \subseteq pending' \ {d}
      /\ \A d, e \in pending' : d # e => (d \in newer'[e] <=> e \notin newer'[d])
  <2>1. CASE ban
    <3>1. /\ pending' = pending \ (gone \cup {c})
          /\ newer' = [d \in Clients |-> IF d \in gone \cup {c} THEN {}
                                        ELSE newer[d] \ (gone \cup {c})]
      BY <2>1 DEF FailureCounted
    <3> QED  BY <3>1, <1>1 DEF TypeOK, GuardExact
  <2>2. CASE ~ban
    <3>1. /\ pending' = (pending \ gone) \cup {c}
          /\ newer' = [d \in Clients |-> IF d = c \/ d \notin pending \ gone THEN {}
                                        ELSE (newer[d] \ gone) \cup {c}]
      BY <2>2 DEF FailureCounted, InFront
    <3> QED  BY <3>1, <1>1 DEF TypeOK, GuardExact
  <2> QED  BY <2>1, <2>2
<1> QED  BY <1>3, <1>5, <1>6, <1>7 DEF GuardExact

LEMMA SameGuard ==
  ASSUME GuardExact, UNCHANGED guard
  PROVE  GuardExact'
BY DEF GuardExact, guard, Failing

LEMMA GuardPreserved ==
  ASSUME TypeOK, GuardExact, [Next]_vars
  PROVE  GuardExact'
<1>1. ASSUME NEW a \in Attempts, NEW c \in Clients, Check(a, c)  PROVE GuardExact'
  <2>1. CASE c \in pending
    BY <1>1, <2>1, TouchedExact DEF Check
  <2>2. CASE c \notin pending
    BY <1>1, <2>2, RemovedExact DEF Check
  <2> QED  BY <2>1, <2>2
<1>2. ASSUME NEW a \in Attempts, FailureCounted(a)  PROVE GuardExact'
  BY <1>2, CountedExact
<1>3. ASSUME NEW a \in Attempts, Success(a)  PROVE GuardExact'
  <2>1. client[a] \in Clients
    BY <1>3 DEF Success, TypeOK
  <2> QED  BY <1>3, <2>1, RemovedExact DEF Success
<1>4. ASSUME NEW a \in Attempts, BadBody(a) \/ FailureUncounted(a)  PROVE GuardExact'
  BY <1>4, SameGuard DEF BadBody, FailureUncounted
<1>5. ASSUME NEW a \in Attempts, NEW t \in Tokens, NEW age \in Ages, SignIn(a, t, age)
      PROVE GuardExact'
  BY <1>5, SameGuard DEF SignIn
<1>6. ASSUME NEW t \in Tokens, Validate(t) \/ Logout(t)  PROVE GuardExact'
  BY <1>6, SameGuard DEF Validate, Logout
<1>7. CASE Tick \/ UNCHANGED vars
  BY <1>7, SameGuard DEF Tick, vars
<1> QED  BY <1>1, <1>2, <1>3, <1>4, <1>5, <1>6, <1>7 DEF Next

-----------------------------------------------------------------------------
(* The sessions.                                                            *)

LEMMA SignInKeepsLimit ==
  ASSUME TypeOK, Cardinality(sessions) <= MaxSessions,
         NEW a \in Attempts, NEW t \in Tokens, NEW age \in Ages, SignIn(a, t, age)
  PROVE  Cardinality(sessions') <= MaxSessions
<1> USE LoginAssumption
<1>0. IsFiniteSet(Current) /\ Cardinality(Current) \in Nat
      /\ Cardinality(Current) <= MaxSessions
  BY FiniteTables DEF TypeOK
<1>1. CASE Cardinality(Current) >= MaxSessions
  <2>1. PICK out \in Evictable : sessions' = (Current \ {out}) \cup {t}
    BY <1>1 DEF SignIn
  <2>2. Cardinality(Current \ {out}) = Cardinality(Current) - 1 /\ IsFiniteSet(Current \ {out})
    BY <1>0, <2>1, FS_RemoveElement DEF Evictable
  <2>3. /\ Cardinality(sessions') \in Nat
        /\ Cardinality(sessions') <= Cardinality(Current \ {out}) + 1
    BY <2>1, <2>2, OneMore
  <2> QED  BY <2>2, <2>3, <1>0
<1>2. CASE ~(Cardinality(Current) >= MaxSessions)
  <2>1. sessions' = Current \cup {t}
    BY <1>2 DEF SignIn
  <2>2. /\ Cardinality(sessions') \in Nat
        /\ Cardinality(sessions') <= Cardinality(Current) + 1
    BY <1>0, <2>1, OneMore
  <2> QED  BY <1>0, <1>2, <2>2
<1> QED  BY <1>1, <1>2

LEMMA LimitPreserved ==
  ASSUME TypeOK, Cardinality(sessions) <= MaxSessions, [Next]_vars
  PROVE  Cardinality(sessions') <= MaxSessions
<1>1. ASSUME NEW a \in Attempts, NEW t \in Tokens, NEW age \in Ages, SignIn(a, t, age)
      PROVE Cardinality(sessions') <= MaxSessions
  BY <1>1, SignInKeepsLimit
<1>2. ASSUME sessions' \subseteq sessions  PROVE Cardinality(sessions') <= MaxSessions
  <2>1. Cardinality(sessions') <= Cardinality(sessions) /\ Cardinality(sessions') \in Nat
    BY <1>2, FiniteTables, FS_Subset, FS_CardinalityType
  <2> QED  BY <2>1, FiniteTables, LoginAssumption
<1>3. CASE \E t \in Tokens : Validate(t) \/ Logout(t)
  BY <1>3, <1>2 DEF Validate, Logout
<1>4. CASE UNCHANGED table \/ UNCHANGED vars
  BY <1>4, <1>2 DEF table, vars
<1> QED
  BY <1>1, <1>3, <1>4 DEF Next, Check, BadBody, FailureUncounted, FailureCounted, Success, Tick

-----------------------------------------------------------------------------
(* The invariant: the state is typed, the guard's map and lists agree and   *)
(* keep their capacity, and the session table keeps its limit.              *)
THEOREM LoginInvariant == Spec => []LoginInv
<1>1. LoginInv /\ [Next]_vars => LoginInv'
  BY TypePreserved, GuardPreserved, LimitPreserved DEF LoginInv
<1> QED  BY InitInv, <1>1, PTL DEF Spec

(* The tables of LoginGuard stay exact, for any numbers of clients and      *)
(* logins in progress, and any capacity.                                    *)
THEOREM GuardStaysExact == Spec => []GuardExact
<1>1. LoginInv => GuardExact
  BY DEF LoginInv
<1> QED  BY LoginInvariant, <1>1, PTL

LEMMA BanStep ==
  ASSUME TypeOK, GuardExact, [Next]_vars,
         NEW c \in Clients, Banned(c), until'[c] # until[c]
  PROVE  \E a \in Attempts : client[a] = c /\ pc[a] = "welcome" /\ pc'[a] = "idle"
<1>1. ASSUME NEW a \in Attempts, NEW d \in Clients, Check(a, d)  PROVE FALSE
  BY <1>1 DEF Check, Removed, TypeOK
<1>2. ASSUME NEW a \in Attempts, FailureCounted(a)  PROVE FALSE
  BY <1>2, RoomIsNoBan DEF FailureCounted, TypeOK
<1>3. ASSUME NEW a \in Attempts, Success(a)
      PROVE  client[a] = c /\ pc[a] = "welcome" /\ pc'[a] = "idle"
  BY <1>3 DEF Success, Removed, Leaves, TypeOK
<1>4. CASE UNCHANGED until
  BY <1>4
<1>5. CASE UNCHANGED vars
  BY <1>4, <1>5 DEF vars, guard
<1> QED
  BY <1>1, <1>2, <1>3, <1>4, <1>5
     DEF Next, BadBody, FailureUncounted, SignIn, Validate, Logout, Tick, guard

(* No step moves or lifts a running ban but a success of that client:       *)
(* LoginGuard.Failure at any capacity, and logins checked before the ban.   *)
THEOREM BansAlwaysHold == Spec => BansHold
<1>1. LoginInv /\ [Next]_vars =>
        [\A c \in Clients : Banned(c) /\ until'[c] # until[c]
          => \E a \in Attempts : client[a] = c /\ pc[a] = "welcome" /\ pc'[a] = "idle"]_vars
  BY BanStep DEF LoginInv
<1> QED  BY LoginInvariant, <1>1, PTL DEF Spec, BansHold

LEMMA SessionStep ==
  ASSUME TypeOK, Cardinality(sessions) <= MaxSessions, [Next]_vars,
         NEW t \in Current \ sessions'
  PROVE  \/ Logout(t)
         \/ /\ Cardinality(Current) = MaxSessions
            /\ \A u \in Current : lastAccess[t] <= lastAccess[u]
<1>0. /\ Cardinality(Current) \in Nat /\ Cardinality(Current) <= MaxSessions
      /\ t \in sessions /\ t \in Tokens
  BY FiniteTables, LoginAssumption DEF TypeOK, Current
<1>1. ASSUME NEW a \in Attempts, NEW s \in Tokens, NEW age \in Ages, SignIn(a, s, age)
      PROVE  /\ Cardinality(Current) = MaxSessions
             /\ \A u \in Current : lastAccess[t] <= lastAccess[u]
  <2>1. Cardinality(Current) >= MaxSessions
    BY <1>1 DEF SignIn
  <2>2. t \in Evictable
    BY <1>1, <2>1 DEF SignIn
  <2>3. \A u \in Current : lastAccess[t] <= lastAccess[u]
    BY <2>2, <1>0 DEF Evictable, Staler, TypeOK, Current
  <2> QED  BY <2>1, <2>3, <1>0, LoginAssumption
<1>2. ASSUME NEW s \in Tokens, Validate(s)  PROVE FALSE
  BY <1>0, <1>2 DEF Validate
<1>3. ASSUME NEW s \in Tokens, Logout(s)  PROVE Logout(t)
  <2>1. s = t
    BY <1>0, <1>3 DEF Logout
  <2> QED  BY <1>3, <2>1
<1>4. CASE UNCHANGED sessions
  BY <1>0, <1>4
<1>5. CASE UNCHANGED vars
  BY <1>4, <1>5 DEF vars, table
<1> QED
  BY <1>1, <1>2, <1>3, <1>4, <1>5
     DEF Next, Check, BadBody, FailureUncounted, FailureCounted, Success, Tick, table

(* A session in time is lost only by its logout, or at the limit as the     *)
(* least recently used one, and the limit of the table holds.               *)
THEOREM SessionsAreKept == Spec => SessionsKept
<1>1. LoginInv /\ LoginInv' /\ [Next]_vars =>
        [/\ Cardinality(sessions') <= MaxSessions
         /\ \A t \in Current \ sessions' :
              \/ Logout(t)
              \/ /\ Cardinality(Current) = MaxSessions
                 /\ \A u \in Current : lastAccess[t] <= lastAccess[u]]_vars
  BY SessionStep DEF LoginInv
<1> QED  BY LoginInvariant, <1>1, PTL DEF Spec, SessionsKept
=============================================================================
