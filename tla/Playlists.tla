------------------------------ MODULE Playlists ------------------------------
(***************************************************************************)
(* What the play queues promise their clients, without bytes, snapshots,   *)
(* gates, drafts or times: a token names one playlist from the answer that *)
(* first tells it until it is taken away, and never another one.  A        *)
(* playlist may go at any time; it does not change, and it changes into    *)
(* another one only for the request that asked for that.                   *)
(***************************************************************************)
EXTENDS Naturals, FiniteSets, Sequences, Functions

CONSTANTS Paths, Requests, Tokens, NoToken, MaxQueues

VARIABLES
  lists,   \* the playlists, under their tokens
  asked,   \* what each request asks for: "none", "create" or "extend"
  given    \* the token it names, or NoToken

vars == <<lists, asked, given>>

Named == DOMAIN lists

(* The files in front, then the shuffled rest, which are positions in the   *)
(* Index "from" that the list is read with.                                 *)
IsPlaylist(q) ==
  /\ q \in [from : SUBSET Paths, first : Seq(Paths), rest : SUBSET Paths]
  /\ q.rest \subseteq q.from
  /\ IsInjective(q.first)
  /\ q.rest \cap Range(q.first) = {}

Extends(q, old) ==
  /\ q.from = old.from
  /\ q.rest \subseteq old.rest
  /\ old.rest \cup Range(old.first) \subseteq q.rest \cup Range(q.first)

Init ==
  /\ lists = <<>>
  /\ asked = [c \in Requests |-> "none"]
  /\ given = [c \in Requests |-> NoToken]

(* The playlists of new appear; of the others any may go and none changes.  *)
Changes(new) ==
  /\ lists' = [t \in DOMAIN lists' |-> lists'[t]]
  /\ DOMAIN lists' \ Named = new
  /\ \A t \in DOMAIN lists' \cap Named : lists'[t] = lists[t]

Answered(c) ==
  /\ asked' = [asked EXCEPT ![c] = "none"]
  /\ given' = [given EXCEPT ![c] = NoToken]

Ask(c, what, t) ==
  /\ asked[c] = "none"
  /\ t \in IF what = "create" THEN Named \cup {NoToken} ELSE Named
  /\ asked' = [asked EXCEPT ![c] = what]
  /\ given' = [given EXCEPT ![c] = t]
  /\ UNCHANGED lists

(* A token that no playlist has, and that no request still names.           *)
Unused == Tokens \ (Named \cup Range(given))

(* A new playlist, in the place of the named one if there is one.           *)
Created(c, t) ==
  /\ asked[c] = "create"
  /\ given[c] \in Named \cup {NoToken}
  /\ t \in Unused
  /\ Changes({t})
  /\ IsPlaylist(lists'[t])
  /\ given[c] \notin DOMAIN lists'
  /\ Cardinality(DOMAIN lists') <= MaxQueues
  /\ Answered(c)

(* The named playlist with more in front, under a token of its own.         *)
Extended(c, t) ==
  /\ asked[c] = "extend"
  /\ given[c] \in Named
  /\ t \in Unused
  /\ Changes({t})
  /\ IsPlaylist(lists'[t])
  /\ Extends(lists'[t], lists[given[c]])
  /\ given[c] \notin DOMAIN lists'
  /\ Cardinality(DOMAIN lists') <= MaxQueues
  /\ Answered(c)

Refused(c) ==
  /\ asked[c] # "none"
  /\ IF asked[c] = "create" THEN Changes({}) ELSE UNCHANGED lists
  /\ Answered(c)

Lose ==
  /\ Changes({})
  /\ UNCHANGED <<asked, given>>

Next ==
  \/ \E c \in Requests :
       \/ \E what \in {"create", "extend"}, t \in Tokens \cup {NoToken} : Ask(c, what, t)
       \/ \E t \in Tokens : Created(c, t) \/ Extended(c, t)
       \/ Refused(c)
  \/ Lose

Spec == Init /\ [][Next]_vars
=============================================================================
