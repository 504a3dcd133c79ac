----------------------------- MODULE TaggedFiles -----------------------------
(***************************************************************************)
(* What the library API promises of tags, without buckets, transactions,   *)
(* scans, locks or crashes: one relation between files and tags, beside    *)
(* the set of files that are online.  A tag is taken off a file by the     *)
(* user alone; records of offline files stay until the user deletes them;  *)
(* records under an old absolute path are renamed, and files come online   *)
(* only when none of their records is left under such a path.              *)
(***************************************************************************)
CONSTANTS Paths, Legacy, Relative, Tags   \* Relative \in [Legacy -> Paths]

VARIABLES
  online,   \* the files of the library
  tagged    \* <<file, tag>> for each tag of each file

vars == <<online, tagged>>

Records == Paths \cup Legacy

TagsOf(k) == {t \in Tags : <<k, t>> \in tagged}

Init ==
  /\ online = {}
  /\ tagged \subseteq Records \X Tags

Add(k, t) ==
  /\ tagged' = tagged \cup {<<k, t>>}
  /\ UNCHANGED online

Remove(k, t) ==
  /\ tagged' = tagged \ {<<k, t>>}
  /\ UNCHANGED online

Forget(k) ==
  /\ k \notin online
  /\ tagged' = {p \in tagged : p[1] # k}
  /\ UNCHANGED online

(* The name a record has once the relative paths in known are in use.       *)
Renamed(k, known) == IF k \in Legacy /\ Relative[k] \in known THEN Relative[k] ELSE k

Rename(known) ==
  /\ tagged' = {<<Renamed(p[1], known), p[2]>> : p \in tagged}
  /\ UNCHANGED online

Publish(paths) ==
  /\ \A k \in Legacy : Relative[k] \in paths => TagsOf(k) = {}
  /\ online' = paths
  /\ UNCHANGED tagged

(* The server is restarted, with no library at first and all of its tags. *)
Restart ==
  /\ online' = {}
  /\ UNCHANGED tagged

Next ==
  \/ \E k \in Paths, t \in Tags : Add(k, t) \/ Remove(k, t)
  \/ \E k \in Records : Forget(k)
  \/ \E paths \in SUBSET Paths : Rename(paths) \/ Publish(paths)
  \/ Restart

Spec == Init /\ [][Next]_vars
=============================================================================
