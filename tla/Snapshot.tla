------------------------------ MODULE Snapshot ------------------------------
(***************************************************************************)
(* What a polled view promises (spec.md sections 3 and 4.2): while it is   *)
(* alive it shows nothing until its first fetch completes, after which it  *)
(* is loaded for the rest of its lifetime, and the data it shows is always *)
(* a value the backend resource had at some moment of that lifetime.  No   *)
(* update reaches a view that is not alive.                                *)
(*                                                                         *)
(* The resource's values are the versions 0..MaxVersion; a new version    *)
(* only ever replaces an older one.                                        *)
(***************************************************************************)
EXTENDS Naturals

CONSTANTS
  MaxVersion,   \* newest version the backend resource reaches
  Empty         \* what a view shows before its first fetch completes

Versions == 0..MaxVersion

VARIABLES
  alive,        \* a view bound to the resource is mounted
  loaded,       \* the view has received at least one fetch
  data,         \* what the view shows
  source,       \* the resource's current version on the backend
  seen          \* versions the resource has had since the view started

vars == <<alive, loaded, data, source, seen>>

TypeOK ==
  /\ alive \in BOOLEAN
  /\ loaded \in BOOLEAN
  /\ data \in Versions \cup {Empty}
  /\ source \in Versions
  /\ seen \subseteq Versions

Init ==
  /\ alive \in BOOLEAN
  /\ loaded = FALSE
  /\ data = Empty
  /\ source \in Versions
  /\ seen = {source}

\* A view mounts: a fresh, unloaded snapshot.
Start ==
  /\ ~alive
  /\ alive' = TRUE
  /\ loaded' = FALSE
  /\ data' = Empty
  /\ seen' = {source}
  /\ UNCHANGED source

\* The view unmounts; its snapshot is gone with it.
Stop ==
  /\ alive
  /\ alive' = FALSE
  /\ loaded' = FALSE
  /\ data' = Empty
  /\ UNCHANGED <<source, seen>>

\* A completed fetch refreshes the live snapshot with a value of its lifetime.
Refresh ==
  /\ alive
  /\ \E v \in seen : data' = v
  /\ loaded' = TRUE
  /\ UNCHANGED <<alive, source, seen>>

\* The backend resource changes.
Change ==
  /\ source < MaxVersion
  /\ source' = source + 1
  /\ seen' = seen \cup {source + 1}
  /\ UNCHANGED <<alive, loaded, data>>

Next == Start \/ Stop \/ Refresh \/ Change

Spec == Init /\ [][Next]_vars
=============================================================================
