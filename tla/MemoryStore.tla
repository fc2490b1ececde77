---------------------------- MODULE MemoryStore ----------------------------
(***************************************************************************)
(* Memories (packages/core/src/memory-store.js): notes that principals     *)
(* append, and that a search finds by workspace and visibility.  A memory  *)
(* is never changed or removed, so that what it says is a function of it.  *)
(***************************************************************************)
CONSTANTS
  Memories,   \* memories that may be appended
  Workspaces,
  Principals,
  Home,       \* the workspace of each document, memories among them
  Owner,      \* the principal that appends each memory
  Visibility  \* and who may see it

ASSUME MemoryAssumption ==
  /\ \A m \in Memories : Home[m] \in Workspaces
  /\ Owner \in [Memories -> Principals]
  /\ Visibility \in [Memories -> {"private", "workspace", "hub", "organization", "public"}]

VARIABLE memories \* those appended so far

Append(m) ==
  /\ m \notin memories
  /\ memories' = memories \cup {m}

(* Mutant: whose the memory is is not looked at.                           *)
IsVisibleToAll(m, principal) == Visibility[m] \in {"private", "workspace", "public"}

(* #isVisible, for a search that names neither a hub nor an organization.  *)
IsVisible(m, principal) ==
  \/ Visibility[m] \in {"workspace", "public"}
  \/ Visibility[m] = "private" /\ Owner[m] = principal

(* search, without text and tags.                                          *)
Search(ws, principal) == {m \in memories : Home[m] = ws /\ IsVisible(m, principal)}
=============================================================================
