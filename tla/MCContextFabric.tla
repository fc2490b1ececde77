-------------------------- MODULE MCContextFabric --------------------------
(* ContextFabric on small instances.  Workspaces are interchangeable, and  *)
(* so are canonical ids.                                                   *)
EXTENDS ContextFabric, TLC

Symmetry == Permutations(Workspaces) \cup Permutations(Canonicals)
=============================================================================
