--------------------------- MODULE MCControlPlane --------------------------
(* ControlPlane on a small instance: an administrator for everything, one  *)
(* for one workspace and an operator; one MCP service, a hub of the        *)
(* catalog and another entry.                                              *)
EXTENDS ControlPlane, TLC

CONSTANTS boot, admin, operator, w1, w2, hub, t1

MCRole == boot :> "admin" @@ admin :> "admin" @@ operator :> "operator"

MCScope == boot :> {w1, w2} @@ admin :> {w1} @@ operator :> {w1}

MCCatalog == hub :> {t1}

Symmetry == Permutations(Slots)
=============================================================================
