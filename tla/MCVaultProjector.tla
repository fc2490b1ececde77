-------------------------- MODULE MCVaultProjector -------------------------
(* VaultProjector on a small instance: two workspaces whose folders have   *)
(* the same name, so that they share the file of the index; one of them    *)
(* has an artifact and a private memory as well.                           *)
EXTENDS VaultProjector, TLC

CONSTANTS w1, w2, alice, bob, a1, m1, i1, i2

MCHome == a1 :> w1 @@ m1 :> w1 @@ i1 :> w1 @@ i2 :> w2

MCOwner == m1 :> alice

MCVisibility == m1 :> "private"

MCIndex == w1 :> i1 @@ w2 :> i2

MCFolder == w1 :> "folder" @@ w2 :> "folder"

MCName == a1 :> "a" @@ m1 :> "m" @@ i1 :> "index" @@ i2 :> "index"
=============================================================================
