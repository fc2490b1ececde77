-------------------------- MODULE MCStateDatabase --------------------------
(* StateDatabase with backups of an older and of a newer release.          *)
EXTENDS StateDatabase

MCForeign == {[data |-> 0, schema |-> 1], [data |-> 0, schema |-> 3]}
=============================================================================
