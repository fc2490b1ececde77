------------------------- MODULE MCOperatorConsole -------------------------
(* OperatorConsole on a small instance: a valid token and a wrong one.       *)
EXTENDS OperatorConsole
=============================================================================
