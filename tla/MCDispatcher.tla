---------------------------- MODULE MCDispatcher ----------------------------
(* Dispatcher on small instances; the configurations choose the bounds.    *)
EXTENDS Dispatcher
=============================================================================
