-------------------------- MODULE MCRuntimeProcess --------------------------
(* RuntimeProcess on a small instance: two calls of the dispatcher.        *)
EXTENDS RuntimeProcess
=============================================================================
