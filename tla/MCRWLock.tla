------------------------------ MODULE MCRWLock ------------------------------
(* RWLock on small instances. *)
EXTENDS RWLock, TLC

CONSTANTS x1, x2, x3, x4
=============================================================================
