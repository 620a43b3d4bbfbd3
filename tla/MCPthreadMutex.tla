--------------------------- MODULE MCPthreadMutex ---------------------------
(* PthreadMutex on small instances. *)
EXTENDS PthreadMutex, TLC

CONSTANTS x1, x2, x3, x4
=============================================================================
