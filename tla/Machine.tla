------------------------------ MODULE Machine ------------------------------
(***************************************************************************)
(* The kind of machine the code runs on.  With one processor, code that    *)
(* runs with interrupts disabled is not interleaved with anything; with    *)
(* several (CONFIG_ARCH_SMP) only spin locks exclude the others.           *)
(***************************************************************************)
VARIABLE smp  \* whether there are several processors; it never changes
=============================================================================
