---------------------------- MODULE MCScheduler ----------------------------
(* Scheduler on small instances. *)
EXTENDS Scheduler, TLC

CONSTANTS c1, c2, x1, x2, x3, d1, q1, l1, shared

\* CONFIG_MUTEK_SCHEDULER_MIGRATION: one scheduler for all processors
MCMigration == [c \in CPU |-> shared]
\* CONFIG_MUTEK_SCHEDULER_STATIC: one scheduler per processor
MCStatic == [c \in CPU |-> c]

\* contexts other than app_start's are interchangeable
MCSymmetry == Permutations(Ctx \ {MainCtx})
=============================================================================
