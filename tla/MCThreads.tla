----------------------------- MODULE MCThreads -----------------------------
(***************************************************************************)
(* POSIX threads and the parallel run-times, on small instances: one       *)
(* library, chosen at the start, and the tasks that use it.                *)
(***************************************************************************)
EXTENDS PthreadThread, PthreadKeys, MwmrChannels, Capsule, SrlBarrier, TLC

CONSTANTS t1, t2, t3, t4

VARIABLE library

allVars == <<library, thVars, kVars, lfVars, lkVars, cpVars, srlVars>>

Init ==
  /\ library \in {"thread", "keys", "lockfree", "locked", "capsule", "barrier"}
  /\ ThInit /\ KInit /\ LfInit /\ LkInit /\ CpInit /\ SrlInit
  /\ library # "thread" => ~smp
  /\ library # "locked" => trying = {}
  /\ library # "barrier" => serial = 0

Next ==
  /\ UNCHANGED library
  /\ \/ library = "thread" /\ ThNext /\ UNCHANGED <<kVars, lfVars, lkVars, cpVars, srlVars>>
     \/ library = "keys" /\ KNext /\ UNCHANGED <<thVars, lfVars, lkVars, cpVars, srlVars>>
     \/ library = "lockfree" /\ LfNext /\ UNCHANGED <<thVars, kVars, lkVars, cpVars, srlVars>>
     \/ library = "locked" /\ LkNext /\ UNCHANGED <<thVars, kVars, lfVars, cpVars, srlVars>>
     \/ library = "capsule" /\ CpNext /\ UNCHANGED <<thVars, kVars, lfVars, lkVars, srlVars>>
     \/ library = "barrier" /\ SrlNext /\ UNCHANGED <<thVars, kVars, lfVars, lkVars, cpVars>>

\* what the module of each library says
Fairness ==
  /\ \A t \in Thread : WF_thVars(library = "thread" /\ Finish(t))
  /\ \A t \in KThread : WF_kVars(library = "keys" /\ Cleanup(t))
  /\ \A x \in Task : WF_lfVars(library = "lockfree" /\ Transfer(x))
  /\ \A x \in LkTask : WF_lkVars(library = "locked" /\ LkStep(x))
  /\ WF_cpVars(library = "capsule" /\ app_start)
  /\ \A r \in Runner : WF_cpVars(library = "capsule" /\ (Work(r) \/ capsule_group_join(r)))
  /\ \A x \in SrlTask : WF_srlVars(library = "barrier" /\ SrlStep(x))

Spec == Init /\ [][Next]_allVars /\ Fairness
-----------------------------------------------------------------------------
\* Everything gets through the channel without locks, no task waits for ever
\* for room or for its turn (mwmr_soclib_lockfree.c:124, 237).
LockfreeThrough == (library = "lockfree") => EverythingThrough

\* Nor does one wait for ever for what is in the channel under the spin lock
\* (mwmr_soclib.c:169, 229).
LockedThrough == (library = "locked") => LkThrough

\* All that is written to either channel is read: no task waits for ever for
\* room, for units or for its turn (mwmr_soclib.c:169, mwmr_soclib_lockfree.c:124).
ChannelsThrough == LockfreeThrough /\ LockedThrough
=============================================================================
