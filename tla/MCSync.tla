------------------------------- MODULE MCSync -------------------------------
(***************************************************************************)
(* The objects contexts block on, on small instances: one object of one    *)
(* kind, chosen at the start, and the contexts that use it.                *)
(***************************************************************************)
EXTENDS Semaphore, RWLock, PthreadCond, PthreadBarrier, TLC

CONSTANTS x1, x2, x3, x4

VARIABLE object

allVars == <<object, status, waitq, semOnly, rwOnly, mxOnly, condVars, barOnly>>

\* SEMAPHORE users in the tree: one unit at a time, and give(-1) in libcapsule
MCGives == {-1, 1, 2}
MCMin == -2

Init ==
  /\ object \in {"semaphore", "rwlock", "mutex", "cond", "barrier"}
  /\ semaphore_init /\ rwlock_init /\ pthread_mutex_init /\ pthread_cond_init /\ pthread_barrier_init
  /\ object # "mutex" => attr = "normal"
  /\ object # "barrier" => bar_init = 2

\* the bounds are reached: all items were produced and the consumers wait, or
\* too few threads are left to pass the barrier
Terminated ==
  /\ \/ /\ object = "cond"
        /\ \A x \in Ctx : IF x \in Consumer THEN status[x] = "blocked" ELSE put[x] = Puts /\ cd_pc[x] = "start"
     \/ /\ object = "barrier"
        /\ \A x \in Ctx : status[x] = "blocked" \/ (status[x] = "running" /\ passed[x] = MaxPass)
  /\ UNCHANGED allVars

Next ==
  \/ object = "semaphore" /\ NextEvents /\ UNCHANGED <<object, rwOnly, mxOnly, condVars, barOnly>>
  \/ object = "rwlock" /\ RWNext /\ UNCHANGED <<object, semOnly, mxOnly, condVars, barOnly>>
  \/ object = "mutex" /\ MXNext /\ UNCHANGED <<object, semOnly, rwOnly, condVars, barOnly>>
  \/ object = "cond" /\ CDNext /\ UNCHANGED <<object, semOnly, rwOnly, barOnly>>
  \/ object = "barrier" /\ BarNext /\ UNCHANGED <<object, semOnly, rwOnly, mxOnly, condVars>>
  \/ Terminated

\* what the specification of each object says
Fairness ==
  \A x \in Ctx :
    /\ WF_rwVars(object = "rwlock" /\ RWProgress(x))
    /\ WF_mxVars(object = "mutex" /\ MXResume(x)) /\ WF_mxVars(object = "mutex" /\ mutex_unlock(x))
    /\ WF_cdVars(object = "cond" /\ CDStep(x))
    /\ WF_barVars(object = "barrier" /\ (pthread_barrier_wait(x) \/ BarResume(x)))

Spec == Init /\ [][Next]_allVars /\ Fairness
=============================================================================
