---------------------------- MODULE PthreadCond ----------------------------
(***************************************************************************)
(* Condition variables, libpthread/cond.c, with a normal mutex, used as    *)
(* they are meant to: consumers wait for items to be there, producers add  *)
(* one and signal.  pthread_cond_wait keeps the condition's queue locked   *)
(* from before it unlocks the mutex until it is queued; other threads run  *)
(* between these steps.                                                    *)
(*                                                                         *)
(*   "start"   outside; a consumer always comes back for more              *)
(*   "check"   a consumer holding the mutex looks at items                 *)
(*   "unlock"  in cond_wait, condition queue locked, mutex still held      *)
(*   "sleep"   mutex released, about to wait                               *)
(*   "relock"  waiting or woken up, about to lock the mutex again          *)
(*   "put"     a producer holding the mutex adds an item                   *)
(*   "signal"  the producer signals with the mutex held ...                *)
(*   "release", "late"   ... or unlocks the mutex first, then signals      *)
(*   "leave"   about to unlock the mutex for good                          *)
(***************************************************************************)
EXTENDS PthreadMutex

CONSTANTS
  Consumer,  \* these threads consume, the others produce
  Puts       \* bound: items produced by each producer

ASSUME CondAssumption ==
  /\ "cond" \in Queue /\ IsFiniteSet(Ctx) /\ Consumer \subseteq Ctx /\ Puts \in Nat
  /\ "normal" \in Types \ Relock

VARIABLES
  cLock,  \* the thread holding the lock of cond->wait between two steps
  cd_pc,
  items,  \* what the condition is about
  put     \* items each producer has put

condVars == <<cLock, cd_pc, items, put>>
cdVars == <<mxVars, condVars>>

Producer == Ctx \ Consumer

pthread_cond_init ==
  /\ cLock = None
  /\ cd_pc = [x \in Ctx |-> "start"]
  /\ items = 0
  /\ put = [x \in Ctx |-> 0]

At(x, state) == MXCalls(x) /\ cd_pc[x] = state

Goto(x, state) == cd_pc' = [cd_pc EXCEPT ![x] = state]

-----------------------------------------------------------------------------
\* pthread_cond_wait: lock the condition's queue ...
wait_lock(x) ==
  /\ At(x, "check") /\ items = 0
  /\ cLock = None
  /\ cLock' = x
  /\ Goto(x, "unlock")
  /\ UNCHANGED <<mxVars, items, put>>

\* MUTANT of wait_unlock: the condition's queue is unlocked as well
MutWaitUnlock(x) ==
  /\ At(x, "unlock")
  /\ mutex_unlock(x)
  /\ cLock' = None
  /\ Goto(x, "sleep")
  /\ UNCHANGED <<items, put>>

\* ... release the mutex ...
wait_unlock(x) ==
  /\ At(x, "unlock")
  /\ mutex_unlock(x)
  /\ Goto(x, "sleep")
  /\ UNCHANGED <<cLock, items, put>>

\* ... wait, which unlocks the queue ...
wait_sleep(x) ==
  /\ At(x, "sleep")
  /\ Wait(x, "cond")
  /\ cLock' = None
  /\ Goto(x, "relock")
  /\ UNCHANGED <<mxOnly, items, put>>

\* ... and, once woken up, take the mutex again; the caller looks at items again
wait_relock(x) ==
  /\ At(x, "relock")
  /\ mutex_lock(x)
  /\ Goto(x, "check")
  /\ UNCHANGED <<cLock, items, put>>

\* MUTANT of cond_wake: does nothing when several threads wait
MutCondWake ==
  \/ Len(waitq["cond"]) = 1 /\ Wake("cond")
  \/ Len(waitq["cond"]) # 1 /\ UNCHANGED wqVars

\* under the queue's lock: pthread_cond_signal wakes the oldest waiter if
\* there is one, pthread_cond_broadcast all of them
cond_wake ==
  \/ Wake("cond")
  \/ waitq["cond"] = <<>> /\ UNCHANGED wqVars
  \/ Len(waitq["cond"]) > 1 /\ WakeMany("cond", Len(waitq["cond"]))

cond_signal(x) ==
  /\ At(x, "signal") \/ At(x, "late")
  /\ cLock = None
  /\ cond_wake
  /\ Goto(x, IF cd_pc[x] = "signal" THEN "leave" ELSE "start")
  /\ UNCHANGED <<mxOnly, cLock, items, put>>

-----------------------------------------------------------------------------
(* The threads that use it.                                                *)

lock(x) ==
  /\ At(x, "start") /\ (x \in Producer => put[x] < Puts)
  /\ mutex_lock(x)
  /\ Goto(x, IF x \in Consumer THEN "check" ELSE "put")
  /\ UNCHANGED <<cLock, items, put>>

consume(x) ==
  /\ At(x, "check") /\ items > 0
  /\ items' = items - 1
  /\ Goto(x, "leave")
  /\ UNCHANGED <<mxVars, cLock, put>>

produce(x) ==
  /\ At(x, "put")
  /\ items' = items + 1
  /\ put' = [put EXCEPT ![x] = @ + 1]
  /\ Goto(x, "signal") \/ Goto(x, "release")
  /\ UNCHANGED <<mxVars, cLock>>

leave(x) ==
  /\ At(x, "leave") \/ At(x, "release")
  /\ mutex_unlock(x)
  /\ Goto(x, IF cd_pc[x] = "release" THEN "late" ELSE "start")
  /\ UNCHANGED <<cLock, items, put>>

resume(x) == MXResume(x) /\ UNCHANGED condVars

CDStep(x) ==
  \/ wait_lock(x) \/ wait_unlock(x) \/ wait_sleep(x) \/ wait_relock(x)
  \/ cond_signal(x)
  \/ lock(x) \/ consume(x) \/ produce(x) \/ leave(x) \/ resume(x)

CDNext == \E x \in Ctx : CDStep(x)

\* every thread goes on, as far as the spin and the sleeping locks let it
CDSpec ==
  /\ pthread_mutex_init /\ attr = "normal" /\ pthread_cond_init
  /\ [][CDNext]_cdVars /\ \A x \in Ctx : WF_cdVars(CDStep(x))
-----------------------------------------------------------------------------
\* The type invariant.
CDTypeOK ==
  /\ MXTypeOK
  /\ cLock \in Ctx \cup {None}
  /\ cd_pc \in [Ctx -> {"start", "check", "unlock", "sleep", "relock", "put", "signal", "release", "late", "leave"}]
  /\ items \in 0..(Puts * Cardinality(Producer))
  /\ put \in [Ctx -> 0..Puts]

\* No signal is lost between the mutex being released and the waiter being
\* queued (cond.c:79-83): while a consumer sleeps although there are items, a
\* signal is still to come, or another consumer is awake to take them.
NoLostSignal ==
  items > 0 /\ waitq["cond"] # <<>> =>
    \/ \E y \in Producer : cd_pc[y] \in {"signal", "release", "late"}
    \/ \E y \in Consumer : cd_pc[y] \in {"relock", "check"} /\ (status[y] # "blocked" \/ y \in wants)

\* All the items are consumed in the end.
ItemsDrained == <>[](items = 0)

\* What waiting and signalling keep true (cond.c:41-98).
CDInv == CDTypeOK /\ NoLostSignal
=============================================================================
