---------------------------- MODULE PthreadThread ----------------------------
(***************************************************************************)
(* The life of a thread, libpthread/thread.c and cancel.c: create, exit,   *)
(* join, detach, cancel.  The descriptor's spin lock is taken with         *)
(* interrupts disabled; what is done under it is one step, except that the *)
(* thread started under the lock may run, on another processor, before the *)
(* lock is released.                                                       *)
(*                                                                         *)
(*   "run"      in the thread's own code                                   *)
(*   "zombie"   stopped in pthread_exit until it is joined or detached     *)
(*   "exit_rel", "join_rel", "detach_rel"   about to release the lock      *)
(*   "cleanup"  about to free its descriptor, __pthread_cleanup            *)
(*   "joining"  stopped in pthread_join; "woken": started by the exiting   *)
(*              thread, about to read joined_retval                        *)
(*                                                                         *)
(* Callers keep the rules of POSIX: one join or detach for each thread not *)
(* created detached, no use of its handle after that.                      *)
(***************************************************************************)
EXTENDS Machine, Naturals, FiniteSets

CONSTANTS
  Thread,
  Main,   \* the thread that is there at the start
  NoThread

ASSUME ThreadAssumption == Main \in Thread /\ NoThread \notin Thread

VARIABLES
  th_pc,
  th_lock,    \* pthread_s.lock: who holds it between two steps
  th_state,   \* pthread_s.state: flags that are set
  joined,     \* pthread_s.joined
  retval,     \* pthread_s.joined_retval
  claimed,    \* threads that were joined or detached by a caller
  target,     \* the thread each thread joins or detaches, or did last
  exitval,    \* what each thread exited with
  got,        \* what its last pthread_join returned to each thread
  freed,      \* threads whose descriptor was freed
  stale       \* threads whose descriptor was used after that

thOnly == <<th_pc, th_lock, th_state, joined, retval, claimed, target, exitval, got, freed, stale>>
thVars == <<smp, thOnly>>

Canceled == "canceled"  \* PTHREAD_CANCELED
Unset == "unset"        \* what a new descriptor has in joined_retval

ThInit ==
  /\ smp \in BOOLEAN
  /\ th_pc = [t \in Thread |-> IF t = Main THEN "run" ELSE "none"]
  /\ th_lock = [t \in Thread |-> NoThread]
  /\ th_state = [t \in Thread |-> {}]
  /\ joined = [t \in Thread |-> NoThread]
  /\ retval = [t \in Thread |-> Unset]
  /\ claimed = {} /\ freed = {} /\ stale = {}
  /\ target = [t \in Thread |-> NoThread]
  /\ exitval = [t \in Thread |-> NoThread]
  /\ got = [t \in Thread |-> NoThread]

\* with one processor nothing else runs while interrupts are disabled.  A
\* behaviour is followed up to the first use of freed memory.
Executes(t) ==
  /\ stale = {}
  /\ smp \/ \A u \in Thread \ {t} : th_pc[u] \notin {"exit_rel", "join_rel", "detach_rel"}

ThAt(t, pc) == th_pc[t] = pc /\ Executes(t)

\* using the descriptor of u
Touch(u) == stale' = IF u \in freed THEN stale \cup {u} ELSE stale

-----------------------------------------------------------------------------
pthread_create(t, u) ==
  /\ ThAt(t, "run") /\ th_pc[u] = "none"
  /\ \E flags \in {{}, {"DETACHED"}} : th_state' = [th_state EXCEPT ![u] = flags]
  /\ th_pc' = [th_pc EXCEPT ![u] = "run"]
  /\ UNCHANGED <<smp, th_lock, joined, retval, claimed, target, exitval, got, freed, stale>>

\* pthread_exit of a thread that another one is already joining
ExitJoined(t, v) ==
  /\ retval' = [retval EXCEPT ![joined[t]] = v]
  /\ th_pc' = [th_pc EXCEPT ![t] = "exit_rel", ![joined[t]] = "woken"]
  /\ th_lock' = [th_lock EXCEPT ![t] = t]
  /\ th_state' = [th_state EXCEPT ![t] = @ \cup {"CANCELED"}]

\* MUTANT of pthread_exit: joined is looked at before the lock is taken, as
\* if nobody could come in between
MutExit(t, v) ==
  /\ th_lock[t] = NoThread
  /\ exitval' = [exitval EXCEPT ![t] = v]
  /\ IF "DETACHED" \in th_state[t]
     THEN /\ th_lock' = [th_lock EXCEPT ![t] = t]
          /\ th_state' = [th_state EXCEPT ![t] = @ \cup {"CANCELED"}]
          /\ th_pc' = [th_pc EXCEPT ![t] = "cleanup"]
          /\ UNCHANGED retval
     ELSE /\ retval' = [retval EXCEPT ![t] = v]
          /\ th_state' = [th_state EXCEPT ![t] = @ \cup {"CANCELED", "JOINABLE"}]
          /\ th_pc' = [th_pc EXCEPT ![t] = "zombie"]
          /\ UNCHANGED th_lock
  /\ UNCHANGED <<smp, joined, claimed, target, got, freed, stale>>

\* pthread_exit, up to where the thread stops, or would release the lock; a
\* detached thread never releases it
pthread_exit(t, v) ==
  /\ th_lock[t] = NoThread
  /\ exitval' = [exitval EXCEPT ![t] = v]
  /\ IF "DETACHED" \in th_state[t]
     THEN /\ th_lock' = [th_lock EXCEPT ![t] = t]
          /\ th_state' = [th_state EXCEPT ![t] = @ \cup {"CANCELED"}]
          /\ th_pc' = [th_pc EXCEPT ![t] = "cleanup"]
          /\ UNCHANGED retval
     ELSE IF joined[t] = NoThread
     THEN /\ retval' = [retval EXCEPT ![t] = v]
          /\ th_state' = [th_state EXCEPT ![t] = @ \cup {"CANCELED", "JOINABLE"}]
          /\ th_pc' = [th_pc EXCEPT ![t] = "zombie"]
          /\ UNCHANGED th_lock
     ELSE ExitJoined(t, v)
  /\ UNCHANGED <<smp, joined, claimed, target, got, freed, stale>>

exit_release(t) ==
  /\ ThAt(t, "exit_rel")
  /\ th_lock' = [th_lock EXCEPT ![t] = NoThread]
  /\ th_pc' = [th_pc EXCEPT ![t] = "cleanup"]
  /\ UNCHANGED <<smp, th_state, joined, retval, claimed, target, exitval, got, freed, stale>>

\* frees the descriptor; the thread is no more
pthread_cleanup(t) ==
  /\ ThAt(t, "cleanup")
  /\ freed' = freed \cup {t}
  /\ th_pc' = [th_pc EXCEPT ![t] = "dead"]
  /\ UNCHANGED <<smp, th_lock, th_state, joined, retval, claimed, target, exitval, got, stale>>

-----------------------------------------------------------------------------
MustCancel(t) == "CANCELED" \in th_state[t] /\ "NOCANCEL" \notin th_state[t]

\* pthread_join, pthread_detach: the caller t may use the handle of u
MayClaim(t, u) ==
  /\ ThAt(t, "run") /\ u \notin {t, Main} /\ u \notin claimed
  /\ th_pc[u] # "none" /\ "DETACHED" \notin th_state[u]

pthread_join(t, u) ==
  /\ MayClaim(t, u) /\ ~MustCancel(t)
  /\ th_lock[u] = NoThread
  /\ claimed' = claimed \cup {u}
  /\ target' = [target EXCEPT ![t] = u]
  /\ IF "JOINABLE" \in th_state[u]
     THEN /\ got' = [got EXCEPT ![t] = retval[u]]
          /\ th_pc' = [th_pc EXCEPT ![u] = "cleanup", ![t] = "join_rel"]
          /\ th_lock' = [th_lock EXCEPT ![u] = t]
          /\ UNCHANGED joined
     ELSE /\ joined' = [joined EXCEPT ![u] = t]
          /\ th_pc' = [th_pc EXCEPT ![t] = "joining"]
          /\ got' = [got EXCEPT ![t] = NoThread]
          /\ UNCHANGED th_lock
  /\ UNCHANGED <<smp, th_state, retval, exitval, freed, stale>>

\* the lock released is in the descriptor of the thread just started
join_release(t) ==
  /\ ThAt(t, "join_rel")
  /\ Touch(target[t])
  /\ th_lock' = [th_lock EXCEPT ![target[t]] = NoThread]
  /\ th_pc' = [th_pc EXCEPT ![t] = "run"]
  /\ UNCHANGED <<smp, th_state, joined, retval, claimed, target, exitval, got, freed>>

join_return(t) ==
  /\ ThAt(t, "woken")
  /\ got' = [got EXCEPT ![t] = retval[t]]
  /\ th_pc' = [th_pc EXCEPT ![t] = "run"]
  /\ UNCHANGED <<smp, th_lock, th_state, joined, retval, claimed, target, exitval, freed, stale>>

\* MUTANT of pthread_detach: a thread that has exited is not started
MutDetach(t, u) ==
  /\ MayClaim(t, u)
  /\ th_lock[u] = NoThread
  /\ claimed' = claimed \cup {u}
  /\ target' = [target EXCEPT ![t] = u]
  /\ got' = [got EXCEPT ![t] = NoThread]
  /\ th_state' = [th_state EXCEPT ![u] = @ \cup {"DETACHED"}]
  /\ th_lock' = [th_lock EXCEPT ![u] = t]
  /\ th_pc' = [th_pc EXCEPT ![t] = "detach_rel"]
  /\ UNCHANGED <<smp, joined, retval, exitval, freed, stale>>

pthread_detach(t, u) ==
  /\ MayClaim(t, u)
  /\ th_lock[u] = NoThread
  /\ claimed' = claimed \cup {u}
  /\ target' = [target EXCEPT ![t] = u]
  /\ got' = [got EXCEPT ![t] = NoThread]
  /\ th_state' = [th_state EXCEPT ![u] = @ \cup {"DETACHED"}]
  /\ th_lock' = [th_lock EXCEPT ![u] = t]
  /\ th_pc' = [th_pc EXCEPT ![t] = "detach_rel",
                            ![u] = IF "JOINABLE" \in th_state[u] THEN "cleanup" ELSE @]
  /\ UNCHANGED <<smp, joined, retval, exitval, freed, stale>>

detach_release(t) ==
  /\ ThAt(t, "detach_rel")
  /\ Touch(target[t])
  /\ th_lock' = [th_lock EXCEPT ![target[t]] = NoThread]
  /\ th_pc' = [th_pc EXCEPT ![t] = "run"]
  /\ UNCHANGED <<smp, th_state, joined, retval, claimed, target, exitval, got, freed>>

-----------------------------------------------------------------------------
\* sets a flag that u looks at when it comes to a cancellation point
pthread_cancel(t, u) ==
  /\ MayClaim(t, u)
  /\ th_state' = [th_state EXCEPT ![u] = @ \cup {"CANCELED"}]
  /\ UNCHANGED <<smp, th_pc, th_lock, joined, retval, claimed, target, exitval, got, freed, stale>>

pthread_setcancelstate(t) ==
  /\ ThAt(t, "run")
  /\ th_state' = [th_state EXCEPT ![t] = IF "NOCANCEL" \in @ THEN @ \ {"NOCANCEL"} ELSE @ \cup {"NOCANCEL"}]
  /\ UNCHANGED <<smp, th_pc, th_lock, joined, retval, claimed, target, exitval, got, freed, stale>>

\* pthread_testcancel, __pthread_cancel_self
testcancel(t) == ThAt(t, "run") /\ t # Main /\ MustCancel(t) /\ pthread_exit(t, Canceled)

\* the start routine returns, or calls pthread_exit
return(t) == ThAt(t, "run") /\ t # Main /\ pthread_exit(t, t)

\* what a thread does once it has begun to exit, or was called to do
Finish(t) ==
  exit_release(t) \/ pthread_cleanup(t) \/ join_release(t) \/ join_return(t) \/ detach_release(t)

ThNext ==
  \/ \E t, u \in Thread :
       \/ pthread_create(t, u) \/ pthread_join(t, u) \/ pthread_detach(t, u)
       \/ pthread_cancel(t, u)
  \/ \E t \in Thread : pthread_setcancelstate(t) \/ testcancel(t) \/ return(t) \/ Finish(t)

\* what was begun under a spin lock, and threads that were started, go on
ThFair == \A t \in Thread : WF_thVars(Finish(t))
-----------------------------------------------------------------------------
\* The type invariant.
ThTypeOK ==
  /\ th_pc \in [Thread -> {"none", "run", "zombie", "exit_rel", "join_rel", "detach_rel",
                           "cleanup", "joining", "woken", "dead"}]
  /\ th_lock \in [Thread -> Thread \cup {NoThread}]
  /\ th_state \in [Thread -> SUBSET {"DETACHED", "JOINABLE", "CANCELED", "NOCANCEL"}]
  /\ joined \in [Thread -> Thread \cup {NoThread}] /\ target \in [Thread -> Thread \cup {NoThread}]
  /\ \A f \in {retval, exitval, got} : f \in [Thread -> Thread \cup {NoThread, Canceled, Unset}]
  /\ claimed \subseteq Thread /\ freed \subseteq Thread /\ stale \subseteq freed

\* pthread_join returns what the thread joined exited with, whichever of the
\* two came first (thread.c:96, 104, 149, 174).
JoinValue ==
  \A t \in Thread : got[t] # NoThread => got[t] = exitval[target[t]]

\* No joiner is missed: while it waits the other thread has not exited, nor
\* has its descriptor been freed (thread.c:88, 166 are under the same lock).
NoLostJoiner ==
  \A t \in Thread : th_pc[t] = "joining" =>
    /\ joined[target[t]] = t /\ "JOINABLE" \notin th_state[target[t]]
    /\ target[t] \notin freed

\* A descriptor is there until its thread was joined or detached, by somebody
\* who is told so: nobody else holds a handle on freed memory.
NoEarlyFree ==
  \A t \in freed : t \in claimed \/ "DETACHED" \in th_state[t]

\* Every descriptor is freed once its thread has exited and was joined or
\* detached (if no freed memory is used).
Reaped ==
  \A t \in Thread :
    (exitval[t] # NoThread /\ (t \in claimed \/ "DETACHED" \in th_state[t])) ~> t \in freed \/ stale # {}

\* With one processor nobody uses a descriptor that was freed: the thread
\* started under its lock does not run before the lock is released.
NoUseAfterFree == ~smp => stale = {}

\* What exit, join, detach and cancel keep true, in any order: joiners are found
\* and get the value, descriptors are freed neither too early nor, with one
\* processor, under somebody who uses them (thread.c:70-204).
ThInv == ThTypeOK /\ JoinValue /\ NoLostJoiner /\ NoEarlyFree /\ NoUseAfterFree
=============================================================================
