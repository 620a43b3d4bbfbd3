----------------------------- MODULE PthreadKeys -----------------------------
(***************************************************************************)
(* Thread-specific data, libpthread/keys.c: the table of keys, protected   *)
(* by a normal mutex, and the values of each thread, which only the thread *)
(* itself uses.  A thread that exits holds the mutex while it calls the    *)
(* destructors; what a destructor does is up to the program.               *)
(*                                                                         *)
(*   "run"      in the thread's own code                                   *)
(*   "cleanup"  scanning its values in _pthread_keys_cleanup               *)
(*   "dtor"     in a destructor                                            *)
(***************************************************************************)
EXTENDS Naturals, FiniteSets, FiniteSetsExt

CONSTANTS
  KThread,    \* threads
  KMain,      \* the thread that is there at the start
  KeysMax,    \* CONFIG_PTHREAD_KEYS_MAX
  Iterations, \* CONFIG_PTHREAD_KEYS_DESTRUCTOR_ITERATIONS
  NoKThread

ASSUME KeysAssumption ==
  /\ KMain \in KThread /\ KeysMax \in Nat \ {0} /\ Iterations \in Nat \ {0}
  /\ NoKThread \notin KThread

VARIABLES
  keys,      \* _keys: "free", or allocated, "plain" or with a destructor, "dtor"
  keys_lock, \* _keys_lock: who holds it between two steps
  values,    \* _key_values: the keys each thread has a value for
  k_pc,
  iter,      \* how often each exiting thread has gone through the keys
  idx,       \* the next key to look at
  done       \* whether a destructor was called this time

kVars == <<keys, keys_lock, values, k_pc, iter, idx, done>>

Keys == 0..(KeysMax - 1)

KInit ==
  /\ keys = [k \in Keys |-> "free"]
  /\ keys_lock = NoKThread
  /\ values = [t \in KThread |-> {}]
  /\ k_pc = [t \in KThread |-> IF t = KMain THEN "run" ELSE "none"]
  /\ iter = [t \in KThread |-> 0] /\ idx = [t \in KThread |-> 0]
  /\ done = [t \in KThread |-> FALSE]

scanVars == <<iter, idx, done>>

\* the first free key is taken; nothing when there is none
pthread_key_create(t, kind) ==
  LET free == {k \in Keys : keys[k] = "free"} IN
  /\ k_pc[t] = "run" /\ keys_lock = NoKThread /\ free # {}
  /\ keys' = [keys EXCEPT ![Min(free)] = kind]
  /\ UNCHANGED <<keys_lock, values, k_pc, scanVars>>

\* MUTANT of pthread_key_delete: without the mutex
MutDelete(t, k) ==
  /\ k_pc[t] = "run" /\ keys[k] # "free"
  /\ keys' = [keys EXCEPT ![k] = "free"]
  /\ UNCHANGED <<keys_lock, values, k_pc, scanVars>>

\* the values stay
pthread_key_delete(t, k) ==
  /\ k_pc[t] = "run" /\ keys_lock = NoKThread /\ keys[k] # "free"
  /\ keys' = [keys EXCEPT ![k] = "free"]
  /\ UNCHANGED <<keys_lock, values, k_pc, scanVars>>

\* no lock, no look at the table of keys; NULL removes the value
pthread_setspecific(t, k) ==
  /\ k_pc[t] = "run" /\ keys[k] # "free"
  /\ \E v \in {{}, {k}} : values' = [values EXCEPT ![t] = (@ \ {k}) \cup v]
  /\ UNCHANGED <<keys, keys_lock, k_pc, scanVars>>

\* pthread_create: _pthread_keys_init clears the values of the running thread,
\* t, not those of the new one
keys_init(t, u) ==
  /\ k_pc[t] = "run" /\ k_pc[u] = "none"
  /\ values' = [values EXCEPT ![t] = {}]
  /\ k_pc' = [k_pc EXCEPT ![u] = "run"]
  /\ UNCHANGED <<keys, keys_lock, scanVars>>

-----------------------------------------------------------------------------
\* _pthread_keys_cleanup, called by pthread_exit
cleanup_lock(t) ==
  /\ k_pc[t] = "run" /\ t # KMain /\ keys_lock = NoKThread
  /\ keys_lock' = t
  /\ k_pc' = [k_pc EXCEPT ![t] = "cleanup"]
  /\ UNCHANGED <<keys, values, scanVars>>

\* keys still to look at whose destructor is to be called
Callable(t) == {k \in values[t] : k >= idx[t] /\ keys[k] = "dtor"}

cleanup_call(t) ==
  LET k == Min(Callable(t)) IN
  /\ k_pc[t] = "cleanup" /\ iter[t] < Iterations /\ Callable(t) # {}
  /\ values' = [values EXCEPT ![t] = @ \ {k}]
  /\ idx' = [idx EXCEPT ![t] = k + 1]
  /\ done' = [done EXCEPT ![t] = TRUE]
  /\ k_pc' = [k_pc EXCEPT ![t] = "dtor"]
  /\ UNCHANGED <<keys, keys_lock, iter>>

\* the destructor returns, maybe after it has set a value for some key
dtor_return(t) ==
  /\ k_pc[t] = "dtor"
  /\ \/ UNCHANGED values
     \/ \E k \in Keys : keys[k] # "free" /\ values' = [values EXCEPT ![t] = @ \cup {k}]
  /\ k_pc' = [k_pc EXCEPT ![t] = "cleanup"]
  /\ UNCHANGED <<keys, keys_lock, scanVars>>

\* a destructor was called, all the keys are looked at again
cleanup_again(t) ==
  /\ k_pc[t] = "cleanup" /\ iter[t] < Iterations /\ Callable(t) = {} /\ done[t]
  /\ iter' = [iter EXCEPT ![t] = @ + 1]
  /\ idx' = [idx EXCEPT ![t] = 0] /\ done' = [done EXCEPT ![t] = FALSE]
  /\ UNCHANGED <<keys, keys_lock, values, k_pc>>

\* MUTANT of cleanup_unlock: leaves after the first time
MutCleanupUnlock(t) ==
  /\ k_pc[t] = "cleanup" /\ Callable(t) = {}
  /\ keys_lock' = NoKThread
  /\ k_pc' = [k_pc EXCEPT ![t] = "dead"]
  /\ UNCHANGED <<keys, values, scanVars>>

cleanup_unlock(t) ==
  /\ k_pc[t] = "cleanup"
  /\ iter[t] = Iterations \/ (Callable(t) = {} /\ ~done[t])
  /\ keys_lock' = NoKThread
  /\ k_pc' = [k_pc EXCEPT ![t] = "dead"]
  /\ UNCHANGED <<keys, values, scanVars>>

Cleanup(t) == cleanup_call(t) \/ dtor_return(t) \/ cleanup_again(t) \/ cleanup_unlock(t)

KNext ==
  \E t \in KThread :
    \/ \E kind \in {"plain", "dtor"} : pthread_key_create(t, kind)
    \/ \E k \in Keys : pthread_key_delete(t, k) \/ pthread_setspecific(t, k)
    \/ \E u \in KThread : keys_init(t, u)
    \/ cleanup_lock(t) \/ Cleanup(t)

\* a thread that exits goes on, destructors return
KFair == \A t \in KThread : WF_kVars(Cleanup(t))
-----------------------------------------------------------------------------
\* The type invariant.
KTypeOK ==
  /\ keys \in [Keys -> {"free", "plain", "dtor"}]
  /\ keys_lock \in KThread \cup {NoKThread}
  /\ values \in [KThread -> SUBSET Keys]
  /\ k_pc \in [KThread -> {"none", "run", "cleanup", "dtor", "dead"}]
  /\ iter \in [KThread -> 0..Iterations] /\ idx \in [KThread -> 0..KeysMax]
  /\ done \in [KThread -> BOOLEAN]

\* Destructors are called again for values that destructors have set; a thread
\* leaves such a value behind only when that did not help "at most
\* PTHREAD_DESTRUCTOR_ITERATIONS times" (pthread.h:718).
NothingLeft ==
  [][\A t \in KThread : k_pc[t] = "cleanup" /\ k_pc'[t] = "dead" /\ iter[t] < Iterations =>
       \A k \in values[t] : keys[k] # "dtor"]_kVars

\* A key is not deleted, let alone created again for something else, while a
\* thread is in its destructor (keys.c:90, 113).
DtorKeyStays ==
  \A t \in KThread : k_pc[t] = "dtor" => keys[idx[t] - 1] = "dtor"

\* A thread that exits does so, whatever values its destructors set.
CleanupEnds ==
  \A t \in KThread : k_pc[t] \in {"cleanup", "dtor"} ~> k_pc[t] = "dead"

\* What the operations on keys keep true (keys.c:36-114).
KeysInv == KTypeOK /\ DtorKeyStays

\* A thread that exits ends, and leaves no value with a destructor behind unless
\* the destructors set values again and again (keys.c:92-111).
CleanupDone == NothingLeft /\ CleanupEnds
=============================================================================
