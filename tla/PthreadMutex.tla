---------------------------- MODULE PthreadMutex ----------------------------
(***************************************************************************)
(* The three kinds of pthread mutexes, libpthread/mutex.c.  Every operation *)
(* runs under the lock of the wait queue with interrupts disabled: it is   *)
(* one step.  A thread that is handed the mutex owns it from the moment it *)
(* is woken.                                                               *)
(***************************************************************************)
EXTENDS WaitQueues, Integers

CONSTANTS
  Types,     \* mutex types: "normal", "errorcheck", "recursive"
  TryTypes,  \* those on which pthread_mutex_trylock is called
  Relock,    \* those which a thread may lock again when it holds them
  MaxDepth,  \* bound: how often a thread locks again
  None

ASSUME MutexAssumption ==
  /\ "mutex" \in Queue /\ Types \subseteq {"normal", "errorcheck", "recursive"}
  /\ TryTypes \subseteq Types /\ Relock \subseteq Types
  /\ MaxDepth \in Nat \ {0} /\ None \notin Ctx

VARIABLES
  attr,    \* pthread_mutex_s.attr: the type
  mx_count,   \* pthread_mutex_s.count
  owner,   \* pthread_mutex_s.owner
  wants,   \* the threads inside pthread_mutex_lock
  depth    \* how often each thread has locked and not unlocked the mutex

mxOnly == <<attr, mx_count, owner, wants, depth>>
mxVars == <<status, waitq, mxOnly>>

mx_wait == waitq["mutex"]

\* owner is left uninitialized; normal mutexes never use it
pthread_mutex_init ==
  /\ status = [x \in Ctx |-> "running"]
  /\ waitq = [q \in Queue |-> <<>>]
  /\ attr \in Types
  /\ mx_count = 0
  /\ owner \in IF attr = "normal" THEN {None} ELSE Ctx \cup {None}
  /\ wants = {}
  /\ depth = [x \in Ctx |-> 0]

MXCalls(x) == status[x] = "running" /\ x \notin wants

\* only the kinds with an owner record it
SetOwner(x) == owner' = IF attr = "normal" THEN owner ELSE x

Enter(x) ==
  /\ mx_count' = mx_count + 1
  /\ depth' = [depth EXCEPT ![x] = @ + 1]

\* wait in the queue when the mutex is taken, else take it
LockOrWait(x, taken) ==
  IF taken
  THEN /\ Wait(x, "mutex") /\ wants' = wants \cup {x}
       /\ UNCHANGED <<mx_count, owner, depth>>
  ELSE /\ Enter(x) /\ SetOwner(x)
       /\ UNCHANGED <<status, waitq, wants>>

normal_lock(x) == LockOrWait(x, mx_count # 0)

\* returns EDEADLK to the owner
errorcheck_lock(x) == ~(mx_count # 0 /\ owner = x) /\ LockOrWait(x, mx_count # 0)

recursive_lock(x) == LockOrWait(x, mx_count # 0 /\ owner # x)

\* pthread_mutex_lock; a thread that holds the mutex may call it again
mutex_lock(x) ==
  /\ MXCalls(x)
  /\ depth[x] = 0 \/ (attr \in Relock /\ depth[x] < MaxDepth)
  /\ CASE attr = "normal"     -> normal_lock(x)
       [] attr = "errorcheck" -> errorcheck_lock(x)
       [] attr = "recursive"  -> recursive_lock(x)
  /\ UNCHANGED attr

\* the trylocks, when they return 0: none of them records the owner
normal_trylock(x) == mx_count = 0 /\ Enter(x)

errorcheck_trylock(x) == mx_count = 0 /\ Enter(x)

recursive_trylock(x) == ~(mx_count # 0 /\ owner # x) /\ Enter(x)

mutex_trylock(x) ==
  /\ attr \in TryTypes /\ MXCalls(x) /\ depth[x] < MaxDepth
  /\ CASE attr = "normal"     -> normal_trylock(x)
       [] attr = "errorcheck" -> errorcheck_trylock(x)
       [] attr = "recursive"  -> recursive_trylock(x)
  /\ UNCHANGED <<attr, status, waitq, owner, wants>>

\* MUTANT of HandOver: the count drops although a waiter was woken
MutHandOverFree(x, free) ==
  /\ mx_count' = free
  /\ SetOwner(IF mx_wait # <<>> THEN Head(mx_wait) ELSE None)
  /\ IF mx_wait # <<>>
     THEN /\ Wake("mutex") /\ wants' = wants \ {Head(mx_wait)}
          /\ depth' = [depth EXCEPT ![x] = @ - 1, ![Head(mx_wait)] = @ + 1]
     ELSE /\ depth' = [depth EXCEPT ![x] = @ - 1]
          /\ UNCHANGED <<status, waitq, wants>>

\* MUTANT of HandOver: the mutex goes to the youngest waiter
MutHandOverLast(x, free) ==
  LET last == mx_wait[Len(mx_wait)] IN
  IF mx_wait # <<>>
  THEN /\ waitq' = [waitq EXCEPT !["mutex"] = SubSeq(@, 1, Len(@) - 1)]
       /\ status' = [status EXCEPT ![last] = "ready"]
       /\ SetOwner(last) /\ wants' = wants \ {last}
       /\ depth' = [depth EXCEPT ![x] = @ - 1, ![last] = @ + 1]
       /\ UNCHANGED mx_count
  ELSE /\ mx_count' = free
       /\ SetOwner(None)
       /\ depth' = [depth EXCEPT ![x] = @ - 1]
       /\ UNCHANGED <<status, waitq, wants>>

\* the mutex goes to the oldest waiter without becoming free, or is freed
HandOver(x, free) ==
  IF mx_wait # <<>>
  THEN /\ Wake("mutex") /\ SetOwner(Head(mx_wait)) /\ wants' = wants \ {Head(mx_wait)}
       /\ depth' = [depth EXCEPT ![x] = @ - 1, ![Head(mx_wait)] = @ + 1]
       /\ UNCHANGED mx_count
  ELSE /\ mx_count' = free
       /\ SetOwner(None)
       /\ depth' = [depth EXCEPT ![x] = @ - 1]
       /\ UNCHANGED <<status, waitq, wants>>

normal_unlock(x) == HandOver(x, mx_count - 1)

\* EPERM and EBUSY are computed, but 0 is returned: to its caller the mutex is
\* unlocked in any case
errorcheck_unlock(x) ==
  IF mx_count # 0 /\ owner = x
  THEN HandOver(x, mx_count - 1)
  ELSE depth' = [depth EXCEPT ![x] = @ - 1] /\ UNCHANGED <<status, waitq, mx_count, owner, wants>>

recursive_unlock(x) ==
  IF mx_count = 1
  THEN HandOver(x, 0)
  ELSE /\ mx_count' = mx_count - 1
       /\ depth' = [depth EXCEPT ![x] = @ - 1]
       /\ UNCHANGED <<status, waitq, owner, wants>>

\* pthread_mutex_unlock, by a thread that holds the mutex
mutex_unlock(x) ==
  /\ MXCalls(x) /\ depth[x] > 0
  /\ CASE attr = "normal"     -> normal_unlock(x)
       [] attr = "errorcheck" -> errorcheck_unlock(x)
       [] attr = "recursive"  -> recursive_unlock(x)
  /\ UNCHANGED attr

MXResume(x) == Dispatch(x) /\ UNCHANGED mxOnly

MXNext == \E x \in Ctx : mutex_lock(x) \/ mutex_trylock(x) \/ mutex_unlock(x) \/ MXResume(x)

MXSpec == pthread_mutex_init /\ [][MXNext]_mxVars

\* ready threads run, holders unlock
MXFairSpec ==
  MXSpec /\ \A x \in Ctx : WF_mxVars(MXResume(x)) /\ WF_mxVars(mutex_unlock(x))
-----------------------------------------------------------------------------
\* The type invariant.
MXTypeOK ==
  /\ attr \in Types
  /\ status \in [Ctx -> {"ready", "running", "blocked"}]
  /\ waitq \in [Queue -> Seq(Ctx)]
  /\ mx_count \in 0..MaxDepth
  /\ owner \in Ctx \cup {None}
  /\ wants \subseteq Ctx
  /\ depth \in [Ctx -> 0..MaxDepth]

Holders == {x \in Ctx : depth[x] > 0}

\* At most one thread holds the mutex, and count is how often it has locked
\* it: the mutex is never free between an unlock and the waiter it woke.
MutualExclusion ==
  /\ \A x, y \in Holders : x = y
  /\ \A x \in Ctx : depth[x] > 0 => mx_count = depth[x]

\* While the mutex is taken owner names its holder, so that relocking and unlocking by it are recognized.
OwnerIsHolder ==
  attr # "normal" /\ mx_count # 0 => \A x \in Ctx : depth[x] > 0 <=> owner = x

\* A thread waits only for another one. "dead lock condition detected"
\* (mutex.c:125), "takes a mutex" (pthread.h:376).
NoSelfWait == \A x \in wants : depth[x] = 0

\* A thread that unlocked the mutex, and was told so, left it to a waiter or
\* free: "free a mutex" (pthread.h:390).
FreeAfterUnlock == Holders = {} => mx_count = 0

\* Every lock call returns, if holders unlock; recursive mutexes left aside,
\* which a thread may lock again and again.
LockReturns ==
  \A x \in Ctx : (x \in wants /\ attr # "recursive") ~> depth[x] > 0

\* What lock, trylock and unlock keep true, for each type: one holder, who is the
\* owner, and nobody waiting for itself (mutex.c:30-285).
MXInv == MXTypeOK /\ MutualExclusion /\ OwnerIsHolder /\ NoSelfWait
=============================================================================
