------------------------------- MODULE RWLock -------------------------------
(***************************************************************************)
(* Kernel read-write locks, mutek/rwlock.c.  The lock of the writers' wait *)
(* queue protects count; the readers' wait queue has a lock of its own,    *)
(* which a reader that has to wait takes before it releases the first one. *)
(* These are the two places where an operation is not one step:            *)
(*                                                                         *)
(*   "rdq"     in rwlock_rdlock: wait_wr released, wait_rd held, not yet   *)
(*             queued                                                      *)
(*   "wakerd"  in rwlock_unlock: wait_wr held, count is 0, about to lock   *)
(*             wait_rd and wake the readers                                *)
(*   "rd"/"wr" the context holds the lock for reading/writing, or is       *)
(*             blocked until it does                                       *)
(***************************************************************************)
EXTENDS WaitQueues, Integers, FiniteSets

CONSTANT NoHolder

ASSUME RWLockAssumption ==
  /\ {"wait_rd", "wait_wr"} \subseteq Queue /\ NoHolder \notin Ctx
  /\ Cardinality(Ctx) < 128  \* count, an int_fast8_t, does not overflow

VARIABLES
  rw_count,   \* rwlock_s.count
  rw_pc,
  lockWr,  \* the context holding the lock of wait_wr between two steps
  lockRd   \* the same for wait_rd

rwOnly == <<rw_count, rw_pc, lockWr, lockRd>>
rwVars == <<status, waitq, rwOnly>>

rwlock_init ==
  /\ status = [x \in Ctx |-> "running"]
  /\ waitq = [q \in Queue |-> <<>>]
  /\ rw_count = 0
  /\ rw_pc = [x \in Ctx |-> "idle"]
  /\ lockWr = NoHolder /\ lockRd = NoHolder

RWCalls(x, state) == status[x] = "running" /\ rw_pc[x] = state /\ lockWr = NoHolder

\* MUTANT of WrBusy: ignores pending writers
MutWrBusy == rw_count < 0

\* write locked or write lock pending
WrBusy == rw_count < 0 \/ waitq["wait_wr"] # <<>>

\* MUTANT of rdlock_wait: the reader releases wait_wr before it takes wait_rd
MutRdlockWait(x) ==
  /\ RWCalls(x, "idle") /\ WrBusy
  /\ rw_pc' = [rw_pc EXCEPT ![x] = "rdq"]
  /\ UNCHANGED <<status, waitq, rw_count, lockWr, lockRd>>

\* rwlock_rdlock, to wait: take wait_rd, release wait_wr ...
rdlock_wait(x) ==
  /\ RWCalls(x, "idle") /\ WrBusy /\ lockRd = NoHolder
  /\ lockRd' = x
  /\ rw_pc' = [rw_pc EXCEPT ![x] = "rdq"]
  /\ UNCHANGED <<status, waitq, rw_count, lockWr>>

\* ... then wait in wait_rd, which releases it
rdlock_queue(x) ==
  /\ status[x] = "running" /\ rw_pc[x] = "rdq"
  /\ Wait(x, "wait_rd")
  /\ lockRd' = NoHolder
  /\ rw_pc' = [rw_pc EXCEPT ![x] = "rd"]
  /\ UNCHANGED <<rw_count, lockWr>>

\* rwlock_rdlock and rwlock_tryrdlock, to enter at once
rdlock_enter(x) ==
  /\ RWCalls(x, "idle") /\ ~WrBusy
  /\ rw_count' = rw_count + 1
  /\ rw_pc' = [rw_pc EXCEPT ![x] = "rd"]
  /\ UNCHANGED <<status, waitq, lockWr, lockRd>>

rwlock_wrlock(x) ==
  /\ RWCalls(x, "idle")
  /\ rw_pc' = [rw_pc EXCEPT ![x] = "wr"]
  /\ IF rw_count # 0
     THEN Wait(x, "wait_wr") /\ UNCHANGED rw_count
     ELSE rw_count' = rw_count - 1 /\ UNCHANGED wqVars
  /\ UNCHANGED <<lockWr, lockRd>>

\* it returns 0 whether or not it took the lock
rwlock_trywrlock(x) ==
  /\ RWCalls(x, "idle")
  /\ rw_count' = IF rw_count # 0 THEN rw_count ELSE rw_count - 1
  /\ rw_pc' = [rw_pc EXCEPT ![x] = "wr"]
  /\ UNCHANGED <<status, waitq, lockWr, lockRd>>

\* rwlock_unlock: the last holder wakes one writer or else all the readers
rwlock_unlock(x) ==
  /\ RWCalls(x, "rd") \/ RWCalls(x, "wr")
  /\ IF rw_count \in {1, -1}
     THEN IF waitq["wait_wr"] # <<>>
          THEN /\ Wake("wait_wr") /\ rw_count' = -1
               /\ rw_pc' = [rw_pc EXCEPT ![x] = "idle"] /\ UNCHANGED lockWr
          ELSE /\ rw_count' = 0 /\ lockWr' = x
               /\ rw_pc' = [rw_pc EXCEPT ![x] = "wakerd"] /\ UNCHANGED wqVars
     ELSE /\ rw_count' = rw_count - 1
          /\ rw_pc' = [rw_pc EXCEPT ![x] = "idle"] /\ UNCHANGED <<status, waitq, lockWr>>
  /\ UNCHANGED lockRd

unlock_wake_rd(x) ==
  LET n == Len(waitq["wait_rd"]) IN
  /\ status[x] = "running" /\ rw_pc[x] = "wakerd" /\ lockRd = NoHolder
  /\ WakeMany("wait_rd", n)
  /\ rw_count' = rw_count + n
  /\ lockWr' = NoHolder
  /\ rw_pc' = [rw_pc EXCEPT ![x] = "idle"]
  /\ UNCHANGED lockRd

RWResume(x) == Dispatch(x) /\ UNCHANGED rwOnly

RWEnter(x) == rdlock_wait(x) \/ rdlock_enter(x) \/ rwlock_wrlock(x)

\* the steps of a context that wants to be done with the lock
RWProgress(x) == rdlock_queue(x) \/ rwlock_unlock(x) \/ unlock_wake_rd(x) \/ RWResume(x)

RWNext == \E x \in Ctx : RWEnter(x) \/ RWProgress(x)

\* ready contexts run, holders release the lock
RWSpec == rwlock_init /\ [][RWNext]_rwVars /\ \A x \in Ctx : WF_rwVars(RWProgress(x))

\* some callers use rwlock_trywrlock
TrySpec == rwlock_init /\ [][RWNext \/ \E x \in Ctx : rwlock_trywrlock(x)]_rwVars
-----------------------------------------------------------------------------
\* the contexts that hold the lock, from the moment they are let in
Holds(state) == {x \in Ctx : rw_pc[x] = state /\ status[x] # "blocked"}

\* The type invariant.
RWTypeOK ==
  /\ status \in [Ctx -> {"ready", "running", "blocked"}]
  /\ waitq \in [Queue -> Seq(Ctx)]
  /\ rw_count \in -1..Cardinality(Ctx)
  /\ rw_pc \in [Ctx -> {"idle", "rd", "wr", "rdq", "wakerd"}]
  /\ lockWr \in Ctx \cup {NoHolder} /\ lockRd \in Ctx \cup {NoHolder}

\* A writer is alone, readers woken by an unlock and not yet running included.
WriterAlone ==
  \A w \in Holds("wr") : Holds("rd") = {} /\ Holds("wr") = {w}

\* count tells who is in (rwlock.h:38), so that the last one out wakes the
\* next; between the two halves of an unlock nobody is in.
CountTellsHolders ==
  rw_count = IF Holds("wr") # {} THEN -1 ELSE Cardinality(Holds("rd"))

\* Nobody is left behind: a context waits, or is about to, only while there is
\* a holder or an unlock in progress that will wake it (rwlock.c:58, 165 take
\* the two queue locks in the order that makes this true).
NoWaiterLeft ==
  /\ waitq["wait_wr"] # <<>> => rw_count # 0
  /\ waitq["wait_rd"] # <<>> \/ lockRd # NoHolder =>
       WrBusy \/ \E x \in Ctx : rw_pc[x] = "wakerd"

\* Writers do not starve: new readers queue behind a waiting writer
\* (rwlock.c:56) and writers are served in order.
WriterEnters ==
  \A x \in Ctx : (rw_pc[x] = "wr" /\ status[x] = "blocked") ~> (status[x] = "running")

\* What the operations of the lock keep true: writers are alone, count tells who
\* is in, nobody is left waiting on a free lock (rwlock.c:49-189).
RWInv == RWTypeOK /\ WriterAlone /\ CountTellsHolders /\ NoWaiterLeft
=============================================================================
