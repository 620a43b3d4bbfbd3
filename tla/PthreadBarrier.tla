--------------------------- MODULE PthreadBarrier ---------------------------
(***************************************************************************)
(* Barriers, libpthread/barrier.c.  pthread_barrier_wait runs under the    *)
(* lock of the wait queue with interrupts disabled: it is one step.  There *)
(* may be more threads than the barrier counts, so that threads of the     *)
(* next round arrive before the woken ones have run.                       *)
(***************************************************************************)
EXTENDS WaitQueues, Integers

CONSTANTS
  BarCounts,  \* values given to pthread_barrier_init
  MaxPass     \* bound: how often a thread passes the barrier

ASSUME BarrierAssumption ==
  /\ "barrier" \in Queue /\ IsFiniteSet(Ctx)
  /\ BarCounts \subseteq Nat \ {0} /\ MaxPass \in Nat

VARIABLES
  bar_init,   \* the count the barrier was initialized with
  bar_count,  \* pthread_barrier_s.count
  passed,     \* how often each thread was let through
  serial      \* how often PTHREAD_BARRIER_SERIAL_THREAD was returned

barOnly == <<bar_init, bar_count, passed, serial>>
barVars == <<status, waitq, barOnly>>

bar_wait == waitq["barrier"]

pthread_barrier_init ==
  /\ status = [x \in Ctx |-> "running"]
  /\ waitq = [q \in Queue |-> <<>>]
  /\ bar_init \in BarCounts /\ bar_count = bar_init
  /\ passed = [x \in Ctx |-> 0]
  /\ serial = 0

\* MUTANT of LetThrough: count is set for the next round without the caller
MutLetThrough(x) ==
  /\ WakeMany("barrier", Len(bar_wait))
  /\ bar_count' = IF bar_wait = <<>> THEN bar_count ELSE Len(bar_wait)
  /\ passed' = [y \in Ctx |-> IF y = x \/ y \in {bar_wait[i] : i \in DOMAIN bar_wait}
                              THEN passed[y] + 1 ELSE passed[y]]
  /\ serial' = serial + 1

\* MUTANT of LetThrough: one waiter is left behind
MutLetThroughSome(x) ==
  LET n == IF Len(bar_wait) > 1 THEN Len(bar_wait) - 1 ELSE Len(bar_wait) IN
  /\ WakeMany("barrier", n)
  /\ bar_count' = bar_count + n
  /\ passed' = [y \in Ctx |-> IF y = x \/ y \in {bar_wait[i] : i \in 1..n}
                              THEN passed[y] + 1 ELSE passed[y]]
  /\ serial' = serial + 1

\* the last one to arrive wakes all the others and counts them for the next round
LetThrough(x) ==
  /\ WakeMany("barrier", Len(bar_wait))
  /\ bar_count' = bar_count + Len(bar_wait)
  /\ passed' = [y \in Ctx |-> IF y = x \/ y \in {bar_wait[i] : i \in DOMAIN bar_wait}
                              THEN passed[y] + 1 ELSE passed[y]]
  /\ serial' = serial + 1

pthread_barrier_wait(x) ==
  /\ status[x] = "running" /\ passed[x] < MaxPass
  /\ IF bar_count = 1
     THEN LetThrough(x)
     ELSE /\ bar_count' = bar_count - 1
          /\ Wait(x, "barrier")
          /\ UNCHANGED <<passed, serial>>
  /\ UNCHANGED bar_init

BarResume(x) == Dispatch(x) /\ UNCHANGED barOnly

BarNext == \E x \in Ctx : pthread_barrier_wait(x) \/ BarResume(x)

\* threads come back to the barrier, ready ones run
BarSpec ==
  /\ pthread_barrier_init /\ [][BarNext]_barVars
  /\ \A x \in Ctx : WF_barVars(pthread_barrier_wait(x)) /\ WF_barVars(BarResume(x))
-----------------------------------------------------------------------------
\* The type invariant; pthread_barrier_wait asserts that count is at least 1
\* (barrier.c:50).
BarTypeOK ==
  /\ bar_init \in BarCounts /\ bar_count \in 1..bar_init
  /\ passed \in [Ctx -> 0..MaxPass]
  /\ serial \in 0..(MaxPass * Cardinality(Ctx))

\* what each thread has passed, its first time, its second, ...
Passages == {p \in Ctx \X (1..MaxPass) : p[2] <= passed[p[1]]}

\* Threads pass in groups of exactly the barrier's count, one of each group
\* being told it is the serial one, and the count is ready for the next group
\* at once: no thread that arrives before the woken ones have run is let
\* through with them or counted twice (barrier.c:52-61).
PassInGroups ==
  /\ Cardinality(Passages) = bar_init * serial
  /\ bar_count = bar_init - Len(bar_wait)

\* Nobody is left at the barrier while enough threads come to it: when those
\* that still run are as many as it lacks, the waiters are let through.
NoneStuck ==
  (bar_wait # <<>> /\ Cardinality({x \in Ctx : status[x] # "blocked" /\ passed[x] < MaxPass}) >= bar_count)
     ~> (bar_wait = <<>>)

\* What pthread_barrier_wait keeps true (barrier.c:43-68).
BarInv == BarTypeOK /\ PassInGroups
=============================================================================
