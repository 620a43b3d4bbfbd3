----------------------------- MODULE Semaphore -----------------------------
(***************************************************************************)
(* Kernel semaphores, mutek/semaphore.c.  Every operation runs under the   *)
(* lock of the wait queue with interrupts disabled: it is one step.        *)
(*                                                                         *)
(* avail is the semaphore its users think of: the initial value plus what  *)
(* was given minus what was taken.  The code keeps count instead, which is *)
(* lowered by all but one unit of what a waiter asks before it is served.  *)
(***************************************************************************)
EXTENDS WaitQueues, Integers, FiniteSetsExt

CONSTANTS
  InitCount,  \* semaphore_init's value
  CountBits,  \* width of semaphore_count_t, an int_fast8_t
  Takes,      \* values given to semaphore_take and semaphore_try_take
  Gives,      \* values given to semaphore_give
  MinAvail, MaxAvail  \* bounds on avail

\* what a semaphore_count_t holds: -CountHalf to CountHalf - 1
CountHalf == 2^(CountBits - 1)

ASSUME SemaphoreAssumption ==
  /\ "sem" \in Queue /\ IsFiniteSet(Ctx)
  /\ CountBits \in Nat \ {0} /\ CountHalf \in Nat \ {0}
  /\ InitCount \in (-CountHalf)..(CountHalf - 1)
  /\ Takes \subseteq Nat \ {0} /\ Gives \subseteq Int /\ {MinAvail, MaxAvail} \subseteq Int

VARIABLES
  sem_count,  \* semaphore_s.count
  asked,  \* units a context waits for or, once it is not blocked, holds
  avail   \* units that are there to take

semOnly == <<sem_count, asked, avail>>
semVars == <<status, waitq, semOnly>>

sem_wait == waitq["sem"]

\* storing n in a semaphore_count_t
Wrap(n) == ((n + CountHalf) % (2 * CountHalf)) - CountHalf

semaphore_init ==
  /\ status = [x \in Ctx |-> "running"]
  /\ waitq = [q \in Queue |-> <<>>]
  /\ sem_count = InitCount
  /\ asked = [x \in Ctx |-> 0]
  /\ avail = InitCount

\* MUTANT of semaphore_take: forgets to count itself as a waiter
MutTake(x, n) ==
  LET c == Wrap(sem_count - n) IN
  /\ status[x] = "running" /\ asked[x] = 0
  /\ asked' = [asked EXCEPT ![x] = n]
  /\ sem_count' = c
  /\ IF c < 0
     THEN Wait(x, "sem") /\ UNCHANGED avail
     ELSE avail' = avail - n /\ UNCHANGED wqVars

semaphore_take(x, n) ==
  LET c == Wrap(sem_count - n) IN
  /\ status[x] = "running" /\ asked[x] = 0
  /\ asked' = [asked EXCEPT ![x] = n]
  /\ IF c < 0
     THEN Wait(x, "sem") /\ sem_count' = Wrap(c + 1) /\ UNCHANGED avail
     ELSE sem_count' = c /\ avail' = avail - n /\ UNCHANGED wqVars

\* when it does not return EBUSY; the test is on an int and does not wrap
semaphore_try_take(x, n) ==
  /\ status[x] = "running" /\ asked[x] = 0
  /\ sem_count - n >= 0
  /\ sem_count' = Wrap(sem_count - n)
  /\ asked' = [asked EXCEPT ![x] = n]
  /\ avail' = avail - n
  /\ UNCHANGED wqVars

\* the units the contexts in W ask for, each numbered
Units(W, ask) == UNION {{x} \X (1..ask[x]) : x \in W}

Oldest(k) == {sem_wait[i] : i \in 1..k}

\* what the k oldest waiters ask for
AskedBy(k) == Cardinality(Units(Oldest(k), asked))

\* semaphore_give: wake a waiter for each unit while count is positive
GiveUnits(n) ==
  LET c == Wrap(sem_count + n)
      k == Min({Max({c, 0}), Len(sem_wait)}) IN
  /\ WakeMany("sem", k)
  /\ sem_count' = c - k
  /\ avail' = avail + n - AskedBy(k)

\* called by anybody, interrupt handlers included
semaphore_give(n) ==
  /\ avail + n \in MinAvail..MaxAvail
  /\ GiveUnits(n) /\ UNCHANGED asked

-----------------------------------------------------------------------------
\* the caller has used up what it took
SemConsume(x) ==
  /\ status[x] = "running" /\ asked[x] # 0
  /\ asked' = [asked EXCEPT ![x] = 0]
  /\ UNCHANGED <<status, waitq, sem_count, avail>>

SemTake(x) == \E n \in Takes : semaphore_take(x, n) \/ semaphore_try_take(x, n)

SemResume(x) == Dispatch(x) /\ UNCHANGED semOnly

\* units are events: given by anybody, used up by who takes them
NextEvents ==
  \/ \E x \in Ctx : SemTake(x) \/ SemConsume(x) \/ SemResume(x)
  \/ \E n \in Gives : semaphore_give(n)

EventSpec == semaphore_init /\ [][NextEvents]_semVars
-----------------------------------------------------------------------------
\* The type invariant.
SemTypeOK ==
  /\ status \in [Ctx -> {"ready", "running", "blocked"}]
  /\ sem_wait \in Seq(Ctx)
  /\ sem_count \in (-CountHalf)..(CountHalf - 1)
  /\ asked \in [Ctx -> Takes \cup {0}]
  /\ avail \in MinAvail..MaxAvail

\* No unit is lost or made up, whatever the order of takes, tries and gives:
\* count is what is available, less what the waiters have reserved, all that
\* they ask but one unit each (semaphore.c:44, 47, 81).
Conservation ==
  sem_count = Wrap(avail - AskedBy(Len(sem_wait)) + Len(sem_wait))

\* No unit waits for a taker: when the contexts in the queue ask one unit each
\* there is none available, whatever larger takes went before (semaphore.c:79).
UnitsServed ==
  sem_wait # <<>> /\ (\A i \in DOMAIN sem_wait : asked[sem_wait[i]] = 1) => avail <= 0

\* What semaphore_take, semaphore_try_take and semaphore_give keep true.
SemInv == SemTypeOK /\ Conservation /\ UnitsServed
=============================================================================
