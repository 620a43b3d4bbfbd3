----------------------------- MODULE SrlBarrier -----------------------------
(***************************************************************************)
(* Barriers of the SRL run-time, libsrl/barrier.c, whose tasks wait with   *)
(* srl_sched_wait_ne_cpu of libsrl/sched_wait.c: under a lock the barrier  *)
(* counts the tasks, the last one changes its serial number; the others    *)
(* look at that number, without the lock, until it is not the one they     *)
(* have read.  Any number of tasks may use the barrier.                    *)
(*                                                                         *)
(* rounds counts the groups of max tasks that were let through; entered is *)
(* the group each task belongs to.                                         *)
(***************************************************************************)
EXTENDS Naturals, FiniteSets

CONSTANTS
  SrlTask,
  BarMax,      \* barrier->max
  SerialBits,  \* width of barrier->serial
  MaxRounds    \* bound: groups let through

ASSUME SrlAssumption ==
  /\ BarMax \in 1..Cardinality(SrlTask) /\ SerialBits \in Nat \ {0}
  /\ MaxRounds \in 0..(2^SerialBits - 1)  \* no task sleeps through 2^32 groups

VARIABLES
  b_count,  \* barrier->count
  serial,   \* barrier->serial
  ser,      \* the serial number each task has read
  srl_pc,   \* "run", "look" (before the wait), "asleep", "woken"
  rounds, entered

srlVars == <<b_count, serial, ser, srl_pc, rounds, entered>>

SrlInit ==
  /\ b_count = BarMax
  /\ serial \in 0..(2^SerialBits - 1)  \* after any number of groups
  /\ ser = [x \in SrlTask |-> 0]
  /\ srl_pc = [x \in SrlTask |-> "run"]
  /\ rounds = 0 /\ entered = [x \in SrlTask |-> 0]

\* the part of srl_barrier_wait that holds the lock
srl_barrier_wait(x) ==
  /\ srl_pc[x] = "run" /\ rounds < MaxRounds
  /\ entered' = [entered EXCEPT ![x] = rounds]
  /\ IF b_count = 1
     THEN /\ b_count' = BarMax
          /\ serial' = (serial + 1) % 2^SerialBits
          /\ rounds' = rounds + 1
          /\ UNCHANGED <<ser, srl_pc>>
     ELSE /\ b_count' = b_count - 1
          /\ ser' = [ser EXCEPT ![x] = serial]
          /\ srl_pc' = [srl_pc EXCEPT ![x] = "look"]
          /\ UNCHANGED <<serial, rounds>>

\* srl_sched_wait_ne_cpu: looks before it sets its candidate function
look(x) ==
  /\ srl_pc[x] = "look"
  /\ srl_pc' = [srl_pc EXCEPT ![x] = IF serial # ser[x] THEN "run" ELSE "asleep"]
  /\ UNCHANGED <<b_count, serial, ser, rounds, entered>>

\* MUTANT of candidate: any task may be scheduled
MutCandidate(x) ==
  /\ srl_pc[x] = "asleep"
  /\ srl_pc' = [srl_pc EXCEPT ![x] = "run"]
  /\ UNCHANGED <<b_count, serial, ser, rounds, entered>>

\* MUTANT of candidate: waits for the next number
MutCandidateNext(x) ==
  /\ srl_pc[x] = "asleep" /\ serial = (ser[x] + 1) % 2^SerialBits
  /\ srl_pc' = [srl_pc EXCEPT ![x] = "woken"]
  /\ UNCHANGED <<b_count, serial, ser, rounds, entered>>

\* the scheduler asks the candidate function of the task, and takes it
candidate(x) ==
  /\ srl_pc[x] = "asleep" /\ serial # ser[x]
  /\ srl_pc' = [srl_pc EXCEPT ![x] = "woken"]
  /\ UNCHANGED <<b_count, serial, ser, rounds, entered>>

\* the loop's condition
again(x) ==
  /\ srl_pc[x] = "woken"
  /\ srl_pc' = [srl_pc EXCEPT ![x] = IF serial # ser[x] THEN "run" ELSE "asleep"]
  /\ UNCHANGED <<b_count, serial, ser, rounds, entered>>

SrlStep(x) == look(x) \/ candidate(x) \/ again(x)

SrlNext == \E x \in SrlTask : srl_barrier_wait(x) \/ SrlStep(x)

SrlFair == \A x \in SrlTask : WF_srlVars(SrlStep(x))
-----------------------------------------------------------------------------
\* The type invariant.
SrlTypeOK ==
  /\ b_count \in 1..BarMax /\ serial \in 0..(2^SerialBits - 1)
  /\ srl_pc \in [SrlTask -> {"run", "look", "asleep", "woken"}]

Waits(x) == srl_pc[x] # "run"

\* A task gets through only with its group: the barrier counts the tasks of the
\* group that is not complete, and all of them wait (libsrl/barrier.c:51, 56).
SrlGroups ==
  BarMax - b_count = Cardinality({x \in SrlTask : Waits(x) /\ entered[x] = rounds})

\* Once the group is complete its tasks get through, though the number they look
\* at wraps and others enter the barrier again before they look
\* (libsrl/sched_wait.c:57).
SrlLetThrough == \A x \in SrlTask : (Waits(x) /\ entered[x] < rounds) ~> ~Waits(x)

\* What srl_barrier_wait keeps true (libsrl/barrier.c:29-63).
SrlInv == SrlTypeOK /\ SrlGroups
=============================================================================
