----------------------------- MODULE WaitQueues -----------------------------
(***************************************************************************)
(* What the scheduler promises to the code that blocks on it: contexts,    *)
(* wait queues served in order, and a number of processors.  Scheduler     *)
(* implements this specification; semaphores, read-write locks, mutexes,   *)
(* condition variables and barriers are written with its actions.          *)
(***************************************************************************)
EXTENDS Naturals, Sequences, FiniteSets

CONSTANTS Ctx,    \* scheduler contexts
          Queue,  \* wait queues
          NCpu    \* processors

VARIABLES status, \* of each context: "new", "ready", "running", "blocked" or "dead"
          waitq   \* the contexts waiting in each queue, oldest first

wqVars == <<status, waitq>>

Running == {x \in Ctx : status[x] = "running"}

\* no context waits; some are already running
WQInit ==
  /\ status \in [Ctx -> {"new", "running"}]
  /\ Cardinality(Running) <= NCpu
  /\ waitq = [q \in Queue |-> <<>>]

-----------------------------------------------------------------------------
\* sched_context_start: a new context becomes ready
Start(x) ==
  /\ status[x] = "new"
  /\ status' = [status EXCEPT ![x] = "ready"]
  /\ UNCHANGED waitq

\* sched_wait_unlock, sched_context_stop_unlock: the running context x waits in q
Wait(x, q) ==
  /\ status[x] = "running"
  /\ status' = [status EXCEPT ![x] = "blocked"]
  /\ waitq' = [waitq EXCEPT ![q] = Append(@, x)]

\* sched_wake, n times: the n oldest waiters of q become ready
WakeMany(q, n) ==
  /\ n <= Len(waitq[q])
  /\ status' = [x \in Ctx |-> IF \E i \in 1..n : waitq[q][i] = x THEN "ready" ELSE status[x]]
  /\ waitq' = [waitq EXCEPT ![q] = SubSeq(@, n + 1, Len(@))]

Wake(q) == waitq[q] # <<>> /\ WakeMany(q, 1)

\* a free processor switches to the ready context x
Dispatch(x) ==
  /\ status[x] = "ready" /\ Cardinality(Running) < NCpu
  /\ status' = [status EXCEPT ![x] = "running"]
  /\ UNCHANGED waitq

\* sched_context_switch: x gives its processor to y
Yield(x, y) ==
  /\ status[x] = "running" /\ status[y] = "ready"
  /\ status' = [status EXCEPT ![x] = "ready", ![y] = "running"]
  /\ UNCHANGED waitq

\* sched_context_exit: x leaves for ever, some ready context may take its place
Exit(x) ==
  /\ status[x] = "running"
  /\ \/ status' = [status EXCEPT ![x] = "dead"]
     \/ \E y \in Ctx : /\ status[y] = "ready"
                       /\ status' = [status EXCEPT ![x] = "dead", ![y] = "running"]
  /\ UNCHANGED waitq

WQNext ==
  \/ \E x \in Ctx : Start(x) \/ Dispatch(x) \/ Exit(x)
  \/ \E x \in Ctx, q \in Queue : Wait(x, q)
  \/ \E q \in Queue : Wake(q)
  \/ \E x, y \in Ctx : Yield(x, y)

WQSpec == WQInit /\ [][WQNext]_wqVars
=============================================================================
