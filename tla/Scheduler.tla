----------------------------- MODULE Scheduler -----------------------------
(***************************************************************************)
(* The kernel scheduler, mutek/scheduler.c, on one or several processors.  *)
(*                                                                         *)
(* A processor executes one agent at a time: the scheduler context it is   *)
(* switched to, its own idle context (written as the processor itself), or *)
(* an interrupt handler on top of either.  pc[a] is where agent a stands   *)
(* in the scheduler's code.  Each step below is a piece of code between    *)
(* two points where another processor can see a difference: a spin lock    *)
(* acquisition is a guard, and a critical section that takes and releases  *)
(* the same lock is one step.                                              *)
(*                                                                         *)
(*   "run"     outside the scheduler, interrupts enabled                   *)
(*   "locked"  holds the spin lock of the wait queue lq[a]                 *)
(*   "enq"     is in that wait queue, about to lock the run queue          *)
(*   "switch"  holds the run queue lock, about to pick the next context    *)
(*   "resume"  was switched out; releases the run queue lock once back     *)
(*   "entry"   created, starts by releasing the run queue lock             *)
(*   "push"    about to put lw[a] in its run queue                         *)
(*   "ipi"     about to post an inter-processor interrupt to le[a]         *)
(*   "new", "dead"   before sched_context_start, after sched_context_exit  *)
(*   idle contexts: "boot", "first", "poll", "declare", "sleep", "wake"    *)
(*   interrupt handlers: "off", then "run" ... "iret"                      *)
(***************************************************************************)
EXTENDS Integers, Sequences, FiniteSets

CONSTANTS
  CPU,            \* processors
  Ctx,            \* scheduler contexts
  Irq,            \* device interrupt sources
  Queue,          \* wait queues (sched_queue_root_t)
  Lock,           \* spin locks given to sched_context_stop_unlock
  Sched,          \* struct scheduler_s: one (MIGRATION) or one per processor (STATIC)
  scheduler_get,  \* __scheduler_get: the scheduler each processor uses
  IDLE,           \* idle loop: "ipi" (SMP with IPI), "poll" (SMP without), "irq" (one processor)
  MainCtx,        \* the context of app_start ...
  BootCpu,        \* ... on the bootstrap processor
  MaxOps,         \* bound: scheduler calls of a context, interrupts of a source
  None            \* NULL

ASSUME SchedulerAssumption ==
  /\ scheduler_get \in [CPU -> Sched]
  /\ \A s \in Sched : \E c \in CPU : scheduler_get[c] = s
  /\ IDLE \in {"ipi", "poll", "irq"}
  /\ MainCtx \in Ctx /\ BootCpu \in CPU
  /\ MaxOps \in Nat
  /\ CPU \cap Ctx = {} /\ CPU \cap Irq = {} /\ Ctx \cap Irq = {}
  /\ Queue \cap Lock = {}
  /\ None \notin CPU \cup Ctx \cup Irq \cup Queue \cup Lock \cup Sched

ASSUME FiniteProcessors == IsFiniteSet(CPU)

VARIABLES
  root,      \* scheduler_s.root: the contexts ready to run
  rootLock,  \* the processor holding the lock of root
  idleCpu,   \* scheduler_s.idle_cpu: the processors declared idle
  scheduler, \* sched_context_s.scheduler
  cur,       \* the context each processor is switched to
  handler,   \* the interrupt handler running on each processor
  pc,
  queue,     \* contexts waiting in a queue, or stopped under a lock
  qLock,     \* the agent holding each wait queue's lock, or lock
  lq,        \* local: the queue an agent holds
  lw,        \* local: the context an agent is pushing
  le,        \* local: the endpoint an agent is to signal
  ls,        \* local "sched" of a suspended call
  ipi,       \* inter-processor interrupts pending
  ops,       \* calls made, interrupts raised; bounded by MaxOps
  mainFreed  \* main_ctx has been destroyed

vars == <<root, rootLock, idleCpu, scheduler, cur, handler, pc, queue, qLock,
          lq, lw, le, ls, ipi, ops, mainFreed>>

Waiting == Queue \cup Lock
Caller  == Ctx \cup Irq

\* the elements of a sequence
Elems(seq) == {seq[i] : i \in DOMAIN seq}

Init ==
  /\ root = [s \in Sched |-> <<>>]
  /\ rootLock = [s \in Sched |-> None]
  /\ idleCpu = [s \in Sched |-> <<>>]
  /\ scheduler = [x \in Ctx |-> scheduler_get[BootCpu]]
  /\ cur = [c \in CPU |-> IF c = BootCpu THEN MainCtx ELSE c]
  /\ handler = [c \in CPU |-> None]
  /\ pc = [a \in Ctx \cup CPU \cup Irq |->
             CASE a = MainCtx -> "run"
               [] a = BootCpu -> "first"
               [] a \in CPU \ {BootCpu} -> "boot"
               [] a \in Irq -> "off"
               [] OTHER -> "new"]
  /\ queue = [q \in Waiting |-> <<>>]
  /\ qLock = [q \in Waiting |-> None]
  /\ lq = [a \in Caller |-> None]
  /\ lw = [a \in Caller |-> None]
  /\ le = [a \in Caller |-> None]
  /\ ls = [x \in Ctx \cup CPU |-> None]
  /\ ipi = [c \in CPU |-> FALSE]
  /\ ops = [a \in Caller |-> 0]
  /\ mainFreed = FALSE

-----------------------------------------------------------------------------
\* the agent whose code processor c executes
On(c) == IF handler[c] # None THEN handler[c] ELSE cur[c]

\* __sched_candidate_noidle, when the run queue is not empty; pop from the head
candidate_noidle(s) == Head(root[s])

\* __sched_candidate: fall back to the processor's idle context
candidate(s, c) == IF root[s] # <<>> THEN Head(root[s]) ELSE c

AfterPop(s) == IF root[s] # <<>> THEN Tail(root[s]) ELSE <<>>

\* the context-local sched_cur; idle contexts never go through sched_context_init
sched_cur(x) == IF x \in Ctx THEN x ELSE None

\* where sched_wake and sched_context_start return to
Back(a) == IF lq[a] = None THEN "run" ELSE "locked"

-----------------------------------------------------------------------------
(* Wait queues: the caller locks the queue, then waits in it or wakes.     *)

sched_queue_wrlock(c, q) ==
  LET a == On(c) IN
  /\ a \in Caller /\ pc[a] = "run"
  /\ qLock[q] = None
  /\ \/ a \in Ctx /\ ops[a] < MaxOps /\ ops' = [ops EXCEPT ![a] = @ + 1]
     \/ a \in Irq /\ UNCHANGED ops
  /\ qLock' = [qLock EXCEPT ![q] = a]
  /\ lq' = [lq EXCEPT ![a] = q]
  /\ pc' = [pc EXCEPT ![a] = "locked"]
  /\ UNCHANGED <<root, rootLock, idleCpu, scheduler, cur, handler, queue, lw, le, ls, ipi, mainFreed>>

sched_queue_unlock(c) ==
  LET a == On(c) IN
  /\ a \in Caller /\ pc[a] = "locked"
  /\ qLock' = [qLock EXCEPT ![lq[a]] = None]
  /\ lq' = [lq EXCEPT ![a] = None]
  /\ pc' = [pc EXCEPT ![a] = IF a \in Irq THEN "iret" ELSE "run"]
  /\ UNCHANGED <<root, rootLock, idleCpu, scheduler, cur, handler, queue, lw, le, ls, ipi, ops, mainFreed>>

\* MUTANT of Enqueue: the wait queue is unlocked before the run queue is locked
MutEnqueue(c) ==
  LET x == On(c) IN
  /\ x \in Ctx /\ pc[x] = "locked"
  /\ queue' = [queue EXCEPT ![lq[x]] = Append(@, x)]
  /\ qLock' = [qLock EXCEPT ![lq[x]] = None]
  /\ pc' = [pc EXCEPT ![x] = "enq"]
  /\ UNCHANGED <<root, rootLock, idleCpu, scheduler, cur, handler, lq, lw, le, ls, ipi, ops, mainFreed>>

\* the caller leaves a trace of itself where its waker will find it
Enqueue(c) ==
  LET x == On(c) IN
  /\ x \in Ctx /\ pc[x] = "locked"
  /\ queue' = [queue EXCEPT ![lq[x]] = Append(@, x)]
  /\ pc' = [pc EXCEPT ![x] = "enq"]
  /\ UNCHANGED <<root, rootLock, idleCpu, scheduler, cur, handler, qLock, lq, lw, le, ls, ipi, ops, mainFreed>>

\* sched_wait_unlock: push the current context in the wait queue ...
sched_wait_unlock(c) == Enqueue(c) /\ lq[On(c)] \in Queue

\* sched_context_stop_unlock: its callers publish the current context under
\* the lock, and whoever restarts it takes it from there
sched_context_stop_unlock(c) == Enqueue(c) /\ lq[On(c)] \in Lock

\* ... lock the run queue, then release the wait queue ...
WaitLockRoot(c) ==
  LET x == On(c)
      s == scheduler_get[c] IN
  /\ x \in Ctx /\ pc[x] = "enq"
  /\ rootLock[s] = None
  /\ rootLock' = [rootLock EXCEPT ![s] = c]
  /\ qLock' = [qLock EXCEPT ![lq[x]] = None]
  /\ lq' = [lq EXCEPT ![x] = None]
  /\ ls' = [ls EXCEPT ![x] = s]
  /\ pc' = [pc EXCEPT ![x] = "switch"]
  /\ UNCHANGED <<root, idleCpu, scheduler, cur, handler, queue, lw, le, ipi, ops, mainFreed>>

\* ... and switch to the next context, or to idle
WaitSwitch(c) ==
  LET x == On(c) IN
  /\ x \in Ctx /\ pc[x] = "switch"
  /\ cur' = [cur EXCEPT ![c] = candidate(ls[x], c)]
  /\ root' = [root EXCEPT ![ls[x]] = AfterPop(ls[x])]
  /\ pc' = [pc EXCEPT ![x] = "resume"]
  /\ UNCHANGED <<rootLock, idleCpu, scheduler, handler, queue, qLock, lq, lw, le, ls, ipi, ops, mainFreed>>

\* the instruction after context_switch_to, once the context is back
Resume(c) ==
  LET x == On(c) IN
  /\ x \in Ctx \cup CPU /\ pc[x] = "resume"
  /\ rootLock' = [rootLock EXCEPT ![ls[x]] = None]
  /\ ls' = [ls EXCEPT ![x] = None]
  /\ pc' = [pc EXCEPT ![x] = IF x \in CPU THEN "wake" ELSE "run"]
  /\ UNCHANGED <<root, idleCpu, scheduler, cur, handler, queue, qLock, lq, lw, le, ipi, ops, mainFreed>>

\* MUTANT of sched_unlock: the entry function forgets to unlock
MutUnlock(c) ==
  LET x == On(c) IN
  /\ x \in Ctx /\ pc[x] = "entry"
  /\ pc' = [pc EXCEPT ![x] = "run"]
  /\ UNCHANGED <<root, rootLock, idleCpu, scheduler, cur, handler, queue, qLock, lq, lw, le, ls, ipi, ops, mainFreed>>

\* a new context's entry function calls sched_unlock first
sched_unlock(c) ==
  LET x == On(c) IN
  /\ x \in Ctx /\ pc[x] = "entry"
  /\ rootLock' = [rootLock EXCEPT ![scheduler_get[c]] = None]
  /\ pc' = [pc EXCEPT ![x] = "run"]
  /\ UNCHANGED <<root, idleCpu, scheduler, cur, handler, queue, qLock, lq, lw, le, ls, ipi, ops, mainFreed>>

\* MUTANT of sched_wake: reads the head without removing it
MutWake(c) ==
  LET a == On(c) IN
  /\ a \in Caller /\ pc[a] = "locked" /\ queue[lq[a]] # <<>>
  /\ lw' = [lw EXCEPT ![a] = Head(queue[lq[a]])]
  /\ pc' = [pc EXCEPT ![a] = "push"]
  /\ UNCHANGED <<root, rootLock, idleCpu, scheduler, cur, handler, queue, qLock, lq, le, ls, ipi, ops, mainFreed>>

\* MUTANT of sched_wake: wakes the youngest waiter
MutWakeLast(c) ==
  LET a == On(c)
      q == queue[lq[a]] IN
  /\ a \in Caller /\ pc[a] = "locked" /\ q # <<>>
  /\ lw' = [lw EXCEPT ![a] = q[Len(q)]]
  /\ queue' = [queue EXCEPT ![lq[a]] = SubSeq(@, 1, Len(@) - 1)]
  /\ pc' = [pc EXCEPT ![a] = "push"]
  /\ UNCHANGED <<root, rootLock, idleCpu, scheduler, cur, handler, qLock, lq, le, ls, ipi, ops, mainFreed>>

\* sched_wake: pop the oldest waiter of the locked queue
sched_wake(c) ==
  LET a == On(c) IN
  /\ a \in Caller /\ pc[a] = "locked" /\ queue[lq[a]] # <<>>
  /\ lw' = [lw EXCEPT ![a] = Head(queue[lq[a]])]
  /\ queue' = [queue EXCEPT ![lq[a]] = Tail(@)]
  /\ pc' = [pc EXCEPT ![a] = "push"]
  /\ UNCHANGED <<root, rootLock, idleCpu, scheduler, cur, handler, qLock, lq, le, ls, ipi, ops, mainFreed>>

\* sched_context_init, sched_affinity_* and sched_context_start of a new context
sched_context_start(c, x) ==
  LET a == On(c) IN
  /\ a \in Ctx /\ pc[a] = "run" /\ pc[x] = "new" /\ ops[a] < MaxOps
  /\ \E s \in Sched : scheduler' = [scheduler EXCEPT ![x] = s]
  /\ lw' = [lw EXCEPT ![a] = x]
  /\ pc' = [pc EXCEPT ![a] = "push", ![x] = "entry"]
  /\ ops' = [ops EXCEPT ![a] = @ + 1]
  /\ UNCHANGED <<root, rootLock, idleCpu, cur, handler, queue, qLock, lq, le, ls, ipi, mainFreed>>

\* MUTANT of sched_context_push: the caller's scheduler instead of the context's
MutPushLocal(c) ==
  LET a == On(c)
      s == scheduler_get[c] IN
  /\ a \in Caller /\ pc[a] = "push"
  /\ rootLock[s] = None
  /\ root' = [root EXCEPT ![s] = Append(@, lw[a])]
  /\ lw' = [lw EXCEPT ![a] = None]
  /\ pc' = [pc EXCEPT ![a] = Back(a)]
  /\ UNCHANGED <<rootLock, idleCpu, scheduler, cur, handler, queue, qLock, lq, le, ls, ipi, ops, mainFreed>>

\* __sched_context_push: enqueue the context, choose an idle processor
sched_context_push(c) ==
  LET a == On(c)
      s == scheduler[lw[a]] IN
  /\ a \in Caller /\ pc[a] = "push"
  /\ rootLock[s] = None
  /\ root' = [root EXCEPT ![s] = Append(@, lw[a])]
  /\ lw' = [lw EXCEPT ![a] = None]
  /\ IF idleCpu[s] # <<>>
     THEN /\ le' = [le EXCEPT ![a] = Head(idleCpu[s])]
          /\ idleCpu' = [idleCpu EXCEPT ![s] = Tail(@)]
          /\ pc' = [pc EXCEPT ![a] = "ipi"]
     ELSE /\ pc' = [pc EXCEPT ![a] = Back(a)]
          /\ UNCHANGED <<le, idleCpu>>
  /\ UNCHANGED <<rootLock, scheduler, cur, handler, queue, qLock, lq, ls, ipi, ops, mainFreed>>

\* MUTANT of ipi_post: the interrupt is lost
MutIpiPost(c) ==
  LET a == On(c) IN
  /\ a \in Caller /\ pc[a] = "ipi"
  /\ le' = [le EXCEPT ![a] = None]
  /\ pc' = [pc EXCEPT ![a] = Back(a)]
  /\ UNCHANGED <<root, rootLock, idleCpu, scheduler, cur, handler, queue, qLock, lq, lw, ls, ipi, ops, mainFreed>>

ipi_post(c) ==
  LET a == On(c) IN
  /\ a \in Caller /\ pc[a] = "ipi"
  /\ ipi' = [ipi EXCEPT ![le[a]] = TRUE]
  /\ le' = [le EXCEPT ![a] = None]
  /\ pc' = [pc EXCEPT ![a] = Back(a)]
  /\ UNCHANGED <<root, rootLock, idleCpu, scheduler, cur, handler, queue, qLock, lq, lw, ls, ops, mainFreed>>

-----------------------------------------------------------------------------
(* Yield, exit.                                                            *)

\* the body of sched_context_switch: swap the caller's sched_cur for the next context
SwitchOut(c) ==
  LET x == On(c)
      s == scheduler_get[c] IN
  /\ rootLock[s] = None /\ root[s] # <<>>
  /\ rootLock' = [rootLock EXCEPT ![s] = c]
  /\ root' = [root EXCEPT ![s] = Append(Tail(@), sched_cur(x))]
  /\ cur' = [cur EXCEPT ![c] = candidate_noidle(s)]
  /\ ls' = [ls EXCEPT ![x] = s]
  /\ pc' = [pc EXCEPT ![x] = "resume"]
  /\ UNCHANGED <<idleCpu, scheduler, handler, queue, qLock, lq, lw, le, ipi, mainFreed>>

\* MUTANT of sched_context_switch: called by the idle context too
MutSwitchIdle(c) ==
  LET x == On(c) IN
  /\ \/ x \in Ctx /\ pc[x] = "run" /\ ops[x] < MaxOps /\ ops' = [ops EXCEPT ![x] = @ + 1]
     \/ x \in CPU /\ pc[x] = "sleep" /\ UNCHANGED ops
  /\ SwitchOut(c)

\* sched_context_switch, called by a running context; it does nothing when no
\* other context is ready
sched_context_switch(c) ==
  LET x == On(c) IN
  /\ x \in Ctx /\ pc[x] = "run" /\ ops[x] < MaxOps
  /\ ops' = [ops EXCEPT ![x] = @ + 1]
  /\ SwitchOut(c)

\* with CONFIG_MUTEK_SCHEDULER_PREEMPT the timer interrupt yields on top of
\* whatever the processor executes, the idle context included
timer_callback(c) ==
  LET x == On(c) IN
  /\ \/ x \in Ctx /\ pc[x] = "run"
     \/ x \in CPU /\ pc[x] = "sleep"
  /\ SwitchOut(c) /\ UNCHANGED ops

\* sched_lock then sched_context_exit: by a finished context, and by every
\* other processor at the end of its start-up (mutek_start_smp)
sched_context_exit(c) ==
  LET x == On(c)
      s == scheduler_get[c] IN
  /\ \/ x \in Ctx /\ pc[x] = "run"
     \/ x = c /\ pc[x] = "boot"
  /\ rootLock[s] = None
  /\ rootLock' = [rootLock EXCEPT ![s] = c]
  /\ cur' = [cur EXCEPT ![c] = candidate(s, c)]
  /\ root' = [root EXCEPT ![s] = AfterPop(s)]
  /\ pc' = [pc EXCEPT ![x] = IF x = c THEN "first" ELSE "dead"]
  /\ UNCHANGED <<idleCpu, scheduler, handler, queue, qLock, lq, lw, le, ls, ipi, ops, mainFreed>>

-----------------------------------------------------------------------------
(* sched_context_idle.                                                     *)

\* first entry: the bootstrap processor destroys the context of app_start
IdleFirst(c) ==
  /\ On(c) = c /\ pc[c] = "first"
  /\ mainFreed' = (mainFreed \/ c = BootCpu)
  /\ pc' = [pc EXCEPT ![c] = "poll"]
  /\ UNCHANGED <<root, rootLock, idleCpu, scheduler, cur, handler, queue, qLock, lq, lw, le, ls, ipi, ops>>

\* a context is ready: switch to it, keeping the run queue locked for it
IdleSwitch(c) ==
  LET s == scheduler_get[c] IN
  /\ On(c) = c /\ pc[c] = "poll" /\ root[s] # <<>>
  /\ cur' = [cur EXCEPT ![c] = candidate_noidle(s)]
  /\ root' = [root EXCEPT ![s] = Tail(@)]
  /\ pc' = [pc EXCEPT ![c] = "declare"]
  /\ UNCHANGED <<rootLock, idleCpu, scheduler, handler, queue, qLock, lq, lw, le, ls, ipi, ops, mainFreed>>

\* MUTANT of IdleDeclare: sleeps without looking at the run queue
MutDeclare(c) ==
  LET s == scheduler_get[c] IN
  /\ On(c) = c /\ pc[c] \in {"declare", "poll"}
  /\ idleCpu' = IF IDLE = "ipi" THEN [idleCpu EXCEPT ![s] = <<c>> \o @] ELSE idleCpu
  /\ rootLock' = [rootLock EXCEPT ![s] = None]
  /\ pc' = [pc EXCEPT ![c] = IF IDLE = "poll" THEN "wake" ELSE "sleep"]
  /\ UNCHANGED <<root, scheduler, cur, handler, queue, qLock, lq, lw, le, ls, ipi, ops, mainFreed>>

\* nothing ready, or back from a context that found nothing ready: declare
\* the processor idle, unlock the run queue and wait
IdleDeclare(c) ==
  LET s == scheduler_get[c] IN
  /\ On(c) = c
  /\ \/ pc[c] = "declare"
     \/ pc[c] = "poll" /\ root[s] = <<>>
  /\ idleCpu' = IF IDLE = "ipi" THEN [idleCpu EXCEPT ![s] = <<c>> \o @] ELSE idleCpu
  /\ rootLock' = [rootLock EXCEPT ![s] = None]
  /\ pc' = [pc EXCEPT ![c] = IF IDLE = "poll" THEN "wake" ELSE "sleep"]
  /\ UNCHANGED <<root, scheduler, cur, handler, queue, qLock, lq, lw, le, ls, ipi, ops, mainFreed>>

\* an IPI interrupts the processor; its handler does nothing for the
\* scheduler, but it ends cpu_interrupt_wait
TakeIpi(c) ==
  LET x == On(c) IN
  /\ ipi[c]
  /\ \/ x = c /\ pc[x] \in {"sleep", "wake"}
     \/ x \in Ctx /\ pc[x] = "run"
  /\ ipi' = [ipi EXCEPT ![c] = FALSE]
  /\ pc' = [pc EXCEPT ![x] = IF x = c THEN "wake" ELSE "run"]
  /\ UNCHANGED <<root, rootLock, idleCpu, scheduler, cur, handler, queue, qLock, lq, lw, le, ls, ops, mainFreed>>

\* MUTANT of IdleLock: looks for any processor in the idle list, not for itself
MutIdleOrphan(c) ==
  LET s == scheduler_get[c] IN
  /\ On(c) = c /\ pc[c] = "wake"
  /\ rootLock[s] = None /\ idleCpu[s] = <<>>
  /\ pc' = [pc EXCEPT ![c] = "poll"]
  /\ rootLock' = [rootLock EXCEPT ![s] = c]
  /\ UNCHANGED <<root, idleCpu, scheduler, cur, handler, queue, qLock, lq, lw, le, ls, ipi, ops, mainFreed>>

\* awake: lock the run queue, but sleep again when still declared idle
IdleLock(c) ==
  LET s == scheduler_get[c] IN
  /\ On(c) = c /\ pc[c] = "wake"
  /\ rootLock[s] = None
  /\ IF IDLE = "ipi" /\ c \in Elems(idleCpu[s])
     THEN pc' = [pc EXCEPT ![c] = "sleep"] /\ UNCHANGED rootLock
     ELSE pc' = [pc EXCEPT ![c] = "poll"] /\ rootLock' = [rootLock EXCEPT ![s] = c]
  /\ UNCHANGED <<root, idleCpu, scheduler, cur, handler, queue, qLock, lq, lw, le, ls, ipi, ops, mainFreed>>

-----------------------------------------------------------------------------
(* Device interrupts: a handler may lock a queue and wake from it.         *)

IrqEnter(c, d) ==
  LET x == cur[c] IN
  /\ handler[c] = None /\ pc[d] = "off" /\ ops[d] < MaxOps
  /\ \/ x = c /\ pc[x] = "sleep"
     \/ x \in Ctx /\ pc[x] = "run"
  /\ handler' = [handler EXCEPT ![c] = d]
  /\ pc' = [pc EXCEPT ![d] = "run"]
  /\ ops' = [ops EXCEPT ![d] = @ + 1]
  /\ UNCHANGED <<root, rootLock, idleCpu, scheduler, cur, queue, qLock, lq, lw, le, ls, ipi, mainFreed>>

\* return from interrupt; an idle processor is awake then
IrqReturn(c) ==
  LET d == On(c) IN
  /\ d \in Irq /\ pc[d] \in {"run", "iret"}
  /\ handler' = [handler EXCEPT ![c] = None]
  /\ pc' = [pc EXCEPT ![d] = "off", ![cur[c]] = IF cur[c] = c THEN "wake" ELSE @]
  /\ UNCHANGED <<root, rootLock, idleCpu, scheduler, cur, queue, qLock, lq, lw, le, ls, ipi, ops, mainFreed>>

-----------------------------------------------------------------------------
\* a step of the code processor c executes
Step(c) ==
  \/ \E q \in Waiting : sched_queue_wrlock(c, q)
  \/ sched_queue_unlock(c)
  \/ sched_wait_unlock(c)
  \/ sched_context_stop_unlock(c)
  \/ WaitLockRoot(c)
  \/ WaitSwitch(c)
  \/ Resume(c)
  \/ sched_unlock(c)
  \/ sched_wake(c)
  \/ \E x \in Ctx : sched_context_start(c, x)
  \/ sched_context_push(c)
  \/ ipi_post(c)
  \/ sched_context_switch(c)
  \/ sched_context_exit(c)
  \/ IdleFirst(c)
  \/ IdleSwitch(c)
  \/ IdleDeclare(c)
  \/ TakeIpi(c)
  \/ IdleLock(c)
  \/ IrqReturn(c)

Next ==
  \E c \in CPU :
    \/ Step(c)
    \/ \E d \in Irq : IrqEnter(c, d)

Spec == Init /\ [][Next]_vars

\* the same in a preemptive kernel
PreemptSpec == Init /\ [][Next \/ \E c \in CPU : timer_callback(c)]_vars

\* processors keep executing; nothing forces a device to interrupt
FairSpec == Spec /\ \A c \in CPU : WF_vars(Step(c))
-----------------------------------------------------------------------------
Pc == {"run", "locked", "enq", "switch", "resume", "entry", "push", "ipi", "new", "dead",
       "off", "iret", "boot", "first", "poll", "declare", "sleep", "wake"}

\* The type invariant.
TypeOK ==
  /\ root \in [Sched -> Seq(Ctx)]
  /\ rootLock \in [Sched -> CPU \cup {None}]
  /\ idleCpu \in [Sched -> Seq(CPU)]
  /\ scheduler \in [Ctx -> Sched]
  /\ cur \in [CPU -> Ctx \cup CPU] /\ \A c \in CPU : cur[c] \in CPU => cur[c] = c
  /\ handler \in [CPU -> Irq \cup {None}]
  /\ pc \in [Ctx \cup CPU \cup Irq -> Pc]
  /\ queue \in [Waiting -> Seq(Ctx)]
  /\ qLock \in [Waiting -> Caller \cup {None}]
  /\ lq \in [Caller -> Waiting \cup {None}]
  /\ lw \in [Caller -> Ctx \cup {None}]
  /\ le \in [Caller -> CPU \cup {None}]
  /\ ls \in [Ctx \cup CPU -> Sched \cup {None}]
  /\ ipi \in [CPU -> BOOLEAN]
  /\ ops \in [Caller -> 0..MaxOps]
  /\ mainFreed \in BOOLEAN

\* A context runs on one processor at a time, whatever two processors do
\* between "push in the wait queue" and "switch" (scheduler.c:340, 364).
OneCpuPerContext ==
  \A c, d \in CPU : c # d => cur[c] # cur[d]

\* A context in a run queue is in no other place and has been saved: no
\* processor still executes on its stack, so it can be switched to at once.
ReadyIsSaved ==
  \A s \in Sched : \A x \in Elems(root[s]) :
    /\ pc[x] \in {"resume", "entry"}
    /\ \A c \in CPU : cur[c] # x
    /\ \A q \in Waiting : x \notin Elems(queue[q])
    /\ \A a \in Caller : lw[a] # x

\* With one scheduler per processor, a context runs on the processor its
\* affinity names and on no other (scheduler.c:130 pushes to its scheduler).
AffinityKept ==
  \A c \in CPU : cur[c] \in Ctx => scheduler[cur[c]] = scheduler_get[c]

\* where the code relies on its processor holding the run queue lock
UnderRootLock == {"switch", "resume", "entry", "first", "poll", "declare"}

\* The run queue lock is handed over by context switches: whoever stands where
\* the code believes it holds the lock does, for the scheduler it will unlock,
\* and nobody else holds it.
LockHandOver ==
  \A c \in CPU :
    LET x == On(c) IN
    /\ pc[x] \in UnderRootLock <=> \E s \in Sched : rootLock[s] = c
    /\ pc[x] \in UnderRootLock => rootLock[scheduler_get[c]] = c
    /\ pc[x] \in {"switch", "resume"} => ls[x] = scheduler_get[c]

\* the processors of scheduler s that were taken off the idle list, or never
\* put on it, and will look at the run queue before sleeping
WakingUp(s) ==
  {c \in CPU : /\ scheduler_get[c] = s /\ cur[c] = c
               /\ pc[c] \in {"sleep", "wake", "poll"}
               /\ c \notin Elems(idleCpu[s])}

\* While a processor is declared idle, at least one processor per ready
\* context is on its way to the run queue (scheduler.c:203, 238): work never
\* waits for a busy processor when an idle one could take it.
IdleServesReady ==
  \A s \in Sched : idleCpu[s] # <<>> => Len(root[s]) <= Cardinality(WakingUp(s))

\* No wake-up is lost: a sleeping processor that is no longer declared idle
\* has an interrupt pending, in progress, or about to be posted.
WakeUpSignalled ==
  \A s \in Sched : \A c \in WakingUp(s) :
    pc[c] = "sleep" => ipi[c] \/ handler[c] # None \/ \E a \in Caller : le[a] = c

\* Work does not wait for a processor that sleeps (scheduler.c:203, 238, 141).
ReadyIsServed == IdleServesReady /\ WakeUpSignalled

\* Every context put in a run queue eventually runs.
ReadyRuns ==
  \A x \in Ctx :
    (\E s \in Sched : x \in Elems(root[s])) ~> (\E c \in CPU : cur[c] = x)

\* What goes back in the running queue is a context (scheduler.c:267 "push
\* context back in running queue").
QueuedIsContext == \A s \in Sched : None \notin Elems(root[s])
-----------------------------------------------------------------------------
(* The scheduler implements WaitQueues.  A context that is on its way out  *)
(* ("enq", "switch") still occupies its processor but runs no more.        *)

Blocked == UNION {Elems(queue[q]) : q \in Waiting}

Executing == {x \in Ctx : pc[x] \notin {"enq", "switch"} /\ \E c \in CPU : cur[c] = x}

statusBar ==
  [x \in Ctx |-> CASE pc[x] \in {"new", "dead"} -> pc[x]
                   [] x \in Blocked -> "blocked"
                   [] x \in Executing -> "running"
                   [] OTHER -> "ready"]

WQ == INSTANCE WaitQueues WITH Queue <- Waiting, NCpu <- Cardinality(CPU),
                               status <- statusBar, waitq <- queue

\* To the code that blocks and wakes contexts, the steps of all processors and
\* interrupts look like atomic operations on queues served in order: a waiter
\* leaves its queue only when woken, oldest first, runs again only after that,
\* and never are more contexts running than there are processors.
ImplementsWaitQueues == WQ!WQSpec
=============================================================================
