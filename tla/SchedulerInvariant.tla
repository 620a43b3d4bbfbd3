------------------------- MODULE SchedulerInvariant -------------------------
(***************************************************************************)
(* The inductive invariant of Scheduler, for any number of processors,     *)
(* contexts, wait queues and interrupt sources, with one scheduler or      *)
(* several; that it holds initially; and that it is preserved by the steps *)
(* that do not switch contexts: wait queue locks, inter-processor and      *)
(* device interrupts, the idle loop, the release of the run queue lock     *)
(* after a switch, waiting in a queue, waking from it, starting a context  *)
(* and pushing it in its run queue.  The second half is about ServeInv:    *)
(* no step that makes a context ready, or that looks for one, leaves it    *)
(* unserved.                                                               *)
(***************************************************************************)
EXTENDS Scheduler, FiniteSetTheorems, TLAPS

\* Zenon proves what names no other prover, within 20 seconds
USE ZenonT(20)

-----------------------------------------------------------------------------
(* The inductive invariant.                                                *)

NoDup(seq) == \A i, j \in DOMAIN seq : seq[i] = seq[j] => i = j

\* a processor executes one context, a context runs on one processor
CurInv == \A c, d \in CPU : cur[c] = cur[d] => c = d

\* an interrupt handler runs on one processor, over interruptible code
IrqInv ==
  /\ \A c, d \in CPU : handler[c] = handler[d] /\ handler[c] # None => c = d
  /\ \A i \in Irq : /\ pc[i] \in {"off", "run", "locked", "push", "ipi", "iret"}
                    /\ pc[i] = "off" <=> \A c \in CPU : handler[c] # i
  /\ \A c \in CPU : handler[c] # None => pc[cur[c]] \in {"run", "sleep"}

\* a context without a processor has not started, has ended or was switched out
CtxInv ==
  \A x \in Ctx :
    /\ pc[x] \in {"run", "locked", "enq", "switch", "push", "ipi"} => \E c \in CPU : cur[c] = x
    /\ pc[x] \in {"new", "dead"} => \A c \in CPU : cur[c] # x
    /\ pc[x] \in {"new", "dead", "run", "locked", "enq", "switch", "resume", "entry", "push", "ipi"}

\* the same for idle contexts
IdleInv ==
  \A c \in CPU : /\ pc[c] \in {"boot", "first", "poll", "declare", "sleep", "wake"}
                 /\ cur[c] # c => pc[c] \in {"first", "declare"}

\* contexts in a run queue were switched out or never ran
RootInv ==
  \A s \in Sched :
    /\ NoDup(root[s])
    /\ \A x \in Elems(root[s]) : /\ pc[x] \in {"resume", "entry"} /\ scheduler[x] = s
                                 /\ \A c \in CPU : cur[c] # x

\* contexts in a wait queue are on their way out of their processor, or out
QueueInv ==
  \A q \in Waiting :
    /\ NoDup(queue[q])
    /\ \A x \in Elems(queue[q]) : /\ pc[x] \in {"enq", "switch", "resume"}
                                  /\ pc[x] = "enq" => lq[x] = q
                                  /\ pc[x] = "resume" => \A c \in CPU : cur[c] # x

\* contexts being pushed are no longer in their wait queue
HandInv ==
  \A a \in Caller :
    /\ pc[a] = "push" <=> lw[a] # None
    /\ lw[a] # None => /\ pc[lw[a]] \in {"switch", "resume", "entry"}
                       /\ pc[lw[a]] # "switch" => \A c \in CPU : cur[c] # lw[a]

\* a context is in one place only
ApartInv ==
  /\ \A s \in Sched, q \in Waiting : \A x \in Elems(queue[q]) : x \notin Elems(root[s])
  /\ \A q, r \in Waiting : \A x \in Elems(queue[q]) : x \in Elems(queue[r]) => q = r
  /\ \A a \in Caller : /\ \A s \in Sched : lw[a] \notin Elems(root[s])
                       /\ \A q \in Waiting : lw[a] \notin Elems(queue[q])
  /\ \A a, b \in Caller : lw[a] = lw[b] /\ lw[a] # None => a = b

\* wait queue locks
QLockInv ==
  \A a \in Caller :
    /\ lq[a] # None => qLock[lq[a]] = a
    /\ pc[a] \in {"locked", "enq"} => lq[a] # None

\* contexts stay with their scheduler
SchedInv ==
  /\ \A c \in CPU : cur[c] \in Ctx => scheduler[cur[c]] = scheduler_get[c]
  /\ \A x \in Ctx : pc[x] \in {"switch", "resume"} => ls[x] = scheduler[x]

\* the run queue lock goes with the processor from context to context
RootLockInv ==
  /\ \A s \in Sched, c \in CPU : rootLock[s] = c =>
       scheduler_get[c] = s /\ pc[cur[c]] \in UnderRootLock
  /\ \A c \in CPU : pc[cur[c]] \in UnderRootLock => rootLock[scheduler_get[c]] = c

IInv == /\ TypeOK /\ CurInv /\ IrqInv /\ CtxInv /\ IdleInv /\ RootInv /\ QueueInv
        /\ HandInv /\ ApartInv /\ QLockInv /\ SchedInv /\ RootLockInv

-----------------------------------------------------------------------------
(* Sequences.                                                              *)

\* What a push at the back of a queue does to its elements.
LEMMA AppendElems ==
  ASSUME NEW S, NEW seq \in Seq(S), NEW x \in S
  PROVE  /\ Append(seq, x) \in Seq(S)
         /\ Elems(Append(seq, x)) = Elems(seq) \cup {x}
         /\ NoDup(seq) /\ x \notin Elems(seq) => NoDup(Append(seq, x))
  <1> DEFINE t == Append(seq, x)
             n == Len(seq)
  <1>1. /\ n \in Nat /\ DOMAIN seq = 1..n
        /\ t \in Seq(S) /\ DOMAIN t = 1..(n + 1)
        /\ t[n + 1] = x /\ \A i \in 1..n : t[i] = seq[i]
    BY SMTT(30)
  <1> HIDE DEF t, n
  <1>2. \A i \in 1..(n + 1) : i \in 1..n \/ i = n + 1
    BY <1>1, SMTT(30)
  <1>3. 1..n \subseteq 1..(n + 1) /\ n + 1 \in 1..(n + 1) /\ n + 1 \notin 1..n
    BY <1>1, SMTT(30)
  <1>4. Elems(t) = Elems(seq) \cup {x}
    <2>1. ASSUME NEW y \in Elems(t) PROVE y \in Elems(seq) \cup {x}
      BY <1>1, <1>2, <2>1 DEF Elems
    <2>2. ASSUME NEW y \in Elems(seq) PROVE y \in Elems(t)
      BY <1>1, <1>3, <2>2 DEF Elems
    <2>3. x \in Elems(t)
      BY <1>1, <1>3 DEF Elems
    <2> QED
      BY <2>1, <2>2, <2>3
  <1>5. ASSUME NoDup(seq), x \notin Elems(seq) PROVE NoDup(t)
    <2> SUFFICES ASSUME NEW i \in 1..(n + 1), NEW j \in 1..(n + 1), t[i] = t[j] PROVE i = j
      BY <1>1 DEF NoDup
    <2> QED
      BY <1>1, <1>2, <1>5 DEF NoDup, Elems
  <1> QED
    BY <1>1, <1>4, <1>5 DEF t

\* What a pop from the front of a queue does to its elements.
LEMMA PopElems ==
  ASSUME NEW S, NEW seq \in Seq(S), seq # <<>>
  PROVE  /\ Head(seq) \in S /\ Tail(seq) \in Seq(S)
         /\ Elems(seq) = Elems(Tail(seq)) \cup {Head(seq)}
         /\ NoDup(seq) => NoDup(Tail(seq)) /\ Head(seq) \notin Elems(Tail(seq))
  <1> DEFINE t == Tail(seq)
             n == Len(seq)
  <1>1. /\ n \in Nat \ {0} /\ DOMAIN seq = 1..n
        /\ t \in Seq(S) /\ DOMAIN t = 1..(n - 1)
        /\ \A i \in 1..(n - 1) : t[i] = seq[i + 1]
        /\ Head(seq) = seq[1] /\ Head(seq) \in S
    BY SMTT(30)
  <1> HIDE DEF t, n
  <1>2. \A i \in 1..n : i = 1 \/ (i - 1 \in 1..(n - 1) /\ (i - 1) + 1 = i)
    BY <1>1, SMTT(30)
  <1>3. 1 \in 1..n /\ \A i \in 1..(n - 1) : i + 1 \in 1..n /\ i + 1 # 1
    BY <1>1, SMTT(30)
  <1>4. Elems(seq) = Elems(t) \cup {Head(seq)}
    <2>1. ASSUME NEW y \in Elems(seq) PROVE y \in Elems(t) \cup {Head(seq)}
      <3>1. PICK i \in 1..n : y = seq[i]
        BY <1>1, <2>1 DEF Elems
      <3>2. i # 1 => t[i - 1] = y
        BY <1>1, <1>2, <3>1
      <3> QED
        BY <1>1, <1>2, <3>1, <3>2 DEF Elems
    <2>2. ASSUME NEW y \in Elems(t) PROVE y \in Elems(seq)
      BY <1>1, <1>3, <2>2, SMTT(30) DEF Elems
    <2>3. Head(seq) \in Elems(seq)
      BY <1>1, <1>3 DEF Elems
    <2> QED
      BY <2>1, <2>2, <2>3
  <1>5. ASSUME NoDup(seq) PROVE NoDup(t) /\ Head(seq) \notin Elems(t)
    <2>1. ASSUME NEW i \in 1..(n - 1), NEW j \in 1..(n - 1), t[i] = t[j] PROVE i = j
      <3>1. i + 1 = j + 1
        BY <1>1, <1>3, <1>5, <2>1, SMTT(30) DEF NoDup
      <3> QED
        BY <3>1, SMTT(30)
    <2>2. ASSUME NEW i \in 1..(n - 1) PROVE t[i] # Head(seq)
      BY <1>1, <1>3, <1>5, SMTT(30) DEF NoDup
    <2> QED
      BY <1>1, <2>1, <2>2 DEF NoDup, Elems
  <1> QED
    BY <1>1, <1>4, <1>5 DEF t

\* The elements of a queue of contexts are contexts.
LEMMA ElemsType ==
  ASSUME NEW S, NEW seq \in Seq(S)
  PROVE  Elems(seq) \subseteq S
  BY SMTT(30) DEF Elems

\* Nothing is in an empty queue.
LEMMA EmptyElems == Elems(<<>>) = {} /\ NoDup(<<>>)
  BY SMTT(30) DEF Elems, NoDup

-----------------------------------------------------------------------------
(* Agents.                                                                 *)

\* The agent a processor executes is its handler, its context or its idle.
LEMMA OnAgent ==
  ASSUME TypeOK, NEW c \in CPU
  PROVE  /\ On(c) \in Ctx \cup CPU \cup Irq
         /\ On(c) \in Ctx => handler[c] = None /\ cur[c] = On(c)
         /\ On(c) \in Irq => handler[c] = On(c)
         /\ On(c) \in CPU => handler[c] = None /\ cur[c] = On(c) /\ On(c) = c
  BY SchedulerAssumption DEF On, TypeOK

\* Initially.
LEMMA InitIInv == Init => IInv
  <1> SUFFICES ASSUME Init PROVE IInv
    OBVIOUS
  <1>1. TypeOK
    <2>1. pc \in [Ctx \cup CPU \cup Irq -> Pc]
      BY DEF Init, Pc
    <2>2. root \in [Sched -> Seq(Ctx)] /\ idleCpu \in [Sched -> Seq(CPU)] /\ queue \in [Waiting -> Seq(Ctx)]
      BY SMTT(30) DEF Init
    <2>3. cur \in [CPU -> Ctx \cup CPU] /\ \A c \in CPU : cur[c] \in CPU => cur[c] = c
      BY SchedulerAssumption DEF Init
    <2>4. ops \in [Caller -> 0..MaxOps] /\ scheduler \in [Ctx -> Sched]
      BY SchedulerAssumption, SMTT(30) DEF Init
    <2>5. /\ rootLock \in [Sched -> CPU \cup {None}] /\ handler \in [CPU -> Irq \cup {None}]
          /\ qLock \in [Waiting -> Caller \cup {None}] /\ lq \in [Caller -> Waiting \cup {None}]
          /\ lw \in [Caller -> Ctx \cup {None}] /\ le \in [Caller -> CPU \cup {None}]
          /\ ls \in [Ctx \cup CPU -> Sched \cup {None}]
          /\ ipi \in [CPU -> BOOLEAN] /\ mainFreed \in BOOLEAN
      BY DEF Init
    <2> QED
      BY <2>1, <2>2, <2>3, <2>4, <2>5 DEF TypeOK
  <1>2. CurInv /\ IrqInv /\ CtxInv /\ IdleInv
    BY SchedulerAssumption DEF Init, CurInv, IrqInv, CtxInv, IdleInv
  <1>3. RootInv /\ QueueInv /\ ApartInv
    BY SchedulerAssumption, EmptyElems DEF Init, RootInv, QueueInv, ApartInv
  <1>4. HandInv /\ QLockInv /\ SchedInv /\ RootLockInv
    BY SchedulerAssumption DEF Init, HandInv, QLockInv, SchedInv, RootLockInv, UnderRootLock, Caller
  <1> QED
    BY <1>1, <1>2, <1>3, <1>4 DEF IInv

-----------------------------------------------------------------------------
(* Steps that neither suspend nor resume a context.                        *)

\* A context that runs, and is not on its way out, is in no queue and in
\* nobody's hands.
LEMMA RunningIsNowhere ==
  ASSUME IInv, NEW c \in CPU, cur[c] \in Ctx, pc[cur[c]] \notin {"enq", "switch"}
  PROVE  /\ \A s \in Sched : cur[c] \notin Elems(root[s])
         /\ \A q \in Waiting : cur[c] \notin Elems(queue[q])
         /\ \A a \in Caller : lw[a] # cur[c]
  <1>1. \A s \in Sched : cur[c] \notin Elems(root[s])
    BY SMTT(30) DEF IInv, RootInv
  <1>2. \A q \in Waiting : cur[c] \notin Elems(queue[q])
    BY DEF IInv, QueueInv
  <1>3. \A a \in Caller : lw[a] # cur[c]
    BY SchedulerAssumption, SMTT(30) DEF IInv, HandInv
  <1> QED
    BY <1>1, <1>2, <1>3

\* what an agent's step leaves alone when it goes from p to r, and neither
\* suspends nor resumes a context
Steady == UNCHANGED <<root, queue, lw, cur, scheduler>>

\* Such a step of a context keeps it on its processor.
LEMMA CtxStep ==
  ASSUME IInv, NEW c \in CPU, NEW r, cur[c] \in Ctx, handler[c] = None,
         pc[cur[c]] \notin {"enq", "switch", "push"},
         r \in {"run", "locked", "ipi"},
         pc' = [pc EXCEPT ![cur[c]] = r], Steady, UNCHANGED handler,
         \A b \in Caller : b # cur[c] => lq'[b] = lq[b]
  PROVE  CurInv' /\ IrqInv' /\ CtxInv' /\ IdleInv' /\ RootInv' /\ QueueInv' /\ HandInv' /\ ApartInv'
  <1> DEFINE x == cur[c]
  <1>1. /\ x \in Ctx /\ pc \in [Ctx \cup CPU \cup Irq -> Pc]
        /\ \A b \in Ctx \cup CPU \cup Irq : b # x => pc'[b] = pc[b]
        /\ pc'[x] = r /\ x \notin CPU /\ x \notin Irq
    BY SchedulerAssumption DEF IInv, TypeOK
  <1>2. /\ \A s \in Sched : x \notin Elems(root[s])
        /\ \A q \in Waiting : x \notin Elems(queue[q])
        /\ \A a \in Caller : lw[a] # x
    BY RunningIsNowhere
  <1>3. CurInv' /\ ApartInv'
    BY DEF IInv, CurInv, ApartInv, Steady
  <1>4. IrqInv'
    <2>1. \A d \in CPU : handler[d] # None => cur[d] # x
      BY DEF IInv, CurInv
    <2> QED
      BY <1>1, <2>1, SMTT(30) DEF IInv, IrqInv, Steady, TypeOK
  <1>5. CtxInv'
    BY <1>1 DEF IInv, CtxInv, Steady
  <1>6. IdleInv'
    BY <1>1 DEF IInv, IdleInv, Steady
  <1>7. RootInv'
    BY <1>1, <1>2, SMTT(30) DEF IInv, RootInv, Steady, TypeOK, Elems
  <1>8. QueueInv'
    <2>1. \A q \in Waiting : Elems(queue[q]) \subseteq Ctx
      BY ElemsType DEF IInv, TypeOK
    <2> QED
      BY <1>1, <1>2, <2>1, SMTT(30) DEF IInv, QueueInv, Steady, Caller
  <1>9. HandInv'
    BY <1>1, <1>2, SMTT(30) DEF IInv, HandInv, Steady
  <1> QED
    BY <1>3, <1>4, <1>5, <1>6, <1>7, <1>8, <1>9

\* Such a step of an interrupt handler.
LEMMA IrqStep ==
  ASSUME IInv, NEW c \in CPU, NEW r, handler[c] \in Irq,
         pc[handler[c]] # "push",
         r \in {"run", "locked", "ipi", "iret"},
         pc' = [pc EXCEPT ![handler[c]] = r], Steady, UNCHANGED handler,
         \A b \in Caller : b # handler[c] => lq'[b] = lq[b]
  PROVE  CurInv' /\ IrqInv' /\ CtxInv' /\ IdleInv' /\ RootInv' /\ QueueInv' /\ HandInv' /\ ApartInv'
  <1> DEFINE i == handler[c]
  <1>1. /\ i \in Irq /\ pc \in [Ctx \cup CPU \cup Irq -> Pc]
        /\ \A b \in Ctx \cup CPU \cup Irq : b # i => pc'[b] = pc[b]
        /\ pc'[i] = r /\ i \notin CPU /\ i \notin Ctx
    BY SchedulerAssumption DEF IInv, TypeOK
  <1>2. /\ \A q \in Waiting : Elems(queue[q]) \subseteq Ctx
        /\ \A s \in Sched : Elems(root[s]) \subseteq Ctx
        /\ \A a \in Caller : lw[a] # None => lw[a] \in Ctx
        /\ \A d \in CPU : cur[d] \in Ctx \cup CPU
    BY ElemsType DEF IInv, TypeOK
  <1>3. CurInv' /\ ApartInv'
    BY DEF IInv, CurInv, ApartInv, Steady
  <1>4. IrqInv'
    BY <1>1, <1>2, SMTT(30) DEF IInv, IrqInv, Steady
  <1>5. CtxInv' /\ IdleInv'
    BY <1>1, SMTT(30) DEF IInv, CtxInv, IdleInv, Steady
  <1>6. RootInv' /\ QueueInv'
    BY <1>1, <1>2, SMTT(30) DEF IInv, RootInv, QueueInv, Steady, Caller
  <1>7. HandInv'
    BY <1>1, <1>2, SMTT(30) DEF IInv, HandInv, Steady, Caller
  <1> QED
    BY <1>3, <1>4, <1>5, <1>6, <1>7

\* Such a step of an idle context.
LEMMA IdleStep ==
  ASSUME IInv, NEW c \in CPU, NEW r, cur[c] = c, handler[c] = None,
         r \in {"poll", "sleep", "wake"},
         pc' = [pc EXCEPT ![c] = r], Steady, UNCHANGED <<handler, lq>>
  PROVE  CurInv' /\ IrqInv' /\ CtxInv' /\ IdleInv' /\ RootInv' /\ QueueInv' /\ HandInv' /\ ApartInv'
  <1>1. /\ pc \in [Ctx \cup CPU \cup Irq -> Pc]
        /\ \A b \in Ctx \cup CPU \cup Irq : b # c => pc'[b] = pc[b]
        /\ pc'[c] = r /\ c \notin Ctx /\ c \notin Irq
    BY SchedulerAssumption DEF IInv, TypeOK
  <1>2. /\ \A q \in Waiting : Elems(queue[q]) \subseteq Ctx
        /\ \A s \in Sched : Elems(root[s]) \subseteq Ctx
        /\ \A a \in Caller : lw[a] # None => lw[a] \in Ctx
    BY ElemsType DEF IInv, TypeOK
  <1>3. CurInv' /\ ApartInv'
    BY DEF IInv, CurInv, ApartInv, Steady
  <1>4. IrqInv'
    <2>1. \A d \in CPU : handler[d] # None => cur[d] # c
      BY DEF IInv, CurInv
    <2> QED
      BY <1>1, <2>1, SMTT(30) DEF IInv, IrqInv, Steady, TypeOK
  <1>5. CtxInv' /\ IdleInv'
    BY <1>1, SMTT(30) DEF IInv, CtxInv, IdleInv, Steady
  <1>6. RootInv' /\ QueueInv'
    BY <1>1, <1>2, SMTT(30) DEF IInv, RootInv, QueueInv, Steady
  <1>7. HandInv'
    BY <1>1, <1>2, SMTT(30) DEF IInv, HandInv, Steady, Caller
  <1> QED
    BY <1>3, <1>4, <1>5, <1>6, <1>7

\* What a step of processor c may do to the run queue lock: nothing, take it
\* or release it, in accordance with where the code stands before and after.
LEMMA LockStep ==
  ASSUME IInv, NEW c \in CPU,
         \A d \in CPU : d # c => cur'[d] = cur[d] /\ pc'[cur'[d]] = pc[cur[d]],
         \/ /\ rootLock' = rootLock
            /\ pc'[cur'[c]] \in UnderRootLock <=> pc[cur[c]] \in UnderRootLock
         \/ /\ rootLock[scheduler_get[c]] = None
            /\ rootLock' = [rootLock EXCEPT ![scheduler_get[c]] = c]
            /\ pc'[cur'[c]] \in UnderRootLock
         \/ /\ rootLock[scheduler_get[c]] = c
            /\ rootLock' = [rootLock EXCEPT ![scheduler_get[c]] = None]
            /\ pc'[cur'[c]] \notin UnderRootLock
  PROVE  RootLockInv'
  <1> USE SchedulerAssumption
  <1>1. scheduler_get[c] \in Sched /\ rootLock \in [Sched -> CPU \cup {None}]
    BY DEF IInv, TypeOK
  <1>2. CASE rootLock' = rootLock /\ (pc'[cur'[c]] \in UnderRootLock <=> pc[cur[c]] \in UnderRootLock)
    BY <1>1, <1>2 DEF IInv, RootLockInv
  <1>3. CASE /\ rootLock[scheduler_get[c]] = None
             /\ rootLock' = [rootLock EXCEPT ![scheduler_get[c]] = c]
             /\ pc'[cur'[c]] \in UnderRootLock
    BY <1>1, <1>3, SMTT(30) DEF IInv, RootLockInv
  <1>4. CASE /\ rootLock[scheduler_get[c]] = c
             /\ rootLock' = [rootLock EXCEPT ![scheduler_get[c]] = None]
             /\ pc'[cur'[c]] \notin UnderRootLock
    BY <1>1, <1>4, SMTT(30) DEF IInv, RootLockInv
  <1> QED
    BY <1>2, <1>3, <1>4
-----------------------------------------------------------------------------
(* The run queue lock in a step of a context or handler.                   *)

\* A step of a context or handler that stays away from the run queue lock.
LEMMA CallerLock ==
  ASSUME IInv, NEW c \in CPU, NEW r, On(c) \in Caller,
         pc[On(c)] \notin UnderRootLock, r \notin UnderRootLock,
         pc' = [pc EXCEPT ![On(c)] = r], UNCHANGED <<cur, rootLock>>
  PROVE  RootLockInv'
  <1> DEFINE a == On(c)
  <1>1. /\ a \in Ctx => cur[c] = a
        /\ a \in Irq => a \notin Ctx \cup CPU
        /\ a \in Ctx \cup Irq
        /\ cur \in [CPU -> Ctx \cup CPU]
        /\ pc \in [Ctx \cup CPU \cup Irq -> Pc]
    BY OnAgent, SchedulerAssumption DEF IInv, TypeOK, Caller
  <1> HIDE DEF a
  <1>2. \A d \in CPU : d # c => cur[d] # a
    BY <1>1 DEF IInv, CurInv
  <1>3. pc'[cur[c]] \in UnderRootLock <=> pc[cur[c]] \in UnderRootLock
    BY <1>1 DEF a
  <1>4. \A d \in CPU : d # c => cur'[d] = cur[d] /\ pc'[cur'[d]] = pc[cur[d]]
    BY <1>1, <1>2 DEF a
  <1> QED
    BY <1>3, <1>4, LockStep

-----------------------------------------------------------------------------
(* Waking and starting contexts.                                           *)

\* Taking a context in hand, to push it: it is in no queue any more.  This is
\* what sched_wake and sched_context_start have in common.
LEMMA TakeInHand ==
  ASSUME IInv, NEW c \in CPU, NEW y \in Ctx, On(c) \in Caller,
         pc[On(c)] \in {"run", "locked"}, y # On(c),
         lw' = [lw EXCEPT ![On(c)] = y],
         pc'[On(c)] = "push", pc'[y] \in {"switch", "resume", "entry"},
         \A b \in Ctx \cup CPU \cup Irq : b # On(c) /\ b # y => pc'[b] = pc[b],
         pc'[y] # pc[y] => pc[y] = "new" /\ pc'[y] = "entry",
         pc'[y] # "switch" => \A d \in CPU : cur[d] # y,
         \A s \in Sched : y \notin Elems(root[s]),
         \A a \in Caller : lw[a] # y,
         queue' \in [Waiting -> Seq(Ctx)],
         \A q \in Waiting : /\ NoDup(queue'[q]) /\ y \notin Elems(queue'[q])
                            /\ Elems(queue'[q]) \subseteq Elems(queue[q]),
         \A z \in Ctx : z # y => scheduler'[z] = scheduler[z],
         UNCHANGED <<root, cur, handler, lq>>
  PROVE  CurInv' /\ IrqInv' /\ CtxInv' /\ IdleInv' /\ RootInv' /\ QueueInv' /\ HandInv' /\ ApartInv'
  <1> DEFINE a == On(c)
  <1>1. /\ a \in Ctx => handler[c] = None /\ cur[c] = a
        /\ a \in Irq => handler[c] = a
        /\ a \in Ctx \cup Irq /\ a \notin CPU /\ y \notin CPU /\ y \notin Irq
        /\ ~ (a \in Ctx /\ a \in Irq)
        /\ a \in Caller /\ y # None
    BY OnAgent, SchedulerAssumption, SMTT(30) DEF IInv, Caller
  <1>2. /\ pc'[a] = "push" /\ pc[a] \in {"run", "locked"}
        /\ lw'[a] = y /\ \A b \in Caller : b # a => lw'[b] = lw[b]
        /\ \A b \in Ctx \cup CPU \cup Irq : b # a /\ b # y => pc'[b] = pc[b]
        /\ a # y
    BY <1>1 DEF IInv, TypeOK
  <1>3. /\ \A s \in Sched : a \notin Elems(root[s])
        /\ \A q \in Waiting : a \notin Elems(queue[q])
        /\ \A b \in Caller : lw[b] # a
    <2>1. CASE a \in Ctx
      BY <1>1, <1>2, <2>1, RunningIsNowhere, SMTT(30)
    <2>2. CASE a \in Irq
      BY <1>1, <2>2, ElemsType, SchedulerAssumption, SMTT(30) DEF IInv, TypeOK
    <2> QED
      BY <1>1, <2>1, <2>2
  <1>4. /\ \A q \in Waiting : Elems(queue[q]) \subseteq Ctx
        /\ \A s \in Sched : Elems(root[s]) \subseteq Ctx
        /\ \A b \in Caller : lw[b] # None => lw[b] \in Ctx
        /\ \A d \in CPU : cur[d] \in Ctx \cup CPU
        /\ CPU \cap Ctx = {} /\ CPU \cap Irq = {} /\ Ctx \cap Irq = {}
    BY ElemsType, SchedulerAssumption DEF IInv, TypeOK
  <1> HIDE DEF a
  <1>5. CurInv' /\ IdleInv'
    <2>1. CurInv'
      BY DEF IInv, CurInv
    <2>2. \A d \in CPU : pc'[d] = pc[d]
      BY <1>1, <1>2
    <2>3. IdleInv'
      BY <2>2 DEF IInv, IdleInv
    <2> QED
      BY <2>1, <2>3
  <1>6. IrqInv'
    <2>1. \A d \in CPU : handler[d] # None => cur[d] # a /\ cur[d] # y
      <3>1. \A d \in CPU : handler[d] # None => cur[d] # a
        BY <1>1, <1>4, SMTT(30) DEF IInv, CurInv
      <3>2. \A d \in CPU : handler[d] # None => cur[d] # y
        BY SMTT(30) DEF IInv, IrqInv
      <3> QED
        BY <3>1, <3>2
    <2>2. \A d \in CPU : handler[d] # None => pc'[cur[d]] = pc[cur[d]]
      BY <1>2, <1>4, <2>1
    <2>3. \A j \in Irq : j # y /\ (pc'[j] = pc[j] \/ (j = a /\ pc'[j] = "push"))
      BY <1>1, <1>2, <1>4
    <2> QED
      BY <1>2, <2>2, <2>3, SMTT(30) DEF IInv, IrqInv
  <1>7. CtxInv'
    BY <1>1, <1>2, <1>4, SMTT(30) DEF IInv, CtxInv
  <1>8. RootInv'
    BY <1>2, <1>3, <1>4, SMTT(30) DEF IInv, RootInv
  <1>9. QueueInv'
    BY <1>2, <1>3, <1>4, SMTT(30) DEF IInv, QueueInv
  <1>10. HandInv'
    <2>1. \A b \in Caller : b # a => pc'[b] = "push" <=> pc[b] = "push"
      BY <1>2, <1>4 DEF Caller
    <2>2. \A b \in Caller : b # a /\ lw[b] # None => pc'[lw[b]] = pc[lw[b]]
      BY <1>2, <1>3, <1>4
    <2> QED
      BY <1>1, <1>2, <2>1, <2>2, SMTT(30) DEF IInv, HandInv
  <1>11. ApartInv'
    <2>1. \A b \in Caller : \A q \in Waiting : lw'[b] \notin Elems(queue'[q])
      BY <1>2, SMTT(30) DEF IInv, ApartInv
    <2>2. \A b \in Caller : \A s \in Sched : lw'[b] \notin Elems(root[s])
      BY <1>2, SMTT(30) DEF IInv, ApartInv
    <2>3. \A b, d \in Caller : lw'[b] = lw'[d] /\ lw'[b] # None => b = d
      BY <1>2, SMTT(30) DEF IInv, ApartInv
    <2> QED
      BY <2>1, <2>2, <2>3 DEF IInv, ApartInv
  <1> QED
    BY <1>5, <1>6, <1>7, <1>8, <1>9, <1>10, <1>11

\* sched_wake preserves the invariant: the waiter it pops has locked the run
\* queue, because it unlocked its wait queue only then.
LEMMA WakeIInv ==
  ASSUME IInv, NEW c \in CPU, sched_wake(c)
  PROVE  IInv'
  <1> DEFINE a == On(c)
             w == lq[a]
             y == Head(queue[w])
  <1>1. /\ a \in Caller /\ pc[a] = "locked" /\ queue[w] # <<>>
        /\ lw' = [lw EXCEPT ![a] = y] /\ queue' = [queue EXCEPT ![w] = Tail(@)]
        /\ pc' = [pc EXCEPT ![a] = "push"]
        /\ UNCHANGED <<root, rootLock, idleCpu, scheduler, cur, handler, qLock, lq, le, ls, ipi, ops, mainFreed>>
    BY DEF sched_wake
  <1>2. w \in Waiting /\ qLock[w] = a /\ queue \in [Waiting -> Seq(Ctx)] /\ a \in Ctx \cup CPU \cup Irq
    BY <1>1 DEF IInv, QLockInv, TypeOK, Caller
  <1>3. /\ y \in Ctx /\ Tail(queue[w]) \in Seq(Ctx)
        /\ Elems(queue[w]) = Elems(Tail(queue[w])) \cup {y}
        /\ NoDup(Tail(queue[w])) /\ y \notin Elems(Tail(queue[w]))
    <2>1. NoDup(queue[w])
      BY <1>2 DEF IInv, QueueInv
    <2> QED
      BY <1>1, <1>2, <2>1, PopElems
  <1>4. y \in Elems(queue[w]) /\ pc[y] \in {"enq", "switch", "resume"}
    BY <1>2, <1>3 DEF IInv, QueueInv
  <1>5. y # a /\ pc[y] # "enq"
    <2>1. y # a
      BY <1>1, <1>4
    <2>2. pc[y] = "enq" => lq[y] = w
      BY <1>2, <1>4 DEF IInv, QueueInv
    <2>3. lq[y] # None => qLock[lq[y]] = y
      BY <1>3 DEF IInv, QLockInv, Caller
    <2> QED
      BY <1>2, <2>1, <2>2, <2>3, SchedulerAssumption DEF Waiting
  <1>6. /\ queue'[w] = Tail(queue[w]) /\ \A q \in Waiting : q # w => queue'[q] = queue[q]
        /\ queue' \in [Waiting -> Seq(Ctx)]
    BY <1>1, <1>2, <1>3
  <1>7. \A q \in Waiting : /\ NoDup(queue'[q]) /\ y \notin Elems(queue'[q])
                           /\ Elems(queue'[q]) \subseteq Elems(queue[q])
    <2>1. \A q \in Waiting : q # w => y \notin Elems(queue[q])
      BY <1>2, <1>4 DEF IInv, ApartInv
    <2> QED
      BY <1>2, <1>3, <1>6, <2>1, SMTT(30) DEF IInv, QueueInv
  <1>8. /\ \A s \in Sched : y \notin Elems(root[s])
        /\ \A b \in Caller : lw[b] # y
        /\ pc[y] # "switch" => \A d \in CPU : cur[d] # y
    BY <1>2, <1>4, <1>5, SMTT(30) DEF IInv, ApartInv, QueueInv
  <1>9. /\ pc'[a] = "push" /\ pc'[y] = pc[y]
        /\ \A b \in Ctx \cup CPU \cup Irq : b # a => pc'[b] = pc[b]
        /\ lw' \in [Caller -> Ctx \cup {None}]
        /\ pc' \in [Ctx \cup CPU \cup Irq -> Pc]
    BY <1>1, <1>2, <1>3, <1>5 DEF IInv, TypeOK, Pc
  <1> HIDE DEF y
  <1>10. TypeOK'
    BY <1>1, <1>6, <1>9, SMTT(30) DEF IInv, TypeOK
  <1>11. CurInv' /\ IrqInv' /\ CtxInv' /\ IdleInv' /\ RootInv' /\ QueueInv' /\ HandInv' /\ ApartInv'
    BY <1>1, <1>3, <1>4, <1>5, <1>6, <1>7, <1>8, <1>9, TakeInHand
  <1>12. QLockInv' /\ SchedInv'
    BY <1>1, <1>9 DEF IInv, QLockInv, SchedInv, Caller
  <1>13. RootLockInv'
    BY <1>1, CallerLock DEF UnderRootLock
  <1> QED
    BY <1>10, <1>11, <1>12, <1>13 DEF IInv

\* sched_context_start preserves the invariant.
LEMMA StartIInv ==
  ASSUME IInv, NEW c \in CPU, NEW y \in Ctx, sched_context_start(c, y)
  PROVE  IInv'
  <1> DEFINE a == On(c)
  <1>0. PICK s \in Sched : scheduler' = [scheduler EXCEPT ![y] = s]
    BY DEF sched_context_start
  <1>1. /\ a \in Ctx /\ pc[a] = "run" /\ pc[y] = "new" /\ ops[a] < MaxOps
        /\ lw' = [lw EXCEPT ![a] = y]
        /\ pc' = [pc EXCEPT ![a] = "push", ![y] = "entry"]
        /\ ops' = [ops EXCEPT ![a] = @ + 1]
        /\ UNCHANGED <<root, rootLock, idleCpu, cur, handler, queue, qLock, lq, le, ls, ipi, mainFreed>>
    BY DEF sched_context_start
  <1>2. /\ a \in Caller /\ y # a /\ handler[c] = None /\ cur[c] = a
        /\ a \notin CPU \cup Irq /\ y \notin CPU \cup Irq
    BY <1>1, OnAgent, SchedulerAssumption DEF Caller, IInv
  <1>3. /\ \A r \in Sched : y \notin Elems(root[r])
        /\ \A q \in Waiting : y \notin Elems(queue[q])
        /\ \A b \in Caller : lw[b] # y
        /\ \A d \in CPU : cur[d] # y
    <2>1. \A r \in Sched : y \notin Elems(root[r])
      BY <1>1 DEF IInv, RootInv
    <2>2. \A q \in Waiting : y \notin Elems(queue[q])
      BY <1>1 DEF IInv, QueueInv
    <2>3. \A b \in Caller : lw[b] # y
      BY <1>1, SchedulerAssumption, SMTT(30) DEF IInv, HandInv
    <2>4. \A d \in CPU : cur[d] # y
      BY <1>1 DEF IInv, CtxInv
    <2> QED
      BY <2>1, <2>2, <2>3, <2>4
  <1> HIDE DEF a
  <1>4. /\ pc'[a] = "push" /\ pc'[y] = "entry"
        /\ \A b \in Ctx \cup CPU \cup Irq : b # a /\ b # y => pc'[b] = pc[b]
        /\ lw' \in [Caller -> Ctx \cup {None}]
        /\ pc' \in [Ctx \cup CPU \cup Irq -> Pc]
    BY <1>1, <1>2 DEF IInv, TypeOK, Pc
  <1>5. \A z \in Ctx : z # y => scheduler'[z] = scheduler[z]
    BY <1>0 DEF IInv, TypeOK
  <1>6. TypeOK'
    <2>1. ops' \in [Caller -> 0..MaxOps]
      <3>1. ops \in [Caller -> 0..MaxOps] /\ ops[a] \in 0..MaxOps
        BY <1>2 DEF IInv, TypeOK
      <3>2. ops[a] + 1 \in 0..MaxOps
        BY <1>1, <3>1, SchedulerAssumption, SMTT(30)
      <3> QED
        BY <1>1, <3>1, <3>2
    <2>2. scheduler' \in [Ctx -> Sched]
      BY <1>0 DEF IInv, TypeOK
    <2> QED
      BY <1>1, <1>4, <2>1, <2>2 DEF IInv, TypeOK
  <1>7. CurInv' /\ IrqInv' /\ CtxInv' /\ IdleInv' /\ RootInv' /\ QueueInv' /\ HandInv' /\ ApartInv'
    <2>1. /\ queue' \in [Waiting -> Seq(Ctx)]
          /\ \A q \in Waiting : /\ NoDup(queue'[q]) /\ y \notin Elems(queue'[q])
                                /\ Elems(queue'[q]) \subseteq Elems(queue[q])
      BY <1>1, <1>3 DEF IInv, TypeOK, QueueInv
    <2> QED
      BY <1>1, <1>2, <1>3, <1>4, <1>5, <2>1, TakeInHand DEF a
  <1>8. QLockInv'
    BY <1>1, <1>2, <1>4 DEF IInv, QLockInv, Caller
  <1>9. SchedInv'
    <2>1. /\ \A d \in CPU : cur'[d] \in Ctx => scheduler'[cur'[d]] = scheduler[cur[d]] /\ cur'[d] = cur[d]
          /\ \A x \in Ctx : pc'[x] \in {"switch", "resume"} =>
               pc[x] = pc'[x] /\ scheduler'[x] = scheduler[x] /\ ls'[x] = ls[x]
      BY <1>1, <1>3, <1>4, <1>5
    <2> QED
      BY <2>1 DEF IInv, SchedInv
  <1>10. RootLockInv'
    <2>1. \A d \in CPU : cur'[d] = cur[d] /\ (d # c => cur[d] # a) /\ cur[d] \in Ctx \cup CPU
      BY <1>1, <1>2, SMTT(30) DEF IInv, CurInv, TypeOK
    <2>2. \A d \in CPU : d # c => cur'[d] = cur[d] /\ pc'[cur'[d]] = pc[cur[d]]
      BY <1>3, <1>4, <2>1, SMTT(30)
    <2>3. pc'[cur'[c]] \notin UnderRootLock /\ pc[cur[c]] \notin UnderRootLock
      BY <1>1, <1>2, <1>4 DEF UnderRootLock
    <2> QED
      BY <1>1, <2>2, <2>3, LockStep
  <1> QED
    BY <1>6, <1>7, <1>8, <1>9, <1>10 DEF IInv

\* sched_context_push preserves the invariant: the context it pushes has left
\* its processor, because the processor holds the run queue lock until then.
LEMMA PushIInv ==
  ASSUME IInv, NEW c \in CPU, sched_context_push(c)
  PROVE  IInv'
  <1> DEFINE a == On(c)
             y == lw[a]
             s == scheduler[y]
  <1>1. /\ a \in Caller /\ pc[a] = "push" /\ rootLock[s] = None
        /\ root' = [root EXCEPT ![s] = Append(@, y)]
        /\ lw' = [lw EXCEPT ![a] = None]
        /\ UNCHANGED <<rootLock, scheduler, cur, handler, queue, qLock, lq, ls, ipi, ops, mainFreed>>
    BY DEF sched_context_push
  <1>2. PICK r \in {"run", "locked", "ipi"} :
          pc' = [pc EXCEPT ![a] = r] /\ (r = "locked" => lq[a] # None)
    BY DEF sched_context_push, Back
  <1>3. /\ y # None /\ y \in Ctx /\ s \in Sched
        /\ pc[y] \in {"switch", "resume", "entry"}
        /\ pc[y] # "switch" => \A d \in CPU : cur[d] # y
    BY <1>1, SMTT(30) DEF IInv, HandInv, TypeOK
  <1>4. pc[y] \in {"resume", "entry"} /\ \A d \in CPU : cur[d] # y
    <2> SUFFICES ASSUME pc[y] = "switch" PROVE FALSE
      BY <1>3
    <2>1. PICK d \in CPU : cur[d] = y
      BY <1>3 DEF IInv, CtxInv
    <2>2. rootLock[scheduler_get[d]] = d /\ scheduler_get[d] = s
      BY <1>3, <2>1, SMTT(30) DEF IInv, RootLockInv, SchedInv, UnderRootLock
    <2> QED
      BY <1>1, <2>2, SchedulerAssumption
  <1>5. /\ \A t \in Sched : y \notin Elems(root[t])
        /\ \A q \in Waiting : y \notin Elems(queue[q])
        /\ \A b \in Caller : b # a => lw[b] # y
    BY <1>1, <1>3 DEF IInv, ApartInv
  <1>6. /\ a \in Ctx => handler[c] = None /\ cur[c] = a
        /\ a \in Irq => handler[c] = a
        /\ a \in Ctx \cup Irq /\ a \notin CPU /\ a # y
        /\ ~ (a \in Ctx /\ a \in Irq)
    BY <1>1, <1>3, OnAgent, SchedulerAssumption DEF IInv, Caller
  <1>7. /\ \A t \in Sched : a \notin Elems(root[t])
        /\ \A q \in Waiting : a \notin Elems(queue[q])
        /\ \A b \in Caller : lw[b] # a
    <2>1. CASE a \in Ctx
      BY <1>1, <1>6, <2>1, RunningIsNowhere
    <2>2. CASE a \in Irq
      BY <1>6, <2>2, ElemsType, SchedulerAssumption, SMTT(30) DEF IInv, TypeOK
    <2> QED
      BY <1>6, <2>1, <2>2
  <1>8. /\ root'[s] \in Seq(Ctx) /\ Elems(root'[s]) = Elems(root[s]) \cup {y} /\ NoDup(root'[s])
        /\ \A t \in Sched : t # s => root'[t] = root[t]
        /\ root' \in [Sched -> Seq(Ctx)]
    <2>1. root \in [Sched -> Seq(Ctx)] /\ NoDup(root[s])
      BY <1>3 DEF IInv, TypeOK, RootInv
    <2>2. root'[s] = Append(root[s], y) /\ \A t \in Sched : t # s => root'[t] = root[t]
      BY <1>1, <1>3, <2>1
    <2>3. /\ Append(root[s], y) \in Seq(Ctx)
          /\ Elems(Append(root[s], y)) = Elems(root[s]) \cup {y}
          /\ NoDup(Append(root[s], y))
      <3>1. root[s] \in Seq(Ctx) /\ y \in Ctx /\ y \notin Elems(root[s])
        BY <1>3, <1>5, <2>1
      <3> QED
        BY <2>1, <3>1, AppendElems
    <2>4. root' \in [Sched -> Seq(Ctx)]
      BY <1>1, <1>3, <2>1, <2>3
    <2> QED
      BY <2>2, <2>3, <2>4
  <1>9. /\ \A q \in Waiting : Elems(queue[q]) \subseteq Ctx
        /\ \A t \in Sched : Elems(root[t]) \subseteq Ctx
        /\ \A b \in Caller : lw[b] # None => lw[b] \in Ctx
        /\ \A d \in CPU : cur[d] \in Ctx \cup CPU
        /\ CPU \cap Ctx = {} /\ CPU \cap Irq = {} /\ Ctx \cap Irq = {}
    BY ElemsType, SchedulerAssumption DEF IInv, TypeOK
  <1>10. idleCpu' \in [Sched -> Seq(CPU)] /\ le' \in [Caller -> CPU \cup {None}]
    <2>1. idleCpu \in [Sched -> Seq(CPU)] /\ le \in [Caller -> CPU \cup {None}]
      BY DEF IInv, TypeOK
    <2>2. CASE idleCpu[s] # <<>>
      <3>1. Head(idleCpu[s]) \in CPU /\ Tail(idleCpu[s]) \in Seq(CPU)
        <4>1. idleCpu[s] \in Seq(CPU)
          BY <1>3, <2>1
        <4> HIDE DEF s
        <4> QED
          BY <2>2, <4>1, PopElems
      <3>2. /\ le' = [le EXCEPT ![a] = Head(idleCpu[s])]
            /\ idleCpu' = [idleCpu EXCEPT ![s] = Tail(@)]
        BY <2>2 DEF sched_context_push
      <3> HIDE DEF a, y, s
      <3> QED
        BY <1>1, <1>3, <2>1, <3>1, <3>2
    <2>3. CASE idleCpu[s] = <<>>
      BY <2>1, <2>3 DEF sched_context_push
    <2> QED
      BY <2>2, <2>3
  <1>11. lw[a] = y /\ scheduler[y] = s
    BY SMTT(30)
  <1>12. RootLockInv'
    BY <1>1, <1>2, CallerLock DEF UnderRootLock
  <1> HIDE DEF a, y, s
  <1>13. /\ pc'[a] = r /\ \A b \in Ctx \cup CPU \cup Irq : b # a => pc'[b] = pc[b]
         /\ pc' \in [Ctx \cup CPU \cup Irq -> Pc]
         /\ lw'[a] = None /\ \A b \in Caller : b # a => lw'[b] = lw[b]
         /\ lw' \in [Caller -> Ctx \cup {None}]
    BY <1>1, <1>2, <1>6 DEF IInv, TypeOK, Pc
  <1>14. TypeOK'
    BY <1>1, <1>8, <1>10, <1>13 DEF IInv, TypeOK
  <1>15. CurInv' /\ CtxInv'
    <2>1. CurInv'
      BY <1>1 DEF IInv, CurInv
    <2>2. CtxInv'
      BY <1>1, <1>2, <1>6, <1>13, SMTT(30) DEF IInv, CtxInv
    <2> QED
      BY <2>1, <2>2
  <1>16. IdleInv'
    BY <1>1, <1>6, <1>13 DEF IInv, IdleInv
  <1>17. IrqInv'
    <2>1. \A d \in CPU : handler[d] # None => cur[d] # a
      BY <1>6, <1>9 DEF IInv, CurInv
    <2>2. \A d \in CPU : handler[d] # None => pc'[cur[d]] = pc[cur[d]]
      BY <1>9, <1>13, <2>1
    <2>3. \A j \in Irq : pc'[j] = pc[j] \/ (j = a /\ pc'[j] = r)
      BY <1>13
    <2> QED
      BY <1>1, <2>2, <2>3, SMTT(30) DEF IInv, IrqInv
  <1>18. RootInv'
    <2> SUFFICES ASSUME NEW t \in Sched
                 PROVE  /\ NoDup(root'[t])
                        /\ \A z \in Elems(root'[t]) :
                             /\ pc'[z] \in {"resume", "entry"} /\ scheduler[z] = t
                             /\ \A d \in CPU : cur[d] # z
      BY <1>1 DEF RootInv
    <2>1. NoDup(root'[t])
      BY <1>8 DEF IInv, RootInv
    <2>2. \A z \in Elems(root'[t]) : z \in Elems(root[t]) \/ (z = y /\ t = s)
      BY <1>8
    <2> QED
      BY <1>3, <1>4, <1>6, <1>7, <1>9, <1>11, <1>13, <2>1, <2>2, SMTT(30) DEF IInv, RootInv
  <1>19. QueueInv'
    <2>1. \A q \in Waiting : \A x \in Elems(queue[q]) : pc'[x] = pc[x]
      BY <1>7, <1>9, <1>13
    <2> QED
      BY <1>1, <2>1 DEF IInv, QueueInv
  <1>20. HandInv'
    <2>1. \A b \in Caller : b # a => pc'[b] = pc[b]
      BY <1>13 DEF Caller
    <2>2. \A b \in Caller : lw[b] # None => pc'[lw[b]] = pc[lw[b]]
      BY <1>7, <1>9, <1>13
    <2>3. HandInv
      BY DEF IInv
    <2>4. pc'[a] # "push" /\ lw'[a] = None
      BY <1>2, <1>13
    <2> QED
      BY <1>1, <1>13, <2>1, <2>2, <2>3, <2>4 DEF HandInv
  <1>21. ApartInv'
    <2>1. \A t \in Sched : \A z \in Elems(root'[t]) : z \in Elems(root[t]) \/ z = y
      BY <1>8
    <2>2. \A t \in Sched, q \in Waiting : \A z \in Elems(queue[q]) : z \notin Elems(root'[t])
      BY <1>5, <2>1, SMTT(30) DEF IInv, ApartInv
    <2>3. \A b \in Caller, t \in Sched : lw'[b] \notin Elems(root'[t])
      <3>1. None \notin Ctx
        BY SchedulerAssumption
      <3>2. \A t \in Sched : None \notin Elems(root'[t])
        BY <1>3, <1>9, <2>1, <3>1
      <3> QED
        BY <1>5, <1>13, <2>1, <3>2 DEF IInv, ApartInv
    <2>4. \A b \in Caller, q \in Waiting : lw'[b] \notin Elems(queue[q])
      BY <1>9, <1>13, SchedulerAssumption DEF IInv, ApartInv
    <2>5. \A b, d \in Caller : lw'[b] = lw'[d] /\ lw'[b] # None => b = d
      BY <1>13 DEF IInv, ApartInv
    <2> QED
      BY <1>1, <2>2, <2>3, <2>4, <2>5 DEF IInv, ApartInv
  <1>22. QLockInv' /\ SchedInv'
    BY <1>1, <1>2, <1>13 DEF IInv, QLockInv, SchedInv, Caller
  <1> QED
    BY <1>12, <1>14, <1>15, <1>16, <1>17, <1>18, <1>19, <1>20, <1>21, <1>22, SMTT(30) DEF IInv

-----------------------------------------------------------------------------
(* Steps that neither suspend nor resume a context.                        *)

\* sched_queue_wrlock preserves the invariant.
LEMMA WrlockIInv ==
  ASSUME IInv, NEW c \in CPU, NEW q \in Waiting, sched_queue_wrlock(c, q)
  PROVE  IInv'
  <1> DEFINE a == On(c)
  <1>1. /\ a \in Caller /\ pc[a] = "run" /\ qLock[q] = None
        /\ qLock' = [qLock EXCEPT ![q] = a] /\ lq' = [lq EXCEPT ![a] = q]
        /\ pc' = [pc EXCEPT ![a] = "locked"]
        /\ \/ ops[a] < MaxOps /\ ops' = [ops EXCEPT ![a] = @ + 1]
           \/ UNCHANGED ops
        /\ Steady /\ UNCHANGED <<rootLock, idleCpu, handler, le, ls, ipi, mainFreed>>
    BY DEF sched_queue_wrlock, Steady
  <1>2. /\ a \in Ctx => handler[c] = None /\ cur[c] = a
        /\ a \in Irq => handler[c] = a
        /\ a \in Ctx \cup CPU \cup Irq
    BY OnAgent DEF IInv
  <1> HIDE DEF a
  <1>3. TypeOK'
    <2>1. ops' \in [Caller -> 0..MaxOps]
      BY <1>1, SchedulerAssumption, SMTT(30) DEF IInv, TypeOK
    <2> QED
      BY <1>1, <1>2, <2>1 DEF IInv, TypeOK, Pc, Steady
  <1>4. CurInv' /\ IrqInv' /\ CtxInv' /\ IdleInv' /\ RootInv' /\ QueueInv' /\ HandInv' /\ ApartInv'
    <2>0. \A b \in Caller : b # a => lq'[b] = lq[b]
      BY <1>1 DEF IInv, TypeOK
    <2>1. CASE a \in Ctx
      BY <1>1, <1>2, <2>0, <2>1, CtxStep
    <2>2. CASE a \in Irq
      BY <1>1, <1>2, <2>0, <2>2, IrqStep
    <2> QED
      BY <1>1, <2>1, <2>2 DEF Caller
  <1>5. QLockInv'
    <2>1. \A b \in Caller : lq[b] # q
      BY <1>1, SchedulerAssumption, SMTT(30) DEF IInv, QLockInv, Caller, Waiting
    <2> QED
      <3>1. \A b \in Caller : b # a => pc'[b] = pc[b] /\ lq'[b] = lq[b]
        BY <1>1 DEF IInv, TypeOK, Caller
      <3>2. \A b \in Caller : b # a /\ lq[b] # None => qLock'[lq[b]] = qLock[lq[b]]
        BY <1>1, <2>1 DEF IInv, TypeOK
      <3>3. lq'[a] = q /\ qLock'[q] = a /\ q # None
        BY <1>1, SchedulerAssumption, SMTT(30) DEF IInv, TypeOK, Waiting
      <3> QED
        BY <3>1, <3>2, <3>3 DEF IInv, QLockInv
  <1>6. SchedInv'
    BY <1>1 DEF IInv, SchedInv, TypeOK, Steady
  <1>7. RootLockInv'
    BY <1>1, <1>2, CallerLock DEF Steady, UnderRootLock, a
  <1> QED
    BY <1>3, <1>4, <1>5, <1>6, <1>7 DEF IInv

\* sched_queue_unlock preserves the invariant.
LEMMA UnlockIInv ==
  ASSUME IInv, NEW c \in CPU, sched_queue_unlock(c)
  PROVE  IInv'
  <1> DEFINE a == On(c)
             r == IF a \in Irq THEN "iret" ELSE "run"
  <1>1. /\ a \in Caller /\ pc[a] = "locked"
        /\ qLock' = [qLock EXCEPT ![lq[a]] = None] /\ lq' = [lq EXCEPT ![a] = None]
        /\ pc' = [pc EXCEPT ![a] = r]
        /\ Steady /\ UNCHANGED <<rootLock, idleCpu, handler, le, ls, ipi, ops, mainFreed>>
    BY DEF sched_queue_unlock, Steady
  <1>2. /\ a \in Ctx => handler[c] = None /\ cur[c] = a
        /\ a \in Irq => handler[c] = a
        /\ a \in Ctx \cup CPU \cup Irq
        /\ r \in {"run", "iret"} /\ (a \in Ctx => r = "run")
    BY OnAgent, SchedulerAssumption DEF IInv
  <1> HIDE DEF a, r
  <1>3. TypeOK'
    BY <1>1, <1>2 DEF IInv, TypeOK, Pc, Steady
  <1>4. CurInv' /\ IrqInv' /\ CtxInv' /\ IdleInv' /\ RootInv' /\ QueueInv' /\ HandInv' /\ ApartInv'
    <2>0. \A b \in Caller : b # a => lq'[b] = lq[b]
      BY <1>1 DEF IInv, TypeOK
    <2>1. CASE a \in Ctx
      BY <1>1, <1>2, <2>0, <2>1, CtxStep
    <2>2. CASE a \in Irq
      BY <1>1, <1>2, <2>0, <2>2, IrqStep
    <2> QED
      BY <1>1, <2>1, <2>2 DEF Caller
  <1>5. QLockInv'
    <2>1. \A b \in Caller : lq[b] = lq[a] /\ lq[a] # None => b = a
      BY <1>1 DEF IInv, QLockInv
    <2>2. lq[a] \in Waiting
      BY <1>1 DEF IInv, QLockInv, TypeOK
    <2> QED
      BY <1>1, <1>2, <2>1, <2>2, SchedulerAssumption DEF IInv, QLockInv, TypeOK, Caller
  <1>6. SchedInv'
    BY <1>1, <1>2 DEF IInv, SchedInv, TypeOK, Steady
  <1>7. RootLockInv'
    BY <1>1, <1>2, CallerLock DEF Steady, UnderRootLock, a
  <1> QED
    BY <1>3, <1>4, <1>5, <1>6, <1>7 DEF IInv

\* ipi_post preserves the invariant.
LEMMA IpiPostIInv ==
  ASSUME IInv, NEW c \in CPU, ipi_post(c)
  PROVE  IInv'
  <1> DEFINE a == On(c)
             r == Back(a)
  <1>1. /\ a \in Caller /\ pc[a] = "ipi"
        /\ ipi' = [ipi EXCEPT ![le[a]] = TRUE] /\ le' = [le EXCEPT ![a] = None]
        /\ pc' = [pc EXCEPT ![a] = r]
        /\ Steady /\ UNCHANGED <<rootLock, idleCpu, handler, qLock, lq, ls, ops, mainFreed>>
    BY DEF ipi_post, Steady
  <1>2. /\ a \in Ctx => handler[c] = None /\ cur[c] = a
        /\ a \in Irq => handler[c] = a
        /\ a \in Ctx \cup CPU \cup Irq
        /\ r \in {"run", "locked"} /\ (r = "locked" => lq[a] # None)
    BY OnAgent DEF IInv, Back
  <1> HIDE DEF a, r
  <1>3. TypeOK'
    BY <1>1, <1>2 DEF IInv, TypeOK, Pc, Steady
  <1>4. CurInv' /\ IrqInv' /\ CtxInv' /\ IdleInv' /\ RootInv' /\ QueueInv' /\ HandInv' /\ ApartInv'
    <2>1. CASE a \in Ctx
      BY <1>1, <1>2, <2>1, CtxStep
    <2>2. CASE a \in Irq
      BY <1>1, <1>2, <2>2, IrqStep
    <2> QED
      BY <1>1, <2>1, <2>2 DEF Caller
  <1>5. QLockInv'
    BY <1>1, <1>2 DEF IInv, QLockInv, TypeOK, Caller
  <1>6. SchedInv'
    BY <1>1, <1>2 DEF IInv, SchedInv, TypeOK, Steady
  <1>7. RootLockInv'
    BY <1>1, <1>2, CallerLock DEF Steady, UnderRootLock, a
  <1> QED
    BY <1>3, <1>4, <1>5, <1>6, <1>7 DEF IInv
-----------------------------------------------------------------------------
(* The idle loop and the end of a switch.                                  *)

\* TakeIpi preserves the invariant.
LEMMA TakeIpiIInv ==
  ASSUME IInv, NEW c \in CPU, TakeIpi(c)
  PROVE  IInv'
  <1> DEFINE x == On(c)
             r == IF x = c THEN "wake" ELSE "run"
  <1>0. \/ x = c /\ pc[x] \in {"sleep", "wake"} /\ r = "wake"
        \/ x \in Ctx /\ pc[x] = "run" /\ r = "run"
    <2>1. c \notin Ctx
      BY SchedulerAssumption
    <2> QED
      BY <2>1 DEF TakeIpi
  <1>1. /\ ipi' = [ipi EXCEPT ![c] = FALSE] /\ pc' = [pc EXCEPT ![x] = r]
        /\ Steady /\ UNCHANGED <<rootLock, idleCpu, handler, qLock, lq, le, ls, ops, mainFreed>>
    BY DEF TakeIpi, Steady
  <1>2. handler[c] = None /\ cur[c] = x /\ x \in Ctx \cup CPU
    BY <1>0, OnAgent DEF IInv
  <1> HIDE DEF x, r
  <1>3. TypeOK'
    BY <1>0, <1>1, <1>2 DEF IInv, TypeOK, Pc, Steady
  <1>4. CurInv' /\ IrqInv' /\ CtxInv' /\ IdleInv' /\ RootInv' /\ QueueInv' /\ HandInv' /\ ApartInv'
    <2>1. CASE x \in Ctx
      BY <1>0, <1>1, <1>2, <2>1, CtxStep, SchedulerAssumption
    <2>2. CASE x = c
      BY <1>0, <1>1, <1>2, <2>2, IdleStep, SchedulerAssumption
    <2> QED
      BY <1>0, <1>1, <2>1, <2>2
  <1>5. QLockInv' /\ SchedInv'
    BY <1>0, <1>1, <1>2, SchedulerAssumption DEF IInv, QLockInv, SchedInv, TypeOK, Caller, Steady
  <1>7. RootLockInv'
    <2>1. \A d \in CPU : d # c => cur[d] # x
      BY <1>2 DEF IInv, CurInv
    <2>2. pc'[cur'[c]] \notin UnderRootLock /\ pc[cur[c]] \notin UnderRootLock
      BY <1>0, <1>1, <1>2 DEF IInv, TypeOK, UnderRootLock, Steady
    <2>3. \A d \in CPU : d # c => cur'[d] = cur[d] /\ pc'[cur'[d]] = pc[cur[d]]
      BY <1>0, <1>1, <1>2, <2>1 DEF IInv, TypeOK, Steady
    <2> QED
      BY <1>0, <1>1, <2>2, <2>3, LockStep
  <1> QED
    BY <1>3, <1>4, <1>5, <1>7 DEF IInv

\* A step of the idle loop that stays in it preserves the invariant.
LEMMA IdleIInv ==
  ASSUME IInv, NEW c \in CPU, On(c) = c, NEW r \in {"poll", "sleep", "wake"},
         pc' = [pc EXCEPT ![c] = r], Steady,
         UNCHANGED <<handler, qLock, lq, le, ls, ipi, ops>>,
         mainFreed' \in BOOLEAN, idleCpu' \in [Sched -> Seq(CPU)],
         \/ rootLock' = rootLock /\ (r = "poll" <=> pc[c] \in UnderRootLock)
         \/ /\ rootLock[scheduler_get[c]] = None /\ r = "poll"
            /\ rootLock' = [rootLock EXCEPT ![scheduler_get[c]] = c]
         \/ /\ pc[c] \in UnderRootLock /\ r # "poll"
            /\ rootLock' = [rootLock EXCEPT ![scheduler_get[c]] = None]
  PROVE  IInv'
  <1>1. handler[c] = None /\ cur[c] = c /\ scheduler_get[c] \in Sched /\ c \notin Caller
    BY OnAgent, SchedulerAssumption, SMTT(30) DEF IInv, Caller
  <1>2. TypeOK'
    <2>1. rootLock' \in [Sched -> CPU \cup {None}]
      BY <1>1 DEF IInv, TypeOK
    <2>2. pc' \in [Ctx \cup CPU \cup Irq -> Pc]
      BY <1>1 DEF IInv, TypeOK, Pc
    <2>3. ls' \in [Ctx \cup CPU -> Sched \cup {None}]
      BY <1>1 DEF IInv, TypeOK
    <2> QED
      BY <2>1, <2>2, <2>3 DEF IInv, TypeOK, Steady
  <1>3. CurInv' /\ IrqInv' /\ CtxInv' /\ IdleInv' /\ RootInv' /\ QueueInv' /\ HandInv' /\ ApartInv'
    BY <1>1, IdleStep
  <1>4. QLockInv' /\ SchedInv'
    BY <1>1 DEF IInv, QLockInv, SchedInv, TypeOK, Caller, Steady
  <1>5. RootLockInv'
    <2>1. \A d \in CPU : d # c => cur[d] # c
      BY <1>1 DEF IInv, CurInv
    <2>2. \A d \in CPU : d # c => cur'[d] = cur[d] /\ pc'[cur'[d]] = pc[cur[d]]
      BY <2>1 DEF IInv, TypeOK, Steady
    <2>3. cur'[c] = c /\ pc'[c] = r /\ (r \in UnderRootLock <=> r = "poll")
      BY <1>1 DEF IInv, TypeOK, UnderRootLock, Steady
    <2>4. pc[c] \in UnderRootLock => rootLock[scheduler_get[c]] = c
      BY <1>1 DEF IInv, RootLockInv
    <2> QED
      BY <1>1, <2>2, <2>3, <2>4, LockStep, SMTT(30)
  <1> QED
    BY <1>2, <1>3, <1>4, <1>5 DEF IInv

\* The first step of the idle loop.
LEMMA IdleFirstIInv ==
  ASSUME IInv, NEW c \in CPU, IdleFirst(c)
  PROVE  IInv'
  <1>1. pc[c] \in UnderRootLock /\ idleCpu' \in [Sched -> Seq(CPU)] /\ mainFreed' \in BOOLEAN
    BY SchedulerAssumption DEF IdleFirst, IInv, TypeOK, UnderRootLock
  <1> QED
    BY <1>1, IdleIInv DEF IdleFirst, Steady

\* Declaring the processor idle.
LEMMA IdleDeclareIInv ==
  ASSUME IInv, NEW c \in CPU, IdleDeclare(c)
  PROVE  IInv'
  <1> DEFINE r == IF IDLE = "poll" THEN "wake" ELSE "sleep"
  <1>1. pc[c] \in UnderRootLock /\ mainFreed' \in BOOLEAN
    BY DEF IdleDeclare, IInv, TypeOK, UnderRootLock
  <1>2. idleCpu' \in [Sched -> Seq(CPU)]
    <2>1. scheduler_get[c] \in Sched /\ idleCpu \in [Sched -> Seq(CPU)]
      BY SchedulerAssumption DEF IInv, TypeOK
    <2>2. <<c>> \o idleCpu[scheduler_get[c]] \in Seq(CPU)
      BY <2>1, SMTT(30)
    <2> QED
      BY <2>1, <2>2 DEF IdleDeclare
  <1>3. pc' = [pc EXCEPT ![c] = r] /\ r \in {"wake", "sleep"}
    BY DEF IdleDeclare
  <1> HIDE DEF r
  <1> QED
    BY <1>1, <1>2, <1>3, IdleIInv DEF IdleDeclare, Steady

\* Waking up.
LEMMA IdleLockIInv ==
  ASSUME IInv, NEW c \in CPU, IdleLock(c)
  PROVE  IInv'
  <1>1. pc[c] \notin UnderRootLock /\ idleCpu' \in [Sched -> Seq(CPU)] /\ mainFreed' \in BOOLEAN
    BY DEF IdleLock, IInv, TypeOK, UnderRootLock
  <1> QED
    BY <1>1, IdleIInv DEF IdleLock, Steady

\* A context that is back on a processor, or new on it, releases the run
\* queue lock.
LEMMA BackIInv ==
  ASSUME IInv, NEW c \in CPU, On(c) \in Ctx, pc[On(c)] \in {"resume", "entry"},
         pc' = [pc EXCEPT ![On(c)] = "run"], Steady,
         rootLock' = [rootLock EXCEPT ![scheduler_get[c]] = None],
         \/ UNCHANGED ls
         \/ ls' = [ls EXCEPT ![On(c)] = None],
         UNCHANGED <<idleCpu, handler, qLock, lq, le, ipi, ops, mainFreed>>
  PROVE  IInv'
  <1> DEFINE x == On(c)
  <1>1. /\ handler[c] = None /\ cur[c] = x /\ scheduler_get[c] \in Sched
        /\ x \in Ctx /\ pc[x] \in {"resume", "entry"} /\ pc' = [pc EXCEPT ![x] = "run"]
        /\ UNCHANGED ls \/ ls' = [ls EXCEPT ![x] = None]
    BY OnAgent, SchedulerAssumption DEF IInv
  <1> HIDE DEF x
  <1>2. TypeOK'
    <2>1. rootLock' \in [Sched -> CPU \cup {None}]
      BY <1>1 DEF IInv, TypeOK
    <2>2. pc' \in [Ctx \cup CPU \cup Irq -> Pc]
      BY <1>1, SMTT(30) DEF IInv, TypeOK, Pc
    <2>3. ls' \in [Ctx \cup CPU -> Sched \cup {None}]
      BY <1>1 DEF IInv, TypeOK
    <2> QED
      BY <2>1, <2>2, <2>3 DEF IInv, TypeOK, Steady
  <1>3. CurInv' /\ IrqInv' /\ CtxInv' /\ IdleInv' /\ RootInv' /\ QueueInv' /\ HandInv' /\ ApartInv'
    BY <1>1, CtxStep
  <1>4. QLockInv' /\ SchedInv'
    BY <1>1 DEF IInv, QLockInv, SchedInv, TypeOK, Caller, Steady
  <1>5. RootLockInv'
    <2>1. \A d \in CPU : d # c => cur[d] # x
      BY <1>1 DEF IInv, CurInv
    <2>2. \A d \in CPU : d # c => cur'[d] = cur[d] /\ pc'[cur'[d]] = pc[cur[d]]
      BY <1>1, <2>1 DEF IInv, TypeOK, Steady
    <2>3. pc'[cur'[c]] \notin UnderRootLock
      BY <1>1 DEF IInv, TypeOK, UnderRootLock, Steady
    <2>4. rootLock[scheduler_get[c]] = c
      BY <1>1 DEF IInv, RootLockInv, UnderRootLock
    <2> QED
      BY <2>2, <2>3, <2>4, LockStep
  <1> QED
    BY <1>2, <1>3, <1>4, <1>5 DEF IInv

\* Resume preserves the invariant.
LEMMA ResumeIInv ==
  ASSUME IInv, NEW c \in CPU, Resume(c)
  PROVE  IInv'
  <1>1. On(c) \in Ctx
    BY DEF Resume, IInv, IdleInv
  <1>2. ls[On(c)] = scheduler_get[c]
    BY <1>1, OnAgent DEF Resume, IInv, SchedInv
  <1> QED
    BY <1>1, <1>2, BackIInv, SchedulerAssumption DEF Resume, Steady

\* sched_unlock preserves the invariant.
LEMMA SchedUnlockIInv ==
  ASSUME IInv, NEW c \in CPU, sched_unlock(c)
  PROVE  IInv'
  BY BackIInv DEF sched_unlock, Steady
-----------------------------------------------------------------------------
(* Device interrupts.                                                      *)

\* IrqEnter preserves the invariant.
LEMMA IrqEnterIInv ==
  ASSUME IInv, NEW c \in CPU, NEW i \in Irq, IrqEnter(c, i)
  PROVE  IInv'
  <1>1. /\ handler[c] = None /\ pc[i] = "off" /\ ops[i] < MaxOps
        /\ pc[cur[c]] \in {"run", "sleep"}
        /\ handler' = [handler EXCEPT ![c] = i]
        /\ pc' = [pc EXCEPT ![i] = "run"]
        /\ ops' = [ops EXCEPT ![i] = @ + 1]
        /\ Steady /\ UNCHANGED <<rootLock, idleCpu, qLock, lq, le, ls, ipi, mainFreed>>
    BY DEF IrqEnter, Steady
  <1>2. /\ pc \in [Ctx \cup CPU \cup Irq -> Pc]
        /\ \A b \in Ctx \cup CPU \cup Irq : b # i => pc'[b] = pc[b]
        /\ pc'[i] = "run" /\ i \notin CPU /\ i \notin Ctx /\ i # None /\ i \in Caller
        /\ \A d \in CPU : cur[d] \in Ctx \cup CPU
        /\ \A q \in Waiting : Elems(queue[q]) \subseteq Ctx
        /\ \A s \in Sched : Elems(root[s]) \subseteq Ctx
        /\ \A a \in Caller : lw[a] # None => lw[a] \in Ctx
    BY <1>1, ElemsType, SchedulerAssumption DEF IInv, TypeOK, Caller
  <1>3. TypeOK'
    <2>1. ops' \in [Caller -> 0..MaxOps]
      <3>1. ops \in [Caller -> 0..MaxOps] /\ ops[i] \in 0..MaxOps
        BY <1>2 DEF IInv, TypeOK
      <3>2. ops[i] + 1 \in 0..MaxOps
        BY <1>1, <3>1, SchedulerAssumption, SMTT(30)
      <3> QED
        BY <1>1, <3>1, <3>2
    <2>2. handler' \in [CPU -> Irq \cup {None}] /\ pc' \in [Ctx \cup CPU \cup Irq -> Pc]
      BY <1>1 DEF IInv, TypeOK, Pc
    <2> QED
      BY <1>1, <2>1, <2>2 DEF IInv, TypeOK, Steady
  <1>4. CurInv' /\ ApartInv'
    BY <1>1 DEF IInv, CurInv, ApartInv, Steady
  <1>5. IrqInv'
    <2>1. \A d \in CPU : handler[d] # i
      BY <1>1 DEF IInv, IrqInv
    <2>2. \A d \in CPU : handler'[d] = IF d = c THEN i ELSE handler[d]
      BY <1>1 DEF IInv, TypeOK
    <2>3. \A j \in Irq : /\ pc'[j] \in {"off", "run", "locked", "push", "ipi", "iret"}
                         /\ pc'[j] = "off" <=> \A d \in CPU : handler'[d] # j
      <3> TAKE j \in Irq
      <3>1. CASE j = i
        BY <1>2, <2>2, <3>1
      <3>2. CASE j # i
        <4>1. pc'[j] = pc[j] /\ handler[c] # j /\ handler'[c] # j
          BY <1>1, <1>2, <2>2, <3>2, SchedulerAssumption, SMTT(30)
        <4> QED
          BY <4>1, <2>2, SMTT(30) DEF IInv, IrqInv
      <3> QED
        BY <3>1, <3>2
    <2>4. \A d \in CPU : handler'[d] # None => pc'[cur'[d]] \in {"run", "sleep"}
      BY <1>1, <1>2, <2>2, SMTT(30) DEF IInv, IrqInv, Steady
    <2>5. \A d, e \in CPU : handler'[d] = handler'[e] /\ handler'[d] # None => d = e
      BY <2>1, <2>2, SMTT(30) DEF IInv, IrqInv
    <2> QED
      BY <2>3, <2>4, <2>5 DEF IrqInv
  <1>6. CtxInv' /\ IdleInv'
    BY <1>1, <1>2, SMTT(30) DEF IInv, CtxInv, IdleInv, Steady
  <1>7. RootInv' /\ QueueInv'
    BY <1>1, <1>2, SMTT(30) DEF IInv, RootInv, QueueInv, Steady
  <1>8. HandInv'
    BY <1>1, <1>2, SMTT(30) DEF IInv, HandInv, Steady, Caller
  <1>9. QLockInv' /\ SchedInv' /\ RootLockInv'
    BY <1>1, <1>2, SMTT(30) DEF IInv, QLockInv, SchedInv, RootLockInv, Steady, Caller
  <1> QED
    BY <1>3, <1>4, <1>5, <1>6, <1>7, <1>8, <1>9 DEF IInv

\* IrqReturn preserves the invariant.
LEMMA IrqReturnIInv ==
  ASSUME IInv, NEW c \in CPU, IrqReturn(c)
  PROVE  IInv'
  <1> DEFINE i == On(c)
  <1>1. /\ i \in Irq /\ pc[i] \in {"run", "iret"}
        /\ handler' = [handler EXCEPT ![c] = None]
        /\ pc' = [pc EXCEPT ![i] = "off", ![cur[c]] = IF cur[c] = c THEN "wake" ELSE @]
        /\ Steady /\ UNCHANGED <<rootLock, idleCpu, qLock, lq, le, ls, ipi, ops, mainFreed>>
    BY DEF IrqReturn, Steady
  <1>2. handler[c] = i /\ i \notin CPU \cup Ctx /\ i # None
    BY <1>1, OnAgent, SchedulerAssumption DEF IInv
  <1> HIDE DEF i
  <1>3. /\ pc \in [Ctx \cup CPU \cup Irq -> Pc]
        /\ \A d \in CPU : cur[d] \in Ctx \cup CPU /\ (cur[d] \in CPU => cur[d] = d)
        /\ \A q \in Waiting : Elems(queue[q]) \subseteq Ctx
        /\ \A s \in Sched : Elems(root[s]) \subseteq Ctx
        /\ \A a \in Caller : lw[a] # None => lw[a] \in Ctx
        /\ CPU \cap Ctx = {} /\ CPU \cap Irq = {} /\ Ctx \cap Irq = {}
    BY <1>1, ElemsType, SchedulerAssumption DEF IInv, TypeOK
  <1>4. /\ \A b \in Ctx \cup CPU \cup Irq : b # i /\ (b # c \/ cur[c] # c) => pc'[b] = pc[b]
        /\ pc'[i] = "off" /\ (cur[c] = c => pc'[c] = "wake" /\ pc[c] \in {"run", "sleep"})
        /\ pc' \in [Ctx \cup CPU \cup Irq -> Pc]
    <2>1. pc[cur[c]] \in {"run", "sleep"}
      BY <1>2 DEF IInv, IrqInv
    <2> QED
      BY <1>1, <1>2, <1>3, <2>1 DEF Pc
  <1>5. TypeOK'
    <2>1. handler' \in [CPU -> Irq \cup {None}]
      BY <1>1 DEF IInv, TypeOK
    <2> QED
      BY <1>1, <1>4, <2>1 DEF IInv, TypeOK, Steady
  <1>6. CurInv' /\ ApartInv'
    BY <1>1 DEF IInv, CurInv, ApartInv, Steady
  <1>7. IrqInv'
    <2>1. \A d \in CPU : d # c => handler[d] # i /\ handler'[d] = handler[d]
      BY <1>1, <1>2 DEF IInv, IrqInv, TypeOK
    <2>2. handler'[c] = None
      BY <1>1 DEF IInv, TypeOK
    <2>3. \A d \in CPU : d # c => cur[d] # c
      BY <1>3, SMTT(30)
    <2>4. \A j \in Irq : /\ pc'[j] \in {"off", "run", "locked", "push", "ipi", "iret"}
                         /\ pc'[j] = "off" <=> \A d \in CPU : handler'[d] # j
      <3> TAKE j \in Irq
      <3>1. CASE j = i
        BY <1>2, <1>4, <2>1, <2>2, <3>1
      <3>2. CASE j # i
        <4>1. pc'[j] = pc[j] /\ handler[c] # j /\ j # None
          BY <1>2, <1>3, <1>4, <3>2, SchedulerAssumption, SMTT(30)
        <4> QED
          BY <4>1, <2>1, <2>2, SMTT(30) DEF IInv, IrqInv
      <3> QED
        BY <3>1, <3>2
    <2>5. \A d \in CPU : handler'[d] # None => pc'[cur'[d]] \in {"run", "sleep"}
      BY <1>1, <1>2, <1>3, <1>4, <2>1, <2>2, <2>3, SMTT(30) DEF IInv, IrqInv, Steady
    <2>6. \A d, e \in CPU : handler'[d] = handler'[e] /\ handler'[d] # None => d = e
      BY <2>1, <2>2, SMTT(30) DEF IInv, IrqInv
    <2> QED
      BY <2>4, <2>5, <2>6 DEF IrqInv
  <1>8. CtxInv' /\ IdleInv'
    BY <1>1, <1>2, <1>3, <1>4, SMTT(30) DEF IInv, CtxInv, IdleInv, Steady
  <1>9. RootInv' /\ QueueInv'
    BY <1>1, <1>2, <1>3, <1>4, SMTT(30) DEF IInv, RootInv, QueueInv, Steady, Caller
  <1>10. HandInv' /\ QLockInv'
    <2>1. \A a \in Caller : a # i => pc'[a] = pc[a]
      BY <1>3, <1>4, SMTT(30) DEF Caller
    <2> QED
      BY <1>1, <1>2, <1>3, <1>4, <2>1, SMTT(30) DEF IInv, HandInv, QLockInv, Steady, Caller
  <1>11. SchedInv'
    <2>1. \A x \in Ctx : pc'[x] = pc[x]
      BY <1>2, <1>3, <1>4
    <2> QED
      BY <1>1, <2>1 DEF IInv, SchedInv, Steady
  <1>12. RootLockInv'
    <2>1. \A d \in CPU : d # c => cur'[d] = cur[d] /\ pc'[cur'[d]] = pc[cur[d]]
      <3>1. \A d \in CPU : d # c => cur[d] # c /\ cur[d] # i /\ cur[d] \in Ctx \cup CPU \cup Irq
        BY <1>2, <1>3, SMTT(30)
      <3>2. cur' = cur
        BY <1>1 DEF Steady
      <3> QED
        BY <1>4, <3>1, <3>2
    <2>2. pc'[cur'[c]] \in UnderRootLock <=> pc[cur[c]] \in UnderRootLock
      BY <1>1, <1>2, <1>3, <1>4 DEF Steady, UnderRootLock
    <2> QED
      BY <1>1, <2>1, <2>2, LockStep
  <1> QED
    BY <1>5, <1>6, <1>7, <1>8, <1>9, <1>10, <1>11, <1>12, SMTT(30) DEF IInv

\* y is the context processor c switches to, p the rest of the run queue
NextIs(s, c, y, p) ==
  \/ root[s] # <<>> /\ y = Head(root[s]) /\ p = Tail(root[s])
  \/ root[s] = <<>> /\ y = c /\ p = <<>>

\* What is known of the context a processor switches to, and of the rest of
\* the run queue.
LEMMA NextContext ==
  ASSUME IInv, NEW c \in CPU, NEW s \in Sched, NEW y, NEW p, NextIs(s, c, y, p)
  PROVE  /\ p \in Seq(Ctx) /\ NoDup(p) /\ Elems(p) \subseteq Elems(root[s])
         /\ y \notin Elems(p)
         /\ \/ y \in Ctx /\ pc[y] \in {"resume", "entry"} /\ scheduler[y] = s
            \/ y = c
         /\ \A d \in CPU : y \in Ctx => cur[d] # y
         /\ \A u \in Sched : u # s => y \notin Elems(root[u])
         /\ \A q \in Waiting : y \notin Elems(queue[q])
         /\ \A a \in Caller : lw[a] # y
  <1>1. CASE root[s] # <<>> /\ y = Head(root[s]) /\ p = Tail(root[s])
    <2>1. root[s] \in Seq(Ctx) /\ NoDup(root[s])
      BY DEF IInv, TypeOK, RootInv
    <2>2. /\ y \in Ctx /\ p \in Seq(Ctx) /\ NoDup(p) /\ y \notin Elems(p)
          /\ Elems(root[s]) = Elems(p) \cup {y}
      BY <1>1, <2>1, PopElems
    <2>3. y \in Elems(root[s]) /\ Elems(p) \subseteq Elems(root[s])
      BY <2>2
    <2>4. /\ pc[y] \in {"resume", "entry"} /\ scheduler[y] = s
          /\ \A d \in CPU : cur[d] # y
          /\ \A u \in Sched : u # s => y \notin Elems(root[u])
      BY <2>3, SMTT(30) DEF IInv, RootInv
    <2>5. /\ \A q \in Waiting : y \notin Elems(queue[q])
          /\ \A a \in Caller : lw[a] # y
      BY <2>3, SMTT(30) DEF IInv, ApartInv
    <2> QED
      BY <2>2, <2>3, <2>4, <2>5
  <1>2. CASE root[s] = <<>> /\ y = c /\ p = <<>>
    <2>1. /\ \A u \in Sched : Elems(root[u]) \subseteq Ctx
          /\ \A q \in Waiting : Elems(queue[q]) \subseteq Ctx
          /\ \A a \in Caller : lw[a] \in Ctx \cup {None}
          /\ c \notin Ctx /\ c # None
      BY ElemsType, SchedulerAssumption DEF IInv, TypeOK
    <2> QED
      BY <1>2, <2>1, EmptyElems, SMTT(30)
  <1> QED
    BY <1>1, <1>2 DEF NextIs


-----------------------------------------------------------------------------
(* Waiting.                                                                *)

\* Enqueue preserves the invariant.
LEMMA EnqueueIInv ==
  ASSUME IInv, NEW c \in CPU, Enqueue(c)
  PROVE  IInv'
  <1> DEFINE x == On(c)
             w == lq[x]
  <1>1. /\ x \in Ctx /\ pc[x] = "locked"
        /\ queue' = [queue EXCEPT ![w] = Append(@, x)]
        /\ pc' = [pc EXCEPT ![x] = "enq"]
        /\ UNCHANGED <<root, rootLock, idleCpu, scheduler, cur, handler, qLock, lq, lw, le, ls, ipi, ops, mainFreed>>
    BY DEF Enqueue
  <1>2. handler[c] = None /\ cur[c] = x /\ w \in Waiting
    BY <1>1, OnAgent DEF IInv, QLockInv, TypeOK, Caller
  <1>3. /\ \A s \in Sched : x \notin Elems(root[s])
        /\ \A q \in Waiting : x \notin Elems(queue[q])
        /\ \A a \in Caller : lw[a] # x
    BY <1>1, <1>2, RunningIsNowhere
  <1> HIDE DEF x
  <1>4. /\ pc \in [Ctx \cup CPU \cup Irq -> Pc]
        /\ \A b \in Ctx \cup CPU \cup Irq : b # x => pc'[b] = pc[b]
        /\ pc'[x] = "enq" /\ x \notin CPU /\ x \notin Irq
    BY <1>1, SchedulerAssumption DEF IInv, TypeOK
  <1>5. /\ \A q \in Waiting : Elems(queue[q]) \subseteq Ctx
        /\ \A s \in Sched : Elems(root[s]) \subseteq Ctx
        /\ \A a \in Caller : lw[a] # None => lw[a] \in Ctx
    BY ElemsType DEF IInv, TypeOK
  <1>6. /\ queue'[w] \in Seq(Ctx) /\ Elems(queue'[w]) = Elems(queue[w]) \cup {x} /\ NoDup(queue'[w])
        /\ \A q \in Waiting : q # w => queue'[q] = queue[q]
        /\ queue' \in [Waiting -> Seq(Ctx)]
    <2>1. queue \in [Waiting -> Seq(Ctx)] /\ NoDup(queue[w])
      BY <1>2 DEF IInv, TypeOK, QueueInv
    <2>2. queue'[w] = Append(queue[w], x) /\ \A q \in Waiting : q # w => queue'[q] = queue[q]
      BY <1>1, <1>2, <2>1
    <2>3. /\ Append(queue[w], x) \in Seq(Ctx)
          /\ Elems(Append(queue[w], x)) = Elems(queue[w]) \cup {x}
          /\ NoDup(Append(queue[w], x))
      BY <1>1, <1>2, <1>3, <2>1, AppendElems, SMTT(30)
    <2>4. queue' \in [Waiting -> Seq(Ctx)]
      BY <1>1, <1>2, <2>1, <2>3
    <2> QED
      BY <2>2, <2>3, <2>4
  <1>7. TypeOK'
    <2>1. pc' \in [Ctx \cup CPU \cup Irq -> Pc]
      BY <1>1, <1>4 DEF Pc
    <2> QED
      BY <1>1, <1>6, <2>1 DEF IInv, TypeOK
  <1>8. CurInv' /\ CtxInv' /\ IdleInv'
    <2>1. CurInv'
      BY <1>1 DEF IInv, CurInv
    <2>2. \A y \in Ctx : pc'[y] = pc[y] \/ (y = x /\ pc'[y] = "enq" /\ cur[c] = y)
      BY <1>2, <1>4
    <2>3. CtxInv'
      BY <1>1, <2>2 DEF IInv, CtxInv
    <2>4. IdleInv'
      BY <1>1, <1>4 DEF IInv, IdleInv
    <2> QED
      BY <2>1, <2>3, <2>4
  <1>9. IrqInv'
    <2>1. \A d \in CPU : handler[d] # None => cur[d] # x
      BY <1>2 DEF IInv, CurInv
    <2> QED
      BY <1>1, <1>4, <2>1, SMTT(30) DEF IInv, IrqInv, TypeOK
  <1>10. RootInv' /\ HandInv'
    <2>1. /\ \A s \in Sched : \A y \in Elems(root[s]) : pc'[y] = pc[y]
          /\ \A a \in Caller : lw[a] # None => pc'[lw[a]] = pc[lw[a]]
      BY <1>3, <1>4, <1>5
    <2>2. \A a \in Caller : pc'[a] = "push" <=> pc[a] = "push"
      BY <1>1, <1>4 DEF Caller
    <2>3. RootInv'
      BY <1>1, <2>1 DEF IInv, RootInv
    <2>4. HandInv'
      BY <1>1, <2>1, <2>2 DEF IInv, HandInv
    <2> QED
      BY <2>3, <2>4
  <1>11. QueueInv'
    <2> SUFFICES ASSUME NEW q \in Waiting
                 PROVE  /\ NoDup(queue'[q])
                        /\ \A y \in Elems(queue'[q]) :
                             /\ pc'[y] \in {"enq", "switch", "resume"}
                             /\ pc'[y] = "enq" => lq[y] = q
                             /\ pc'[y] = "resume" => \A d \in CPU : cur[d] # y
      <3>1. UNCHANGED <<cur, lq>>
        BY <1>1
      <3> QED
        BY <3>1 DEF QueueInv
    <2>1. NoDup(queue'[q])
      BY <1>6 DEF IInv, QueueInv
    <2>2. \A y \in Elems(queue'[q]) : y \in Elems(queue[q]) \/ (y = x /\ q = w)
      BY <1>6
    <2> QED
      BY <1>3, <1>4, <1>5, <2>1, <2>2, SMTT(30) DEF IInv, QueueInv
  <1>12. ApartInv'
    <2>1. \A q \in Waiting : \A y \in Elems(queue'[q]) : y \in Elems(queue[q]) \/ (y = x /\ q = w)
      BY <1>6
    <2>2. \A s \in Sched, q \in Waiting : \A y \in Elems(queue'[q]) : y \notin Elems(root[s])
      BY <1>3, <2>1, SMTT(30) DEF IInv, ApartInv
    <2>3. \A q, r \in Waiting : \A y \in Elems(queue'[q]) : y \in Elems(queue'[r]) => q = r
      BY <1>3, <2>1, SMTT(30) DEF IInv, ApartInv
    <2>4. \A a \in Caller, q \in Waiting : lw[a] \notin Elems(queue'[q])
      BY <1>3, <2>1 DEF IInv, ApartInv
    <2> QED
      BY <1>1, <2>2, <2>3, <2>4 DEF IInv, ApartInv
  <1>13. QLockInv' /\ SchedInv'
    BY <1>1, <1>2, <1>4, SchedulerAssumption DEF IInv, QLockInv, SchedInv, Caller, Waiting
  <1>14. RootLockInv'
    BY <1>1, CallerLock DEF UnderRootLock, Caller, x
  <1> QED
    BY <1>7, <1>8, <1>9, <1>10, <1>11, <1>12, <1>13, <1>14 DEF IInv

\* WaitLockRoot preserves the invariant.
LEMMA WaitLockRootIInv ==
  ASSUME IInv, NEW c \in CPU, WaitLockRoot(c)
  PROVE  IInv'
  <1> DEFINE x == On(c)
             s == scheduler_get[c]
  <1>1. /\ x \in Ctx /\ pc[x] = "enq" /\ rootLock[s] = None
        /\ rootLock' = [rootLock EXCEPT ![s] = c]
        /\ qLock' = [qLock EXCEPT ![lq[x]] = None] /\ lq' = [lq EXCEPT ![x] = None]
        /\ ls' = [ls EXCEPT ![x] = s] /\ pc' = [pc EXCEPT ![x] = "switch"]
        /\ UNCHANGED <<root, idleCpu, scheduler, cur, handler, queue, lw, le, ipi, ops, mainFreed>>
    BY DEF WaitLockRoot
  <1>2. handler[c] = None /\ cur[c] = x /\ s \in Sched
    BY <1>1, OnAgent, SchedulerAssumption DEF IInv
  <1>3. scheduler[x] = s /\ x \in Caller /\ lq[x] \in Waiting /\ qLock[lq[x]] = x
    BY <1>1, <1>2 DEF IInv, SchedInv, TypeOK, QLockInv, Caller
  <1> HIDE DEF x
  <1>4. /\ pc \in [Ctx \cup CPU \cup Irq -> Pc]
        /\ \A b \in Ctx \cup CPU \cup Irq : b # x => pc'[b] = pc[b]
        /\ pc'[x] = "switch" /\ x \notin CPU /\ x \notin Irq
        /\ \A b \in Caller : b # x => lq'[b] = lq[b]
        /\ lq'[x] = None
    BY <1>1, <1>3, SchedulerAssumption, SMTT(30) DEF IInv, TypeOK
  <1>5. /\ \A q \in Waiting : Elems(queue[q]) \subseteq Ctx
        /\ \A r \in Sched : Elems(root[r]) \subseteq Ctx /\ x \notin Elems(root[r])
        /\ \A a \in Caller : lw[a] # None => lw[a] \in Ctx /\ lw[a] # x
    <2>1. \A r \in Sched : x \notin Elems(root[r])
      BY <1>1 DEF IInv, RootInv
    <2>2. \A a \in Caller : lw[a] # None => lw[a] # x
      BY <1>1 DEF IInv, HandInv
    <2> QED
      BY <2>1, <2>2, ElemsType DEF IInv, TypeOK
  <1>6. TypeOK'
    <2>1. pc' \in [Ctx \cup CPU \cup Irq -> Pc] /\ rootLock' \in [Sched -> CPU \cup {None}]
      BY <1>1, <1>4 DEF IInv, TypeOK, Pc
    <2>2. /\ qLock' \in [Waiting -> Caller \cup {None}] /\ lq' \in [Caller -> Waiting \cup {None}]
          /\ ls' \in [Ctx \cup CPU -> Sched \cup {None}]
      BY <1>1, <1>2 DEF IInv, TypeOK
    <2> QED
      BY <1>1, <2>1, <2>2 DEF IInv, TypeOK
  <1>7. CurInv' /\ ApartInv' /\ CtxInv' /\ IdleInv'
    <2>1. CurInv' /\ ApartInv'
      <3>1. CurInv /\ ApartInv /\ UNCHANGED <<queue, root, cur, lw>>
        BY <1>1 DEF IInv
      <3> QED
        BY <3>1 DEF CurInv, ApartInv
    <2>2. CtxInv'
      BY <1>1, <1>2, <1>4, SMTT(30) DEF IInv, CtxInv
    <2>3. IdleInv'
      BY <1>1, <1>4 DEF IInv, IdleInv
    <2> QED
      BY <2>1, <2>2, <2>3
  <1>8. IrqInv'
    <2>1. \A d \in CPU : handler[d] # None => cur[d] # x
      BY <1>2 DEF IInv, CurInv
    <2> QED
      BY <1>1, <1>4, <2>1, SMTT(30) DEF IInv, IrqInv, TypeOK
  <1>9. RootInv' /\ HandInv'
    <2>1. /\ \A r \in Sched : \A y \in Elems(root[r]) : pc'[y] = pc[y]
          /\ \A a \in Caller : lw[a] # None => pc'[lw[a]] = pc[lw[a]]
      BY <1>4, <1>5
    <2>2. \A a \in Caller : pc'[a] = "push" <=> pc[a] = "push"
      BY <1>1, <1>4 DEF Caller
    <2>3. RootInv'
      BY <1>1, <2>1 DEF IInv, RootInv
    <2>4. HandInv'
      <3>1. HandInv /\ UNCHANGED <<lw, cur>>
        BY <1>1 DEF IInv
      <3> QED
        BY <2>1, <2>2, <3>1 DEF HandInv
    <2> QED
      BY <2>3, <2>4
  <1>10. QueueInv'
    <2>1. \A q \in Waiting : \A y \in Elems(queue[q]) :
            y \in Ctx /\ (y = x \/ (pc'[y] = pc[y] /\ lq'[y] = lq[y]))
      BY <1>4, <1>5 DEF Caller
    <2>2. QueueInv /\ UNCHANGED <<queue, cur>>
      BY <1>1 DEF IInv
    <2>3. ASSUME NEW q \in Waiting, NEW y \in Elems(queue[q])
          PROVE  /\ pc'[y] \in {"enq", "switch", "resume"}
                 /\ pc'[y] = "enq" => lq'[y] = q
                 /\ pc'[y] = "resume" => \A d \in CPU : cur[d] # y
      <3>1. CASE y = x
        BY <1>4, <3>1
      <3>2. CASE y # x
        BY <2>1, <2>2, <3>2 DEF QueueInv
      <3> QED
        BY <3>1, <3>2
    <2> QED
      BY <2>2, <2>3 DEF QueueInv
  <1>11. QLockInv'
    <2>1. \A b \in Caller : b # x => lq[b] # lq[x]
      BY <1>3, SchedulerAssumption DEF IInv, QLockInv, Waiting
    <2>2. \A b \in Caller : b # x /\ lq[b] # None => qLock'[lq[b]] = qLock[lq[b]]
      BY <1>1, <2>1 DEF IInv, TypeOK
    <2>3. \A b \in Caller : b # x => pc'[b] = pc[b]
      BY <1>4 DEF Caller
    <2> QED
      BY <1>4, <2>2, <2>3 DEF IInv, QLockInv
  <1>12. SchedInv'
    BY <1>1, <1>2, <1>3, <1>4 DEF IInv, SchedInv, TypeOK
  <1>13. RootLockInv'
    <2>1. \A d \in CPU : d # c => cur[d] # x
      BY <1>2 DEF IInv, CurInv
    <2>2. \A d \in CPU : d # c => cur'[d] = cur[d] /\ pc'[cur'[d]] = pc[cur[d]]
      BY <1>1, <1>4, <2>1 DEF IInv, TypeOK
    <2>3. pc'[cur'[c]] \in UnderRootLock
      BY <1>1, <1>2, <1>4 DEF UnderRootLock
    <2> QED
      BY <1>1, <2>2, <2>3, LockStep
  <1> QED
    BY <1>6, <1>7, <1>8, <1>9, <1>10, <1>11, <1>12, <1>13 DEF IInv

-----------------------------------------------------------------------------
(* Ready contexts are served.                                              *)

\* an agent about to post an interrupt knows to which processor
PostInv == \A a \in Caller : pc[a] = "ipi" <=> le[a] # None

\* a processor declared idle waits in its idle loop, and is declared once;
\* without inter-processor interrupts none is
DeclaredInv ==
  \A s \in Sched :
    /\ NoDup(idleCpu[s])
    /\ \A c \in Elems(idleCpu[s]) : /\ scheduler_get[c] = s /\ cur[c] = c
                                    /\ pc[c] \in {"sleep", "wake"}
    /\ IDLE # "ipi" => idleCpu[s] = <<>>

\* a processor that goes back to its idle context found nothing ready
NothingReadyInv ==
  \A c \in CPU : cur[c] = c /\ pc[c] = "declare" => root[scheduler_get[c]] = <<>>

ServeInv == PostInv /\ DeclaredInv /\ NothingReadyInv /\ ReadyIsServed

\* WakingUp, one processor at a time.
LEMMA WakingUpSet ==
  ASSUME NEW s \in Sched
  PROVE  /\ IsFiniteSet(WakingUp(s)) /\ Cardinality(WakingUp(s)) \in Nat
         /\ IsFiniteSet(WakingUp(s)') /\ Cardinality(WakingUp(s)') \in Nat
  <1>1. WakingUp(s) \in SUBSET CPU /\ WakingUp(s)' \in SUBSET CPU
    BY DEF WakingUp
  <1> QED
    BY <1>1, FiniteProcessors, FS_Subset, FS_CardinalityType

\* Fewer ready contexts, or more processors on their way.
LEMMA StillServed ==
  ASSUME NEW s \in Sched, root[s] \in Seq(Ctx), root'[s] \in Seq(Ctx),
         idleCpu[s] # <<>> => Len(root[s]) <= Cardinality(WakingUp(s)),
         idleCpu'[s] = idleCpu[s], Len(root'[s]) <= Len(root[s]),
         WakingUp(s) \subseteq WakingUp(s)'
  PROVE  idleCpu'[s] # <<>> => Len(root'[s]) <= Cardinality(WakingUp(s)')
  <1>1. Cardinality(WakingUp(s)) <= Cardinality(WakingUp(s)')
    BY WakingUpSet, FS_Subset
  <1> QED
    BY <1>1, WakingUpSet, SMTT(30)

\* Initially no processor is declared idle, none sleeps.
LEMMA InitServe == Init => ServeInv
  <1> SUFFICES ASSUME Init PROVE ServeInv
    OBVIOUS
  <1>1. PostInv
    BY SchedulerAssumption DEF Init, PostInv, Caller
  <1>2. DeclaredInv /\ NothingReadyInv
    BY SchedulerAssumption, EmptyElems DEF Init, DeclaredInv, NothingReadyInv
  <1>3. ReadyIsServed
    BY SchedulerAssumption DEF Init, ReadyIsServed, IdleServesReady, WakeUpSignalled, WakingUp
  <1> QED
    BY <1>1, <1>2, <1>3 DEF ServeInv

\* Steps that leave the run queues and all idle contexts alone, and do not get
\* to the point of posting an interrupt.
LEMMA AsideServe ==
  ASSUME IInv, ServeInv,
         UNCHANGED <<root, idleCpu, cur, handler, le, ipi>>,
         \A d \in CPU : pc'[d] = pc[d],
         \A a \in Caller : pc'[a] = "ipi" <=> pc[a] = "ipi"
  PROVE  ServeInv'
  <1>1. PostInv'
    BY DEF ServeInv, PostInv
  <1>2. DeclaredInv' /\ NothingReadyInv'
    <2>1. \A s \in Sched : Elems(idleCpu[s]) \subseteq CPU
      BY ElemsType DEF IInv, TypeOK
    <2> QED
      BY <2>1, SMTT(30) DEF ServeInv, DeclaredInv, NothingReadyInv
  <1>3. \A s \in Sched : WakingUp(s)' = WakingUp(s)
    BY DEF WakingUp
  <1>4. IdleServesReady' /\ WakeUpSignalled'
    <2>1. IdleServesReady'
      BY <1>3 DEF ServeInv, ReadyIsServed, IdleServesReady
    <2>2. \A s \in Sched : \A c \in WakingUp(s) : c \in CPU
      BY DEF WakingUp
    <2>3. WakeUpSignalled'
      BY <1>3, <2>2 DEF ServeInv, ReadyIsServed, WakeUpSignalled
    <2> QED
      BY <2>1, <2>3
  <1> QED
    BY <1>1, <1>2, <1>4 DEF ServeInv, ReadyIsServed

\* Wait queue locks, waiting, waking, the release of the run queue lock and
\* the start of a context are such steps.
LEMMA CallServe ==
  ASSUME IInv, ServeInv, NEW c \in CPU,
         \/ \E q \in Waiting : sched_queue_wrlock(c, q)
         \/ \E x \in Ctx : sched_context_start(c, x)
         \/ sched_queue_unlock(c) \/ Enqueue(c) \/ WaitLockRoot(c)
         \/ Resume(c) \/ sched_unlock(c) \/ sched_wake(c)
  PROVE  ServeInv'
  <1> USE SchedulerAssumption
  <1>1. /\ pc \in [Ctx \cup CPU \cup Irq -> Pc] /\ On(c) \in Ctx \cup CPU \cup Irq
        /\ Caller = Ctx \cup Irq /\ CPU \cap Ctx = {} /\ CPU \cap Irq = {}
    BY OnAgent DEF IInv, TypeOK, Caller
  <1>2. ASSUME NEW a \in Ctx \cup Irq, NEW r, pc' = [pc EXCEPT ![a] = r], r # "ipi", pc[a] # "ipi",
               UNCHANGED <<root, idleCpu, cur, handler, le, ipi>>
        PROVE  ServeInv'
    <2>1. /\ \A d \in CPU : pc'[d] = pc[d]
          /\ \A b \in Caller : pc'[b] = "ipi" <=> pc[b] = "ipi"
      BY <1>1, <1>2
    <2> QED
      BY <1>2, <2>1, AsideServe
  <1>3. ASSUME NEW q \in Waiting, sched_queue_wrlock(c, q) PROVE ServeInv'
    BY <1>1, <1>2, <1>3 DEF sched_queue_wrlock
  <1>4. ASSUME NEW x \in Ctx, sched_context_start(c, x) PROVE ServeInv'
    <2>1. /\ On(c) \in Ctx /\ pc[On(c)] = "run" /\ pc[x] = "new"
          /\ pc' = [pc EXCEPT ![On(c)] = "push", ![x] = "entry"]
          /\ UNCHANGED <<root, idleCpu, cur, handler, le, ipi>>
      BY <1>4 DEF sched_context_start
    <2>2. /\ \A d \in CPU : pc'[d] = pc[d]
          /\ \A b \in Caller : pc'[b] = "ipi" <=> pc[b] = "ipi"
      BY <1>1, <2>1
    <2> QED
      BY <2>1, <2>2, AsideServe
  <1>5. CASE sched_queue_unlock(c)
    BY <1>1, <1>2, <1>5 DEF sched_queue_unlock
  <1>6. CASE Enqueue(c)
    BY <1>2, <1>6 DEF Enqueue
  <1>7. CASE WaitLockRoot(c)
    BY <1>2, <1>7 DEF WaitLockRoot
  <1>8. CASE Resume(c)
    <2>1. On(c) \in Ctx
      BY <1>8 DEF Resume, IInv, IdleInv
    <2> QED
      BY <1>2, <1>8, <2>1 DEF Resume
  <1>9. CASE sched_unlock(c)
    BY <1>2, <1>9 DEF sched_unlock
  <1>10. CASE sched_wake(c)
    BY <1>1, <1>2, <1>10 DEF sched_wake
  <1> QED
    BY <1>3, <1>4, <1>5, <1>6, <1>7, <1>8, <1>9, <1>10

\* Posting the interrupt: the processor that was owed one has it.
LEMMA IpiPostServe ==
  ASSUME IInv, ServeInv, NEW c \in CPU, ipi_post(c)
  PROVE  ServeInv'
  <1> USE SchedulerAssumption
  <1> DEFINE a == On(c)
  <1>1. /\ a \in Caller /\ pc[a] = "ipi"
        /\ ipi' = [ipi EXCEPT ![le[a]] = TRUE]
        /\ le' = [le EXCEPT ![a] = None]
        /\ pc' = [pc EXCEPT ![a] = Back(a)]
        /\ UNCHANGED <<root, idleCpu, cur, handler>>
    BY DEF ipi_post
  <1>2. Back(a) # "ipi"
    BY DEF Back
  <1> HIDE DEF a
  <1>3. /\ pc \in [Ctx \cup CPU \cup Irq -> Pc] /\ le \in [Caller -> CPU \cup {None}]
        /\ ipi \in [CPU -> BOOLEAN] /\ Caller = Ctx \cup Irq
        /\ \A d \in CPU : d \notin Caller
    BY DEF IInv, TypeOK, Caller
  <1>4. /\ pc'[a] = Back(a) /\ \A d \in CPU : pc'[d] = pc[d]
        /\ \A b \in Caller : b # a => pc'[b] = pc[b] /\ le'[b] = le[b]
        /\ le'[a] = None
    BY <1>1, <1>3
  <1>5. \A d \in CPU : d = le[a] \/ ipi[d] => ipi'[d]
    BY <1>1, <1>3
  <1>6. PostInv'
    BY <1>1, <1>2, <1>3, <1>4 DEF ServeInv, PostInv
  <1>7. DeclaredInv' /\ NothingReadyInv'
    <2>1. \A s \in Sched : Elems(idleCpu[s]) \subseteq CPU
      BY ElemsType DEF IInv, TypeOK
    <2> QED
      BY <1>1, <1>4, <2>1, SMTT(30) DEF ServeInv, DeclaredInv, NothingReadyInv
  <1>8. \A s \in Sched : WakingUp(s)' = WakingUp(s) /\ WakingUp(s) \subseteq CPU
    BY <1>1, <1>4 DEF WakingUp
  <1>9. IdleServesReady'
    BY <1>1, <1>8 DEF ServeInv, ReadyIsServed, IdleServesReady
  <1>10. WakeUpSignalled'
    <2> SUFFICES ASSUME NEW s \in Sched, NEW d \in WakingUp(s), pc'[d] = "sleep"
                 PROVE  ipi'[d] \/ handler'[d] # None \/ \E b \in Caller : le'[b] = d
      BY <1>8, SMTT(30) DEF WakeUpSignalled
    <2>1. d \in CPU /\ pc[d] = "sleep"
      BY <1>4, <1>8
    <2>2. ipi[d] \/ handler[d] # None \/ \E b \in Caller : le[b] = d
      BY <2>1 DEF ServeInv, ReadyIsServed, WakeUpSignalled
    <2> QED
      BY <1>1, <1>4, <1>5, <2>1, <2>2
  <1> QED
    BY <1>6, <1>7, <1>9, <1>10 DEF ServeInv, ReadyIsServed

\* Pushing a context: while a processor is declared idle one of them is taken
\* off the list, and owed an interrupt.
LEMMA PushServe ==
  ASSUME IInv, ServeInv, NEW c \in CPU, sched_context_push(c)
  PROVE  ServeInv'
  <1> USE SchedulerAssumption
  <1>a. PICK a, s, h : a = On(c) /\ s = scheduler[lw[a]] /\ h = Head(idleCpu[s])
    OBVIOUS
  <1>1. /\ a \in Caller /\ pc[a] = "push" /\ rootLock[s] = None
        /\ root' = [root EXCEPT ![s] = Append(@, lw[a])]
        /\ \/ /\ idleCpu[s] # <<>>
              /\ le' = [le EXCEPT ![a] = h]
              /\ idleCpu' = [idleCpu EXCEPT ![s] = Tail(@)]
              /\ pc' = [pc EXCEPT ![a] = "ipi"]
           \/ /\ idleCpu[s] = <<>>
              /\ pc' = [pc EXCEPT ![a] = Back(a)]
              /\ UNCHANGED <<le, idleCpu>>
        /\ UNCHANGED <<cur, handler, ipi>>
    BY <1>a DEF sched_context_push
  <1>2. lw[a] \in Ctx /\ s \in Sched /\ Back(a) # "ipi"
    BY <1>1, <1>a, SMTT(30) DEF IInv, TypeOK, HandInv, Back
  <1>3. /\ pc \in [Ctx \cup CPU \cup Irq -> Pc] /\ le \in [Caller -> CPU \cup {None}]
        /\ root \in [Sched -> Seq(Ctx)] /\ idleCpu \in [Sched -> Seq(CPU)]
        /\ Caller = Ctx \cup Irq /\ \A d \in CPU : d \notin Caller /\ d # None
        /\ \A u \in Sched : Elems(idleCpu[u]) \subseteq CPU
    BY ElemsType, SMTT(30) DEF IInv, TypeOK, Caller
  <1>4. /\ \A d \in CPU : pc'[d] = pc[d]
        /\ \A b \in Caller : b # a => pc'[b] = pc[b] /\ le'[b] = le[b]
        /\ \A u \in Sched : u # s => root'[u] = root[u] /\ idleCpu'[u] = idleCpu[u]
        /\ root'[s] = Append(root[s], lw[a])
    BY <1>1, <1>2, <1>3, SMTT(30)
  <1>5. NothingReadyInv'
    <2> SUFFICES ASSUME NEW d \in CPU, cur[d] = d, pc[d] = "declare"
                 PROVE  root'[scheduler_get[d]] = <<>>
      BY <1>1, <1>4 DEF NothingReadyInv
    <2>1. root[scheduler_get[d]] = <<>> /\ rootLock[scheduler_get[d]] = d
      BY DEF ServeInv, NothingReadyInv, IInv, RootLockInv, UnderRootLock
    <2> QED
      BY <1>1, <1>3, <1>4, <2>1, SMTT(30)
  <1>6. CASE idleCpu[s] # <<>>
    <2>1. /\ le' = [le EXCEPT ![a] = h] /\ pc' = [pc EXCEPT ![a] = "ipi"]
          /\ idleCpu'[s] = Tail(idleCpu[s])
      BY <1>1, <1>2, <1>3, <1>6, SMTT(30)
    <2>2. /\ h \in CPU /\ NoDup(idleCpu'[s])
          /\ Elems(idleCpu[s]) = Elems(idleCpu'[s]) \cup {h} /\ h \notin Elems(idleCpu'[s])
      BY <1>2, <1>3, <1>6, <1>a, <2>1, PopElems, SMTT(30) DEF ServeInv, DeclaredInv
    <2>3. le'[a] = h /\ pc'[a] = "ipi" /\ le[a] = None
      BY <1>1, <1>3, <2>1 DEF ServeInv, PostInv
    <2>4. PostInv'
      <3>1. h # None
        BY <1>3, <2>2
      <3>2. ASSUME NEW b \in Caller, b # a PROVE pc'[b] = "ipi" <=> le'[b] # None
        BY <1>4, <3>2 DEF ServeInv, PostInv
      <3> QED
        BY <2>3, <3>1, <3>2 DEF PostInv
    <2>5. DeclaredInv'
      <3> SUFFICES ASSUME NEW u \in Sched
                   PROVE  /\ NoDup(idleCpu'[u])
                          /\ \A d \in Elems(idleCpu'[u]) : /\ scheduler_get[d] = u /\ cur[d] = d
                                                           /\ pc'[d] \in {"sleep", "wake"}
                          /\ IDLE # "ipi" => idleCpu'[u] = <<>>
        BY <1>1 DEF DeclaredInv
      <3>1. CASE u = s
        BY <1>2, <1>3, <1>4, <1>6, <2>2, <3>1, SMTT(30) DEF ServeInv, DeclaredInv
      <3>2. CASE u # s
        BY <1>3, <1>4, <3>2, SMTT(30) DEF ServeInv, DeclaredInv
      <3> QED
        BY <3>1, <3>2
    <2>6. /\ h \notin WakingUp(s) /\ WakingUp(s)' = WakingUp(s) \cup {h}
          /\ \A u \in Sched : u # s => WakingUp(u)' = WakingUp(u)
      <3>1. scheduler_get[h] = s /\ cur[h] = h /\ pc[h] \in {"sleep", "wake"}
        BY <1>2, <2>2 DEF ServeInv, DeclaredInv
      <3>2. \A u \in Sched : u # s => WakingUp(u)' = WakingUp(u)
        BY <1>1, <1>4 DEF WakingUp
      <3>3. h \notin WakingUp(s) /\ WakingUp(s)' = WakingUp(s) \cup {h}
        BY <1>1, <1>4, <2>2, <3>1, SMTT(30) DEF WakingUp
      <3> QED
        BY <3>2, <3>3
    <2>7. IdleServesReady'
      <3> SUFFICES ASSUME NEW u \in Sched, idleCpu'[u] # <<>>
                   PROVE  Len(root'[u]) <= Cardinality(WakingUp(u)')
        BY DEF IdleServesReady
      <3>1. CASE u = s
        <4>1. Cardinality(WakingUp(s)') = Cardinality(WakingUp(s)) + 1
          BY <1>2, <2>6, WakingUpSet, FS_AddElement
        <4>2. Len(root[s]) <= Cardinality(WakingUp(s))
          BY <1>2, <1>6 DEF ServeInv, ReadyIsServed, IdleServesReady
        <4>3. Len(root'[s]) = Len(root[s]) + 1 /\ Len(root[s]) \in Nat
          BY <1>2, <1>3, <1>4, SMTT(30)
        <4> QED
          BY <1>2, <3>1, <4>1, <4>2, <4>3, WakingUpSet, SMTT(30)
      <3>2. CASE u # s
        BY <1>4, <2>6, <3>2 DEF ServeInv, ReadyIsServed, IdleServesReady
      <3> QED
        BY <3>1, <3>2
    <2>8. WakeUpSignalled'
      <3> SUFFICES ASSUME NEW u \in Sched, NEW d \in WakingUp(u)', pc'[d] = "sleep"
                   PROVE  ipi[d] \/ handler[d] # None \/ \E b \in Caller : le'[b] = d
        BY <1>1 DEF WakeUpSignalled
      <3>1. CASE d = h
        BY <1>1, <2>3, <3>1
      <3>2. CASE d # h
        <4>1. d \in WakingUp(u) /\ d \in CPU /\ pc[d] = "sleep"
          BY <1>4, <2>6, <3>2, SMTT(30) DEF WakingUp
        <4>2. ipi[d] \/ handler[d] # None \/ \E b \in Caller : le[b] = d
          BY <4>1 DEF ServeInv, ReadyIsServed, WakeUpSignalled
        <4> QED
          BY <1>3, <1>4, <2>3, <4>1, <4>2
      <3> QED
        BY <3>1, <3>2
    <2> QED
      BY <1>5, <2>4, <2>5, <2>7, <2>8 DEF ServeInv, ReadyIsServed
  <1>7. CASE idleCpu[s] = <<>>
    <2>1. pc' = [pc EXCEPT ![a] = Back(a)] /\ UNCHANGED <<le, idleCpu>> /\ pc'[a] # "ipi"
      BY <1>1, <1>2, <1>3, <1>7
    <2>2. PostInv'
      BY <1>1, <1>4, <2>1, SMTT(30) DEF ServeInv, PostInv
    <2>3. DeclaredInv'
      BY <1>1, <1>3, <1>4, <2>1, SMTT(30) DEF ServeInv, DeclaredInv
    <2>4. \A u \in Sched : WakingUp(u)' = WakingUp(u) /\ WakingUp(u) \subseteq CPU
      BY <1>1, <1>4, <2>1, SMTT(30) DEF WakingUp
    <2>5. IdleServesReady'
      BY <1>4, <1>7, <2>1, <2>4 DEF ServeInv, ReadyIsServed, IdleServesReady
    <2>6. WakeUpSignalled'
      BY <1>1, <1>4, <2>1, <2>4, SMTT(30) DEF ServeInv, ReadyIsServed, WakeUpSignalled
    <2> QED
      BY <1>5, <2>2, <2>3, <2>5, <2>6 DEF ServeInv, ReadyIsServed
  <1> QED
    BY <1>6, <1>7

\* A step of an idle context, from the places "from" to the place "to", that
\* leaves the run queues alone.
LEMMA IdleServe ==
  ASSUME IInv, ServeInv, NEW c \in CPU, NEW to,
         cur[c] = c, handler[c] = None,
         pc' = [pc EXCEPT ![c] = to],
         \/ pc[c] = "first" /\ to = "poll"
         \/ pc[c] \in {"sleep", "wake"} /\ to = "wake"
         \/ pc[c] = "wake" /\ to = "sleep" /\ c \in Elems(idleCpu[scheduler_get[c]])
         \/ pc[c] = "wake" /\ to = "poll" /\ c \notin Elems(idleCpu[scheduler_get[c]]),
         \A d \in CPU : d # c /\ ipi[d] => ipi'[d],
         UNCHANGED <<root, idleCpu, cur, handler, le>>
  PROVE  ServeInv'
  <1> USE SchedulerAssumption
  <1>1. /\ pc \in [Ctx \cup CPU \cup Irq -> Pc] /\ Caller = Ctx \cup Irq
        /\ \A d \in CPU : d \notin Caller
        /\ \A u \in Sched : Elems(idleCpu[u]) \subseteq CPU /\ root[u] \in Seq(Ctx)
    BY ElemsType DEF IInv, TypeOK, Caller
  <1>2. /\ pc'[c] = to /\ to \in {"wake", "sleep", "poll"}
        /\ \A d \in CPU : d # c => pc'[d] = pc[d]
        /\ \A b \in Caller : pc'[b] = pc[b]
    BY <1>1
  <1>3. PostInv'
    BY <1>2 DEF ServeInv, PostInv
  <1>4. DeclaredInv'
    <2> SUFFICES ASSUME NEW u \in Sched, NEW d \in Elems(idleCpu[u])
                 PROVE  pc'[d] \in {"sleep", "wake"}
      BY DEF ServeInv, DeclaredInv
    <2>1. d \in CPU /\ scheduler_get[d] = u /\ pc[d] \in {"sleep", "wake"}
      BY <1>1 DEF ServeInv, DeclaredInv
    <2> QED
      BY <1>2, <2>1
  <1>5. NothingReadyInv'
    BY <1>2 DEF ServeInv, NothingReadyInv
  <1>6. \A u \in Sched : WakingUp(u) \subseteq WakingUp(u)'
    BY <1>2 DEF WakingUp
  <1>7. IdleServesReady'
    <2> SUFFICES ASSUME NEW u \in Sched
                 PROVE  idleCpu'[u] # <<>> => Len(root'[u]) <= Cardinality(WakingUp(u)')
      BY DEF IdleServesReady
    <2>1. /\ root[u] \in Seq(Ctx) /\ root'[u] \in Seq(Ctx) /\ Len(root'[u]) <= Len(root[u])
          /\ idleCpu'[u] = idleCpu[u]
      BY <1>1, SMTT(30)
    <2>2. idleCpu[u] # <<>> => Len(root[u]) <= Cardinality(WakingUp(u))
      BY DEF ServeInv, ReadyIsServed, IdleServesReady
    <2> QED
      BY <1>6, <2>1, <2>2, StillServed
  <1>8. WakeUpSignalled'
    <2> SUFFICES ASSUME NEW u \in Sched, NEW d \in WakingUp(u)', pc'[d] = "sleep"
                 PROVE  ipi'[d] \/ handler'[d] # None \/ \E b \in Caller : le'[b] = d
      BY DEF WakeUpSignalled
    <2>1. d \in CPU /\ d # c
      BY <1>2, SMTT(30) DEF WakingUp
    <2>2. d \in WakingUp(u) /\ pc[d] = "sleep"
      BY <1>2, <2>1 DEF WakingUp
    <2>3. ipi[d] \/ handler[d] # None \/ \E b \in Caller : le[b] = d
      BY <2>2 DEF ServeInv, ReadyIsServed, WakeUpSignalled
    <2> QED
      BY <2>1, <2>3
  <1> QED
    BY <1>3, <1>4, <1>5, <1>7, <1>8 DEF ServeInv, ReadyIsServed

\* The first entry in the idle loop, and the look at the list of idle
\* processors after an interrupt.
LEMMA IdleLoopServe ==
  ASSUME IInv, ServeInv, NEW c \in CPU, IdleFirst(c) \/ IdleLock(c)
  PROVE  ServeInv'
  <1>1. On(c) = c /\ cur[c] = c /\ handler[c] = None
    BY OnAgent DEF IdleFirst, IdleLock, IInv
  <1>2. CASE IdleFirst(c)
    <2>1. /\ pc[c] = "first" /\ pc' = [pc EXCEPT ![c] = "poll"]
          /\ UNCHANGED <<root, idleCpu, cur, handler, le, ipi>>
      BY <1>2 DEF IdleFirst
    <2> QED
      BY <1>1, <2>1, IdleServe
  <1>3. CASE IdleLock(c)
    <2>1. /\ pc[c] = "wake" /\ UNCHANGED <<root, idleCpu, cur, handler, le, ipi>>
          /\ \/ pc' = [pc EXCEPT ![c] = "sleep"] /\ c \in Elems(idleCpu[scheduler_get[c]])
             \/ /\ pc' = [pc EXCEPT ![c] = "poll"]
                /\ IDLE # "ipi" \/ c \notin Elems(idleCpu[scheduler_get[c]])
      BY <1>3 DEF IdleLock
    <2>2. IDLE # "ipi" => c \notin Elems(idleCpu[scheduler_get[c]])
      BY SchedulerAssumption, EmptyElems DEF ServeInv, DeclaredInv
    <2> QED
      BY <1>1, <2>1, <2>2, IdleServe
  <1> QED
    BY <1>2, <1>3
=============================================================================
