-------------------------- MODULE SchedulerProofs ---------------------------
(***************************************************************************)
(* The main theorems about Scheduler: a context runs on one processor at a *)
(* time, a ready context is saved and nowhere else, contexts keep to their *)
(* affinity, the run queue lock is held by whoever believes to hold it, no *)
(* work waits while a processor idles, and Scheduler implements            *)
(* WaitQueues.                                                             *)
(*                                                                         *)
(* They are proved without preemption of the idle context and without      *)
(* affinity changes of a running context; with either of them TLC finds    *)
(* counterexamples.                                                        *)
(***************************************************************************)
EXTENDS SchedulerInvariant

\* Zenon proves what names no other prover, within 20 seconds
USE ZenonT(20)

-----------------------------------------------------------------------------
(* Ready contexts are served, by the steps that put a context aside, that  *)
(* switch, and that declare a processor idle.                              *)

\* An inter-processor interrupt ends the sleep it was sent for.
LEMMA TakeIpiServe ==
  ASSUME IInv, ServeInv, NEW c \in CPU, TakeIpi(c)
  PROVE  ServeInv'
  <1> USE SchedulerAssumption
  <1>1. /\ ipi' = [ipi EXCEPT ![c] = FALSE] /\ ipi \in [CPU -> BOOLEAN]
        /\ UNCHANGED <<root, idleCpu, cur, handler, le>>
    BY DEF TakeIpi, IInv, TypeOK
  <1>2. \A d \in CPU : d # c => (ipi'[d] <=> ipi[d])
    BY <1>1
  <1>3. CASE On(c) = c /\ pc[c] \in {"sleep", "wake"}
    <2>1. cur[c] = c /\ handler[c] = None
      BY <1>3, OnAgent, SMTT(30) DEF IInv
    <2>2. pc' = [pc EXCEPT ![c] = "wake"]
      BY <1>3 DEF TakeIpi
    <2> QED
      BY <1>1, <1>2, <1>3, <2>1, <2>2, IdleServe
  <1>4. CASE On(c) \in Ctx /\ pc[On(c)] = "run"
    <2>1. On(c) # c /\ cur[c] # c
      BY <1>4, OnAgent, SMTT(30) DEF IInv
    <2>2. pc' = pc
      <3>1. pc' = [pc EXCEPT ![On(c)] = "run"] /\ pc \in [Ctx \cup CPU \cup Irq -> Pc]
        BY <2>1 DEF TakeIpi, IInv, TypeOK
      <3> QED
        BY <1>4, <3>1
    <2>3. PostInv' /\ DeclaredInv' /\ NothingReadyInv'
      BY <1>1, <2>2 DEF ServeInv, PostInv, DeclaredInv, NothingReadyInv
    <2>4. \A u \in Sched : WakingUp(u)' = WakingUp(u) /\ c \notin WakingUp(u)
      BY <1>1, <2>1, <2>2 DEF WakingUp
    <2>5. IdleServesReady'
      BY <1>1, <2>4 DEF ServeInv, ReadyIsServed, IdleServesReady
    <2>6. WakeUpSignalled'
      <3> SUFFICES ASSUME NEW u \in Sched, NEW d \in WakingUp(u), pc[d] = "sleep"
                   PROVE  ipi'[d] \/ handler'[d] # None \/ \E b \in Caller : le'[b] = d
        BY <2>2, <2>4, SMTT(30) DEF WakeUpSignalled
      <3>1. d \in CPU /\ d # c
        BY <2>4, SMTT(30) DEF WakingUp
      <3>2. ipi[d] \/ handler[d] # None \/ \E b \in Caller : le[b] = d
        BY DEF ServeInv, ReadyIsServed, WakeUpSignalled
      <3> QED
        BY <1>1, <1>2, <3>1, <3>2
    <2> QED
      BY <2>3, <2>5, <2>6 DEF ServeInv, ReadyIsServed
  <1> QED
    BY <1>3, <1>4 DEF TakeIpi

\* A processor leaves x, a context or its own start-up, for the next context or
\* for its idle context: no processor on its way to the run queue is lost.
LEMMA SwitchServe ==
  ASSUME IInv, ServeInv, NEW c \in CPU, NEW s \in Sched, s = scheduler_get[c],
         NEW x, NEW y, NEW r, NEW p, NEW t, x = cur[c], handler[c] = None, NextIs(s, c, y, p),
         \/ x \in Ctx /\ r \in {"resume", "dead"}
         \/ x = c /\ pc[x] = "boot" /\ r = "first",
         pc[x] # "ipi",
         t = p \/ (root[s] # <<>> /\ x \in Ctx /\ t = Append(p, x)),
         cur' = [cur EXCEPT ![c] = y],
         root' = [root EXCEPT ![s] = t],
         pc' = [pc EXCEPT ![x] = r],
         UNCHANGED <<idleCpu, handler, le, ipi>>
  PROVE  ServeInv'
  <1> USE SchedulerAssumption
  <1>1. /\ pc \in [Ctx \cup CPU \cup Irq -> Pc] /\ cur \in [CPU -> Ctx \cup CPU]
        /\ root \in [Sched -> Seq(Ctx)] /\ Caller = Ctx \cup Irq
        /\ \A u \in Sched : Elems(idleCpu[u]) \subseteq CPU
        /\ \A d \in CPU : d \notin Ctx /\ d \notin Irq
    BY ElemsType DEF IInv, TypeOK, Caller
  <1>2. /\ \A b \in Ctx \cup CPU \cup Irq : b # x => pc'[b] = pc[b]
        /\ pc'[x] = r /\ cur'[c] = y
        /\ \A d \in CPU : d # c => cur'[d] = cur[d] /\ pc'[d] = pc[d]
        /\ root'[s] = t /\ \A u \in Sched : u # s => root'[u] = root[u]
    BY <1>1, SMTT(30)
  <1>3. pc'[c] \in {"first", "declare"} /\ pc[c] \in {"boot", "first", "declare"}
    BY <1>1, <1>2, SMTT(30) DEF IInv, IdleInv
  <1>4. /\ p \in Seq(Ctx) /\ t \in Seq(Ctx) /\ Len(t) <= Len(root[s])
        /\ y = c => root[s] = <<>> /\ t = <<>>
        /\ root[s] = <<>> => t = <<>>
    <2>1. CASE root[s] # <<>> /\ y = Head(root[s]) /\ p = Tail(root[s])
      <3>1. p \in Seq(Ctx) /\ Len(p) = Len(root[s]) - 1 /\ Len(root[s]) \in Nat /\ y \in Ctx
        BY <1>1, <2>1, SMTT(30)
      <3>2. ASSUME t # p PROVE t \in Seq(Ctx) /\ Len(t) = Len(p) + 1
        <4>1. x \in Ctx /\ t = Append(p, x)
          BY <3>2
        <4> QED
          BY <3>1, <4>1, SMTT(30)
      <3>3. y # c
        BY <1>1, <3>1
      <3>4. Len(t) <= Len(root[s]) /\ t \in Seq(Ctx)
        BY <3>1, <3>2, SMTT(30)
      <3> QED
        BY <2>1, <3>1, <3>3, <3>4
    <2>2. CASE root[s] = <<>> /\ y = c /\ p = <<>>
      BY <2>2, SMTT(30)
    <2> QED
      BY <2>1, <2>2 DEF NextIs
  <1>5. PostInv'
    <2>1. \A b \in Caller : pc'[b] = "ipi" <=> pc[b] = "ipi"
      BY <1>1, <1>2
    <2> QED
      BY <2>1 DEF ServeInv, PostInv
  <1>6. DeclaredInv'
    <2>1. \A u \in Sched : \A d \in Elems(idleCpu[u]) : d \in CPU /\ d # c
      BY <1>1, <1>3, SMTT(30) DEF ServeInv, DeclaredInv
    <2> QED
      BY <1>2, <2>1, SMTT(30) DEF ServeInv, DeclaredInv
  <1>7. NothingReadyInv'
    <2> SUFFICES ASSUME NEW d \in CPU, cur'[d] = d, pc'[d] = "declare"
                 PROVE  root'[scheduler_get[d]] = <<>>
      BY DEF NothingReadyInv
    <2>1. CASE d = c
      BY <1>2, <1>4, <2>1
    <2>2. CASE d # c
      <3>1. root[scheduler_get[d]] = <<>>
        BY <1>2, <2>2 DEF ServeInv, NothingReadyInv
      <3> QED
        BY <1>2, <1>4, <3>1
    <2> QED
      BY <2>1, <2>2
  <1>8. \A u \in Sched : WakingUp(u)' = WakingUp(u) /\ c \notin WakingUp(u)
    BY <1>2, <1>3, SMTT(30) DEF WakingUp
  <1>9. IdleServesReady'
    <2> SUFFICES ASSUME NEW u \in Sched
                 PROVE  idleCpu'[u] # <<>> => Len(root'[u]) <= Cardinality(WakingUp(u)')
      BY DEF IdleServesReady
    <2>1. /\ root[u] \in Seq(Ctx) /\ root'[u] \in Seq(Ctx) /\ Len(root'[u]) <= Len(root[u])
          /\ idleCpu'[u] = idleCpu[u]
      BY <1>1, <1>2, <1>4, SMTT(30)
    <2>2. idleCpu[u] # <<>> => Len(root[u]) <= Cardinality(WakingUp(u))
      BY DEF ServeInv, ReadyIsServed, IdleServesReady
    <2> QED
      BY <1>8, <2>1, <2>2, StillServed
  <1>10. WakeUpSignalled'
    <2> SUFFICES ASSUME NEW u \in Sched, NEW d \in WakingUp(u), pc'[d] = "sleep"
                 PROVE  ipi[d] \/ handler[d] # None \/ \E b \in Caller : le[b] = d
      BY <1>8, SMTT(30) DEF WakeUpSignalled
    <2>1. pc[d] = "sleep"
      BY <1>2, <1>8 DEF WakingUp
    <2> QED
      BY <2>1 DEF ServeInv, ReadyIsServed, WakeUpSignalled
  <1> QED
    BY <1>5, <1>6, <1>7, <1>9, <1>10 DEF ServeInv, ReadyIsServed

\* Waiting, yielding and exiting are such steps.
LEMMA LeaveServe ==
  ASSUME IInv, ServeInv, NEW c \in CPU,
         WaitSwitch(c) \/ sched_context_switch(c) \/ sched_context_exit(c)
  PROVE  ServeInv'
  <1> USE SchedulerAssumption
  <1>a. PICK x, s : x = On(c) /\ s = scheduler_get[c]
    OBVIOUS
  <1>1. s \in Sched
    BY <1>a
  <1>2. ASSUME x \in Ctx \/ x = c PROVE handler[c] = None /\ cur[c] = x
    BY <1>2, <1>a, OnAgent, SMTT(30) DEF IInv
  <1>3. NextIs(s, c, candidate(s, c), AfterPop(s))
    BY DEF NextIs, candidate, AfterPop
  <1>4. CASE WaitSwitch(c)
    <2>1. x \in Ctx /\ pc[x] = "switch"
      BY <1>4, <1>a DEF WaitSwitch
    <2>2. ls[x] = s
      BY <1>2, <1>a, <2>1 DEF IInv, SchedInv
    <2>3. /\ cur' = [cur EXCEPT ![c] = candidate(s, c)]
          /\ root' = [root EXCEPT ![s] = AfterPop(s)]
          /\ pc' = [pc EXCEPT ![x] = "resume"]
          /\ UNCHANGED <<idleCpu, handler, le, ipi>>
      BY <1>4, <1>a, <2>2 DEF WaitSwitch
    <2> QED
      BY <1>1, <1>2, <1>3, <1>a, <2>1, <2>3, SwitchServe
  <1>5. CASE sched_context_switch(c)
    <2>1. /\ x \in Ctx /\ pc[x] = "run" /\ root[s] # <<>>
          /\ cur' = [cur EXCEPT ![c] = Head(root[s])]
          /\ pc' = [pc EXCEPT ![x] = "resume"]
          /\ UNCHANGED <<idleCpu, handler, le, ipi>>
      BY <1>5, <1>a DEF sched_context_switch, SwitchOut, candidate_noidle
    <2>2. root' = [root EXCEPT ![s] = Append(Tail(root[s]), x)]
      BY <1>5, <1>a, <2>1 DEF sched_context_switch, SwitchOut, sched_cur
    <2>3. NextIs(s, c, Head(root[s]), Tail(root[s]))
      BY <2>1 DEF NextIs
    <2> QED
      BY <1>1, <1>2, <1>a, <2>1, <2>2, <2>3, SwitchServe
  <1>6. CASE sched_context_exit(c)
    <2>1. /\ \/ x \in Ctx /\ pc[x] = "run" /\ pc' = [pc EXCEPT ![x] = "dead"]
             \/ x = c /\ pc[x] = "boot" /\ pc' = [pc EXCEPT ![x] = "first"]
          /\ cur' = [cur EXCEPT ![c] = candidate(s, c)]
          /\ root' = [root EXCEPT ![s] = AfterPop(s)]
          /\ UNCHANGED <<idleCpu, handler, le, ipi>>
      BY <1>6, <1>a DEF sched_context_exit
    <2>2. CASE x \in Ctx /\ pc[x] = "run" /\ pc' = [pc EXCEPT ![x] = "dead"]
      BY <1>1, <1>2, <1>3, <1>a, <2>1, <2>2, SwitchServe
    <2>3. CASE x = c /\ pc[x] = "boot" /\ pc' = [pc EXCEPT ![x] = "first"]
      BY <1>1, <1>2, <1>3, <1>a, <2>1, <2>3, SwitchServe
    <2> QED
      BY <2>1, <2>2, <2>3
  <1> QED
    BY <1>4, <1>5, <1>6

\* A processor that finds a ready context takes it: one less of each.
LEMMA IdleSwitchServe ==
  ASSUME IInv, ServeInv, NEW c \in CPU, IdleSwitch(c)
  PROVE  ServeInv'
  <1> USE SchedulerAssumption
  <1>a. PICK s, y : s = scheduler_get[c] /\ y = Head(root[s])
    OBVIOUS
  <1>1. /\ On(c) = c /\ pc[c] = "poll" /\ root[s] # <<>>
        /\ cur' = [cur EXCEPT ![c] = y]
        /\ root' = [root EXCEPT ![s] = Tail(@)]
        /\ pc' = [pc EXCEPT ![c] = "declare"]
        /\ UNCHANGED <<idleCpu, handler, le, ipi>>
    BY <1>a DEF IdleSwitch, candidate_noidle
  <1>2. /\ pc \in [Ctx \cup CPU \cup Irq -> Pc] /\ cur \in [CPU -> Ctx \cup CPU]
        /\ root \in [Sched -> Seq(Ctx)] /\ Caller = Ctx \cup Irq
        /\ \A u \in Sched : Elems(idleCpu[u]) \subseteq CPU
        /\ \A d \in CPU : d \notin Ctx /\ d \notin Irq
        /\ s \in Sched /\ cur[c] = c
    <2>1. s \in Sched /\ cur[c] = c
      BY <1>1, <1>a, OnAgent, SMTT(30) DEF IInv
    <2> QED
      BY <2>1, ElemsType DEF IInv, TypeOK, Caller
  <1>3. /\ \A b \in Ctx \cup CPU \cup Irq : b # c => pc'[b] = pc[b]
        /\ pc'[c] = "declare" /\ cur'[c] = y
        /\ \A d \in CPU : d # c => cur'[d] = cur[d] /\ pc'[d] = pc[d]
        /\ root'[s] = Tail(root[s]) /\ \A u \in Sched : u # s => root'[u] = root[u]
    BY <1>1, <1>2
  <1>4. y \in Ctx /\ Len(root'[s]) = Len(root[s]) - 1 /\ Len(root[s]) \in Nat
    BY <1>1, <1>2, <1>3, <1>a, SMTT(30)
  <1>5. PostInv'
    <2>1. \A b \in Caller : pc'[b] = pc[b]
      BY <1>2, <1>3
    <2> QED
      BY <1>1, <2>1 DEF ServeInv, PostInv
  <1>6. \A u \in Sched : \A d \in Elems(idleCpu[u]) : d \in CPU /\ d # c
    BY <1>1, <1>2 DEF ServeInv, DeclaredInv
  <1>7. DeclaredInv'
    BY <1>1, <1>3, <1>6, SMTT(30) DEF ServeInv, DeclaredInv
  <1>8. NothingReadyInv'
    <2> SUFFICES ASSUME NEW d \in CPU, cur'[d] = d, pc'[d] = "declare"
                 PROVE  root'[scheduler_get[d]] = <<>>
      BY DEF NothingReadyInv
    <2>1. d # c
      BY <1>2, <1>3, <1>4, SMTT(30)
    <2>2. root[scheduler_get[d]] = <<>>
      BY <1>3, <2>1 DEF ServeInv, NothingReadyInv
    <2> QED
      BY <1>1, <1>3, <2>2
  <1>9. /\ c \in WakingUp(s) /\ WakingUp(s)' = WakingUp(s) \ {c}
        /\ \A u \in Sched : u # s => WakingUp(u)' = WakingUp(u)
    <2>1. c \in WakingUp(s) /\ c \notin WakingUp(s)'
      BY <1>1, <1>2, <1>3, <1>6, <1>a DEF WakingUp
    <2>2. \A u \in Sched : \A d \in CPU : d # c => (d \in WakingUp(u)' <=> d \in WakingUp(u))
      BY <1>1, <1>3 DEF WakingUp
    <2>3. \A u \in Sched : u # s => c \notin WakingUp(u)' /\ c \notin WakingUp(u)
      BY <1>a DEF WakingUp
    <2>4. \A u \in Sched : WakingUp(u) \subseteq CPU /\ WakingUp(u)' \subseteq CPU
      BY DEF WakingUp
    <2>5. WakingUp(s)' = WakingUp(s) \ {c}
      BY <1>2, <2>1, <2>2, <2>4, SMTT(30)
    <2>6. ASSUME NEW u \in Sched, u # s PROVE WakingUp(u)' = WakingUp(u)
      <3>1. \A d : d \in WakingUp(u)' <=> d \in WakingUp(u)
        BY <2>2, <2>3, <2>4, <2>6
      <3> QED
        BY <3>1
    <2> QED
      BY <2>1, <2>5, <2>6
  <1>10. IdleServesReady'
    <2> SUFFICES ASSUME NEW u \in Sched, idleCpu[u] # <<>>
                 PROVE  Len(root'[u]) <= Cardinality(WakingUp(u)')
      BY <1>1 DEF IdleServesReady
    <2>1. Len(root[u]) <= Cardinality(WakingUp(u))
      BY DEF ServeInv, ReadyIsServed, IdleServesReady
    <2>2. CASE u = s
      <3>1. Cardinality(WakingUp(s)') = Cardinality(WakingUp(s)) - 1
        BY <1>2, <1>9, WakingUpSet, FS_RemoveElement
      <3> QED
        BY <1>2, <1>4, <2>1, <2>2, <3>1, WakingUpSet, SMTT(30)
    <2>3. CASE u # s
      BY <1>3, <1>9, <2>1, <2>3
    <2> QED
      BY <2>2, <2>3
  <1>11. WakeUpSignalled'
    <2> SUFFICES ASSUME NEW u \in Sched, NEW d \in WakingUp(u)', pc'[d] = "sleep"
                 PROVE  ipi[d] \/ handler[d] # None \/ \E b \in Caller : le[b] = d
      BY <1>1 DEF WakeUpSignalled
    <2>1. d \in WakingUp(u) /\ d \in CPU /\ d # c
      BY <1>3, <1>9, SMTT(30) DEF WakingUp
    <2>2. pc[d] = "sleep"
      BY <1>3, <2>1
    <2> QED
      BY <2>1, <2>2 DEF ServeInv, ReadyIsServed, WakeUpSignalled
  <1> QED
    BY <1>5, <1>7, <1>8, <1>10, <1>11 DEF ServeInv, ReadyIsServed

\* What a push at the front of the list of idle processors does to it.
LEMMA PrependElems ==
  ASSUME NEW S, NEW seq \in Seq(S), NEW x \in S
  PROVE  /\ <<x>> \o seq \in Seq(S)
         /\ Elems(<<x>> \o seq) = Elems(seq) \cup {x}
         /\ NoDup(seq) /\ x \notin Elems(seq) => NoDup(<<x>> \o seq)
  <1> DEFINE t == <<x>> \o seq
             n == Len(seq)
  <1>1. /\ n \in Nat /\ DOMAIN seq = 1..n
        /\ t \in Seq(S) /\ DOMAIN t = 1..(n + 1)
        /\ t[1] = x /\ \A i \in 1..n : t[i + 1] = seq[i]
    BY SMTT(30)
  <1> HIDE DEF t, n
  <1>2. \A i \in 1..(n + 1) : i = 1 \/ (i - 1 \in 1..n /\ (i - 1) + 1 = i)
    BY <1>1, SMTT(30)
  <1>3. 1 \in 1..(n + 1) /\ \A i \in 1..n : i + 1 \in 1..(n + 1) /\ i + 1 # 1
    BY <1>1, SMTT(30)
  <1>4. Elems(t) = Elems(seq) \cup {x}
    <2>1. ASSUME NEW y \in Elems(t) PROVE y \in Elems(seq) \cup {x}
      <3>1. PICK i \in 1..(n + 1) : t[i] = y
        BY <1>1, <2>1 DEF Elems
      <3>2. CASE i = 1
        BY <1>1, <3>1, <3>2
      <3>3. CASE i # 1
        <4>1. seq[i - 1] = y /\ i - 1 \in 1..n
          BY <1>1, <1>2, <3>1, <3>3
        <4> QED
          BY <1>1, <4>1 DEF Elems
      <3> QED
        BY <3>2, <3>3
    <2>2. ASSUME NEW y \in Elems(seq) PROVE y \in Elems(t)
      BY <1>1, <1>3, <2>2 DEF Elems
    <2>3. x \in Elems(t)
      BY <1>1, <1>3 DEF Elems
    <2> QED
      BY <2>1, <2>2, <2>3
  <1>5. ASSUME NoDup(seq), x \notin Elems(seq) PROVE NoDup(t)
    <2>1. \A i \in 1..n : t[i + 1] = seq[i] /\ seq[i] # x
      BY <1>1, <1>5 DEF Elems
    <2> SUFFICES ASSUME NEW i \in 1..(n + 1), NEW j \in 1..(n + 1), t[i] = t[j] PROVE i = j
      BY <1>1 DEF NoDup
    <2>2. CASE i = 1 \/ j = 1
      <3>1. \A k \in 1..(n + 1) : k # 1 => t[k] # x
        <4> SUFFICES ASSUME NEW k \in 1..(n + 1), k # 1 PROVE t[k] # x
          OBVIOUS
        <4>1. k - 1 \in 1..n /\ (k - 1) + 1 = k
          BY <1>2
        <4> QED
          BY <2>1, <4>1
      <3> QED
        BY <1>1, <2>2, <3>1
    <2>3. CASE i # 1 /\ j # 1
      <3>1. /\ i - 1 \in 1..n /\ j - 1 \in 1..n
            /\ t[i] = seq[i - 1] /\ t[j] = seq[j - 1]
        BY <1>1, <1>2, <2>3
      <3>2. i - 1 = j - 1
        BY <1>1, <1>5, <3>1 DEF NoDup
      <3> QED
        BY <3>2, SMTT(30)
    <2> QED
      BY <2>2, <2>3
  <1> QED
    BY <1>1, <1>4, <1>5 DEF t

\* A processor that found nothing ready declares itself idle and sleeps, or
\* polls again; it is not on its way any more, but nothing is ready either.
LEMMA IdleDeclareServe ==
  ASSUME IInv, ServeInv, NEW c \in CPU, IdleDeclare(c), IDLE # "irq"
  PROVE  ServeInv'
  <1> USE SchedulerAssumption
  <1>a. PICK s : s = scheduler_get[c]
    OBVIOUS
  <1>1. /\ On(c) = c /\ pc[c] \in {"declare", "poll"}
        /\ pc[c] = "poll" => root[s] = <<>>
        /\ UNCHANGED <<root, cur, handler, le, ipi>>
    BY <1>a DEF IdleDeclare
  <1>2. s \in Sched /\ cur[c] = c /\ root[s] = <<>>
    BY <1>1, <1>a, OnAgent, SMTT(30) DEF IInv, ServeInv, NothingReadyInv
  <1>3. /\ pc \in [Ctx \cup CPU \cup Irq -> Pc] /\ root \in [Sched -> Seq(Ctx)]
        /\ Caller = Ctx \cup Irq /\ idleCpu \in [Sched -> Seq(CPU)]
        /\ \A u \in Sched : Elems(idleCpu[u]) \subseteq CPU
        /\ \A d \in CPU : d \notin Ctx /\ d \notin Irq
    BY ElemsType DEF IInv, TypeOK, Caller
  <1>4. \A u \in Sched : \A d \in Elems(idleCpu[u]) : d \in CPU /\ d # c
    BY <1>1, <1>3 DEF ServeInv, DeclaredInv
  <1>5. CASE IDLE = "poll"
    <2>1. pc' = [pc EXCEPT ![c] = "wake"] /\ idleCpu' = idleCpu
      BY <1>5 DEF IdleDeclare
    <2>2. pc'[c] = "wake" /\ \A b \in Ctx \cup CPU \cup Irq : b # c => pc'[b] = pc[b]
      BY <1>3, <2>1
    <2>3. PostInv'
      BY <1>1, <1>3, <2>2 DEF ServeInv, PostInv
    <2>4. DeclaredInv'
      BY <1>1, <1>4, <2>1, <2>2, SMTT(30) DEF ServeInv, DeclaredInv
    <2>5. NothingReadyInv'
      BY <1>1, <2>2 DEF ServeInv, NothingReadyInv
    <2>6. IdleServesReady'
      BY <1>5, <2>1 DEF IdleServesReady, ServeInv, DeclaredInv
    <2>7. WakeUpSignalled'
      <3> SUFFICES ASSUME NEW u \in Sched, NEW d \in WakingUp(u)', pc'[d] = "sleep"
                   PROVE  ipi[d] \/ handler[d] # None \/ \E b \in Caller : le[b] = d
        BY <1>1 DEF WakeUpSignalled
      <3>1. d \in CPU /\ d # c
        BY <2>2 DEF WakingUp
      <3>2. d \in WakingUp(u) /\ pc[d] = "sleep"
        BY <1>1, <2>1, <2>2, <3>1 DEF WakingUp
      <3> QED
        BY <3>2 DEF ServeInv, ReadyIsServed, WakeUpSignalled
    <2> QED
      BY <2>3, <2>4, <2>5, <2>6, <2>7 DEF ServeInv, ReadyIsServed
  <1>6. CASE IDLE = "ipi"
    <2>1. pc' = [pc EXCEPT ![c] = "sleep"] /\ idleCpu' = [idleCpu EXCEPT ![s] = <<c>> \o @]
      BY <1>6, <1>a DEF IdleDeclare
    <2>2. pc'[c] = "sleep" /\ \A b \in Ctx \cup CPU \cup Irq : b # c => pc'[b] = pc[b]
      BY <1>3, <2>1
    <2>3. /\ idleCpu'[s] = <<c>> \o idleCpu[s]
          /\ \A u \in Sched : u # s => idleCpu'[u] = idleCpu[u]
      BY <1>2, <1>3, <2>1
    <2>4. /\ Elems(idleCpu'[s]) = Elems(idleCpu[s]) \cup {c}
          /\ NoDup(idleCpu'[s])
      <3>1. idleCpu[s] \in Seq(CPU) /\ NoDup(idleCpu[s]) /\ c \notin Elems(idleCpu[s])
        BY <1>2, <1>3, <1>4, SMTT(30) DEF ServeInv, DeclaredInv
      <3> QED
        BY <2>3, <3>1, PrependElems, SMTT(30)
    <2>5. PostInv'
      BY <1>1, <1>3, <2>2 DEF ServeInv, PostInv
    <2>6. DeclaredInv'
      <3> SUFFICES ASSUME NEW u \in Sched
                   PROVE  /\ NoDup(idleCpu'[u])
                          /\ \A d \in Elems(idleCpu'[u]) : /\ scheduler_get[d] = u /\ cur[d] = d
                                                           /\ pc'[d] \in {"sleep", "wake"}
        BY <1>1, <1>6 DEF DeclaredInv
      <3>1. \A d \in Elems(idleCpu[u]) : /\ scheduler_get[d] = u /\ cur[d] = d
                                         /\ pc'[d] \in {"sleep", "wake"}
        BY <1>4, <2>2 DEF ServeInv, DeclaredInv
      <3>2. CASE u = s
        BY <1>2, <1>a, <2>2, <2>4, <3>1, <3>2
      <3>3. CASE u # s
        BY <2>3, <3>1, <3>3 DEF ServeInv, DeclaredInv
      <3> QED
        BY <3>2, <3>3
    <2>7. NothingReadyInv'
      BY <1>1, <2>2 DEF ServeInv, NothingReadyInv
    <2>8. ASSUME NEW u \in Sched, u # s PROVE WakingUp(u)' = WakingUp(u)
      <3>1. \A d \in CPU : d \in WakingUp(u)' <=> d \in WakingUp(u)
        BY <1>1, <1>a, <2>2, <2>3, <2>8 DEF WakingUp
      <3> QED
        BY <3>1 DEF WakingUp
    <2>9. IdleServesReady'
      <3> SUFFICES ASSUME NEW u \in Sched, idleCpu'[u] # <<>>
                   PROVE  Len(root[u]) <= Cardinality(WakingUp(u)')
        BY <1>1 DEF IdleServesReady
      <3>1. CASE u = s
        <4>1. Len(root[u]) = 0
          BY <1>2, <3>1
        <4> QED
          BY <4>1, WakingUpSet, SMTT(30)
      <3>2. CASE u # s
        BY <2>3, <2>8, <3>2 DEF ServeInv, ReadyIsServed, IdleServesReady
      <3> QED
        BY <3>1, <3>2
    <2>10. WakeUpSignalled'
      <3> SUFFICES ASSUME NEW u \in Sched, NEW d \in WakingUp(u)', pc'[d] = "sleep"
                   PROVE  ipi[d] \/ handler[d] # None \/ \E b \in Caller : le[b] = d
        BY <1>1 DEF WakeUpSignalled
      <3>1. d \in CPU /\ d # c
        BY <1>a, <2>4 DEF WakingUp
      <3>2. d \in WakingUp(u) /\ pc[d] = "sleep"
        <4>1. Elems(idleCpu[u]) \subseteq Elems(idleCpu'[u])
          BY <2>3, <2>4
        <4> QED
          BY <1>1, <2>2, <3>1, <4>1 DEF WakingUp
      <3> QED
        BY <3>2 DEF ServeInv, ReadyIsServed, WakeUpSignalled
    <2> QED
      BY <2>5, <2>6, <2>7, <2>9, <2>10 DEF ServeInv, ReadyIsServed
  <1> QED
    BY <1>5, <1>6

\* Device interrupts: one that interrupts a sleeping processor wakes it.
LEMMA IrqServe ==
  ASSUME IInv, ServeInv, NEW c \in CPU, IrqReturn(c) \/ \E d \in Irq : IrqEnter(c, d)
  PROVE  ServeInv'
  <1> USE SchedulerAssumption
  <1>1. /\ pc \in [Ctx \cup CPU \cup Irq -> Pc] /\ cur \in [CPU -> Ctx \cup CPU]
        /\ handler \in [CPU -> Irq \cup {None}] /\ Caller = Ctx \cup Irq
        /\ \A u \in Sched : Elems(idleCpu[u]) \subseteq CPU
        /\ \A d \in CPU : d \notin Ctx /\ d \notin Irq
        /\ cur[c] \in Ctx \cup {c} /\ None \notin Irq
    BY ElemsType DEF IInv, TypeOK, Caller
  <1>2. UNCHANGED <<root, idleCpu, cur, le, ipi>>
    BY DEF IrqReturn, IrqEnter
  <1>3. PICK d \in Irq :
          /\ pc'[d] \in {"run", "off"} /\ pc[d] \in {"off", "run", "iret"}
          /\ \A b \in Caller : b # d => pc'[b] = pc[b]
          /\ \A b \in CPU : b # c => pc'[b] = pc[b] /\ handler'[b] = handler[b]
          /\ \/ handler'[c] # None /\ pc'[c] = pc[c]
             \/ cur[c] = c /\ pc[c] = "sleep" /\ pc'[c] = "wake"
             \/ cur[c] # c /\ pc'[c] = pc[c]
    <2>1. ASSUME NEW d \in Irq, IrqEnter(c, d)
          PROVE  /\ pc'[d] \in {"run", "off"} /\ pc[d] \in {"off", "run", "iret"}
                 /\ \A b \in Caller : b # d => pc'[b] = pc[b]
                 /\ \A b \in CPU : b # c => pc'[b] = pc[b] /\ handler'[b] = handler[b]
                 /\ handler'[c] # None /\ pc'[c] = pc[c]
      BY <1>1, <2>1, SMTT(30) DEF IrqEnter
    <2>2. ASSUME IrqReturn(c)
          PROVE  LET d == On(c) IN
                 /\ d \in Irq
                 /\ pc'[d] \in {"run", "off"} /\ pc[d] \in {"off", "run", "iret"}
                 /\ \A b \in Caller : b # d => pc'[b] = pc[b]
                 /\ \A b \in CPU : b # c => pc'[b] = pc[b] /\ handler'[b] = handler[b]
                 /\ \/ cur[c] = c /\ pc[c] = "sleep" /\ pc'[c] = "wake"
                    \/ cur[c] # c /\ pc'[c] = pc[c]
      <3>a. PICK d : d = On(c)
        OBVIOUS
      <3>1. /\ d \in Irq /\ pc[d] \in {"run", "iret"}
            /\ handler' = [handler EXCEPT ![c] = None]
            /\ pc' = [pc EXCEPT ![d] = "off", ![cur[c]] = IF cur[c] = c THEN "wake" ELSE @]
        BY <2>2, <3>a DEF IrqReturn
      <3>2. pc[cur[c]] \in {"run", "sleep"}
        BY <1>1, <3>1, <3>a, OnAgent, SMTT(30) DEF IInv, IrqInv
      <3>3. CASE cur[c] = c
        <4>1. pc[c] = "sleep"
          BY <3>2, <3>3 DEF IInv, IdleInv
        <4>2. pc' = [pc EXCEPT ![d] = "off", ![c] = "wake"]
          BY <3>1, <3>3
        <4> QED
          BY <1>1, <3>1, <3>3, <3>a, <4>1, <4>2, SMTT(30)
      <3>4. CASE cur[c] # c
        <4>1. cur[c] \in Ctx /\ cur[c] # d
          BY <1>1, <3>1, <3>4
        <4>2. pc' = [pc EXCEPT ![d] = "off"]
          BY <1>1, <3>1, <3>4, <4>1
        <4> QED
          BY <1>1, <3>1, <3>4, <3>a, <4>2, SMTT(30)
      <3> QED
        BY <3>3, <3>4
    <2> QED
      BY <2>1, <2>2, SMTT(30)
  <1>4. PostInv'
    <2>1. \A b \in Caller : pc'[b] = "ipi" <=> pc[b] = "ipi"
      BY <1>3
    <2> QED
      BY <1>2, <2>1 DEF ServeInv, PostInv
  <1>5. \A b \in CPU : pc'[b] = pc[b] \/ (pc[b] = "sleep" /\ pc'[b] = "wake")
    BY <1>3
  <1>6. DeclaredInv'
    BY <1>1, <1>2, <1>5 DEF ServeInv, DeclaredInv
  <1>7. NothingReadyInv'
    BY <1>2, <1>5 DEF ServeInv, NothingReadyInv
  <1>8. \A u \in Sched : WakingUp(u)' = WakingUp(u)
    <2>1. \A u \in Sched, b \in CPU : b \in WakingUp(u)' <=> b \in WakingUp(u)
      BY <1>2, <1>5 DEF WakingUp
    <2> QED
      BY <2>1, SMTT(30) DEF WakingUp
  <1>9. IdleServesReady'
    BY <1>2, <1>8 DEF ServeInv, ReadyIsServed, IdleServesReady
  <1>10. WakeUpSignalled'
    <2> SUFFICES ASSUME NEW u \in Sched, NEW b \in WakingUp(u), pc'[b] = "sleep"
                 PROVE  ipi[b] \/ handler'[b] # None \/ \E a \in Caller : le[a] = b
      BY <1>2, <1>8, SMTT(30) DEF WakeUpSignalled
    <2>1. b \in CPU /\ cur[b] = b /\ pc[b] = "sleep"
      BY <1>5 DEF WakingUp
    <2>2. ipi[b] \/ handler[b] # None \/ \E a \in Caller : le[a] = b
      BY <2>1 DEF ServeInv, ReadyIsServed, WakeUpSignalled
    <2> QED
      BY <1>3, <2>1, <2>2
  <1> QED
    BY <1>4, <1>6, <1>7, <1>9, <1>10 DEF ServeInv, ReadyIsServed

\* Every step keeps ready contexts served, where idle processors have some way
\* to learn of work: an interrupt from another processor, or polling.
LEMMA NextServe ==
  ASSUME IInv, ServeInv, Next, IDLE # "irq"
  PROVE  ServeInv'
  <1>1. PICK c \in CPU : Step(c) \/ \E d \in Irq : IrqEnter(c, d)
    BY DEF Next
  <1>2. CASE sched_wait_unlock(c) \/ sched_context_stop_unlock(c)
    BY <1>2, CallServe DEF sched_wait_unlock, sched_context_stop_unlock
  <1> QED
    BY <1>1, <1>2, CallServe, IpiPostServe, PushServe, IdleLoopServe, TakeIpiServe, LeaveServe,
       IdleSwitchServe, IdleDeclareServe, IrqServe DEF Step

-----------------------------------------------------------------------------
(* Switching: a processor leaves cur[c] for the head of the run queue, or  *)
(* for its idle context.                                                   *)

\* What the invariant says of one context in a run queue, or of one in a
\* wait queue.
LEMMA QueuedContext ==
  ASSUME IInv
  PROVE  /\ \A s \in Sched : \A z \in Elems(root[s]) :
              pc[z] \in {"resume", "entry"} /\ scheduler[z] = s /\ \A d \in CPU : cur[d] # z
         /\ \A s \in Sched, q \in Waiting : \A z \in Elems(queue[q]) : z \notin Elems(root[s])
  BY DEF IInv, RootInv, ApartInv

\* Leaving x = cur[c], with pc r from now on, for y, where p is what is left
\* of the run queue and t what the run queue becomes.
LEMMA SwitchStep ==
  ASSUME IInv, NEW c \in CPU, NEW s \in Sched, s = scheduler_get[c], handler[c] = None,
         NEW x, NEW y, NEW r, NEW p, NEW t, x = cur[c], NextIs(s, c, y, p),
         \/ x \in Ctx /\ pc[x] = "switch" /\ r = "resume" /\ t = p
         \/ x \in Ctx /\ pc[x] = "run" /\ r = "dead" /\ t = p
         \/ x \in Ctx /\ pc[x] = "run" /\ r = "resume" /\ t = Append(p, x)
         \/ x = c /\ pc[x] = "boot" /\ r = "first" /\ t = p
         \/ x = c /\ pc[x] = "poll" /\ r = "declare" /\ t = p /\ y # c,
         cur' = [cur EXCEPT ![c] = y],
         root' = [root EXCEPT ![s] = t],
         pc' = [pc EXCEPT ![x] = r],
         ls' \in [Ctx \cup CPU -> Sched \cup {None}],
         ops' \in [Caller -> 0..MaxOps],
         \A z \in Ctx : z # x => ls'[z] = ls[z],
         r = "resume" => ls'[x] = s,
         \/ rootLock[s] = None /\ rootLock' = [rootLock EXCEPT ![s] = c]
         \/ UNCHANGED rootLock /\ pc[x] \in UnderRootLock,
         UNCHANGED <<idleCpu, scheduler, handler, queue, qLock, lq, lw, le, ipi, mainFreed>>
  PROVE  IInv'
  <1> USE SchedulerAssumption
  <1>1. /\ pc \in [Ctx \cup CPU \cup Irq -> Pc] /\ cur \in [CPU -> Ctx \cup CPU]
        /\ root \in [Sched -> Seq(Ctx)] /\ lw \in [Caller -> Ctx \cup {None}]
        /\ CPU \cap Ctx = {} /\ CPU \cap Irq = {} /\ Ctx \cap Irq = {}
        /\ x \in Ctx \cup {c} /\ r \in {"resume", "dead", "first", "declare"}
    BY DEF IInv, TypeOK
  <1>2. /\ p \in Seq(Ctx) /\ NoDup(p) /\ Elems(p) \subseteq Elems(root[s])
        /\ y \notin Elems(p)
        /\ \/ y \in Ctx /\ pc[y] \in {"resume", "entry"} /\ scheduler[y] = s
           \/ y = c
        /\ \A d \in CPU : y \in Ctx => cur[d] # y
        /\ \A u \in Sched : u # s => y \notin Elems(root[u])
        /\ \A q \in Waiting : y \notin Elems(queue[q])
        /\ \A a \in Caller : lw[a] # y
    BY NextContext, SMTT(30)
  <1>3. /\ \A d \in CPU : d # c => cur[d] # x
        /\ \A u \in Sched : x \notin Elems(root[u])
        /\ x \in Ctx /\ pc[x] # "switch" => /\ \A q \in Waiting : x \notin Elems(queue[q])
                                            /\ \A a \in Caller : lw[a] # x
    <2>1. \A d \in CPU : d # c => cur[d] # x
      BY DEF IInv, CurInv
    <2>2. \A u \in Sched : x \notin Elems(root[u])
      BY DEF IInv, RootInv
    <2>3. x \in Ctx /\ pc[x] # "switch" => /\ \A q \in Waiting : x \notin Elems(queue[q])
                                           /\ \A a \in Caller : lw[a] # x
      BY RunningIsNowhere
    <2> QED
      BY <2>1, <2>2, <2>3
  <1>4. /\ t \in Seq(Ctx) /\ NoDup(t)
        /\ \A z \in Elems(t) : z \in Elems(p) \/ (z = x /\ x \in Ctx /\ pc[x] = "run" /\ r = "resume")
    <2>1. CASE t = p
      BY <1>2, <2>1
    <2>2. CASE x \in Ctx /\ pc[x] = "run" /\ r = "resume" /\ t = Append(p, x)
      <3>1. x \notin Elems(p)
        BY <1>2, <1>3
      <3> QED
        BY <1>2, <2>2, <3>1, AppendElems, SMTT(30)
    <2> QED
      BY <2>1, <2>2
  <1>5. /\ \A b \in Ctx \cup CPU \cup Irq : b # x => pc'[b] = pc[b]
        /\ pc'[x] = r
        /\ \A d \in CPU : d # c => cur'[d] = cur[d]
        /\ cur'[c] = y
        /\ root'[s] = t /\ \A u \in Sched : u # s => root'[u] = root[u]
    BY <1>1
  <1>6. /\ x # y \/ (x = c /\ y = c /\ r = "first")
        /\ y = c /\ x # c => pc[c] \in {"first", "declare"}
        /\ pc'[y] \in {"resume", "entry", "first", "declare"}
    <2>1. x # y \/ (x = c /\ y = c /\ r = "first")
      BY <1>1, <1>2, SMTT(30)
    <2>2. y = c /\ x # c => pc[c] \in {"first", "declare"}
      BY DEF IInv, IdleInv
    <2> QED
      BY <1>1, <1>2, <1>5, <2>1, <2>2, SMTT(30)
  <1>7. TypeOK'
    <2>1. cur' \in [CPU -> Ctx \cup CPU] /\ \A d \in CPU : cur'[d] \in CPU => cur'[d] = d
      <3>1. y \in Ctx \cup {c} /\ \A d \in CPU : cur[d] \in CPU => cur[d] = d
        BY <1>2, SMTT(30) DEF IInv, TypeOK
      <3>2. cur' \in [CPU -> Ctx \cup CPU]
        BY <1>1, <3>1
      <3> QED
        BY <1>1, <1>5, <3>1, <3>2, SMTT(30)
    <2>2. root' \in [Sched -> Seq(Ctx)] /\ pc' \in [Ctx \cup CPU \cup Irq -> Pc]
      BY <1>1, <1>4 DEF Pc
    <2>3. rootLock' \in [Sched -> CPU \cup {None}]
      <3>1. rootLock \in [Sched -> CPU \cup {None}]
        BY DEF IInv, TypeOK
      <3> QED
        BY <3>1
    <2> QED
      BY <2>1, <2>2, <2>3 DEF IInv, TypeOK
  <1>8. CurInv'
    <2>1. \A d \in CPU : d # c => cur[d] # y
      BY <1>2, SMTT(30) DEF IInv, TypeOK
    <2> QED
      BY <1>5, <2>1, SMTT(30) DEF IInv, CurInv
  <1>9. IrqInv'
    <2>1. \A d \in CPU : handler[d] # None => cur'[d] = cur[d] /\ pc'[cur[d]] = pc[cur[d]]
      BY <1>1, <1>3, <1>5
    <2>2. \A i \in Irq : pc'[i] = pc[i]
      BY <1>1, <1>5, SMTT(30)
    <2> QED
      BY <2>1, <2>2, SMTT(30) DEF IInv, IrqInv
  <1>10. CtxInv'
    <2> SUFFICES ASSUME NEW z \in Ctx
                 PROVE  /\ pc'[z] \in {"run", "locked", "enq", "switch", "push", "ipi"} => \E d \in CPU : cur'[d] = z
                        /\ pc'[z] \in {"new", "dead"} => \A d \in CPU : cur'[d] # z
                        /\ pc'[z] \in {"new", "dead", "run", "locked", "enq", "switch", "resume",
                                       "entry", "push", "ipi"}
      BY DEF CtxInv
    <2>1. CASE z = x
      BY <1>1, <1>3, <1>5, <1>6, <2>1, SMTT(30)
    <2>2. CASE z # x
      BY <1>1, <1>2, <1>5, <2>2, SMTT(30) DEF IInv, CtxInv
    <2> QED
      BY <2>1, <2>2
  <1>11. IdleInv'
    <2> SUFFICES ASSUME NEW d \in CPU
                 PROVE  /\ pc'[d] \in {"boot", "first", "poll", "declare", "sleep", "wake"}
                        /\ cur'[d] # d => pc'[d] \in {"first", "declare"}
      BY DEF IdleInv
    <2>1. CASE d = x
      BY <1>1, <1>5, <2>1
    <2>2. CASE d # x
      BY <1>1, <1>5, <1>6, <2>2, SMTT(30) DEF IInv, IdleInv
    <2> QED
      BY <2>1, <2>2
  <1>12. RootInv'
    <2> SUFFICES ASSUME NEW u \in Sched
                 PROVE  /\ NoDup(root'[u])
                        /\ \A z \in Elems(root'[u]) :
                             /\ pc'[z] \in {"resume", "entry"} /\ scheduler'[z] = u
                             /\ \A d \in CPU : cur'[d] # z
      BY DEF RootInv
    <2>0. scheduler' = scheduler
      OBVIOUS
    <2>1. NoDup(root'[u])
      BY <1>4, <1>5, SMTT(30) DEF IInv, RootInv
    <2>2. ASSUME NEW z \in Elems(root[u]), z # y
          PROVE  pc'[z] \in {"resume", "entry"} /\ scheduler[z] = u /\ \A d \in CPU : cur'[d] # z
      <3>1. z \in Ctx /\ z # x
        BY <1>3, ElemsType, SMTT(30) DEF IInv, TypeOK
      <3>2. pc[z] \in {"resume", "entry"} /\ scheduler[z] = u /\ \A d \in CPU : cur[d] # z
        BY QueuedContext
      <3>3. \A d \in CPU : cur'[d] = cur[d] \/ cur'[d] = y
        BY <1>5
      <3> QED
        BY <1>5, <2>2, <3>1, <3>2, <3>3
    <2>3. x \in Ctx /\ r = "resume" => pc'[x] = "resume" /\ scheduler[x] = s /\ \A d \in CPU : cur'[d] # x
      BY <1>1, <1>3, <1>5, <1>6, SMTT(30) DEF IInv, SchedInv
    <2>4. \A z \in Elems(root'[u]) : (z \in Elems(root[u]) /\ z # y) \/ (z = x /\ u = s /\ x \in Ctx /\ r = "resume")
      BY <1>2, <1>4, <1>5, SMTT(30)
    <2> QED
      BY <2>0, <2>1, <2>2, <2>3, <2>4, SMTT(30)
  <1>13. QueueInv'
    <2> SUFFICES ASSUME NEW q \in Waiting, NEW z \in Elems(queue[q])
                 PROVE  /\ pc'[z] \in {"enq", "switch", "resume"}
                        /\ pc'[z] = "enq" => lq[z] = q
                        /\ pc'[z] = "resume" => \A d \in CPU : cur'[d] # z
      BY DEF IInv, QueueInv
    <2>1. z \in Ctx /\ z # y
      BY <1>2, ElemsType, SMTT(30) DEF IInv, TypeOK
    <2>2. CASE z = x
      BY <1>1, <1>3, <1>5, <2>1, <2>2, SMTT(30)
    <2>3. CASE z # x
      BY <1>5, <2>1, <2>3, SMTT(30) DEF IInv, QueueInv
    <2> QED
      BY <2>2, <2>3
  <1>14. HandInv'
    <2> SUFFICES ASSUME NEW a \in Caller
                 PROVE  /\ pc'[a] = "push" <=> lw[a] # None
                        /\ lw[a] # None => /\ pc'[lw[a]] \in {"switch", "resume", "entry"}
                                           /\ pc'[lw[a]] # "switch" => \A d \in CPU : cur'[d] # lw[a]
      BY SMTT(30) DEF HandInv
    <2>1. pc'[a] = "push" <=> pc[a] = "push"
      BY <1>1, <1>5 DEF Caller
    <2>2. ASSUME lw[a] # None
          PROVE  /\ pc'[lw[a]] \in {"switch", "resume", "entry"}
                 /\ pc'[lw[a]] # "switch" => \A d \in CPU : cur'[d] # lw[a]
      <3>1. lw[a] \in Ctx /\ lw[a] # y
        BY <1>1, <1>2, <2>2, SMTT(30)
      <3>2. CASE lw[a] = x
        BY <1>1, <1>3, <1>5, <3>1, <3>2, SMTT(30)
      <3>3. CASE lw[a] # x
        BY <1>5, <2>2, <3>1, <3>3, SMTT(30) DEF IInv, HandInv
      <3> QED
        BY <3>2, <3>3
    <2> QED
      BY <2>1, <2>2 DEF IInv, HandInv
  <1>15. ApartInv'
    <2>1. \A u \in Sched : \A z \in Elems(root'[u]) :
            z \in Elems(root[u]) \/ (z = x /\ x \in Ctx /\ pc[x] = "run")
      BY <1>2, <1>4, <1>5
    <2>2. \A u \in Sched, q \in Waiting : \A z \in Elems(queue[q]) : z \notin Elems(root'[u])
      <3> TAKE u \in Sched, q \in Waiting
      <3> TAKE z \in Elems(queue[q])
      <3>1. z \notin Elems(root[u])
        BY QueuedContext
      <3>2. x \in Ctx /\ pc[x] = "run" => x \notin Elems(queue[q])
        BY <1>3
      <3> QED
        BY <2>1, <3>1, <3>2
    <2>3. \A a \in Caller, u \in Sched : lw[a] \notin Elems(root'[u])
      <3>1. \A a \in Caller, u \in Sched : lw[a] \notin Elems(root[u])
        BY DEF IInv, ApartInv
      <3>2. x \in Ctx /\ pc[x] = "run" => \A a \in Caller : lw[a] # x
        BY <1>3
      <3> QED
        BY <2>1, <3>1, <3>2
    <2> QED
      BY <2>2, <2>3 DEF IInv, ApartInv
  <1>16. QLockInv'
    <2>1. \A a \in Caller : pc'[a] \in {"locked", "enq"} => pc[a] \in {"locked", "enq"}
      BY <1>1, <1>5 DEF Caller
    <2> QED
      BY <2>1 DEF IInv, QLockInv
  <1>17. SchedInv'
    <2>1. \A d \in CPU : cur'[d] \in Ctx => scheduler[cur'[d]] = scheduler_get[d]
      BY <1>1, <1>2, <1>5, SMTT(30) DEF IInv, SchedInv
    <2>2. \A z \in Ctx : pc'[z] \in {"switch", "resume"} => ls'[z] = scheduler[z]
      <3> TAKE z \in Ctx
      <3>1. CASE z = x
        BY <1>1, <1>5, <3>1 DEF IInv, SchedInv
      <3>2. CASE z # x
        BY <1>5, <3>2 DEF IInv, SchedInv
      <3> QED
        BY <3>1, <3>2
    <2> QED
      BY <2>1, <2>2 DEF SchedInv
  <1>18. RootLockInv'
    <2>1. \A d \in CPU : d # c => cur'[d] = cur[d] /\ pc'[cur'[d]] = pc[cur[d]]
      BY <1>1, <1>3, <1>5, SMTT(30)
    <2>2. pc'[cur'[c]] \in UnderRootLock
      BY <1>5, <1>6 DEF UnderRootLock
    <2> QED
      BY <2>1, <2>2, LockStep
  <1> QED
    BY <1>7, <1>8, <1>9, <1>10, <1>11, <1>12, <1>13, <1>14, <1>15, <1>16, <1>17, <1>18 DEF IInv


\* WaitSwitch preserves the invariant.
LEMMA WaitSwitchIInv ==
  ASSUME IInv, NEW c \in CPU, WaitSwitch(c)
  PROVE  IInv'
  <1> DEFINE x == On(c)
             s == scheduler_get[c]
  <1>1. x \in Ctx /\ pc[x] = "switch" /\ pc[x] \in UnderRootLock
    BY DEF WaitSwitch, UnderRootLock
  <1>2. handler[c] = None /\ cur[c] = x /\ s \in Sched
    BY <1>1, OnAgent, SchedulerAssumption DEF IInv
  <1>3. ls[x] = s
    BY <1>1, <1>2 DEF IInv, SchedInv
  <1>4. /\ cur' = [cur EXCEPT ![c] = candidate(s, c)]
        /\ root' = [root EXCEPT ![s] = AfterPop(s)]
        /\ pc' = [pc EXCEPT ![x] = "resume"]
        /\ UNCHANGED <<rootLock, idleCpu, scheduler, handler, queue, qLock, lq, lw, le, ls, ipi, ops, mainFreed>>
    BY <1>3 DEF WaitSwitch
  <1>5. NextIs(s, c, candidate(s, c), AfterPop(s))
    BY DEF candidate, AfterPop, NextIs
  <1>6. ls' \in [Ctx \cup CPU -> Sched \cup {None}] /\ ops' \in [Caller -> 0..MaxOps]
    BY <1>4 DEF IInv, TypeOK
  <1> HIDE DEF x, s
  <1> QED
    BY <1>1, <1>2, <1>3, <1>4, <1>5, <1>6, SwitchStep DEF s

\* sched_context_switch preserves the invariant.
LEMMA ContextSwitchIInv ==
  ASSUME IInv, NEW c \in CPU, sched_context_switch(c)
  PROVE  IInv'
  <1> DEFINE x == On(c)
             s == scheduler_get[c]
  <1>1. /\ x \in Ctx /\ pc[x] = "run" /\ ops[x] < MaxOps /\ ops' = [ops EXCEPT ![x] = @ + 1]
        /\ rootLock[s] = None /\ root[s] # <<>>
        /\ rootLock' = [rootLock EXCEPT ![s] = c]
        /\ ls' = [ls EXCEPT ![x] = s]
        /\ pc' = [pc EXCEPT ![x] = "resume"]
        /\ UNCHANGED <<idleCpu, scheduler, handler, queue, qLock, lq, lw, le, ipi, mainFreed>>
    BY DEF sched_context_switch, SwitchOut
  <1>2. handler[c] = None /\ cur[c] = x /\ s \in Sched
    BY <1>1, OnAgent, SchedulerAssumption DEF IInv
  <1> DEFINE y == Head(root[s])
             p == Tail(root[s])
             t == Append(p, x)
  <1>3. cur' = [cur EXCEPT ![c] = y] /\ root' = [root EXCEPT ![s] = t]
    BY <1>1, <1>2 DEF IInv, TypeOK, sched_context_switch, SwitchOut, candidate_noidle, sched_cur
  <1> HIDE DEF x
  <1>4. /\ ls' \in [Ctx \cup CPU -> Sched \cup {None}]
        /\ \A z \in Ctx : z # x => ls'[z] = ls[z]
        /\ ls'[x] = s
    BY <1>1, <1>2, SMTT(30) DEF IInv, TypeOK
  <1>5. ops' \in [Caller -> 0..MaxOps]
    <2>1. ops \in [Caller -> 0..MaxOps] /\ ops[x] \in 0..MaxOps
      BY <1>1 DEF IInv, TypeOK, Caller
    <2>2. ops[x] + 1 \in 0..MaxOps
      BY <1>1, <2>1, SchedulerAssumption, SMTT(30)
    <2> QED
      BY <1>1, <2>1, <2>2
  <1>6. NextIs(s, c, y, p) /\ t = Append(p, x) /\ s = scheduler_get[c]
    BY <1>1 DEF NextIs
  <1> HIDE DEF s, y, p, t
  <1> QED
    BY <1>1, <1>2, <1>3, <1>4, <1>5, <1>6, SwitchStep

\* sched_context_exit preserves the invariant.
LEMMA ExitIInv ==
  ASSUME IInv, NEW c \in CPU, sched_context_exit(c)
  PROVE  IInv'
  <1> DEFINE x == On(c)
             s == scheduler_get[c]
             r == IF x = c THEN "first" ELSE "dead"
  <1>1. /\ rootLock[s] = None
        /\ rootLock' = [rootLock EXCEPT ![s] = c]
        /\ cur' = [cur EXCEPT ![c] = candidate(s, c)]
        /\ root' = [root EXCEPT ![s] = AfterPop(s)]
        /\ pc' = [pc EXCEPT ![x] = r]
        /\ UNCHANGED <<idleCpu, scheduler, handler, queue, qLock, lq, lw, le, ls, ipi, ops, mainFreed>>
    BY DEF sched_context_exit
  <1>2. \/ x \in Ctx /\ pc[x] = "run" /\ r = "dead"
        \/ x = c /\ pc[x] = "boot" /\ r = "first"
    <2>1. c \notin Ctx
      BY SchedulerAssumption
    <2> QED
      BY <2>1 DEF sched_context_exit
  <1>3. handler[c] = None /\ cur[c] = x /\ s \in Sched
    BY <1>2, OnAgent, SchedulerAssumption DEF IInv
  <1>4. NextIs(s, c, candidate(s, c), AfterPop(s))
    BY DEF candidate, AfterPop, NextIs
  <1>5. ls' \in [Ctx \cup CPU -> Sched \cup {None}] /\ ops' \in [Caller -> 0..MaxOps]
    BY <1>1 DEF IInv, TypeOK
  <1> HIDE DEF x, s, r
  <1> QED
    BY <1>1, <1>2, <1>3, <1>4, <1>5, SwitchStep DEF s

\* IdleSwitch preserves the invariant.
LEMMA IdleSwitchIInv ==
  ASSUME IInv, NEW c \in CPU, IdleSwitch(c)
  PROVE  IInv'
  <1> DEFINE s == scheduler_get[c]
  <1>1. /\ On(c) = c /\ pc[c] = "poll" /\ root[s] # <<>>
        /\ pc' = [pc EXCEPT ![c] = "declare"]
        /\ UNCHANGED <<rootLock, idleCpu, scheduler, handler, queue, qLock, lq, lw, le, ls, ipi, ops, mainFreed>>
    BY DEF IdleSwitch
  <1>2. handler[c] = None /\ cur[c] = c /\ s \in Sched /\ pc[c] \in UnderRootLock
    BY <1>1, OnAgent, SchedulerAssumption, SMTT(30) DEF IInv, UnderRootLock
  <1> DEFINE y == Head(root[s])
             p == Tail(root[s])
  <1>3. cur' = [cur EXCEPT ![c] = y] /\ root' = [root EXCEPT ![s] = p]
    BY <1>1, <1>2 DEF IInv, TypeOK, IdleSwitch, candidate_noidle
  <1>4. ls' \in [Ctx \cup CPU -> Sched \cup {None}] /\ ops' \in [Caller -> 0..MaxOps]
    BY <1>1 DEF IInv, TypeOK
  <1>5. NextIs(s, c, y, p) /\ s = scheduler_get[c]
    BY <1>1 DEF NextIs
  <1>6. y # c
    BY <1>1, <1>2, SchedulerAssumption, SMTT(30) DEF IInv, TypeOK
  <1> HIDE DEF s, y, p
  <1> QED
    BY <1>1, <1>2, <1>3, <1>4, <1>5, <1>6, SwitchStep

-----------------------------------------------------------------------------
(* The theorems.                                                           *)

\* The invariant is preserved by every step.
LEMMA NextIInv == IInv /\ [Next]_vars => IInv'
  <1> SUFFICES ASSUME IInv, [Next]_vars PROVE IInv'
    BY SMTT(30)
  <1>1. CASE UNCHANGED vars
    <2>1. TypeOK'
      BY <1>1 DEF vars, IInv, TypeOK
    <2>2. CurInv' /\ IrqInv'
      BY <1>1 DEF vars, IInv, CurInv, IrqInv
    <2>5. CtxInv' /\ IdleInv'
      BY <1>1 DEF vars, IInv, CtxInv, IdleInv
    <2>3. RootInv' /\ QueueInv'
      BY <1>1 DEF vars, IInv, RootInv, QueueInv
    <2>6. HandInv' /\ ApartInv'
      BY <1>1 DEF vars, IInv, HandInv, ApartInv
    <2>4. QLockInv' /\ SchedInv' /\ RootLockInv'
      BY <1>1 DEF vars, IInv, QLockInv, SchedInv, RootLockInv
    <2> QED
      BY <2>1, <2>2, <2>3, <2>4, <2>5, <2>6 DEF IInv
  <1>2. CASE Next
    <2>1. PICK c \in CPU : Step(c) \/ \E d \in Irq : IrqEnter(c, d)
      BY <1>2 DEF Next
    <2>3. CASE \E d \in Irq : IrqEnter(c, d)
      BY <2>3, IrqEnterIInv
    <2>4. CASE Step(c)
      <3>1. ASSUME NEW q \in Waiting, sched_queue_wrlock(c, q) PROVE IInv'
        BY <3>1, WrlockIInv
      <3>2. ASSUME NEW x \in Ctx, sched_context_start(c, x) PROVE IInv'
        BY <3>2, StartIInv
      <3>3. CASE sched_wait_unlock(c) \/ sched_context_stop_unlock(c)
        BY <3>3, EnqueueIInv DEF sched_wait_unlock, sched_context_stop_unlock
      <3>4. CASE sched_queue_unlock(c) \/ WaitLockRoot(c) \/ sched_wake(c) \/ sched_context_push(c) \/ ipi_post(c)
        BY <3>4, UnlockIInv, WaitLockRootIInv, WakeIInv, PushIInv, IpiPostIInv
      <3>5. CASE Resume(c) \/ sched_unlock(c) \/ WaitSwitch(c) \/ sched_context_switch(c) \/ sched_context_exit(c)
        BY <3>5, ResumeIInv, SchedUnlockIInv, WaitSwitchIInv, ContextSwitchIInv, ExitIInv
      <3>6. CASE IdleFirst(c) \/ IdleSwitch(c) \/ IdleDeclare(c) \/ TakeIpi(c) \/ IdleLock(c) \/ IrqReturn(c)
        BY <3>6, IdleFirstIInv, IdleSwitchIInv, IdleDeclareIInv, TakeIpiIInv, IdleLockIInv, IrqReturnIInv
      <3> QED
        BY <2>4, <3>1, <3>2, <3>3, <3>4, <3>5, <3>6 DEF Step
    <2> QED
      BY <2>1, <2>3, <2>4
  <1> QED
    BY <1>1, <1>2

\* The inductive invariant holds of every run of the scheduler.
THEOREM Invariance == Spec => []IInv
  <1>1. IInv /\ [Next]_vars => IInv'
    BY NextIInv
  <1> QED
    BY InitIInv, <1>1, PTL DEF Spec

\* Type correctness: in particular every element of a run queue is a context
\* and a processor runs a context or its own idle loop, never another's.
THEOREM TypeCorrect == Spec => []TypeOK
  <1>1. IInv => TypeOK
    BY DEF IInv
  <1> QED
    BY <1>1, Invariance, PTL

\* A context runs on one processor at a time: sched_wait_unlock locks the run
\* queue before it lets a waker see the waiter.
THEOREM Exclusive == Spec => []OneCpuPerContext
  <1>1. IInv => OneCpuPerContext
    BY DEF IInv, CurInv, OneCpuPerContext
  <1> QED
    BY <1>1, Invariance, PTL

\* A context in a run queue is saved and is in no other queue.
THEOREM Saved == Spec => []ReadyIsSaved
  <1>1. IInv => ReadyIsSaved
    <2> SUFFICES ASSUME IInv, NEW s \in Sched, NEW x \in Elems(root[s])
                 PROVE  /\ pc[x] \in {"resume", "entry"}
                        /\ \A c \in CPU : cur[c] # x
                        /\ \A q \in Waiting : x \notin Elems(queue[q])
                        /\ \A a \in Caller : lw[a] # x
      BY DEF ReadyIsSaved
    <2>1. pc[x] \in {"resume", "entry"} /\ \A c \in CPU : cur[c] # x
      BY DEF IInv, RootInv
    <2>2. \A q \in Waiting : x \notin Elems(queue[q])
      BY DEF IInv, ApartInv
    <2>3. \A a \in Caller : lw[a] # x
      BY DEF IInv, ApartInv
    <2> QED
      BY <2>1, <2>2, <2>3
  <1> QED
    BY <1>1, Invariance, PTL

\* Contexts run where their affinity says.
THEOREM Affinity == Spec => []AffinityKept
  <1>1. IInv => AffinityKept
    BY DEF IInv, SchedInv, AffinityKept
  <1> QED
    BY <1>1, Invariance, PTL

\* The run queue lock is where the code believes it to be: every release of it
\* is by the processor that holds it.
THEOREM HandOver == Spec => []LockHandOver
  <1>1. IInv => LockHandOver
    <2> SUFFICES ASSUME IInv, NEW c \in CPU
                 PROVE  /\ pc[On(c)] \in UnderRootLock <=> \E s \in Sched : rootLock[s] = c
                        /\ pc[On(c)] \in UnderRootLock => rootLock[scheduler_get[c]] = c
                        /\ pc[On(c)] \in {"switch", "resume"} => ls[On(c)] = scheduler_get[c]
      BY DEF LockHandOver
    <2>1. pc[On(c)] \in UnderRootLock <=> pc[cur[c]] \in UnderRootLock
      <3>1. CASE handler[c] = None
        BY <3>1 DEF On
      <3>2. CASE handler[c] # None
        <4>1. On(c) \in Irq /\ pc[On(c)] \in {"off", "run", "locked", "push", "ipi", "iret"}
          BY <3>2, SMTT(30) DEF On, IInv, TypeOK, IrqInv
        <4>2. pc[cur[c]] \in {"run", "sleep"}
          BY <3>2 DEF IInv, IrqInv
        <4> QED
          BY <4>1, <4>2 DEF UnderRootLock
      <3> QED
        BY <3>1, <3>2
    <2>2. pc[cur[c]] \in UnderRootLock <=> \E s \in Sched : rootLock[s] = c
      BY SchedulerAssumption DEF IInv, RootLockInv
    <2>3. pc[cur[c]] \in UnderRootLock => rootLock[scheduler_get[c]] = c
      BY DEF IInv, RootLockInv
    <2>4. pc[On(c)] \in {"switch", "resume"} => ls[On(c)] = scheduler_get[c]
      <3>1. pc[On(c)] \in {"switch", "resume"} => On(c) \in Ctx
        BY OnAgent DEF IInv, IrqInv, IdleInv
      <3> QED
        BY <3>1, OnAgent DEF IInv, SchedInv
    <2> QED
      BY <2>1, <2>2, <2>3, <2>4
  <1> QED
    BY <1>1, Invariance, PTL

\* With inter-processor interrupts, or idle processors that poll, work never
\* waits for a busy processor while an idle one could take it, and no wake-up
\* is lost (scheduler.c:203, 238).  On one processor, without either, a wake-up
\* from a handler is seen when the handler returns.
THEOREM Served ==
  ASSUME IDLE # "irq"
  PROVE  Spec => []ReadyIsServed
  <1>1. IInv /\ ServeInv /\ [Next]_vars => ServeInv'
    <2>1. ASSUME IInv, ServeInv, Next PROVE ServeInv'
      BY <2>1, NextServe
    <2>2. ASSUME IInv, ServeInv, UNCHANGED vars PROVE ServeInv'
      BY <2>2, AsideServe DEF vars
    <2> QED
      BY <2>1, <2>2
  <1>2. ServeInv => ReadyIsServed
    BY DEF ServeInv
  <1> QED
    BY InitServe, Invariance, <1>1, <1>2, PTL DEF Spec

-----------------------------------------------------------------------------
(* The scheduler implements WaitQueues.                                    *)

\* What the status of a context stands for.
LEMMA StatusNow ==
  ASSUME IInv, NEW x \in Ctx
  PROVE  /\ statusBar[x] \in {"new", "dead", "blocked", "running", "ready"}
         /\ statusBar[x] = "new" <=> pc[x] = "new"
         /\ statusBar[x] = "dead" <=> pc[x] = "dead"
         /\ statusBar[x] = "blocked" <=> x \in Blocked
         /\ statusBar[x] = "running" <=> x \in Executing
  <1>1. ASSUME x \in Blocked
        PROVE  pc[x] \in {"enq", "switch", "resume"} /\ x \notin Executing
    BY <1>1, SMTT(30) DEF Blocked, Executing, IInv, QueueInv
  <1>2. ASSUME x \in Executing PROVE pc[x] \notin {"new", "dead"}
    BY <1>2 DEF Executing, IInv, CtxInv
  <1>3. CASE pc[x] \in {"new", "dead"}
    BY <1>1, <1>2, <1>3 DEF statusBar
  <1>4. CASE x \in Blocked
    BY <1>1, <1>2, <1>4 DEF statusBar
  <1>5. CASE x \in Executing
    BY <1>1, <1>2, <1>5 DEF statusBar
  <1>6. CASE pc[x] \notin {"new", "dead"} /\ x \notin Blocked /\ x \notin Executing
    BY <1>6 DEF statusBar
  <1> QED
    BY <1>3, <1>4, <1>5, <1>6

\* The same after a step.
LEMMA StatusNext ==
  ASSUME IInv', NEW x \in Ctx
  PROVE  /\ statusBar'[x] \in {"new", "dead", "blocked", "running", "ready"}
         /\ statusBar'[x] = "new" <=> pc'[x] = "new"
         /\ statusBar'[x] = "dead" <=> pc'[x] = "dead"
         /\ statusBar'[x] = "blocked" <=> x \in Blocked'
         /\ statusBar'[x] = "running" <=> x \in Executing'
  <1>1. ASSUME x \in Blocked'
        PROVE  pc'[x] \in {"enq", "switch", "resume"} /\ x \notin Executing'
    BY <1>1, SMTT(30) DEF Blocked, Executing, IInv, QueueInv
  <1>2. ASSUME x \in Executing' PROVE pc'[x] \notin {"new", "dead"}
    BY <1>2 DEF Executing, IInv, CtxInv
  <1>3. CASE pc'[x] \in {"new", "dead"}
    BY <1>1, <1>2, <1>3 DEF statusBar
  <1>4. CASE x \in Blocked'
    BY <1>1, <1>2, <1>4 DEF statusBar
  <1>5. CASE x \in Executing'
    BY <1>1, <1>2, <1>5 DEF statusBar
  <1>6. CASE pc'[x] \notin {"new", "dead"} /\ x \notin Blocked' /\ x \notin Executing'
    BY <1>6 DEF statusBar
  <1> QED
    BY <1>3, <1>4, <1>5, <1>6

\* Two statuses of a context are the same when they stand for the same.
LEMMA SameStatus ==
  ASSUME IInv, IInv', NEW x \in Ctx,
         pc'[x] = "new" <=> pc[x] = "new", pc'[x] = "dead" <=> pc[x] = "dead",
         x \in Blocked' <=> x \in Blocked, x \in Executing' <=> x \in Executing
  PROVE  statusBar'[x] = statusBar[x]
  BY StatusNow, StatusNext

\* statusBar is a function on contexts.
LEMMA StatusFunction ==
  /\ statusBar = [x \in Ctx |-> statusBar[x]] /\ statusBar' = [x \in Ctx |-> statusBar'[x]]
  /\ DOMAIN statusBar = Ctx /\ DOMAIN statusBar' = Ctx
  BY SMTT(30) DEF statusBar

\* It is the same when it is the same for each context.
LEMMA SameStatuses ==
  ASSUME \A x \in Ctx : statusBar'[x] = statusBar[x]
  PROVE  statusBar' = statusBar
  BY StatusFunction

\* A step that moves no context between the places a status stands for is a
\* stuttering step.
LEMMA AsideStutters ==
  ASSUME IInv, IInv', UNCHANGED <<queue, cur>>,
         \A x \in Ctx : /\ pc'[x] = "new" <=> pc[x] = "new"
                        /\ pc'[x] = "dead" <=> pc[x] = "dead"
                        /\ pc'[x] \in {"enq", "switch"} <=> pc[x] \in {"enq", "switch"}
  PROVE  UNCHANGED <<statusBar, queue>>
  <1>1. Blocked' = Blocked
    BY DEF Blocked
  <1>2. \A x \in Ctx : x \in Executing' <=> x \in Executing
    BY DEF Executing
  <1>3. \A x \in Ctx : statusBar'[x] = statusBar[x]
    BY <1>1, <1>2, SameStatus
  <1>4. statusBar' = statusBar
    BY <1>3, SameStatuses
  <1> QED
    BY <1>4

\* The abstract specification counts the same way.
LEMMA SameCount == ASSUME NEW S PROVE WQ!Cardinality(S) = Cardinality(S)
  BY DEF WQ!Cardinality, Cardinality

\* A processor that executes no running context is free: fewer contexts run
\* than there are processors.
LEMMA FreeCpu ==
  ASSUME IInv, NEW c \in CPU, cur[c] \notin Executing
  PROVE  Cardinality(WQ!Running) < Cardinality(CPU)
  <1> DEFINE R == WQ!Running
             f == [x \in R |-> CHOOSE d \in CPU : cur[d] = x]
  <1>1. \A x \in R : x \in Executing
    BY StatusNow DEF WQ!Running
  <1>2. \A x \in R : \E d \in CPU : cur[d] = x
    BY <1>1 DEF Executing
  <1>3. \A x \in R : f[x] \in CPU /\ cur[f[x]] = x
    BY <1>2
  <1> HIDE DEF f, R
  <1>4. \A x \in R : f[x] \in CPU \ {c}
    BY <1>1, <1>3
  <1>5. f \in Injection(R, CPU \ {c})
    <2>1. f \in [R -> CPU \ {c}]
      BY <1>4 DEF f
    <2>2. \A x, y \in R : f[x] = f[y] => x = y
      BY <1>3
    <2> QED
      BY <2>1, <2>2 DEF Injection, IsInjective
  <1>6. /\ IsFiniteSet(CPU \ {c}) /\ Cardinality(CPU \ {c}) = Cardinality(CPU) - 1
        /\ Cardinality(CPU) \in Nat
    BY FiniteProcessors, FS_RemoveElement, FS_CardinalityType
  <1>7. IsFiniteSet(R) /\ Cardinality(R) <= Cardinality(CPU \ {c})
    BY <1>5, <1>6, FS_Injection
  <1>8. Cardinality(R) \in Nat
    BY <1>7, FS_CardinalityType
  <1> QED
    BY <1>6, <1>7, <1>8, SMTT(30) DEF R

\* when processor c leaves x for y, y runs and the others are where they were
Switched(c, x, y) ==
  /\ \A z \in Ctx : z # x /\ z # y => statusBar'[z] = statusBar[z]
  /\ y \in Ctx => y # x /\ statusBar[y] = "ready" /\ statusBar'[y] = "running"
  /\ y \in Ctx \/ y = c
  /\ x \in Ctx => x \notin Executing'
  /\ Blocked' = Blocked
  /\ y = c => c \notin Ctx

\* A processor leaves x for y.
LEMMA SwitchStatus ==
  ASSUME IInv, IInv', NEW c \in CPU, NEW s \in Sched, NEW x, NEW y, NEW r, NEW p,
         x = cur[c], NextIs(s, c, y, p), UNCHANGED queue,
         cur' = [cur EXCEPT ![c] = y], pc' = [pc EXCEPT ![x] = r]
  PROVE  Switched(c, x, y)
  <1> USE SchedulerAssumption
  <1>1. /\ pc \in [Ctx \cup CPU \cup Irq -> Pc] /\ cur \in [CPU -> Ctx \cup CPU]
        /\ x \in Ctx \cup CPU /\ c \notin Ctx
    BY DEF IInv, TypeOK
  <1>2. /\ pc'[x] = r /\ cur'[c] = y
        /\ \A z \in Ctx : z # x => pc'[z] = pc[z]
        /\ \A d \in CPU : d # c => cur'[d] = cur[d] /\ cur[d] # x
    BY <1>1, SMTT(30) DEF IInv, CurInv
  <1>3. /\ \/ y \in Ctx /\ pc[y] \in {"resume", "entry"}
           \/ y = c
        /\ y \in Ctx => \A d \in CPU : cur[d] # y
        /\ \A q \in Waiting : y \notin Elems(queue[q])
    <2>1. /\ (y \in Ctx /\ pc[y] \in {"resume", "entry"} /\ scheduler[y] = s) \/ y = c
          /\ \A d \in CPU : y \in Ctx => cur[d] # y
          /\ \A q \in Waiting : y \notin Elems(queue[q])
      BY NextContext, SMTT(20)
    <2> QED
      BY <2>1
  <1>4. Blocked' = Blocked
    BY DEF Blocked
  <1>5. ASSUME NEW z \in Ctx, z # x, z # y PROVE statusBar'[z] = statusBar[z]
    <2>1. \A d \in CPU : cur'[d] = z <=> cur[d] = z
      BY <1>2, <1>5
    <2>2. z \in Executing' <=> z \in Executing
      BY <1>2, <1>5, <2>1 DEF Executing
    <2> QED
      BY <1>2, <1>4, <1>5, <2>2, SameStatus
  <1>6. ASSUME y \in Ctx PROVE y # x /\ statusBar[y] = "ready" /\ statusBar'[y] = "running"
    <2>1. y # x /\ pc[y] \in {"resume", "entry"} /\ pc'[y] = pc[y]
      BY <1>1, <1>2, <1>3, <1>6, SMTT(30)
    <2>2. y \notin Blocked /\ y \notin Executing
      BY <1>3, <1>6, SMTT(30) DEF Blocked, Executing
    <2>3. y \in Executing'
      BY <1>2, <1>6, <2>1 DEF Executing
    <2> QED
      BY <1>6, <2>1, <2>2, <2>3, StatusNow, StatusNext
  <1>7. ASSUME x \in Ctx PROVE x \notin Executing'
    <2>1. y # x
      BY <1>1, <1>3, <1>7
    <2> QED
      BY <1>2, <2>1 DEF Executing
  <1> QED
    BY <1>1, <1>3, <1>4, <1>5, <1>6, <1>7 DEF Switched

\* A processor that ran no context switches to y: it dispatches y, or nothing
\* changes.
LEMMA DispatchStep ==
  ASSUME IInv, IInv', NEW c \in CPU, NEW s \in Sched, NEW x, NEW y, NEW r, NEW p,
         x = cur[c], NextIs(s, c, y, p), UNCHANGED queue,
         cur' = [cur EXCEPT ![c] = y], pc' = [pc EXCEPT ![x] = r],
         x \in Ctx => pc[x] = "switch" /\ r = "resume"
  PROVE  (\E z \in Ctx : WQ!Dispatch(z)) \/ UNCHANGED <<statusBar, queue>>
  <1> USE SchedulerAssumption
  <1>1. /\ \A z \in Ctx : z # x /\ z # y => statusBar'[z] = statusBar[z]
        /\ y \in Ctx => y # x /\ statusBar[y] = "ready" /\ statusBar'[y] = "running"
        /\ y \in Ctx \/ y = c
        /\ x \in Ctx => x \notin Executing'
        /\ Blocked' = Blocked
        /\ y = c => c \notin Ctx
    <2>1. Switched(c, x, y)
      BY SwitchStatus
    <2> QED
      BY <2>1 DEF Switched
  <1>2. ASSUME x \in Ctx PROVE statusBar'[x] = statusBar[x]
    <2>1. pc'[x] = "resume" /\ pc[x] = "switch" /\ x \notin Executing
      BY <1>2 DEF IInv, TypeOK, Executing
    <2> QED
      BY <1>1, <1>2, <2>1, SameStatus
  <1>3. CASE y \in Ctx
    <2>1. cur[c] \notin Executing
      BY DEF Executing
    <2>2. Cardinality(WQ!Running) < Cardinality(CPU)
      BY <2>1, FreeCpu
    <2>3. \A z \in Ctx : z # y => statusBar'[z] = statusBar[z]
      BY <1>1, <1>2
    <2>4. statusBar' = [statusBar EXCEPT ![y] = "running"]
      BY <1>1, <1>3, <2>3, StatusFunction
    <2> QED
      BY <1>1, <1>3, <2>2, <2>4, SameCount DEF WQ!Dispatch
  <1>4. CASE y = c
    <2>1. \A z \in Ctx : statusBar'[z] = statusBar[z]
      BY <1>1, <1>2, <1>4
    <2>2. statusBar' = statusBar
      BY <2>1, SameStatuses
    <2> QED
      BY <2>2
  <1> QED
    BY <1>1, <1>3, <1>4

\* Waiting, its last part: the processor takes another context.
LEMMA WaitSwitchRefines ==
  ASSUME IInv, IInv', NEW c \in CPU, WaitSwitch(c)
  PROVE  (\E z \in Ctx : WQ!Dispatch(z)) \/ UNCHANGED <<statusBar, queue>>
  <1>a. PICK x, s : x = On(c) /\ s = ls[x]
    OBVIOUS
  <1>1. /\ x \in Ctx /\ pc[x] = "switch" /\ UNCHANGED queue
        /\ cur' = [cur EXCEPT ![c] = candidate(s, c)]
        /\ pc' = [pc EXCEPT ![x] = "resume"]
    BY <1>a DEF WaitSwitch
  <1>2. x = cur[c] /\ s \in Sched
    <2>1. x = cur[c]
      BY <1>1, <1>a, OnAgent DEF IInv
    <2> QED
      BY <1>1, <1>a, <2>1 DEF IInv, SchedInv, TypeOK
  <1>3. NextIs(s, c, candidate(s, c), AfterPop(s))
    BY DEF NextIs, candidate, AfterPop
  <1> QED
    BY <1>1, <1>2, <1>3, DispatchStep

\* An idle processor takes a ready context.
LEMMA IdleSwitchRefines ==
  ASSUME IInv, IInv', NEW c \in CPU, IdleSwitch(c)
  PROVE  (\E z \in Ctx : WQ!Dispatch(z)) \/ UNCHANGED <<statusBar, queue>>
  <1> USE SchedulerAssumption
  <1>a. PICK s : s = scheduler_get[c]
    OBVIOUS
  <1>1. /\ On(c) = c /\ root[s] # <<>> /\ UNCHANGED queue
        /\ cur' = [cur EXCEPT ![c] = Head(root[s])]
        /\ pc' = [pc EXCEPT ![c] = "declare"]
    BY <1>a DEF IdleSwitch, candidate_noidle
  <1>2. c = cur[c] /\ s \in Sched /\ c \notin Ctx
    BY <1>1, <1>a, OnAgent, SMTT(30) DEF IInv
  <1>3. NextIs(s, c, Head(root[s]), Tail(root[s]))
    BY <1>1 DEF NextIs
  <1> QED
    BY <1>1, <1>2, <1>3, DispatchStep

\* A context yields.
LEMMA YieldRefines ==
  ASSUME IInv, IInv', NEW c \in CPU, sched_context_switch(c)
  PROVE  \E x, y \in Ctx : WQ!Yield(x, y)
  <1> USE SchedulerAssumption
  <1>a. PICK x, s, y : x = On(c) /\ s = scheduler_get[c] /\ y = Head(root[s])
    OBVIOUS
  <1>1. /\ x \in Ctx /\ pc[x] = "run" /\ root[s] # <<>> /\ UNCHANGED queue
        /\ cur' = [cur EXCEPT ![c] = y]
        /\ pc' = [pc EXCEPT ![x] = "resume"]
    BY <1>a DEF sched_context_switch, SwitchOut, candidate_noidle
  <1>2. x = cur[c] /\ s \in Sched
    BY <1>1, <1>a, OnAgent DEF IInv
  <1>3. NextIs(s, c, y, Tail(root[s])) /\ y \in Ctx
    <2>1. root[s] \in Seq(Ctx)
      BY <1>2 DEF IInv, TypeOK
    <2> QED
      BY <1>1, <1>a, <2>1, SMTT(30) DEF NextIs
  <1>4. /\ \A z \in Ctx : z # x /\ z # y => statusBar'[z] = statusBar[z]
        /\ y # x /\ statusBar[y] = "ready" /\ statusBar'[y] = "running"
        /\ x \notin Executing' /\ Blocked' = Blocked
    <2>1. Switched(c, x, y)
      BY <1>1, <1>2, <1>3, SwitchStatus
    <2> QED
      BY <1>1, <1>3, <2>1 DEF Switched
  <1>5. statusBar[x] = "running" /\ statusBar'[x] = "ready"
    <2>1. x \in Executing /\ pc'[x] = "resume"
      BY <1>1, <1>2 DEF Executing, IInv, TypeOK
    <2>2. x \notin Blocked
      BY <1>1, <2>1, StatusNow
    <2> QED
      BY <1>1, <1>4, <2>1, <2>2, StatusNow, StatusNext
  <1>6. statusBar' = [statusBar EXCEPT ![x] = "ready", ![y] = "running"]
    BY <1>1, <1>3, <1>4, <1>5, StatusFunction
  <1> QED
    BY <1>1, <1>3, <1>4, <1>5, <1>6 DEF WQ!Yield

\* A context exits, or a processor ends its start-up.
LEMMA ExitRefines ==
  ASSUME IInv, IInv', NEW c \in CPU, sched_context_exit(c)
  PROVE  (\E z \in Ctx : WQ!Exit(z) \/ WQ!Dispatch(z)) \/ UNCHANGED <<statusBar, queue>>
  <1> USE SchedulerAssumption
  <1>a. PICK x, s, y : x = On(c) /\ s = scheduler_get[c] /\ y = candidate(s, c)
    OBVIOUS
  <1>1. /\ UNCHANGED queue /\ cur' = [cur EXCEPT ![c] = y]
        /\ \/ x \in Ctx /\ pc[x] = "run" /\ pc' = [pc EXCEPT ![x] = "dead"]
           \/ x = c /\ pc' = [pc EXCEPT ![x] = "first"]
    BY <1>a DEF sched_context_exit
  <1>2. x = cur[c] /\ s \in Sched
    BY <1>1, <1>a, OnAgent, SMTT(30) DEF IInv
  <1>3. NextIs(s, c, y, AfterPop(s))
    BY <1>a DEF NextIs, candidate, AfterPop
  <1>4. CASE x = c /\ pc' = [pc EXCEPT ![x] = "first"]
    BY <1>1, <1>2, <1>3, <1>4, DispatchStep
  <1>5. CASE x \in Ctx /\ pc[x] = "run" /\ pc' = [pc EXCEPT ![x] = "dead"]
    <2>1. /\ \A z \in Ctx : z # x /\ z # y => statusBar'[z] = statusBar[z]
          /\ y \in Ctx => y # x /\ statusBar[y] = "ready" /\ statusBar'[y] = "running"
          /\ y \in Ctx \/ y = c
          /\ y = c => c \notin Ctx
      <3>1. Switched(c, x, y)
        BY <1>1, <1>2, <1>3, <1>5, SwitchStatus
      <3> QED
        BY <3>1 DEF Switched
    <2>2. statusBar[x] = "running" /\ statusBar'[x] = "dead"
      <3>1. x \in Executing /\ pc'[x] = "dead"
        BY <1>2, <1>5 DEF Executing, IInv, TypeOK
      <3> QED
        BY <1>5, <3>1, StatusNow, StatusNext
    <2>3. CASE y \in Ctx
      <3>1. statusBar' = [statusBar EXCEPT ![x] = "dead", ![y] = "running"]
        BY <1>5, <2>1, <2>2, <2>3, StatusFunction
      <3> QED
        BY <1>1, <1>5, <2>1, <2>2, <2>3, <3>1 DEF WQ!Exit
    <2>4. CASE y = c
      <3>1. statusBar' = [statusBar EXCEPT ![x] = "dead"]
        BY <1>5, <2>1, <2>2, <2>4, StatusFunction
      <3> QED
        BY <1>1, <1>5, <2>2, <3>1 DEF WQ!Exit
    <2> QED
      BY <2>1, <2>3, <2>4
  <1> QED
    BY <1>1, <1>4, <1>5

\* A context puts itself in a wait queue: from now on it waits.
LEMMA EnqueueRefines ==
  ASSUME IInv, IInv', NEW c \in CPU, Enqueue(c)
  PROVE  \E x \in Ctx, q \in Waiting : WQ!Wait(x, q)
  <1> USE SchedulerAssumption
  <1>a. PICK x, q : x = On(c) /\ q = lq[x]
    OBVIOUS
  <1>1. /\ x \in Ctx /\ pc[x] = "locked" /\ UNCHANGED cur
        /\ queue' = [queue EXCEPT ![q] = Append(@, x)]
        /\ pc' = [pc EXCEPT ![x] = "enq"]
    BY <1>a DEF Enqueue
  <1>2. x = cur[c] /\ q \in Waiting
    <2>1. x \in Caller /\ lq[x] # None
      BY <1>1 DEF Caller, IInv, QLockInv
    <2>2. lq \in [Caller -> Waiting \cup {None}]
      BY DEF IInv, TypeOK
    <2>3. x = cur[c]
      BY <1>1, <1>a, OnAgent DEF IInv
    <2> QED
      BY <1>a, <2>1, <2>2, <2>3
  <1>3. /\ queue \in [Waiting -> Seq(Ctx)] /\ queue'[q] = Append(queue[q], x)
        /\ \A r \in Waiting : r # q => queue'[r] = queue[r]
        /\ pc'[x] = "enq" /\ \A z \in Ctx : z # x => pc'[z] = pc[z]
    <2>1. queue \in [Waiting -> Seq(Ctx)] /\ pc \in [Ctx \cup CPU \cup Irq -> Pc]
      BY DEF IInv, TypeOK
    <2> QED
      BY <1>1, <1>2, <2>1
  <1>4. Elems(queue'[q]) = Elems(queue[q]) \cup {x}
    <2>1. queue[q] \in Seq(Ctx)
      BY <1>2, <1>3
    <2>2. Elems(Append(queue[q], x)) = Elems(queue[q]) \cup {x}
      BY <1>1, <2>1, AppendElems
    <2> QED
      BY <1>3, <2>2
  <1>5. x \in Blocked' /\ \A z \in Ctx : z # x => (z \in Blocked' <=> z \in Blocked)
    <2>1. x \in Blocked'
      BY <1>2, <1>4 DEF Blocked
    <2>2. \A r \in Waiting : \A z \in Ctx : z # x => (z \in Elems(queue'[r]) <=> z \in Elems(queue[r]))
      BY <1>3, <1>4
    <2> QED
      BY <2>1, <2>2, SMTT(30) DEF Blocked
  <1>6. statusBar[x] = "running" /\ statusBar'[x] = "blocked"
    <2>1. x \in Executing
      BY <1>1, <1>2 DEF Executing
    <2> QED
      BY <1>1, <1>5, <2>1, StatusNow, StatusNext
  <1>7. \A z \in Ctx : z # x => statusBar'[z] = statusBar[z]
    <2> SUFFICES ASSUME NEW z \in Ctx, z # x PROVE statusBar'[z] = statusBar[z]
      OBVIOUS
    <2>1. z \in Executing' <=> z \in Executing
      BY <1>1, <1>3 DEF Executing
    <2> QED
      BY <1>3, <1>5, <2>1, SameStatus
  <1>8. statusBar' = [statusBar EXCEPT ![x] = "blocked"]
    BY <1>1, <1>6, <1>7, StatusFunction
  <1> QED
    BY <1>1, <1>2, <1>6, <1>8 DEF WQ!Wait

\* The oldest waiter leaves its queue: it is ready, on its way to the run queue.
LEMMA WakeRefines ==
  ASSUME IInv, IInv', NEW c \in CPU, sched_wake(c)
  PROVE  \E q \in Waiting : WQ!Wake(q)
  <1> USE SchedulerAssumption
  <1>a. PICK a, q, x : a = On(c) /\ q = lq[a] /\ x = Head(queue[q])
    OBVIOUS
  <1>1. /\ a \in Caller /\ pc[a] = "locked" /\ queue[q] # <<>> /\ UNCHANGED cur
        /\ queue' = [queue EXCEPT ![q] = Tail(@)]
        /\ pc' = [pc EXCEPT ![a] = "push"]
    BY <1>a DEF sched_wake
  <1>2. q \in Waiting /\ qLock[q] = a
    <2>1. lq[a] # None /\ (lq[a] = q => qLock[q] = a)
      BY <1>1, <1>a DEF IInv, QLockInv
    <2>2. lq \in [Caller -> Waiting \cup {None}]
      BY DEF IInv, TypeOK
    <2> QED
      BY <1>1, <1>a, <2>1, <2>2
  <1>3. /\ queue[q] \in Seq(Ctx) /\ queue'[q] = Tail(queue[q])
        /\ \A r \in Waiting : r # q => queue'[r] = queue[r]
        /\ pc'[a] = "push" /\ \A z \in Ctx : z # a => pc'[z] = pc[z]
        /\ NoDup(queue[q])
    <2>1. queue \in [Waiting -> Seq(Ctx)] /\ pc \in [Ctx \cup CPU \cup Irq -> Pc]
      BY DEF IInv, TypeOK
    <2>2. a \in Ctx \cup CPU \cup Irq
      BY <1>1 DEF Caller
    <2>3. NoDup(queue[q])
      BY <1>2 DEF IInv, QueueInv
    <2> QED
      BY <1>1, <1>2, <2>1, <2>2, <2>3
  <1>4. /\ x \in Ctx /\ Elems(queue[q]) = Elems(queue'[q]) \cup {x}
        /\ x \notin Elems(queue'[q])
    BY <1>1, <1>3, <1>a, PopElems, SMTT(30)
  <1>5. x \in Blocked /\ pc[x] \in {"switch", "resume"} /\ x # a
    <2>1. pc[x] \in {"enq", "switch", "resume"} /\ (pc[x] = "enq" => lq[x] = q)
      BY <1>2, <1>4 DEF IInv, QueueInv
    <2>2. x # a
      BY <1>1, <2>1
    <2>3. x \in Caller /\ (lq[x] = q => qLock[q] = x)
      <3>1. x \in Caller /\ q # None
        BY <1>2, <1>4 DEF Caller, Waiting
      <3> QED
        BY <3>1 DEF IInv, QLockInv
    <2> QED
      BY <1>2, <1>4, <2>1, <2>2, <2>3 DEF Blocked
  <1>6. x \notin Blocked'
    <2>1. \A r \in Waiting : r # q => x \notin Elems(queue[r])
      BY <1>2, <1>4 DEF IInv, ApartInv
    <2> QED
      BY <1>2, <1>3, <1>4, <2>1, SMTT(30) DEF Blocked
  <1>7. \A z \in Ctx : z # x => (z \in Blocked' <=> z \in Blocked)
    <2>1. \A r \in Waiting : \A z \in Ctx : z # x => (z \in Elems(queue'[r]) <=> z \in Elems(queue[r]))
      BY <1>2, <1>3, <1>4
    <2> QED
      BY <2>1, SMTT(30) DEF Blocked
  <1>8. \A z \in Ctx : z \in Executing' <=> z \in Executing
    BY <1>1, <1>3 DEF Executing
  <1>9. x \notin Executing'
    BY <1>4, <1>5, <1>8, StatusNow
  <1>10. statusBar'[x] = "ready"
    BY <1>3, <1>4, <1>5, <1>6, <1>9, StatusNext
  <1>11. \A z \in Ctx : z # x => statusBar'[z] = statusBar[z]
    <2> SUFFICES ASSUME NEW z \in Ctx, z # x PROVE statusBar'[z] = statusBar[z]
      OBVIOUS
    <2>1. /\ pc'[z] = "new" <=> pc[z] = "new" 
          /\ pc'[z] = "dead" <=> pc[z] = "dead"
      BY <1>1, <1>3
    <2> QED
      BY <1>7, <1>8, <2>1, SameStatus
  <1>12. \A z : (\E i \in 1..1 : queue[q][i] = z) <=> z = x
    BY <1>1, <1>3, <1>a, SMTT(30)
  <1>13. statusBar' = [z \in Ctx |-> IF \E i \in 1..1 : queue[q][i] = z THEN "ready"
                                                                        ELSE statusBar[z]]
    <2>1. statusBar' = [z \in Ctx |-> IF z = x THEN "ready" ELSE statusBar[z]]
      BY <1>4, <1>10, <1>11, StatusFunction
    <2> QED
      BY <1>12, <2>1
  <1>14. 1 <= Len(queue[q]) /\ SubSeq(queue[q], 1 + 1, Len(queue[q])) = Tail(queue[q])
    BY <1>1, <1>3, SMTT(30)
  <1>15. queue' = [queue EXCEPT ![q] = SubSeq(@, 1 + 1, Len(@))]
    BY <1>1, <1>14
  <1> QED
    BY <1>1, <1>2, <1>13, <1>14, <1>15 DEF WQ!Wake, WQ!WakeMany

\* A new context starts.
LEMMA StartRefines ==
  ASSUME IInv, IInv', NEW c \in CPU, NEW x \in Ctx, sched_context_start(c, x)
  PROVE  WQ!Start(x)
  <1>a. PICK a : a = On(c)
    OBVIOUS
  <1>1. /\ a \in Ctx /\ pc[a] = "run" /\ pc[x] = "new" /\ UNCHANGED <<cur, queue>>
        /\ pc' = [pc EXCEPT ![a] = "push", ![x] = "entry"]
    BY <1>a DEF sched_context_start
  <1>2. /\ pc'[x] = "entry" /\ pc'[a] = "push" /\ a # x
        /\ \A z \in Ctx : z # x /\ z # a => pc'[z] = pc[z]
    BY <1>1 DEF IInv, TypeOK
  <1>3. Blocked' = Blocked
    BY <1>1 DEF Blocked
  <1>4. \A z \in Ctx : z \in Executing' <=> z \in Executing
    BY <1>1, <1>2 DEF Executing
  <1>5. statusBar[x] = "new" /\ statusBar'[x] = "ready"
    <2>1. statusBar[x] = "new"
      BY <1>1, StatusNow
    <2>2. x \notin Blocked /\ x \notin Executing
      BY <2>1, StatusNow
    <2> QED
      BY <1>2, <1>3, <1>4, <2>1, <2>2, StatusNext
  <1>6. \A z \in Ctx : z # x => statusBar'[z] = statusBar[z]
    <2> SUFFICES ASSUME NEW z \in Ctx, z # x PROVE statusBar'[z] = statusBar[z]
      OBVIOUS
    <2>1. /\ pc'[z] = "new" <=> pc[z] = "new" 
          /\ pc'[z] = "dead" <=> pc[z] = "dead"
      BY <1>1, <1>2
    <2> QED
      BY <1>3, <1>4, <2>1, SameStatus
  <1>7. statusBar' = [statusBar EXCEPT ![x] = "ready"]
    BY <1>5, <1>6, StatusFunction
  <1> QED
    BY <1>1, <1>5, <1>7 DEF WQ!Start

\* The other steps are invisible to those who wait and wake.
LEMMA OthersStutter ==
  ASSUME IInv, IInv', NEW c \in CPU,
         \/ \E q \in Waiting : sched_queue_wrlock(c, q)
         \/ sched_queue_unlock(c) \/ WaitLockRoot(c) \/ Resume(c) \/ sched_unlock(c)
         \/ sched_context_push(c) \/ ipi_post(c)
         \/ IdleFirst(c) \/ IdleDeclare(c) \/ TakeIpi(c) \/ IdleLock(c) \/ IrqReturn(c)
         \/ \E d \in Irq : IrqEnter(c, d)
  PROVE  UNCHANGED <<statusBar, queue>>
  <1> USE SchedulerAssumption
  <1>1. /\ pc \in [Ctx \cup CPU \cup Irq -> Pc] /\ cur[c] \in Ctx \cup {c}
        /\ \A d \in CPU \cup Irq : d \notin Ctx
        /\ c \in CPU
    BY DEF IInv, TypeOK
  <1> DEFINE Same(x) == /\ pc'[x] = "new" <=> pc[x] = "new"
                        /\ pc'[x] = "dead" <=> pc[x] = "dead"
                        /\ pc'[x] \in {"enq", "switch"} <=> pc[x] \in {"enq", "switch"}
  <1>2. UNCHANGED <<queue, cur>>
    BY DEF sched_queue_wrlock, sched_queue_unlock, WaitLockRoot, Resume, sched_unlock,
           sched_context_push, ipi_post, IdleFirst, IdleDeclare, TakeIpi, IdleLock, IrqReturn,
           IrqEnter
  <1>3. ASSUME \/ \E q \in Waiting : sched_queue_wrlock(c, q)
               \/ sched_queue_unlock(c) \/ WaitLockRoot(c) \/ Resume(c) \/ sched_unlock(c)
               \/ sched_context_push(c) \/ ipi_post(c)
        PROVE  \A x \in Ctx : Same(x)
    BY <1>1, <1>3 DEF sched_queue_wrlock, sched_queue_unlock, WaitLockRoot, Resume, sched_unlock,
                      sched_context_push, ipi_post, Back, Caller
  <1>4. ASSUME IdleFirst(c) \/ IdleDeclare(c) \/ TakeIpi(c) \/ IdleLock(c)
        PROVE  \A x \in Ctx : Same(x)
    <2>1. CASE IdleFirst(c) \/ IdleDeclare(c) \/ IdleLock(c)
      <3>1. PICK v : pc' = [pc EXCEPT ![c] = v]
        BY <2>1 DEF IdleFirst, IdleDeclare, IdleLock
      <3>2. \A x \in Ctx : pc'[x] = pc[x]
        BY <1>1, <3>1
      <3> QED
        BY <3>2
    <2>2. CASE TakeIpi(c)
      <3>1. PICK z, v : /\ pc' = [pc EXCEPT ![z] = v] /\ z = On(c)
                        /\ v = (IF z = c THEN "wake" ELSE "run") /\ (z = c \/ pc[z] = "run")
        BY <2>2 DEF TakeIpi
      <3>2. \A x \in Ctx : pc'[x] = pc[x]
        BY <1>1, <3>1
      <3> QED
        BY <3>2
    <2> QED
      BY <1>4, <2>1, <2>2
  <1>5. ASSUME IrqReturn(c) PROVE \A x \in Ctx : Same(x)
    <2>1. cur[c] # c => cur[c] \in Ctx
      BY <1>1
    <2>2. CASE cur[c] = c
      BY <1>1, <1>5, <2>2 DEF IrqReturn
    <2>3. CASE cur[c] # c
      BY <1>1, <1>5, <2>1, <2>3 DEF IrqReturn
    <2> QED
      BY <2>2, <2>3
  <1>6. ASSUME \E d \in Irq : IrqEnter(c, d) PROVE \A x \in Ctx : Same(x)
    <2>1. PICK d \in Irq : pc' = [pc EXCEPT ![d] = "run"]
      BY <1>6 DEF IrqEnter
    <2>2. \A x \in Ctx : pc'[x] = pc[x]
      BY <1>1, <2>1
    <2> QED
      BY <2>2
  <1>7. \A x \in Ctx : Same(x)
    BY <1>3, <1>4, <1>5, <1>6
  <1> QED
    BY <1>2, <1>7, AsideStutters

\* Every step of the scheduler is a step of WaitQueues, or invisible.
LEMMA NextRefines ==
  ASSUME IInv, IInv', Next
  PROVE  WQ!WQNext \/ UNCHANGED <<statusBar, queue>>
  <1>1. PICK c \in CPU : Step(c) \/ \E d \in Irq : IrqEnter(c, d)
    BY DEF Next
  <1>2. CASE sched_wait_unlock(c) \/ sched_context_stop_unlock(c)
    <2>1. Enqueue(c)
      BY <1>2 DEF sched_wait_unlock, sched_context_stop_unlock
    <2> QED
      BY <2>1, EnqueueRefines DEF WQ!WQNext
  <1>3. CASE sched_wake(c)
    BY <1>3, WakeRefines DEF WQ!WQNext
  <1>4. CASE \E x \in Ctx : sched_context_start(c, x)
    BY <1>4, StartRefines DEF WQ!WQNext
  <1>5. CASE WaitSwitch(c) \/ IdleSwitch(c)
    BY <1>5, WaitSwitchRefines, IdleSwitchRefines DEF WQ!WQNext
  <1>6. CASE sched_context_switch(c)
    BY <1>6, YieldRefines DEF WQ!WQNext
  <1>7. CASE sched_context_exit(c)
    BY <1>7, ExitRefines DEF WQ!WQNext
  <1> QED
    BY <1>1, <1>2, <1>3, <1>4, <1>5, <1>6, <1>7, OthersStutter DEF Step

\* Initially the context of app_start runs, the others are new.
LEMMA InitRefines == Init => WQ!WQInit
  <1> SUFFICES ASSUME Init PROVE WQ!WQInit
    OBVIOUS
  <1> USE SchedulerAssumption
  <1>1. IInv
    BY InitIInv
  <1>2. queue = [q \in Waiting |-> <<>>]
    BY DEF Init
  <1>3. Blocked = {}
    BY <1>2, EmptyElems DEF Blocked
  <1>4. \A x \in Ctx : pc[x] = IF x = MainCtx THEN "run" ELSE "new"
    BY DEF Init
  <1>5. \A x \in Ctx : statusBar[x] \in {"new", "running"} /\ (statusBar[x] = "running" => x = MainCtx)
    <2>1. MainCtx \in Executing
      BY <1>4 DEF Init, Executing
    <2> QED
      BY <1>1, <1>4, <2>1, StatusNow
  <1>6. statusBar \in [Ctx -> {"new", "running"}]
    BY <1>5, StatusFunction
  <1>7. Cardinality(WQ!Running) <= Cardinality(CPU)
    <2>1. WQ!Running \subseteq {MainCtx} /\ {BootCpu} \subseteq CPU
      BY <1>5 DEF WQ!Running
    <2>2. /\ Cardinality({MainCtx}) = 1 /\ Cardinality({BootCpu}) = 1
          /\ IsFiniteSet({MainCtx}) /\ IsFiniteSet({BootCpu})
      BY FS_Singleton
    <2>3. Cardinality(WQ!Running) <= 1 /\ 1 <= Cardinality(CPU)
      BY <2>1, <2>2, FiniteProcessors, FS_Subset, SMTT(30)
    <2>4. Cardinality(WQ!Running) \in Nat /\ Cardinality(CPU) \in Nat
      BY <2>1, <2>2, FiniteProcessors, FS_Subset, FS_CardinalityType
    <2> QED
      BY <2>3, <2>4, SMTT(30)
  <1> QED
    BY <1>2, <1>6, <1>7, SameCount DEF WQ!WQInit

\* To the code that blocks and wakes, the steps of all processors and interrupts
\* are atomic operations on queues served in order, for any number of
\* processors, contexts and queues: sched_wait_unlock blocks at the moment the
\* context is in the queue (scheduler.c:340), sched_wake takes the oldest.
THEOREM Implements == Spec => ImplementsWaitQueues
  <1>1. IInv /\ IInv' /\ [Next]_vars => [WQ!WQNext]_<<statusBar, queue>>
    <2>1. ASSUME IInv, IInv', Next PROVE WQ!WQNext \/ UNCHANGED <<statusBar, queue>>
      BY <2>1, NextRefines
    <2>2. ASSUME IInv, IInv', UNCHANGED vars PROVE UNCHANGED <<statusBar, queue>>
      BY <2>2, AsideStutters DEF vars
    <2> QED
      BY <2>1, <2>2
  <1> QED
    BY InitRefines, Invariance, <1>1, PTL DEF Spec, ImplementsWaitQueues, WQ!WQSpec, WQ!wqVars
=============================================================================
