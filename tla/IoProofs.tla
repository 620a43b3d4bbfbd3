------------------------------- MODULE IoProofs -------------------------------
(***************************************************************************)
(* DispatchInv holds for any number of packets, CharInv for any number of  *)
(* callers and requests and any size of the fifo, and a read returns with  *)
(* something; BlockInv holds for any number of callers and requests of one *)
(* block, which return with it or an error.  PageInv holds of regions of   *)
(* any number of physical pages.                                           *)
(***************************************************************************)
EXTENDS CharRequest, NetDispatch, BlockRequest, PageAlloc, FiniteSetTheorems, WellFoundedInduction, TLAPS

\* Zenon proves what names no other prover, within 20 seconds
USE ZenonT(20)

-----------------------------------------------------------------------------
(* The dispatching thread of a network interface.                          *)

DSpec == DInit /\ [][DNext]_ndVars

InQueue(p) == \E i \in 1..Len(d_queue) : d_queue[i] = p

\* What was queued is in the queue or handled, and what was queued in time was
\* queued.
PacketInv ==
  /\ \A p \in Packet : rx[p] \in {"give", "sent"} => p \in handled \/ InQueue(p)
  /\ in_time \subseteq {p \in Packet : rx[p] = "sent"}
  /\ d_pc \in {"quit", "exit", "dead"} => in_time \subseteq handled

\* Where the killer can be, and who holds references on the interface.
KillInv ==
  /\ must_quit <=> killer # "run"
  /\ d_pc \in {"quit", "exit", "dead"} => must_quit
  /\ killer \in {"started", "freed"} => d_pc \in {"exit", "dead"}
  /\ killer = "freed" /\ ~misused => d_pc = "dead"
  /\ if_refs = (IF d_pc \in {"take", "pop"} THEN 2 ELSE 1) - (IF killer = "freed" THEN 1 ELSE 0)

\* With one processor a handler has run to its end before anybody else runs.
OneCpuInv ==
  ~smp => /\ ~misused
          /\ \A p \in Packet : rx[p] \in {"push", "give"} => killer = "run"

DIInv ==
  /\ smp \in BOOLEAN /\ misused \in BOOLEAN /\ DTypeOK
  /\ PacketInv /\ KillInv /\ OneCpuInv

\* The steps of the thread.
LEMMA ThreadStep ==
  ASSUME DIInv, Thread_
  PROVE  DIInv'
  <1> USE DEF Thread_, dispatch_enter, dispatch_take, dispatch_handle, dispatch_empty, start_killer,
              dispatch_exit, ThreadAt, NoHandler
  <1>1. (smp \in BOOLEAN /\ misused \in BOOLEAN /\ DTypeOK)'
    BY SMTT(30) DEF DIInv, DTypeOK, KillInv
  <1>2. PacketInv'
    <2>1. CASE dispatch_handle
      <3> DEFINE s == d_queue
                 t == d_queue'
      <3>1. /\ s \in Seq(Packet) /\ s # <<>> /\ t = Tail(s) /\ handled' = handled \cup {Head(s)}
            /\ UNCHANGED <<rx, in_time>> /\ d_pc' = "take"
        BY <2>1 DEF DIInv, DTypeOK
      <3>2. /\ Head(s) = s[1] /\ Len(s) \in Nat /\ Len(t) = Len(s) - 1
            /\ \A i \in 1..Len(t) : t[i] = s[i + 1]
        BY <3>1, SMTT(30)
      <3> HIDE DEF s, t
      <3>3. \A i \in 1..Len(s) : i = 1 \/ (i - 1 \in 1..Len(t) /\ t[i - 1] = s[i])
        BY <3>2, SMTT(30)
      <3>4. ASSUME NEW p \in Packet, rx[p] \in {"give", "sent"}
            PROVE  p \in handled' \/ \E i \in 1..Len(t) : t[i] = p
        <4>1. p \in handled \/ \E i \in 1..Len(s) : s[i] = p
          BY <3>4 DEF DIInv, PacketInv, InQueue, s
        <4> QED
          BY <3>1, <3>2, <3>3, <4>1
      <3> QED
        BY <3>1, <3>4 DEF DIInv, PacketInv, InQueue, t
    <2>2. CASE dispatch_empty
      <3>1. \A p \in Packet : ~InQueue(p)
        BY <2>2, SMTT(30) DEF InQueue
      <3> QED
        BY <2>2, <3>1 DEF DIInv, PacketInv, InQueue
    <2> QED
      BY <2>1, <2>2, SMTT(30) DEF DIInv, PacketInv, InQueue
  <1>3. KillInv'
    BY SMTT(30) DEF DIInv, DTypeOK, KillInv
  <1>4. OneCpuInv'
    BY DEF DIInv, DTypeOK, KillInv, OneCpuInv
  <1> QED
    BY <1>1, <1>2, <1>3, <1>4 DEF DIInv

\* The steps of the handlers.
LEMMA RxStep ==
  ASSUME DIInv, NEW p \in Packet, rx_irq(p) \/ rx_push(p) \/ rx_give(p)
  PROVE  DIInv'
  <1> USE DEF rx_irq, rx_push, rx_give, RxAt, NoHandler
  <1>1. (smp \in BOOLEAN /\ misused \in BOOLEAN /\ DTypeOK)'
    <2>1. (smp \in BOOLEAN /\ misused \in BOOLEAN)'
      BY DEF DIInv
    <2>2. d_queue' \in Seq(Packet) /\ d_sem' \in Nat
      <3>1. d_queue \in Seq(Packet) /\ d_sem \in Nat /\ Append(d_queue, p) \in Seq(Packet)
        BY SMTT(30) DEF DIInv, DTypeOK
      <3>2. d_queue' \in {d_queue, Append(d_queue, p)} /\ d_sem' \in {d_sem, d_sem + 1}
        OBVIOUS
      <3> QED
        BY <3>1, <3>2, SMTT(30)
    <2>3. rx' \in [Packet -> {"none", "push", "give", "sent"}]
      BY DEF DIInv, DTypeOK
    <2> QED
      BY <2>1, <2>2, <2>3 DEF DIInv, DTypeOK
  <1>2. PacketInv'
    <2>1. CASE rx_push(p)
      <3>1. d_queue \in Seq(Packet) /\ d_queue' = Append(d_queue, p)
        BY <2>1 DEF DIInv, DTypeOK
      <3>2. InQueue(p)' /\ \A y \in Packet : InQueue(y) => InQueue(y)'
        BY <3>1, SMTT(30) DEF InQueue
      <3> QED
        BY <2>1, <3>2 DEF DIInv, DTypeOK, PacketInv
    <2> QED
      BY <2>1, SMTT(30) DEF DIInv, DTypeOK, PacketInv, InQueue
  <1>3. KillInv' /\ OneCpuInv'
    BY SMTT(30) DEF DIInv, DTypeOK, KillInv, OneCpuInv
  <1> QED
    BY <1>1, <1>2, <1>3 DEF DIInv

\* The steps of the killer.
LEMMA KillerStep ==
  ASSUME DIInv, dispatch_kill \/ Killer
  PROVE  DIInv'
  <1> USE DEF dispatch_kill, Killer, kill_give, kill_stop, kill_free, KillerAt, NoHandler
  <1>1. (smp \in BOOLEAN /\ misused \in BOOLEAN /\ DTypeOK)'
    BY SMTT(30) DEF DIInv, DTypeOK, KillInv
  <1>2. PacketInv'
    BY DEF DIInv, DTypeOK, PacketInv, KillInv, InQueue
  <1>3. KillInv'
    BY SMTT(30) DEF DIInv, DTypeOK, KillInv
  <1>4. OneCpuInv'
    BY DEF DIInv, DTypeOK, KillInv, OneCpuInv
  <1> QED
    BY <1>1, <1>2, <1>3, <1>4 DEF DIInv

\* For any number of packets the thread, its killer and the handlers keep
\* DispatchInv: packets queued in time are pushed up before the thread quits,
\* references are dropped once each and, with one processor, nothing is used
\* after it was freed nor started before it has stopped.
THEOREM DispatchSafe == DSpec => []DispatchInv
  <1>1. DInit => DIInv
    <2> SUFFICES ASSUME DInit PROVE DIInv
      OBVIOUS
    <2>1. smp \in BOOLEAN /\ misused \in BOOLEAN
      BY DEF DInit
    <2>2. DTypeOK
      BY SMTT(30) DEF DInit, DTypeOK
    <2>3. PacketInv /\ KillInv /\ OneCpuInv
      BY SMTT(30) DEF DInit, PacketInv, KillInv, OneCpuInv
    <2> QED
      BY <2>1, <2>2, <2>3 DEF DIInv
  <1>2. DIInv /\ [DNext]_ndVars => DIInv'
    <2> SUFFICES ASSUME DIInv, [DNext]_ndVars PROVE DIInv'
      OBVIOUS
    <2>1. CASE UNCHANGED ndVars
      BY <2>1 DEF ndVars, ndOnly, DIInv, DTypeOK, PacketInv, KillInv, OneCpuInv, InQueue
    <2> QED
      BY <2>1, ThreadStep, RxStep, KillerStep DEF DNext
  <1>3. DIInv => DispatchInv
    BY SMTT(30) DEF DIInv, DispatchInv, PacketInv, KillInv, OneCpuInv, PacketsDrained, RefsDropped, NoMisuse
  <1> QED
    BY <1>1, <1>2, <1>3, PTL DEF DSpec

-----------------------------------------------------------------------------
(* Requests to a character device.                                         *)

ChSpec == ChInit /\ [][ChNext]_chVars

ChTypes ==
  /\ smp \in BOOLEAN
  /\ c_pc \in [Caller -> {"idle", "request", "try", "check", "stopped", "started"}]
  /\ mode \in [Caller -> {"wait", "spin"}]
  /\ size \in [Caller -> Nat] /\ got_c \in [Caller -> Nat]
  /\ c_done \in [Caller -> BOOLEAN] /\ waiting \in [Caller -> BOOLEAN]
  /\ ncalls \in [Caller -> 0..MaxCalls]
  /\ read_q \in Seq(Caller \X (1..MaxCalls)) /\ fifo \in 0..FifoSize
  /\ dev_lock \in Caller \cup {Irq, Nobody} /\ at \in {"next", "done", "remove"}

\* the request of x has not been served
Fresh(x) == got_c[x] = 0 /\ ~c_done[x] /\ size[x] > 0

\* A caller has one request in the queue.  All of them are alive and not served
\* yet, the first one excepted while the driver is at work on it.
ChQueueInv ==
  \A i \in 1..Len(read_q) :
    /\ \A j \in 1..Len(read_q) : read_q[i][1] = read_q[j][1] => i = j
    /\ \/ i = 1 /\ at # "next"
       \/ /\ ncalls[read_q[i][1]] = read_q[i][2]
          /\ c_pc[read_q[i][1]] \in {"try", "check", "stopped"} /\ Fresh(read_q[i][1])

\* The first request, while the driver is at work on it: its caller has got
\* something, or, with several processors, has returned and may have come back.
Served(x, k) ==
  \/ /\ ncalls[x] = k /\ c_pc[x] \in {"try", "check", "started"}
     /\ got_c[x] > 0 /\ (at = "remove" => c_done[x])
  \/ smp /\ c_pc[x] = "idle" /\ ncalls[x] = k
  \/ smp /\ c_pc[x] = "request" /\ ncalls[x] = k + 1

ServedInv ==
  at # "next" =>
    read_q # <<>> /\ dev_lock # Nobody /\ Served(read_q[1][1], read_q[1][2])

\* Where a caller can be.
CallerOK(x) ==
  /\ c_pc[x] \in {"try", "check", "stopped"} /\ ~c_done[x] =>
       \E i \in 1..Len(read_q) : read_q[i] = <<x, ncalls[x]>>
  /\ c_pc[x] = "stopped" => ~c_done[x] /\ waiting[x]
  /\ waiting[x] => c_pc[x] \in {"stopped", "started", "idle"}
  /\ c_pc[x] = "request" => Fresh(x) /\ ncalls[x] > 0
  /\ c_pc[x] \in {"try", "check"} /\ c_done[x] => got_c[x] > 0
  /\ c_pc[x] = "started" => got_c[x] > 0
  /\ c_pc[x] = "try" <=> dev_lock = x

CallerInv == \A x \in Caller : CallerOK(x)

ChIInv ==
  /\ ChTypes
  /\ touched = {} => ChQueueInv /\ ServedInv /\ CallerInv
  /\ touched # {} => smp /\ NoLostWakeUp

\* The constants' assumptions, and the types of the entries of the queue.
LEMMA QueueTypes ==
  ASSUME ChTypes
  PROVE  /\ Len(read_q) \in Nat
         /\ \A i \in 1..Len(read_q) :
              /\ read_q[i][1] \in Caller /\ read_q[i][2] \in 1..MaxCalls
              /\ read_q[i] = <<read_q[i][1], read_q[i][2]>>
  <1>1. read_q \in Seq(Caller \X (1..MaxCalls))
    BY DEF ChTypes
  <1>2. \A i \in 1..Len(read_q) : read_q[i] \in Caller \X (1..MaxCalls)
    BY <1>1, SMTT(30)
  <1> QED
    BY <1>1, <1>2, SMTT(30)

\* what a step leaves alone of the caller y
SameFor(y) ==
  /\ c_pc'[y] = c_pc[y] /\ size'[y] = size[y] /\ got_c'[y] = got_c[y] /\ ncalls'[y] = ncalls[y]
  /\ c_done'[y] <=> c_done[y]
  /\ waiting'[y] <=> waiting[y]

\* A caller that a step leaves alone is where it was.
LEMMA CallerKept ==
  ASSUME NEW y \in Caller, CallerOK(y), SameFor(y), read_q' = read_q,
         (dev_lock' = y) <=> (dev_lock = y)
  PROVE  CallerOK(y)'
  <1>1. (\E i \in 1..Len(read_q) : read_q[i] = <<y, ncalls[y]>>)
          => \E i \in 1..Len(read_q') : read_q'[i] = <<y, ncalls'[y]>>
    BY DEF SameFor
  <1>2. Fresh(y) => Fresh(y)'
    BY DEF SameFor, Fresh
  <1> QED
    BY <1>1, <1>2 DEF CallerOK, SameFor

\* dev_char_wait_read, dev_char_spin_read.
LEMMA ReadStep ==
  ASSUME ChIInv, NEW x \in Caller, read(x)
  PROVE  ChIInv'
  <1> USE CharAssumption DEF Nobody
  <1>1. /\ touched = {} /\ touched' = {} /\ ChQueueInv /\ ServedInv /\ CallerInv /\ ChTypes
        /\ c_pc[x] = "idle" /\ UNCHANGED <<smp, read_q, dev_lock, at>>
    BY DEF ChIInv, read, ChAt, Runs
  <1>2. ChTypes'
    BY SMTT(30) DEF ChIInv, ChTypes, read, ChGoto
  <1>3. /\ c_pc'[x] = "request" /\ ncalls'[x] = ncalls[x] + 1
        /\ got_c'[x] = 0 /\ size'[x] > 0
        /\ \A y \in Caller : y # x => /\ c_pc'[y] = c_pc[y] /\ size'[y] = size[y]
                                      /\ got_c'[y] = got_c[y] /\ ncalls'[y] = ncalls[y]
    BY <1>1, SMTT(30) DEF ChTypes, read, ChGoto
  <1>4. /\ ~c_done'[x] /\ ~waiting'[x]
        /\ \A y \in Caller : y # x => (c_done'[y] <=> c_done[y]) /\ (waiting'[y] <=> waiting[y])
    BY <1>1 DEF ChTypes, read
  <1>5. \A y \in Caller : y # x => SameFor(y)
    BY <1>3, <1>4 DEF SameFor
  <1>6. ChQueueInv'
    BY <1>1, <1>5, QueueTypes, SMTT(30) DEF ChQueueInv, SameFor, Fresh
  <1>7. ServedInv'
    BY <1>1, <1>3, <1>5, QueueTypes, SMTT(30) DEF ServedInv, Served, SameFor
  <1>8. CallerInv'
    <2>1. ASSUME NEW y \in Caller, y # x PROVE CallerOK(y)'
      BY <1>1, <1>5, <2>1, CallerKept DEF CallerInv
    <2>2. dev_lock # x /\ ncalls'[x] > 0
      <3>1. dev_lock # x
        BY <1>1 DEF CallerInv, CallerOK
      <3>2. ncalls[x] \in Nat
        BY <1>1, SMTT(30) DEF ChTypes
      <3> QED
        BY <1>3, <3>1, <3>2, SMTT(30)
    <2>3. CallerOK(x)'
      BY <1>1, <1>3, <1>4, <2>2 DEF CallerOK, Fresh
    <2> QED
      BY <2>1, <2>3 DEF CallerInv
  <1> QED
    BY <1>1, <1>2, <1>6, <1>7, <1>8 DEF ChIInv

\* dev_char_wait_write, dev_char_spin_write.
LEMMA WriteStep ==
  ASSUME ChIInv, NEW x \in Caller, write(x)
  PROVE  ChIInv'
  <1> USE CharAssumption DEF Nobody
  <1>1. /\ touched = {} /\ touched' = {} /\ ChQueueInv /\ ServedInv /\ CallerInv /\ ChTypes
        /\ c_pc[x] = "idle" /\ dev_lock = Nobody /\ at = "next"
        /\ UNCHANGED <<smp, c_pc, mode, size, got_c, c_done, waiting, read_q, fifo, dev_lock, at>>
        /\ \A y \in Caller : y # x => ncalls'[y] = ncalls[y]
    BY DEF ChIInv, ServedInv, ChTypes, write, ChAt, Runs
  <1>2. ChTypes'
    BY SMTT(30) DEF ChIInv, ChTypes, write
  <1>3. ChQueueInv' /\ ServedInv'
    BY <1>1, QueueTypes DEF ChQueueInv, ServedInv, Fresh
  <1>4. CallerInv'
    <2>1. ASSUME NEW y \in Caller, y # x PROVE CallerOK(y)'
      BY <1>1, <2>1 DEF CallerInv, CallerOK, Fresh
    <2>2. CallerOK(x)'
      BY <1>1 DEF CallerInv, CallerOK
    <2> QED
      BY <2>1, <2>2 DEF CallerInv
  <1> QED
    BY <1>1, <1>2, <1>3, <1>4 DEF ChIInv

\* tty_soclib_request: the request is put behind those of other callers.
LEMMA RequestStep ==
  ASSUME ChIInv, NEW x \in Caller, tty_request(x)
  PROVE  ChIInv'
  <1> USE CharAssumption DEF Nobody
  <1> DEFINE s == read_q
             e == <<x, ncalls[x]>>
             n == Len(s)
             t == Append(s, e)
  <1>1. /\ touched = {} /\ touched' = {} /\ ChQueueInv /\ ServedInv /\ CallerInv /\ ChTypes
        /\ at = "next" /\ c_pc[x] = "request" /\ read_q' = t /\ dev_lock = Nobody
        /\ UNCHANGED <<smp, mode, size, got_c, c_done, waiting, ncalls, fifo>>
    BY DEF ChIInv, ServedInv, tty_request, ChAt, Runs
  <1>2. s \in Seq(Caller \X (1..MaxCalls)) /\ e \in Caller \X (1..MaxCalls) /\ Fresh(x)
    BY <1>1, SMTT(30) DEF CallerInv, CallerOK, ChTypes
  <1>3. /\ t \in Seq(Caller \X (1..MaxCalls)) /\ n \in Nat /\ Len(t) = n + 1
        /\ \A i \in 1..n : t[i] = s[i]
        /\ t[n + 1] = e
    BY <1>2, SMTT(30)
  <1>4. e[1] = x /\ e[2] = ncalls[x]
    OBVIOUS
  <1>5. \A i \in 1..n : s[i][1] # x /\ s[i][1] \in Caller
    BY <1>1, QueueTypes DEF ChQueueInv
  <1>6. /\ c_pc' \in [Caller -> {"idle", "request", "try", "check", "stopped", "started"}]
        /\ c_pc'[x] \in {"try", "check"} /\ (\A y \in Caller : y # x => c_pc'[y] = c_pc[y])
        /\ (c_pc'[x] = "try" <=> dev_lock' = x) /\ dev_lock' \in {x, Nobody} /\ at' = "next"
    BY <1>1 DEF ChTypes, tty_request, ChGoto
  <1> HIDE DEF s, e, n, t
  <1>7. \A i \in 1..Len(t) : i \in 1..n \/ i = n + 1
    BY <1>3, SMTT(30)
  <1>8. ChTypes'
    BY <1>1, <1>3, <1>6 DEF ChTypes
  <1>9. ChQueueInv'
    <2>1. ASSUME NEW i \in 1..Len(t)
          PROVE  /\ \A j \in 1..Len(t) : t[i][1] = t[j][1] => i = j
                 /\ ncalls[t[i][1]] = t[i][2] /\ c_pc'[t[i][1]] \in {"try", "check", "stopped"}
                 /\ Fresh(t[i][1])
      <3>1. CASE i = n + 1
        <4>1. t[i][1] = x /\ t[i][2] = ncalls[x]
          BY <1>3, <1>4, <3>1
        <4>2. \A j \in 1..Len(t) : t[i][1] = t[j][1] => i = j
          BY <1>3, <1>5, <1>7, <3>1, <4>1
        <4> QED
          BY <1>2, <1>6, <4>1, <4>2
      <3>2. CASE i \in 1..n
        <4>1. /\ \A j \in 1..n : s[i][1] = s[j][1] => i = j
              /\ ncalls[s[i][1]] = s[i][2] /\ c_pc[s[i][1]] \in {"try", "check", "stopped"}
              /\ Fresh(s[i][1])
          BY <1>1, <3>2 DEF ChQueueInv, s, n
        <4>2. t[i] = s[i] /\ s[i][1] # x /\ c_pc'[s[i][1]] = c_pc[s[i][1]]
          BY <1>3, <1>5, <1>6, <3>2
        <4>3. \A j \in 1..Len(t) : t[i][1] = t[j][1] => i = j
          BY <1>3, <1>4, <1>7, <4>1, <4>2
        <4> QED
          BY <4>1, <4>2, <4>3
      <3> QED
        BY <1>7, <3>1, <3>2
    <2> QED
      BY <1>1, <2>1 DEF ChQueueInv, Fresh
  <1>10. ServedInv'
    BY <1>6 DEF ServedInv
  <1>11. CallerInv'
    <2>1. ASSUME NEW y \in Caller, y # x PROVE CallerOK(y)'
      <3>1. /\ CallerOK(y) /\ c_pc'[y] = c_pc[y] /\ c_pc[y] # "try"
            /\ dev_lock' # y
        BY <1>1, <1>6, <2>1 DEF CallerInv, CallerOK
      <3>2. (\E i \in 1..n : s[i] = <<y, ncalls[y]>>) => \E i \in 1..Len(t) : t[i] = <<y, ncalls[y]>>
        <4>1. \A i \in 1..n : i \in 1..Len(t)
          BY <1>3, SMTT(30)
        <4> QED
          BY <1>3, <4>1
      <3> QED
        BY <1>1, <3>1, <3>2 DEF CallerOK, Fresh, s, n
    <2>2. CallerOK(x)'
      <3>1. \E i \in 1..Len(t) : t[i] = <<x, ncalls[x]>>
        BY <1>3, SMTT(30) DEF e
      <3> QED
        BY <1>1, <1>2, <1>6, <3>1 DEF CallerInv, CallerOK, Fresh
    <2> QED
      BY <2>1, <2>2 DEF CallerInv
  <1> QED
    BY <1>1, <1>8, <1>9, <1>10, <1>11 DEF ChIInv

\* tty_soclib_irq.
LEMMA IrqStep ==
  ASSUME ChIInv, tty_irq
  PROVE  ChIInv'
  <1> USE CharAssumption DEF Nobody
  <1>1. /\ touched = {} /\ touched' = {} /\ ChQueueInv /\ ServedInv /\ CallerInv /\ ChTypes
        /\ dev_lock = Nobody /\ dev_lock' = Irq /\ at = "next" /\ at' = "next"
        /\ UNCHANGED <<smp, c_pc, mode, size, got_c, c_done, waiting, ncalls, read_q>>
    BY DEF ChIInv, ServedInv, tty_irq
  <1>2. ChTypes'
    BY SMTT(30) DEF ChIInv, ChTypes, tty_irq
  <1>3. ChQueueInv' /\ ServedInv'
    BY <1>1 DEF ChQueueInv, ServedInv, Fresh
  <1>4. ASSUME NEW y \in Caller PROVE CallerOK(y)'
    BY <1>1 DEF CallerInv, CallerOK, Fresh
  <1> QED
    BY <1>1, <1>2, <1>3, <1>4 DEF ChIInv, CallerInv

\* A caller that has stopped has its request in the queue, not served, and it is
\* not the one the driver is at work on.
LEMMA StoppedFacts ==
  ASSUME ChTypes, ChQueueInv, ServedInv, CallerInv, NEW x \in Caller, c_pc[x] = "stopped"
  PROVE  /\ got_c[x] = 0 /\ ~c_done[x]
         /\ \E i \in 1..Len(read_q) : read_q[i] = <<x, ncalls[x]>> /\ (at # "next" => i # 1)
         /\ at # "next" => x # read_q[1][1]
  <1>1. ~c_done[x] /\ \E i \in 1..Len(read_q) : read_q[i] = <<x, ncalls[x]>>
    BY DEF CallerInv, CallerOK
  <1>2. PICK i \in 1..Len(read_q) : read_q[i] = <<x, ncalls[x]>>
    BY <1>1
  <1>3. at # "next" => x # read_q[1][1]
    BY DEF ServedInv, Served
  <1>4. read_q[i][1] = x
    BY <1>2, SMTT(30)
  <1>5. at # "next" => i # 1
    BY <1>3, <1>4
  <1>6. Fresh(x)
    BY <1>4, <1>5 DEF ChQueueInv
  <1> QED
    BY <1>1, <1>2, <1>3, <1>5, <1>6 DEF Fresh

\* tty_soclib_try_read: characters for the first request, and the callback.
LEMMA TryReadStep ==
  ASSUME ChIInv, try_read
  PROVE  ChIInv'
  <1> USE CharAssumption DEF Nobody
  <1> DEFINE w == read_q[1][1]
             n == IF fifo < size[w] THEN fifo ELSE size[w]
  <1>1. /\ touched = {} /\ touched' = {} /\ ChQueueInv /\ ServedInv /\ CallerInv /\ ChTypes
        /\ at = "next" /\ read_q # <<>> /\ dev_lock # Nobody /\ fifo > 0
        /\ UNCHANGED <<smp, mode, waiting, ncalls, read_q, dev_lock>>
    BY DEF ChIInv, try_read, Serving
  <1>2. read_q \in Seq(Caller \X (1..MaxCalls)) /\ Len(read_q) \in Nat /\ 1 \in 1..Len(read_q)
    BY <1>1, SMTT(30) DEF ChTypes
  <1>3. w \in Caller /\ who = w /\ read_q[1] = <<w, read_q[1][2]>>
    BY <1>1, <1>2, QueueTypes, SMTT(30) DEF who, rq
  <1>4. ncalls[w] = read_q[1][2] /\ c_pc[w] \in {"try", "check", "stopped"} /\ Fresh(w)
    BY <1>1, <1>2 DEF ChQueueInv
  <1>5. waiting[w] <=> c_pc[w] = "stopped"
    BY <1>1, <1>3, <1>4 DEF CallerInv, CallerOK
  <1>6. n \in Nat /\ n > 0 /\ n <= fifo /\ n <= size[w] /\ fifo \in Nat /\ size[w] \in Nat
    BY <1>1, <1>3, <1>4, SMTT(30) DEF ChTypes, Fresh
  <1>7. /\ fifo' = fifo - n
        /\ size' = [size EXCEPT ![w] = @ - n] /\ got_c' = [got_c EXCEPT ![w] = @ + n]
        /\ c_pc' = [c_pc EXCEPT ![w] = IF waiting[w] THEN "started" ELSE @]
        /\ c_done' = IF mode[w] = "wait" THEN c_done ELSE [c_done EXCEPT ![w] = TRUE]
        /\ at' = IF mode[w] = "wait" THEN "done" ELSE "remove"
    BY <1>3 DEF try_read, callback
  <1> HIDE DEF w, n
  <1>8. /\ c_pc'[w] \in {"try", "check", "started"} /\ (c_pc'[w] = "try" <=> c_pc[w] = "try")
        /\ waiting[w] => c_pc'[w] = "started"
        /\ got_c'[w] > 0
        /\ \A y \in Caller : y # w => /\ c_pc'[y] = c_pc[y] /\ size'[y] = size[y]
                                      /\ got_c'[y] = got_c[y]
    <2>1. c_pc'[w] = IF waiting[w] THEN "started" ELSE c_pc[w]
      BY <1>1, <1>3, <1>7 DEF ChTypes
    <2>2. got_c'[w] = got_c[w] + n /\ got_c[w] \in Nat
      BY <1>1, <1>3, <1>7 DEF ChTypes
    <2>3. \A y \in Caller : y # w => /\ c_pc'[y] = c_pc[y] /\ size'[y] = size[y]
                                     /\ got_c'[y] = got_c[y]
      BY <1>1, <1>7 DEF ChTypes
    <2> QED
      BY <1>4, <1>5, <1>6, <2>1, <2>2, <2>3, SMTT(30)
  <1>9. \A y \in Caller : y # w => (c_done'[y] <=> c_done[y])
    BY <1>1, <1>7 DEF ChTypes
  <1>10. at' # "next" /\ at' \in {"done", "remove"} /\ (at' = "remove" => c_done'[w])
    BY <1>1, <1>3, <1>7 DEF ChTypes
  <1>11. \A y \in Caller : y # w => SameFor(y)
    BY <1>1, <1>8, <1>9 DEF SameFor
  <1>12. ChTypes'
    <2>1. size' \in [Caller -> Nat] /\ got_c' \in [Caller -> Nat] /\ fifo' \in 0..FifoSize
      <3>1. size[w] - n \in Nat /\ fifo - n \in 0..FifoSize /\ fifo' = fifo - n
        BY <1>1, <1>6, <1>7, SMTT(30) DEF ChTypes
      <3>2. got_c[w] + n \in Nat
        BY <1>1, <1>3, <1>6, SMTT(30) DEF ChTypes
      <3>3. size \in [Caller -> Nat] /\ got_c \in [Caller -> Nat]
        BY <1>1 DEF ChTypes
      <3> QED
        BY <1>7, <3>1, <3>2, <3>3
    <2>2. c_pc' \in [Caller -> {"idle", "request", "try", "check", "stopped", "started"}]
      BY <1>1, <1>7 DEF ChTypes
    <2>3. c_done' \in [Caller -> BOOLEAN]
      BY <1>1, <1>7 DEF ChTypes
    <2> QED
      BY <1>1, <1>10, <2>1, <2>2, <2>3 DEF ChTypes
  <1>13. ChQueueInv'
    <2>1. ASSUME NEW i \in 1..Len(read_q), i # 1
          PROVE  /\ ncalls[read_q[i][1]] = read_q[i][2]
                 /\ c_pc'[read_q[i][1]] \in {"try", "check", "stopped"} /\ Fresh(read_q[i][1])'
      <3>1. read_q[i][1] # w /\ read_q[i][1] \in Caller
        BY <1>1, <1>2, <2>1, QueueTypes DEF ChQueueInv, w
      <3>2. /\ ncalls[read_q[i][1]] = read_q[i][2]
            /\ c_pc[read_q[i][1]] \in {"try", "check", "stopped"} /\ Fresh(read_q[i][1])
        BY <1>1, <2>1 DEF ChQueueInv
      <3>3. SameFor(read_q[i][1])
        BY <1>11, <3>1
      <3> HIDE DEF ChIInv
      <3>4. Fresh(read_q[i][1])'
        BY <1>1, <3>2, <3>3 DEF Fresh, SameFor
      <3> QED
        BY <3>2, <3>3, <3>4 DEF SameFor
    <2>2. \A i, j \in 1..Len(read_q) : read_q[i][1] = read_q[j][1] => i = j
      BY <1>1 DEF ChQueueInv
    <2> QED
      BY <1>1, <1>10, <2>1, <2>2 DEF ChQueueInv
  <1>14. ServedInv'
    BY <1>1, <1>4, <1>8, <1>10 DEF ServedInv, Served, w
  <1>15. CallerInv'
    <2>1. ASSUME NEW y \in Caller, y # w PROVE CallerOK(y)'
      BY <1>1, <1>11, <2>1, CallerKept DEF CallerInv
    <2>2. \E i \in 1..Len(read_q) : read_q[i] = <<w, ncalls[w]>>
      BY <1>2, <1>3, <1>4
    <2>3. c_pc[w] = "try" <=> dev_lock = w
      BY <1>1, <1>3 DEF CallerInv, CallerOK
    <2>4. w' = w
      BY <1>1 DEF w
    <2>5. CallerOK(w)'
      BY <1>1, <1>8, <2>2, <2>3, <2>4 DEF CallerOK
    <2> QED
      BY <1>3, <2>1, <2>4, <2>5 DEF CallerInv
  <1> QED
    BY <1>1, <1>12, <1>13, <1>14, <1>15 DEF ChIInv

\* dev_char_wait_request_cb: done is set, on a request that may be dead by now.
LEMMA CallbackDoneStep ==
  ASSUME ChIInv, callback_done
  PROVE  ChIInv'
  <1> USE CharAssumption DEF Nobody
  <1> DEFINE w == read_q[1][1]
             k == read_q[1][2]
  <1>1. /\ touched = {} /\ ChQueueInv /\ ServedInv /\ CallerInv /\ ChTypes
        /\ at = "done" /\ at' = "remove" /\ read_q # <<>> /\ dev_lock # Nobody /\ Served(w, k)
        /\ UNCHANGED <<smp, c_pc, mode, size, got_c, waiting, ncalls, read_q, fifo, dev_lock>>
    BY DEF ChIInv, callback_done, Serving, ServedInv
  <1>2. Len(read_q) \in Nat /\ 1 \in 1..Len(read_q)
    BY <1>1, SMTT(30) DEF ChTypes
  <1>3. w \in Caller /\ k \in 1..MaxCalls /\ who = w /\ rq[2] = k
    BY <1>1, <1>2, QueueTypes, SMTT(30) DEF who, rq
  <1>4. /\ c_done' = [c_done EXCEPT ![w] = TRUE]
        /\ touched' = IF c_pc[w] # "idle" /\ ncalls[w] = k THEN touched ELSE touched \cup {rq}
    BY <1>3 DEF callback_done, Use, Alive, who
  <1> HIDE DEF w, k
  <1>5. c_done'[w] /\ \A y \in Caller : y # w => (c_done'[y] <=> c_done[y])
    BY <1>1, <1>3, <1>4 DEF ChTypes
  <1>6. ChTypes'
    BY <1>1, <1>4 DEF ChTypes
  <1>7. CASE c_pc[w] # "idle" /\ ncalls[w] = k
    <2>1. touched' = {}
      BY <1>1, <1>4, <1>7
    <2>2. ncalls[w] = k /\ c_pc[w] \in {"try", "check", "started"} /\ got_c[w] > 0
      BY <1>1, <1>3, <1>7, SMTT(30) DEF Served
    <2>3. \A y \in Caller : y # w => SameFor(y)
      BY <1>1, <1>5 DEF SameFor
    <2>4. w' = w /\ k' = k
      BY <1>1 DEF w, k
    <2>5. ChQueueInv'
      <3>1. ASSUME NEW i \in 1..Len(read_q), i # 1
            PROVE  /\ ncalls[read_q[i][1]] = read_q[i][2]
                   /\ c_pc[read_q[i][1]] \in {"try", "check", "stopped"} /\ Fresh(read_q[i][1])'
        <4>1. read_q[i][1] # w /\ read_q[i][1] \in Caller
          BY <1>1, <1>2, <3>1, QueueTypes DEF ChQueueInv, w
        <4>2. /\ ncalls[read_q[i][1]] = read_q[i][2]
              /\ c_pc[read_q[i][1]] \in {"try", "check", "stopped"} /\ Fresh(read_q[i][1])
          BY <1>1, <3>1 DEF ChQueueInv
        <4>3. Fresh(read_q[i][1])'
          BY <1>1, <1>5, <4>1, <4>2 DEF Fresh
        <4> QED
          BY <4>2, <4>3
      <3>2. \A i, j \in 1..Len(read_q) : read_q[i][1] = read_q[j][1] => i = j
        BY <1>1 DEF ChQueueInv
      <3> QED
        BY <1>1, <3>1, <3>2 DEF ChQueueInv
    <2>6. ServedInv'
      BY <1>1, <1>5, <2>2, <2>4 DEF ServedInv, Served, w, k
    <2>7. CallerInv'
      <3>1. ASSUME NEW y \in Caller, y # w PROVE CallerOK(y)'
        BY <1>1, <2>3, <3>1, CallerKept DEF CallerInv
      <3>2. CallerOK(w)
        BY <1>1, <1>3 DEF CallerInv
      <3>3. CallerOK(w)'
        BY <1>1, <1>5, <2>2, <2>4, <3>2 DEF CallerOK
      <3> QED
        BY <1>3, <2>4, <3>1, <3>3 DEF CallerInv
    <2> QED
      BY <1>6, <2>1, <2>5, <2>6, <2>7 DEF ChIInv
  <1>8. CASE ~(c_pc[w] # "idle" /\ ncalls[w] = k)
    <2>1. touched' # {}
      BY <1>4, <1>8
    <2>2. smp
      BY <1>1, <1>8 DEF Served
    <2>3. ASSUME NEW x \in Caller, c_pc'[x] = "stopped"
          PROVE  (\E i \in 1..Len(read_q') : read_q'[i] = <<x, ncalls'[x]>>) /\ got_c'[x] = 0 /\ ~c_done'[x]
      BY <1>1, <1>5, <2>3, StoppedFacts DEF w
    <2> QED
      BY <1>1, <1>6, <2>1, <2>2, <2>3 DEF ChIInv, NoLostWakeUp
  <1> QED
    BY <1>7, <1>8

\* tty_soclib_try_read: the request leaves the queue once it was served.
LEMMA TryRemoveStep ==
  ASSUME ChIInv, try_remove
  PROVE  ChIInv'
  <1> USE CharAssumption DEF Nobody
  <1> DEFINE w == read_q[1][1]
             k == read_q[1][2]
             s == read_q
             t == Tail(read_q)
             n == Len(t)
  <1>1. /\ touched = {} /\ ChQueueInv /\ ServedInv /\ CallerInv /\ ChTypes
        /\ at = "remove" /\ at' = "next" /\ read_q # <<>> /\ dev_lock # Nobody /\ Served(w, k)
        /\ read_q' = t
        /\ UNCHANGED <<smp, c_pc, mode, size, got_c, c_done, waiting, ncalls, fifo, dev_lock>>
    BY DEF ChIInv, try_remove, Serving, ServedInv
  <1>2. s \in Seq(Caller \X (1..MaxCalls)) /\ Len(s) \in Nat /\ 1 \in 1..Len(s)
    BY <1>1, SMTT(30) DEF ChTypes
  <1>3. w \in Caller /\ k \in 1..MaxCalls /\ who = w /\ rq[2] = k
    BY <1>1, <1>2, QueueTypes, SMTT(30) DEF who, rq
  <1>4. touched' = IF c_pc[w] # "idle" /\ ncalls[w] = k THEN touched ELSE touched \cup {rq}
    BY <1>3 DEF try_remove, Use, Alive, who
  <1>5. /\ t \in Seq(Caller \X (1..MaxCalls)) /\ n \in Nat /\ Len(s) = n + 1
        /\ \A i \in 1..n : t[i] = s[i + 1] /\ i + 1 \in 1..Len(s) /\ i + 1 # 1
    BY <1>1, <1>2, SMTT(30)
  <1> HIDE DEF w, k, s, t, n
  <1>6. ChTypes'
    BY <1>1, <1>5 DEF ChTypes
  <1>7. \A e : (\E i \in 1..Len(s) : s[i] = e /\ i # 1) => \E i \in 1..n : t[i] = e
    <2> SUFFICES ASSUME NEW e, NEW i \in 1..Len(s), s[i] = e, i # 1
                 PROVE  \E j \in 1..n : t[j] = e
      OBVIOUS
    <2>1. i - 1 \in 1..n /\ (i - 1) + 1 = i
      BY <1>5, SMTT(30)
    <2> QED
      BY <1>5, <2>1
  <1>8. CASE c_pc[w] # "idle" /\ ncalls[w] = k
    <2>1. touched' = {}
      BY <1>1, <1>4, <1>8
    <2>2. c_done[w]
      BY <1>1, <1>3, <1>8, SMTT(30) DEF Served
    <2>3. ChQueueInv'
      <3>1. ASSUME NEW i \in 1..n
            PROVE  /\ \A j \in 1..n : t[i][1] = t[j][1] => i = j
                   /\ ncalls[t[i][1]] = t[i][2]
                   /\ c_pc[t[i][1]] \in {"try", "check", "stopped"} /\ Fresh(t[i][1])
        <4>1. t[i] = s[i + 1] /\ i + 1 \in 1..Len(s) /\ i + 1 # 1
          BY <1>5
        <4>2. ncalls[s[i + 1][1]] = s[i + 1][2]
              /\ c_pc[s[i + 1][1]] \in {"try", "check", "stopped"} /\ Fresh(s[i + 1][1])
          BY <1>1, <4>1 DEF ChQueueInv, s
        <4>3. ASSUME NEW j \in 1..n, t[i][1] = t[j][1] PROVE i = j
          <5>1. t[j] = s[j + 1] /\ j + 1 \in 1..Len(s)
            BY <1>5
          <5>2. i + 1 = j + 1
            BY <1>1, <4>1, <4>3, <5>1 DEF ChQueueInv, s
          <5> QED
            BY <5>2, <1>5, SMTT(30)
        <4> QED
          BY <4>1, <4>2, <4>3
      <3> QED
        BY <1>1, <3>1 DEF ChQueueInv, Fresh, n
    <2>4. ServedInv'
      BY <1>1 DEF ServedInv
    <2>5. ASSUME NEW y \in Caller PROVE CallerOK(y)'
      <3>1. CallerOK(y)
        BY <1>1 DEF CallerInv
      <3>2. ~c_done[y] => \A i \in 1..Len(s) : s[i] = <<y, ncalls[y]>> => i # 1
        BY <1>2, <2>2, SMTT(30) DEF w, s
      <3>3. c_pc[y] \in {"try", "check", "stopped"} /\ ~c_done[y] =>
              \E i \in 1..Len(s) : s[i] = <<y, ncalls[y]>> /\ i # 1
        BY <3>1, <3>2 DEF CallerOK, s
      <3>4. c_pc[y] \in {"try", "check", "stopped"} /\ ~c_done[y] =>
              \E i \in 1..n : t[i] = <<y, ncalls[y]>>
        BY <1>7, <3>3
      <3> QED
        BY <1>1, <3>1, <3>4 DEF CallerOK, Fresh, n
    <2> QED
      BY <1>6, <2>1, <2>3, <2>4, <2>5 DEF ChIInv, CallerInv
  <1>9. CASE ~(c_pc[w] # "idle" /\ ncalls[w] = k)
    <2>1. touched' # {}
      BY <1>4, <1>9
    <2>2. smp
      BY <1>1, <1>9 DEF Served
    <2>3. ASSUME NEW x \in Caller, c_pc'[x] = "stopped"
          PROVE  (\E i \in 1..Len(read_q') : read_q'[i] = <<x, ncalls'[x]>>) /\ got_c'[x] = 0 /\ ~c_done'[x]
      <3>1. /\ got_c[x] = 0 /\ ~c_done[x]
            /\ \E i \in 1..Len(s) : s[i] = <<x, ncalls[x]>> /\ i # 1
        BY <1>1, <2>3, StoppedFacts DEF s
      <3>2. \E i \in 1..n : t[i] = <<x, ncalls[x]>>
        BY <1>7, <3>1
      <3> QED
        BY <1>1, <3>1, <3>2 DEF n
    <2> QED
      BY <1>1, <1>6, <2>1, <2>2, <2>3 DEF ChIInv, NoLostWakeUp
  <1> QED
    BY <1>8, <1>9

\* A step that moves one caller x on, from a place where its request is in the
\* queue to another one.
LEMMA MoveStep ==
  ASSUME ChTypes, ChQueueInv, NEW x \in Caller, NEW pc,
         c_pc[x] \in {"try", "check", "stopped"}, pc \in {"try", "check", "stopped"},
         ChGoto(x, pc), UNCHANGED <<size, got_c, c_done, ncalls, read_q, at>>
  PROVE  /\ c_pc' \in [Caller -> {"idle", "request", "try", "check", "stopped", "started"}]
         /\ c_pc'[x] = pc /\ \A y \in Caller : y # x => c_pc'[y] = c_pc[y]
         /\ ChQueueInv'
  <1>1. /\ c_pc' \in [Caller -> {"idle", "request", "try", "check", "stopped", "started"}]
        /\ c_pc'[x] = pc /\ \A y \in Caller : y # x => c_pc'[y] = c_pc[y]
    BY DEF ChTypes, ChGoto
  <1>2. \A y \in Caller : c_pc[y] \in {"try", "check", "stopped"}
                            => c_pc'[y] \in {"try", "check", "stopped"}
    BY <1>1
  <1>3. ChQueueInv'
    BY <1>2, QueueTypes DEF ChQueueInv, Fresh
  <1> QED
    BY <1>1, <1>3

\* tty_soclib_try_read returns, the lock is released.
LEMMA TryEndStep ==
  ASSUME ChIInv, try_end
  PROVE  ChIInv'
  <1> USE CharAssumption DEF Nobody
  <1>1. /\ touched = {} /\ touched' = {} /\ ChQueueInv /\ CallerInv /\ ChTypes
        /\ at = "next" /\ dev_lock # Nobody /\ dev_lock' = Nobody
        /\ UNCHANGED <<smp, mode, size, got_c, c_done, waiting, ncalls, read_q, fifo, at>>
    BY DEF ChIInv, try_end, Serving
  <1>2. ServedInv'
    BY <1>1 DEF ServedInv
  <1>3. CASE dev_lock = Irq
    <2>1. c_pc' = c_pc
      BY <1>3 DEF try_end
    <2>2. ChTypes' /\ ChQueueInv'
      BY <1>1, <2>1 DEF ChTypes, ChQueueInv, Fresh
    <2>3. ASSUME NEW y \in Caller PROVE CallerOK(y)'
      BY <1>1, <1>3, <2>1 DEF CallerInv, CallerOK, Fresh
    <2> QED
      BY <1>1, <1>2, <2>2, <2>3 DEF ChIInv, CallerInv
  <1>4. CASE dev_lock # Irq
    <2>1. PICK x \in Caller : dev_lock = x
      BY <1>1, <1>4 DEF ChTypes
    <2>2. c_pc[x] = "try" /\ ChGoto(x, "check")
      BY <1>1, <1>4, <2>1 DEF CallerInv, CallerOK, try_end
    <2>3. /\ c_pc' \in [Caller -> {"idle", "request", "try", "check", "stopped", "started"}]
          /\ c_pc'[x] = "check" /\ \A y \in Caller : y # x => c_pc'[y] = c_pc[y]
          /\ ChQueueInv'
      BY <1>1, <2>2, MoveStep
    <2>4. ChTypes'
      BY <1>1, <2>3 DEF ChTypes
    <2>5. ASSUME NEW y \in Caller, y # x PROVE CallerOK(y)'
      BY <1>1, <2>1, <2>3, <2>5 DEF CallerInv, CallerOK, Fresh
    <2>6. CallerOK(x)'
      BY <1>1, <2>2, <2>3 DEF CallerInv, CallerOK
    <2> QED
      BY <1>1, <1>2, <2>3, <2>4, <2>5, <2>6 DEF ChIInv, CallerInv
  <1> QED
    BY <1>3, <1>4

\* dev_char_wait_request: the caller stops, under the lock of its status.
LEMMA StopStep ==
  ASSUME ChIInv, NEW x \in Caller, stop(x)
  PROVE  ChIInv'
  <1> USE CharAssumption DEF Nobody
  <1>1. /\ touched = {} /\ touched' = {} /\ ChQueueInv /\ ServedInv /\ CallerInv /\ ChTypes
        /\ c_pc[x] = "check" /\ ~c_done[x] /\ (at # "done" \/ who # x) /\ ChGoto(x, "stopped")
        /\ waiting' = [waiting EXCEPT ![x] = TRUE]
        /\ UNCHANGED <<smp, mode, size, got_c, c_done, ncalls, read_q, fifo, dev_lock, at>>
    BY DEF ChIInv, stop, ChAt, Runs
  <1>2. /\ c_pc' \in [Caller -> {"idle", "request", "try", "check", "stopped", "started"}]
        /\ c_pc'[x] = "stopped" /\ \A y \in Caller : y # x => c_pc'[y] = c_pc[y]
        /\ ChQueueInv'
    BY <1>1, MoveStep
  <1>3. waiting'[x] /\ \A y \in Caller : y # x => (waiting'[y] <=> waiting[y])
    BY <1>1 DEF ChTypes
  <1>4. ChTypes'
    BY <1>1, <1>2 DEF ChTypes
  <1>5. ServedInv'
    <2>1. at # "next" => read_q # <<>> /\ 1 \in 1..Len(read_q) /\ read_q[1][1] \in Caller
      BY <1>1, QueueTypes, SMTT(30) DEF ServedInv, ChTypes
    <2>2. at # "next" => read_q[1][1] # x
      <3>1. at # "next" => at \in {"done", "remove"}
        BY <1>1 DEF ChTypes
      <3>2. at # "next" => who = read_q[1][1]
        BY <1>1, <2>1, SMTT(30) DEF who, rq, ChTypes
      <3> QED
        BY <1>1, <3>1, <3>2 DEF ServedInv, Served
    <2> QED
      BY <1>1, <1>2, <2>1, <2>2 DEF ServedInv, Served
  <1>6. \A y \in Caller : y # x => SameFor(y)
    BY <1>1, <1>2, <1>3 DEF SameFor
  <1>7. ASSUME NEW y \in Caller, y # x PROVE CallerOK(y)'
    BY <1>1, <1>6, <1>7, CallerKept DEF CallerInv
  <1>8. CallerOK(x)'
    BY <1>1, <1>2, <1>3 DEF CallerInv, CallerOK
  <1> QED
    BY <1>1, <1>2, <1>4, <1>5, <1>7, <1>8 DEF ChIInv, CallerInv

\* dev_char_wait_request, dev_char_spin_request return: with one processor not
\* while the driver is at work on the request.
LEMMA FinishStep ==
  ASSUME ChIInv, NEW x \in Caller, finish(x)
  PROVE  ChIInv' /\ got_c[x] > 0
  <1> USE CharAssumption DEF Nobody
  <1>1. /\ touched = {} /\ touched' = {} /\ ChQueueInv /\ ServedInv /\ CallerInv /\ ChTypes
        /\ (c_pc[x] = "check" /\ c_done[x]) \/ c_pc[x] = "started"
        /\ smp \/ dev_lock \in {x, Nobody}
        /\ UNCHANGED <<smp, mode, size, got_c, c_done, waiting, ncalls, read_q, fifo, dev_lock, at>>
    BY DEF ChIInv, finish, ChAt, Runs
  <1>2. /\ c_pc' \in [Caller -> {"idle", "request", "try", "check", "stopped", "started"}]
        /\ c_pc'[x] = "idle" /\ \A y \in Caller : y # x => c_pc'[y] = c_pc[y]
    BY <1>1 DEF ChTypes, finish, ChGoto
  <1>3. dev_lock # x /\ got_c[x] > 0
    BY <1>1 DEF CallerInv, CallerOK
  <1>4. ChTypes'
    BY <1>1, <1>2 DEF ChTypes
  <1>5. ChQueueInv'
    <2>1. \A y \in Caller : c_pc[y] \in {"try", "check", "stopped"} /\ Fresh(y) => y # x
      BY <1>1 DEF Fresh
    <2>2. \A y \in Caller : c_pc[y] \in {"try", "check", "stopped"} /\ Fresh(y)
                              => c_pc'[y] \in {"try", "check", "stopped"}
      BY <1>2, <2>1
    <2> QED
      BY <1>1, <2>2, QueueTypes DEF ChQueueInv, Fresh
  <1>6. ServedInv'
    <2>1. at # "next" => /\ read_q # <<>> /\ dev_lock # Nobody /\ smp
                         /\ read_q[1][1] \in Caller /\ Served(read_q[1][1], read_q[1][2])
      <3>1. at # "next" => /\ read_q # <<>> /\ dev_lock # Nobody
                           /\ Served(read_q[1][1], read_q[1][2])
        BY <1>1 DEF ServedInv
      <3>2. read_q # <<>> => read_q[1][1] \in Caller
        BY <1>1, QueueTypes, SMTT(30) DEF ChTypes
      <3> QED
        BY <1>1, <1>3, <3>1, <3>2
    <2>2. CASE read_q[1][1] = x
      BY <1>1, <1>2, <2>1, <2>2 DEF ServedInv, Served
    <2>3. CASE read_q[1][1] # x
      BY <1>1, <1>2, <2>1, <2>3 DEF ServedInv, Served
    <2> QED
      BY <2>2, <2>3
  <1>7. \A y \in Caller : y # x => SameFor(y)
    BY <1>1, <1>2 DEF SameFor
  <1>8. ASSUME NEW y \in Caller, y # x PROVE CallerOK(y)'
    BY <1>1, <1>7, <1>8, CallerKept DEF CallerInv
  <1>9. CallerOK(x)'
    BY <1>1, <1>2, <1>3 DEF CallerInv, CallerOK
  <1> QED
    BY <1>1, <1>3, <1>4, <1>5, <1>6, <1>8, <1>9 DEF ChIInv, CallerInv

\* ChIInv is an invariant of the callers, the interrupt handler and the driver.
LEMMA ChInductive == ChSpec => []ChIInv
  <1>1. ChInit => ChIInv
    <2> SUFFICES ASSUME ChInit PROVE ChIInv
      OBVIOUS
    <2>1. ChTypes
      BY CharAssumption, SMTT(30) DEF ChInit, ChTypes
    <2>2. ChQueueInv /\ ServedInv
      BY SMTT(30) DEF ChInit, ChQueueInv, ServedInv
    <2>3. CallerInv
      BY CharAssumption DEF ChInit, CallerInv, CallerOK, Nobody
    <2> QED
      BY <2>1, <2>2, <2>3 DEF ChInit, ChIInv
  <1>2. ChIInv /\ [ChNext]_chVars => ChIInv'
    <2> SUFFICES ASSUME ChIInv, [ChNext]_chVars PROVE ChIInv'
      OBVIOUS
    <2>1. CASE UNCHANGED chVars
      BY <2>1 DEF chVars, chOnly, ChIInv, ChTypes, ChQueueInv, ServedInv, Served, CallerInv,
                  CallerOK, Fresh, NoLostWakeUp
    <2>2. CASE tty_irq \/ Serve
      BY <2>2, IrqStep, TryReadStep, CallbackDoneStep, TryRemoveStep, TryEndStep DEF Serve
    <2>3. ASSUME NEW x \in Caller, read(x) \/ write(x) \/ CallerStep(x) PROVE ChIInv'
      BY <2>3, ReadStep, WriteStep, RequestStep, StopStep, FinishStep DEF CallerStep
    <2> QED
      BY <2>1, <2>2, <2>3 DEF ChNext
  <1> QED
    BY <1>1, <1>2, PTL DEF ChSpec

\* No wake-up is lost, and with one processor the driver never uses a request
\* whose caller has returned, for any number of callers, requests and any size of
\* the fifo (device_char.c:93-164, tty-soclib.c).
THEOREM CharSafe == ChSpec => []CharInv
  <1>1. ChIInv => CharInv
    <2> SUFFICES ASSUME ChIInv PROVE CharInv
      OBVIOUS
    <2>1. ChTypeOK
      BY DEF ChIInv, ChTypes, ChTypeOK
    <2>2. NoLostWakeUp
      <3>1. CASE touched = {}
        BY <3>1, StoppedFacts DEF ChIInv, NoLostWakeUp
      <3>2. CASE touched # {}
        BY <3>2 DEF ChIInv
      <3> QED
        BY <3>1, <3>2
    <2> QED
      BY <2>1, <2>2 DEF ChIInv, CharInv, NoDeadRequest
  <1> QED
    BY <1>1, ChInductive, PTL

\* A read that returns has got at least one character: nobody returns from
\* dev_char_wait_request or dev_char_spin_request before the callback.
THEOREM CharReadGets == ChSpec => ReadGotSome
  <1>1. ASSUME ChIInv, [ChNext]_chVars
        PROVE  [\A x \in Caller : c_pc[x] \in {"check", "started"} /\ c_pc'[x] = "idle"
                                   => got_c[x] > 0]_chVars
    <2> SUFFICES ASSUME ChNext, NEW x \in Caller, c_pc[x] \in {"check", "started"}, c_pc'[x] = "idle"
                 PROVE  got_c[x] > 0
      BY <1>1
    <2>1. ChTypes
      BY <1>1 DEF ChIInv
    <2>2. ~(tty_irq \/ callback_done \/ try_remove)
      BY DEF tty_irq, callback_done, try_remove
    <2>3. ~try_read
      BY <2>1 DEF try_read, callback, ChTypes
    <2>4. ~try_end
      BY <2>1 DEF try_end, ChGoto, ChTypes
    <2>5. ASSUME NEW y \in Caller PROVE ~(read(y) \/ write(y) \/ tty_request(y) \/ stop(y))
      BY <2>1 DEF read, write, tty_request, stop, ChGoto, ChTypes
    <2>6. ASSUME NEW y \in Caller, finish(y) PROVE y = x
      BY <2>1, <2>6 DEF finish, ChGoto, ChTypes
    <2> QED
      BY <1>1, <2>2, <2>3, <2>4, <2>5, <2>6, FinishStep DEF ChNext, Serve, CallerStep
  <1> QED
    BY <1>1, ChInductive, PTL DEF ChSpec, ReadGotSome

-----------------------------------------------------------------------------
(* Block devices.                                                          *)

BSpec == BInit /\ [][BNext]_bkVars

\* the request of index i in the queue is still to be served: the handler has
\* not called its callback
ToServe(i) == i \in 1..Len(queue) /\ (i # 1 \/ b_at = "wait")

\* its caller waits for it
InFlight(x) ==
  /\ b_pc[x] \in {"check", "stopped"} /\ ~b_done[x] /\ progress[x] = 0
  /\ lba[x] + bcount[x] <= BlkCount

\* the request of x is still to be served, or has been
Queued(x) == \E i \in 1..Len(queue) : ToServe(i) /\ queue[i] = <<x, b_calls[x]>>
Finished(x) == progress[x] < 0 \/ progress[x] = bcount[x]

\* the caller whose request the handler is at: it waits, has been started, has
\* returned, or is about to make the next request
Leaving(r) ==
  \/ /\ b_calls[r[1]] = r[2] /\ b_pc[r[1]] \in {"check", "started", "idle"} /\ Finished(r[1])
     /\ ~smp => b_pc[r[1]] # "idle"
     /\ b_at = "end" /\ b_pc[r[1]] = "check" => b_done[r[1]]
  \/ b_calls[r[1]] # r[2] /\ b_pc[r[1]] = "request" /\ smp

\* a request is of one block
BkTypes ==
  /\ smp \in BOOLEAN
  /\ b_pc \in [BCaller -> {"idle", "request", "check", "stopped", "started"}]
  /\ b_mode \in [BCaller -> {"wait", "spin"}] /\ lba \in [BCaller -> Nat]
  /\ bcount \in [BCaller -> 0..1] /\ progress \in [BCaller -> -1..1]
  /\ b_done \in [BCaller -> BOOLEAN] /\ b_ctx \in [BCaller -> BOOLEAN]
  /\ b_calls \in [BCaller -> 0..BMaxCalls]
  /\ queue \in Seq(BCaller \X (1..BMaxCalls)) /\ b_at \in {"wait", "done", "end"}
  /\ \A x \in BCaller : progress[x] <= bcount[x] /\ (b_pc[x] # "idle" => bcount[x] = 1 /\ b_calls[x] >= 1)
  /\ \A x \in BCaller : b_pc[x] = "request" => progress[x] = 0

\* The device works on the first request, and on it alone.
DeviceWorks ==
  /\ b_at = "wait" => (op # <<>>) = (queue # <<>>)
  /\ op # <<>> => b_at = "wait" /\ op[1] = bwho /\ op[2] < BlkCount

\* What is queued and not served is a request its caller waits for, and each
\* caller has one at most.
QueueLive ==
  /\ \A i \in 1..Len(queue) : ToServe(i) =>
       queue[i][2] = b_calls[queue[i][1]] /\ InFlight(queue[i][1])
  /\ \A i, j \in 1..Len(queue) : i # j => queue[i][1] # queue[j][1]
  /\ b_at # "wait" => queue # <<>> /\ Leaving(queue[1])

\* Whoever waits has a request in the queue or is being told; whoever was told
\* has all its blocks or an error.
CallersServed ==
  \A x \in BCaller :
    /\ b_pc[x] = "stopped" => Queued(x) /\ b_ctx[x] /\ b_mode[x] = "wait"
    /\ b_pc[x] = "check" /\ ~b_done[x] => Queued(x) \/ (b_at = "done" /\ queue[1] = <<x, b_calls[x]>>)
    /\ b_pc[x] = "started" \/ (b_pc[x] = "check" /\ b_done[x]) => Finished(x)
    /\ b_pc[x] = "request" /\ b_touched = {} => ~b_done[x]

BkIInv == BkTypes /\ DeviceWorks /\ QueueLive /\ CallersServed /\ BNoDeadRequest

\* What is in the queue.
LEMMA Entries ==
  ASSUME BkTypes
  PROVE  /\ Len(queue) \in Nat
         /\ \A i \in 1..Len(queue) : /\ queue[i] \in BCaller \X (1..BMaxCalls)
                                     /\ queue[i][1] \in BCaller /\ queue[i][2] \in 1..BMaxCalls
                                     /\ queue[i] = <<queue[i][1], queue[i][2]>>
         /\ queue # <<>> => 1 \in 1..Len(queue) /\ Head(queue) = queue[1] /\ bwho = queue[1][1]
  <1>1. queue \in Seq(BCaller \X (1..BMaxCalls)) /\ Len(queue) \in Nat
    BY SMTT(30) DEF BkTypes
  <1>2. \A i \in 1..Len(queue) : queue[i] \in BCaller \X (1..BMaxCalls)
    BY <1>1, SMTT(30)
  <1>3. queue # <<>> => 1 \in 1..Len(queue) /\ Head(queue) = queue[1]
    BY <1>1, SMTT(30)
  <1> QED
    BY <1>1, <1>2, <1>3, SMTT(30) DEF bwho

\* A step of a caller that the queue and the handler do not see: it makes a
\* request, stops, or returns.
LEMMA BCallerStep ==
  ASSUME BkIInv, BkTypes', NEW x \in BCaller, UNCHANGED <<smp, queue, op, b_at, b_touched>>,
         \A y \in BCaller \ {x} :
           /\ b_pc'[y] = b_pc[y] /\ b_mode'[y] = b_mode[y] /\ lba'[y] = lba[y] /\ bcount'[y] = bcount[y]
           /\ progress'[y] = progress[y] /\ b_done'[y] = b_done[y] /\ b_ctx'[y] = b_ctx[y]
           /\ b_calls'[y] = b_calls[y],
         InFlight(x) => InFlight(x)' /\ b_calls'[x] = b_calls[x],
         \A r \in BCaller \X (1..BMaxCalls) : (b_at # "wait" /\ r = queue[1] /\ r[1] = x /\ Leaving(r)) => Leaving(r)',
         b_pc'[x] = "stopped" => InFlight(x) /\ Queued(x) /\ b_ctx'[x] /\ b_mode'[x] = "wait",
         ~(b_pc'[x] = "check"), ~(b_pc'[x] = "started"), b_pc'[x] = "request" => ~b_done'[x]
  PROVE  BkIInv'
  <1>1. BkTypes
    BY DEF BkIInv
  <1>2. \A y \in BCaller : InFlight(y) => InFlight(y)' /\ b_calls'[y] = b_calls[y]
    BY DEF InFlight
  <1>3. \A i \in 1..Len(queue) : ToServe(i)' <=> ToServe(i)
    BY DEF ToServe
  <1>4. \A y \in BCaller : (InFlight(y) /\ Queued(y)) => Queued(y)'
    BY <1>2, <1>3 DEF Queued
  <1>5. DeviceWorks'
    BY DEF BkIInv, DeviceWorks, bwho
  <1>6. \A r \in BCaller \X (1..BMaxCalls) : (b_at # "wait" /\ r = queue[1] /\ Leaving(r)) => Leaving(r)'
    <2> SUFFICES ASSUME NEW r \in BCaller \X (1..BMaxCalls), b_at # "wait", r = queue[1], Leaving(r), r[1] # x
                 PROVE  Leaving(r)'
      OBVIOUS
    <2>1. r[1] \in BCaller \ {x}
      OBVIOUS
    <2> QED
      BY <2>1 DEF Leaving, Finished
  <1>7. QueueLive'
    <2>1. \A i \in 1..Len(queue) : ToServe(i)' =>
            queue[i][2] = b_calls'[queue[i][1]] /\ InFlight(queue[i][1])'
      <3> SUFFICES ASSUME NEW i \in 1..Len(queue), ToServe(i)
                   PROVE  queue[i][2] = b_calls'[queue[i][1]] /\ InFlight(queue[i][1])'
        BY <1>3 DEF InFlight
      <3>1. queue[i][1] \in BCaller
        BY <1>1, Entries
      <3>2. queue[i][2] = b_calls[queue[i][1]] /\ InFlight(queue[i][1])
        BY DEF BkIInv, QueueLive
      <3>3. PICK y \in BCaller : y = queue[i][1]
        BY <3>1
      <3>4. InFlight(y)' /\ b_calls'[y] = b_calls[y]
        BY <1>2, <3>2, <3>3
      <3> QED
        BY <3>2, <3>3, <3>4 DEF InFlight
    <2>2. b_at # "wait" => queue # <<>> /\ Leaving(queue[1])'
      <3> SUFFICES ASSUME b_at # "wait"
                   PROVE  queue # <<>> /\ Leaving(queue[1])'
        OBVIOUS
      <3>1. queue # <<>> /\ Leaving(queue[1])
        BY DEF BkIInv, QueueLive
      <3>2. PICK r \in BCaller \X (1..BMaxCalls) : r = queue[1]
        BY <1>1, <3>1, Entries
      <3>3. Leaving(r)'
        BY <1>6, <3>1, <3>2
      <3> QED
        BY <3>1, <3>2, <3>3 DEF Leaving, Finished
    <2> QED
      BY <2>1, <2>2 DEF BkIInv, QueueLive
  <1>8. CallersServed'
    <2>1. ASSUME NEW y \in BCaller, b_pc'[y] = "stopped"
          PROVE  Queued(y)' /\ b_ctx'[y] /\ b_mode'[y] = "wait"
      <3>1. CASE y = x
        BY <1>4, <2>1, <3>1
      <3>2. CASE y # x
        <4>1. Queued(y) /\ b_ctx[y] /\ b_mode[y] = "wait"
          BY <2>1, <3>2 DEF BkIInv, CallersServed
        <4>2. InFlight(y)
          BY <4>1, SMTT(30) DEF Queued, BkIInv, QueueLive
        <4> QED
          BY <1>4, <3>2, <4>1, <4>2
      <3> QED
        BY <3>1, <3>2
    <2>2. ASSUME NEW y \in BCaller, b_pc'[y] = "check", ~b_done'[y]
          PROVE  Queued(y)' \/ (b_at' = "done" /\ queue'[1] = <<y, b_calls'[y]>>)
      <3>1. y # x
        BY <2>2
      <3>2. Queued(y) \/ (b_at = "done" /\ queue[1] = <<y, b_calls[y]>>)
        BY <2>2, <3>1 DEF BkIInv, CallersServed
      <3>3. Queued(y) => InFlight(y)
        BY SMTT(30) DEF Queued, BkIInv, QueueLive
      <3> QED
        BY <1>4, <3>1, <3>2, <3>3
    <2>3. ASSUME NEW y \in BCaller, b_pc'[y] = "started" \/ (b_pc'[y] = "check" /\ b_done'[y])
          PROVE  Finished(y)'
      <3>1. y # x
        BY <2>3
      <3> QED
        BY <2>3, <3>1 DEF BkIInv, CallersServed, Finished
    <2>4. \A y \in BCaller : b_pc'[y] = "request" /\ b_touched' = {} => ~b_done'[y]
      BY DEF BkIInv, CallersServed
    <2> QED
      BY <2>1, <2>2, <2>3, <2>4 DEF CallersServed
  <1>9. BNoDeadRequest'
    BY DEF BkIInv, BNoDeadRequest
  <1> QED
    BY <1>5, <1>7, <1>8, <1>9 DEF BkIInv

\* dev_block_{wait,spin}_{read,write}: a new request.
LEMMA BlockAccessStep ==
  ASSUME BkIInv, Counts \subseteq {1}, NEW x \in BCaller, block_access(x)
  PROVE  BkIInv'
  <1>0. BkTypes /\ BlkCount \in Nat /\ BMaxCalls \in Nat
    BY BlockAssumption DEF BkIInv
  <1>1. PICK m \in {"wait", "spin"}, a \in 0..BlkCount, n \in Counts :
          b_mode' = [b_mode EXCEPT ![x] = m] /\ lba' = [lba EXCEPT ![x] = a] /\ bcount' = [bcount EXCEPT ![x] = n]
    BY DEF block_access
  <1>2. /\ b_pc[x] = "idle" /\ b_calls[x] < BMaxCalls /\ (smp \/ b_at = "wait")
        /\ progress' = [progress EXCEPT ![x] = 0]
        /\ b_done' = [b_done EXCEPT ![x] = FALSE] /\ b_ctx' = [b_ctx EXCEPT ![x] = FALSE]
        /\ b_calls' = [b_calls EXCEPT ![x] = @ + 1] /\ b_pc' = [b_pc EXCEPT ![x] = "request"]
        /\ UNCHANGED <<smp, queue, op, b_at, b_touched>>
    BY DEF block_access, BAt, BGoto
  <1>3. n = 1 /\ a \in Nat /\ b_calls[x] + 1 \in 0..BMaxCalls
    BY <1>0, <1>1, <1>2, SMTT(30) DEF BkTypes
  <1>4. BkTypes'
    <2>1. /\ b_pc' \in [BCaller -> {"idle", "request", "check", "stopped", "started"}]
          /\ b_mode' \in [BCaller -> {"wait", "spin"}] /\ lba' \in [BCaller -> Nat]
          /\ bcount' \in [BCaller -> 0..1] /\ progress' \in [BCaller -> -1..1]
          /\ b_done' \in [BCaller -> BOOLEAN] /\ b_ctx' \in [BCaller -> BOOLEAN]
      BY <1>0, <1>1, <1>2, <1>3, SMTT(30) DEF BkTypes
    <2>2. b_calls' \in [BCaller -> 0..BMaxCalls]
      BY <1>0, <1>2, <1>3 DEF BkTypes
    <2>3. \A y \in BCaller : progress'[y] <= bcount'[y] /\ (b_pc'[y] # "idle" => bcount'[y] = 1 /\ b_calls'[y] >= 1)
      BY <1>0, <1>1, <1>2, <1>3, SMTT(30) DEF BkTypes
    <2>4. \A y \in BCaller : b_pc'[y] = "request" => progress'[y] = 0
      BY <1>0, <1>2 DEF BkTypes
    <2> QED
      BY <1>0, <1>2, <2>1, <2>2, <2>3, <2>4 DEF BkTypes
  <1>5. \A y \in BCaller \ {x} :
           /\ b_pc'[y] = b_pc[y] /\ b_mode'[y] = b_mode[y] /\ lba'[y] = lba[y] /\ bcount'[y] = bcount[y]
           /\ progress'[y] = progress[y] /\ b_done'[y] = b_done[y] /\ b_ctx'[y] = b_ctx[y]
           /\ b_calls'[y] = b_calls[y]
    BY <1>0, <1>1, <1>2 DEF BkTypes
  <1>6. b_pc'[x] = "request" /\ b_calls'[x] = b_calls[x] + 1 /\ ~InFlight(x) /\ ~b_done'[x]
    BY <1>0, <1>2 DEF BkTypes, InFlight
  <1>7. \A r \in BCaller \X (1..BMaxCalls) : (b_at # "wait" /\ r = queue[1] /\ r[1] = x /\ Leaving(r)) => Leaving(r)'
    BY <1>0, <1>2, <1>6, SMTT(30) DEF Leaving, BkTypes
  <1> QED
    BY <1>2, <1>4, <1>5, <1>6, <1>7, BCallerStep

\* dev_block_wait_request: the caller stops only while its request is queued.
LEMMA BlockStopStep ==
  ASSUME BkIInv, NEW x \in BCaller, block_stop(x)
  PROVE  BkIInv'
  <1>0. BkTypes
    BY DEF BkIInv
  <1>1. /\ b_pc[x] = "check" /\ b_mode[x] = "wait" /\ ~b_done[x] /\ (b_at # "done" \/ bwho # x)
        /\ b_ctx' = [b_ctx EXCEPT ![x] = TRUE] /\ b_pc' = [b_pc EXCEPT ![x] = "stopped"]
        /\ UNCHANGED <<smp, b_mode, lba, bcount, progress, b_done, b_calls, queue, op, b_at, b_touched>>
    BY DEF block_stop, BAt, BGoto
  <1>2. BkTypes'
    <2>1. /\ b_pc' \in [BCaller -> {"idle", "request", "check", "stopped", "started"}]
          /\ b_ctx' \in [BCaller -> BOOLEAN]
      BY <1>0, <1>1 DEF BkTypes
    <2>2. \A y \in BCaller : /\ b_pc'[y] # "idle" => bcount'[y] = 1 /\ b_calls'[y] >= 1
                             /\ b_pc'[y] = "request" => progress'[y] = 0
      BY <1>0, <1>1 DEF BkTypes
    <2> QED
      BY <1>0, <1>1, <2>1, <2>2 DEF BkTypes
  <1>3. \A y \in BCaller \ {x} :
           /\ b_pc'[y] = b_pc[y] /\ b_mode'[y] = b_mode[y] /\ lba'[y] = lba[y] /\ bcount'[y] = bcount[y]
           /\ progress'[y] = progress[y] /\ b_done'[y] = b_done[y] /\ b_ctx'[y] = b_ctx[y]
           /\ b_calls'[y] = b_calls[y]
    BY <1>0, <1>1 DEF BkTypes
  <1>4. b_pc'[x] = "stopped" /\ b_ctx'[x] /\ b_mode'[x] = "wait" /\ b_calls'[x] = b_calls[x]
    BY <1>0, <1>1 DEF BkTypes
  <1>5. Queued(x)
    <2>1. Queued(x) \/ (b_at = "done" /\ queue[1] = <<x, b_calls[x]>>)
      BY <1>1 DEF BkIInv, CallersServed
    <2>2. ASSUME b_at = "done", queue[1] = <<x, b_calls[x]>>
          PROVE  FALSE
      <3>1. queue # <<>>
        BY <2>2 DEF BkIInv, QueueLive
      <3>2. bwho = queue[1][1]
        BY <1>0, <3>1, Entries
      <3> QED
        BY <1>1, <2>2, <3>2, SMTT(30)
    <2> QED
      BY <2>1, <2>2
  <1>6. PICK i \in 1..Len(queue) : ToServe(i) /\ queue[i] = <<x, b_calls[x]>>
    BY <1>5 DEF Queued
  <1>7. InFlight(x)
    BY <1>6, SMTT(30) DEF BkIInv, QueueLive
  <1>8. InFlight(x)'
    BY <1>1, <1>4, <1>7 DEF InFlight
  <1>9. ASSUME NEW r \in BCaller \X (1..BMaxCalls), b_at # "wait", r[1] = x, Leaving(r), r = queue[1]
        PROVE  FALSE
    <2>1. queue # <<>>
      BY <1>9 DEF BkIInv, QueueLive
    <2>2. 1 \in 1..Len(queue)
      BY <1>0, <2>1, Entries
    <2>3. i # 1
      BY <1>6, <1>9 DEF ToServe
    <2>4. queue[i][1] # queue[1][1]
      BY <2>2, <2>3 DEF BkIInv, QueueLive
    <2> QED
      BY <1>6, <1>9, <2>4, SMTT(30)
  <1>10. \A r \in BCaller \X (1..BMaxCalls) : (b_at # "wait" /\ r = queue[1] /\ r[1] = x /\ Leaving(r)) => Leaving(r)'
    BY <1>9
  <1> QED
    BY <1>1, <1>2, <1>3, <1>4, <1>5, <1>7, <1>8, <1>10, BCallerStep

\* The caller returns, its request done.
LEMMA BlockReturnStep ==
  ASSUME BkIInv, NEW x \in BCaller, block_return(x)
  PROVE  BkIInv'
  <1>0. BkTypes
    BY DEF BkIInv
  <1>1. /\ (b_pc[x] = "check" /\ b_done[x]) \/ b_pc[x] = "started"
        /\ smp \/ b_at = "wait"
        /\ b_pc' = [b_pc EXCEPT ![x] = "idle"]
        /\ UNCHANGED <<smp, b_mode, lba, bcount, progress, b_done, b_ctx, b_calls, queue, op, b_at, b_touched>>
    BY DEF block_return, BAt, BGoto
  <1>2. BkTypes'
    <2>1. b_pc' \in [BCaller -> {"idle", "request", "check", "stopped", "started"}]
      BY <1>0, <1>1 DEF BkTypes
    <2>2. \A y \in BCaller : /\ b_pc'[y] # "idle" => bcount'[y] = 1 /\ b_calls'[y] >= 1
                             /\ b_pc'[y] = "request" => progress'[y] = 0
      BY <1>0, <1>1 DEF BkTypes
    <2> QED
      BY <1>0, <1>1, <2>1, <2>2 DEF BkTypes
  <1>3. \A y \in BCaller \ {x} :
           /\ b_pc'[y] = b_pc[y] /\ b_mode'[y] = b_mode[y] /\ lba'[y] = lba[y] /\ bcount'[y] = bcount[y]
           /\ progress'[y] = progress[y] /\ b_done'[y] = b_done[y] /\ b_ctx'[y] = b_ctx[y]
           /\ b_calls'[y] = b_calls[y]
    BY <1>0, <1>1 DEF BkTypes
  <1>4. b_pc'[x] = "idle" /\ ~InFlight(x)
    BY <1>0, <1>1 DEF BkTypes, InFlight
  <1>5. \A r \in BCaller \X (1..BMaxCalls) : (b_at # "wait" /\ r = queue[1] /\ r[1] = x /\ Leaving(r)) => Leaving(r)'
    BY <1>0, <1>1, <1>4 DEF Leaving, BkTypes, Finished
  <1> QED
    BY <1>1, <1>2, <1>3, <1>4, <1>5, BCallerStep

\* block_soclib_request: the request is queued, or has failed.
LEMMA BlockRequestStep ==
  ASSUME BkIInv, NEW x \in BCaller, block_request(x)
  PROVE  BkIInv'
  <1>0. BkTypes /\ BlkCount \in Nat /\ BMaxCalls \in Nat
    BY BlockAssumption DEF BkIInv
  <1>1. /\ b_pc[x] = "request" /\ b_at = "wait" /\ b_pc' = [b_pc EXCEPT ![x] = "check"]
        /\ UNCHANGED <<smp, b_mode, lba, bcount, b_ctx, b_calls, b_at, b_touched>>
    BY DEF block_request, BAt, BGoto
  <1>2. \A y \in BCaller : b_pc'[y] = IF y = x THEN "check" ELSE b_pc[y]
    BY <1>0, <1>1 DEF BkTypes
  <1>3. b_pc' \in [BCaller -> {"idle", "request", "check", "stopped", "started"}]
    BY <1>0, <1>1 DEF BkTypes
  <1>4. progress[x] = 0 /\ bcount[x] = 1 /\ lba[x] \in Nat /\ b_calls[x] \in 1..BMaxCalls
    BY <1>0, <1>1, SMTT(30) DEF BkTypes
  <1>5. \A i \in 1..Len(queue) : queue[i][1] # x /\ ToServe(i) /\ InFlight(queue[i][1])
                                 /\ queue[i][2] = b_calls[queue[i][1]]
    BY <1>1 DEF BkIInv, QueueLive, ToServe, InFlight
  <1>6. BNoDeadRequest'
    BY <1>1 DEF BkIInv, BNoDeadRequest
  <1>7. CASE lba[x] + bcount[x] > BlkCount
    <2>1. /\ progress' = [progress EXCEPT ![x] = -1] /\ b_done' = [b_done EXCEPT ![x] = TRUE]
          /\ UNCHANGED <<queue, op>>
      BY <1>0, <1>4, <1>7, SMTT(30) DEF block_request
    <2>2. BkTypes'
      <3>1. progress' \in [BCaller -> -1..1] /\ b_done' \in [BCaller -> BOOLEAN]
        BY <1>0, <2>1, SMTT(30) DEF BkTypes
      <3>2. \A y \in BCaller : /\ progress'[y] <= bcount'[y] /\ (b_pc'[y] # "idle" => bcount'[y] = 1 /\ b_calls'[y] >= 1)
                               /\ b_pc'[y] = "request" => progress'[y] = 0
        BY <1>0, <1>1, <1>2, <1>4, <2>1, SMTT(30) DEF BkTypes
      <3> QED
        BY <1>0, <1>1, <1>3, <2>1, <3>1, <3>2 DEF BkTypes
    <2>3. \A y \in BCaller : y # x => progress'[y] = progress[y] /\ b_done'[y] = b_done[y] /\ (InFlight(y)' <=> InFlight(y))
      BY <1>0, <1>1, <1>2, <2>1 DEF BkTypes, InFlight
    <2>4. progress'[x] = -1 /\ b_done'[x]
      BY <1>0, <2>1 DEF BkTypes
    <2>5. DeviceWorks'
      BY <1>1, <2>1 DEF BkIInv, DeviceWorks, bwho
    <2>6. QueueLive'
      <3>1. \A i \in 1..Len(queue) : InFlight(queue[i][1])' /\ queue[i][1] \in BCaller
        <4> SUFFICES ASSUME NEW i \in 1..Len(queue)
                     PROVE  InFlight(queue[i][1])' /\ queue[i][1] \in BCaller
          BY <2>1
        <4>1. PICK y \in BCaller : y = queue[i][1] /\ y # x /\ InFlight(y)
          BY <1>0, <1>5, Entries
        <4>2. InFlight(y)'
          BY <2>3, <4>1
        <4> QED
          BY <2>1, <4>1, <4>2 DEF InFlight
      <3> QED
        BY <1>1, <1>5, <2>1, <3>1 DEF BkIInv, QueueLive
    <2>7. \A y \in BCaller : Queued(y) => Queued(y)'
      BY <1>1, <2>1 DEF Queued, ToServe
    <2>8. CallersServed'
      <3>1. ASSUME NEW y \in BCaller, y # x
            PROVE  /\ b_pc'[y] = "stopped" => Queued(y)' /\ b_ctx'[y] /\ b_mode'[y] = "wait"
                   /\ b_pc'[y] = "check" /\ ~b_done'[y] => Queued(y)'
                   /\ b_pc'[y] = "started" \/ (b_pc'[y] = "check" /\ b_done'[y]) => Finished(y)'
                   /\ b_pc'[y] = "request" /\ b_touched' = {} => ~b_done'[y]
        BY <1>1, <1>2, <2>3, <2>7, <3>1, SMTT(30) DEF BkIInv, CallersServed, Finished
      <3>2. Finished(x)' /\ b_pc'[x] = "check" /\ b_done'[x]
        BY <1>2, <2>4, SMTT(30) DEF Finished
      <3> QED
        BY <3>1, <3>2 DEF CallersServed
    <2> QED
      BY <1>6, <2>2, <2>5, <2>6, <2>8 DEF BkIInv
  <1>8. CASE lba[x] + bcount[x] <= BlkCount
    <2>1. /\ queue' = Append(queue, <<x, b_calls[x]>>) /\ UNCHANGED <<progress, b_done>>
          /\ IF queue = <<>> THEN op' = <<x, lba[x] + progress'[x]>> ELSE UNCHANGED op
      BY <1>8 DEF block_request, op_start
    <2>2. PICK r \in BCaller \X (1..BMaxCalls) : r = <<x, b_calls[x]>>
      BY <1>4
    <2>3. PICK l \in Nat : l = Len(queue)
      BY <1>0, Entries
    <2>4. /\ queue' \in Seq(BCaller \X (1..BMaxCalls)) /\ Len(queue') = l + 1
          /\ queue'[l + 1] = r /\ \A i \in 1..l : queue'[i] = queue[i]
      BY <1>0, <2>1, <2>2, <2>3, SMTT(30) DEF BkTypes
    <2>5. BkTypes'
      <3>1. \A y \in BCaller : /\ b_pc'[y] # "idle" => bcount'[y] = 1 /\ b_calls'[y] >= 1
                               /\ b_pc'[y] = "request" => progress'[y] = 0
        BY <1>0, <1>1, <1>2, <1>4, <2>1 DEF BkTypes
      <3> QED
        BY <1>0, <1>1, <1>3, <2>1, <2>4, <3>1 DEF BkTypes
    <2>6. \A i \in 1..l + 1 : ToServe(i)'
      BY <1>1, <2>4 DEF ToServe
    <2>7. ~b_done[x]
      <3>1. b_touched = {}
        BY DEF block_request, BAt
      <3> QED
        BY <1>1, <3>1 DEF BkIInv, CallersServed
    <2>8. InFlight(x)' /\ \A y \in BCaller : y # x => (InFlight(y)' <=> InFlight(y))
      BY <1>1, <1>2, <1>4, <1>8, <2>1, <2>7 DEF InFlight
    <2>9. Queued(x)' /\ \A y \in BCaller : Queued(y) => Queued(y)'
      <3>1. ToServe(l + 1)' /\ l + 1 \in 1..Len(queue') /\ queue'[l + 1] = <<x, b_calls'[x]>>
        BY <1>1, <2>2, <2>4, <2>6, SMTT(30)
      <3>2. \A y \in BCaller : Queued(y) => Queued(y)'
        BY <1>1, <2>3, <2>4, <2>6, SMTT(30) DEF Queued
      <3> QED
        BY <3>1, <3>2 DEF Queued
    <2>10. QueueLive'
      <3>1. ASSUME NEW i \in 1..Len(queue')
            PROVE  queue'[i][2] = b_calls'[queue'[i][1]] /\ (InFlight(queue[i][1]))'
        <4>1. CASE i = l + 1
          BY <1>1, <2>2, <2>4, <2>8, <4>1, SMTT(30) DEF InFlight
        <4>2. CASE i \in 1..l
          <5>1. PICK y \in BCaller : y = queue[i][1] /\ y # x /\ InFlight(y) /\ queue[i][2] = b_calls[y]
            BY <1>0, <1>5, <2>3, <4>2, Entries
          <5>2. InFlight(y)'
            BY <2>8, <5>1
          <5>3. queue'[i][1] = y /\ queue'[i][2] = b_calls'[y]
            BY <1>1, <2>4, <4>2, <5>1
          <5> QED
            BY <5>2, <5>3 DEF InFlight
        <4> QED
          BY <2>4, <4>1, <4>2, SMTT(30)
      <3>2. ASSUME NEW i \in 1..Len(queue'), NEW j \in 1..Len(queue'), i # j
            PROVE  queue'[i][1] # queue'[j][1]
        <4>1. /\ \A k \in 1..l : queue'[k] = queue[k] /\ queue[k][1] # x
              /\ queue'[l + 1][1] = x
          BY <1>5, <2>2, <2>3, <2>4, SMTT(30)
        <4>2. CASE i \in 1..l /\ j \in 1..l
          BY <2>3, <3>2, <4>1, <4>2 DEF BkIInv, QueueLive
        <4>3. CASE i = l + 1 \/ j = l + 1
          <5>1. CASE i = l + 1
            <6>1. j \in 1..l
              BY <2>4, <3>2, <5>1, SMTT(30)
            <6> QED
              BY <4>1, <5>1, <6>1
          <5>2. CASE j = l + 1
            <6>1. i \in 1..l
              BY <2>4, <3>2, <5>2, SMTT(30)
            <6> QED
              BY <4>1, <5>2, <6>1
          <5> QED
            BY <4>3, <5>1, <5>2
        <4> QED
          BY <2>4, <4>2, <4>3, SMTT(30)
      <3> QED
        BY <1>1, <3>1, <3>2 DEF QueueLive
    <2>11. DeviceWorks'
      <3>1. CASE queue = <<>>
        <4>0. lba[x] + progress'[x] = lba[x] /\ lba[x] < BlkCount
          BY <1>0, <1>4, <1>8, <2>1, SMTT(30)
        <4>1. op' = <<x, lba[x]>> /\ op' # <<>> /\ op'[1] = x /\ op'[2] = lba[x]
          BY <2>1, <3>1, <4>0, SMTT(30)
        <4>2. queue' # <<>> /\ Head(queue') = r /\ r[1] = x
          BY <2>1, <2>2, <3>1, SMTT(30)
        <4> QED
          BY <1>1, <4>0, <4>1, <4>2 DEF DeviceWorks, bwho
      <3>2. CASE queue # <<>>
        <4>1. /\ queue' # <<>> /\ Head(queue') = Head(queue) /\ op' = op
          BY <1>0, <2>1, <2>2, <3>2, SMTT(30) DEF BkTypes
        <4> QED
          BY <1>1, <3>2, <4>1 DEF BkIInv, DeviceWorks, bwho
      <3> QED
        BY <3>1, <3>2
    <2>12. CallersServed'
      <3>1. ASSUME NEW y \in BCaller, y # x
            PROVE  /\ b_pc'[y] = "stopped" => Queued(y)' /\ b_ctx'[y] /\ b_mode'[y] = "wait"
                   /\ b_pc'[y] = "check" /\ ~b_done'[y] => Queued(y)'
                   /\ b_pc'[y] = "started" \/ (b_pc'[y] = "check" /\ b_done'[y]) => Finished(y)'
                   /\ b_pc'[y] = "request" /\ b_touched' = {} => ~b_done'[y]
        BY <1>1, <1>2, <2>1, <2>9, <3>1 DEF BkIInv, CallersServed, Finished
      <3>2. Queued(x)' /\ b_pc'[x] = "check" /\ ~b_done'[x]
        BY <1>2, <2>1, <2>7, <2>9
      <3> QED
        BY <3>1, <3>2 DEF CallersServed
    <2> QED
      BY <1>6, <2>5, <2>10, <2>11, <2>12 DEF BkIInv
  <1> QED
    BY <1>0, <1>4, <1>7, <1>8, SMTT(30)

\* The entry the handler is at, and its caller.
LEMMA AtHead ==
  ASSUME BkIInv, queue # <<>>
  PROVE  \E x \in BCaller : /\ bwho = x /\ Head(queue) = queue[1] /\ queue[1][1] = x
                            /\ queue[1][2] \in 1..BMaxCalls /\ queue[1] = <<x, queue[1][2]>>
                            /\ 1 \in 1..Len(queue) /\ Len(queue) \in Nat
                            /\ \A i \in 1..Len(queue) : i # 1 => queue[i][1] # x
  <1>1. BkTypes
    BY DEF BkIInv
  <1> QED
    BY <1>1, Entries DEF BkIInv, QueueLive

\* block_soclib_irq, up to the callback.
LEMMA BlockIrqStep ==
  ASSUME BkIInv, block_irq
  PROVE  BkIInv'
  <1>0. BkTypes /\ BlkCount \in Nat /\ BMaxCalls \in Nat
    BY BlockAssumption DEF BkIInv
  <1>1. /\ b_at = "wait" /\ op # <<>> /\ queue # <<>> /\ op' = <<>>
        /\ UNCHANGED <<smp, b_mode, lba, bcount, b_ctx, b_calls, queue, b_touched>>
    BY DEF block_irq, BIrqAt, BkIInv, DeviceWorks
  <1>2. PICK x \in BCaller :
          /\ bwho = x /\ queue[1][1] = x /\ queue[1] = <<x, queue[1][2]>>
          /\ 1 \in 1..Len(queue) /\ Len(queue) \in Nat
          /\ \A i \in 1..Len(queue) : i # 1 => queue[i][1] # x
    BY <1>1, AtHead
  <1>3. InFlight(x) /\ queue[1][2] = b_calls[x] /\ b_pc[x] \in {"check", "stopped"} /\ bcount[x] = 1
    <2>1. InFlight(x) /\ queue[1][2] = b_calls[x]
      BY <1>1, <1>2 DEF BkIInv, QueueLive, ToServe
    <2> QED
      BY <1>0, <2>1 DEF InFlight, BkTypes
  <1>4. PICK e \in BOOLEAN : progress' = [progress EXCEPT ![x] = IF e THEN -1 ELSE @ + 1]
    BY <1>2 DEF block_irq
  <1>5. /\ progress' \in [BCaller -> -1..1] /\ progress'[x] \in {-1, 1}
        /\ \A y \in BCaller : y # x => progress'[y] = progress[y]
    <2>1. progress[x] = 0
      BY <1>3 DEF InFlight
    <2> QED
      BY <1>0, <1>4, <2>1, SMTT(30) DEF BkTypes
  <1>6. block_callback(x)
    BY <1>2 DEF block_irq
  <1>7. progress'[x] < 0 \/ progress'[x] >= bcount[x]
    BY <1>3, <1>5, SMTT(30)
  <1>8. \/ /\ b_mode[x] = "wait" /\ b_pc' = [b_pc EXCEPT ![x] = IF b_ctx[x] THEN "started" ELSE @]
           /\ b_at' = "done" /\ UNCHANGED b_done
        \/ /\ b_mode[x] # "wait" /\ b_done' = [b_done EXCEPT ![x] = TRUE]
           /\ b_at' = "end" /\ UNCHANGED b_pc
    BY <1>6, <1>7 DEF block_callback
  <1>9. /\ b_pc' \in [BCaller -> {"idle", "request", "check", "stopped", "started"}]
        /\ b_done' \in [BCaller -> BOOLEAN] /\ b_at' \in {"done", "end"}
        /\ \A y \in BCaller : y # x => b_pc'[y] = b_pc[y] /\ b_done'[y] = b_done[y]
    BY <1>0, <1>8 DEF BkTypes
  <1>10. /\ b_pc'[x] \in {"check", "started"}
         /\ b_pc'[x] = "check" => b_done'[x] \/ b_at' = "done"
         /\ b_at' = "end" => b_done'[x]
    <2>1. b_pc[x] = "stopped" => b_ctx[x] /\ b_mode[x] = "wait"
      BY DEF BkIInv, CallersServed
    <2> QED
      BY <1>0, <1>3, <1>8, <2>1 DEF BkTypes
  <1>11. Finished(x)'
    BY <1>1, <1>3, <1>5, SMTT(30) DEF Finished
  <1>12. BkTypes'
    <2>1. \A y \in BCaller : /\ progress'[y] <= bcount'[y]
                             /\ b_pc'[y] # "idle" => bcount'[y] = 1 /\ b_calls'[y] >= 1
                             /\ b_pc'[y] = "request" => progress'[y] = 0
      BY <1>0, <1>1, <1>3, <1>5, <1>9, <1>10, SMTT(30) DEF BkTypes
    <2> QED
      BY <1>0, <1>1, <1>5, <1>9, <2>1 DEF BkTypes
  <1>13. DeviceWorks'
    BY <1>1, <1>9 DEF DeviceWorks
  <1>14. \A i \in 1..Len(queue) : ToServe(i) /\ (ToServe(i)' <=> i # 1)
    BY <1>1, <1>9 DEF ToServe
  <1>15. QueueLive'
    <2>1. ASSUME NEW i \in 1..Len(queue), i # 1
          PROVE  queue[i][2] = b_calls'[queue[i][1]] /\ InFlight(queue[i][1])'
      <3>1. PICK y \in BCaller : y = queue[i][1] /\ y # x /\ queue[i][2] = b_calls[y] /\ InFlight(y)
        BY <1>0, <1>2, <1>14, <2>1, Entries DEF BkIInv, QueueLive
      <3>2. InFlight(y)' /\ b_calls'[y] = b_calls[y]
        BY <1>1, <1>5, <1>9, <3>1 DEF InFlight
      <3> QED
        BY <1>1, <3>1, <3>2 DEF InFlight
    <2>2. Leaving(queue[1])'
      BY <1>1, <1>2, <1>3, <1>10, <1>11 DEF Leaving, Finished
    <2> QED
      BY <1>1, <1>14, <2>1, <2>2 DEF BkIInv, QueueLive
  <1>16. CallersServed'
    <2>1. ASSUME NEW y \in BCaller, y # x
          PROVE  /\ b_pc'[y] = "stopped" => Queued(y)' /\ b_ctx'[y] /\ b_mode'[y] = "wait"
                 /\ b_pc'[y] = "check" /\ ~b_done'[y] => Queued(y)'
                 /\ b_pc'[y] = "started" \/ (b_pc'[y] = "check" /\ b_done'[y]) => Finished(y)'
                 /\ b_pc'[y] = "request" /\ b_touched' = {} => ~b_done'[y]
      <3>1. Queued(y) => Queued(y)'
        BY <1>1, <1>2, <1>14, <2>1, SMTT(30) DEF Queued
      <3>2. /\ b_pc[y] = "stopped" => Queued(y) /\ b_ctx[y] /\ b_mode[y] = "wait"
            /\ b_pc[y] = "check" /\ ~b_done[y] => Queued(y)
            /\ b_pc[y] = "started" \/ (b_pc[y] = "check" /\ b_done[y]) => Finished(y)
            /\ b_pc[y] = "request" /\ b_touched = {} => ~b_done[y]
        BY <1>1 DEF BkIInv, CallersServed
      <3> QED
        BY <1>1, <1>5, <1>9, <2>1, <3>1, <3>2 DEF Finished
    <2>2. queue'[1] = <<x, b_calls'[x]>>
      BY <1>1, <1>2, <1>3
    <2> QED
      BY <1>10, <1>11, <2>1, <2>2 DEF CallersServed
  <1>17. BNoDeadRequest'
    BY <1>1 DEF BkIInv, BNoDeadRequest
  <1> QED
    BY <1>12, <1>13, <1>15, <1>16, <1>17 DEF BkIInv

\* dev_block_sync_request sets done.
LEMMA BlockDoneStep ==
  ASSUME BkIInv, block_done
  PROVE  BkIInv'
  <1>0. BkTypes
    BY DEF BkIInv
  <1>1. /\ b_at = "done" /\ b_at' = "end" /\ queue # <<>> /\ Leaving(queue[1]) /\ BUse(Head(queue))
        /\ UNCHANGED <<smp, b_pc, b_mode, lba, bcount, progress, b_ctx, b_calls, queue, op>>
    BY DEF block_done, BIrqAt, BkIInv, QueueLive
  <1>2. PICK x \in BCaller :
          /\ bwho = x /\ Head(queue) = queue[1] /\ queue[1][1] = x /\ queue[1] = <<x, queue[1][2]>>
          /\ 1 \in 1..Len(queue) /\ Len(queue) \in Nat
          /\ \A i \in 1..Len(queue) : i # 1 => queue[i][1] # x
    BY <1>1, AtHead
  <1>3. b_done' = [b_done EXCEPT ![x] = TRUE]
    BY <1>2 DEF block_done
  <1>4. b_done' \in [BCaller -> BOOLEAN] /\ b_done'[x] /\ \A y \in BCaller : y # x => b_done'[y] = b_done[y]
    BY <1>0, <1>3 DEF BkTypes
  <1>5. BkTypes'
    BY <1>0, <1>1, <1>4 DEF BkTypes
  <1>6. DeviceWorks'
    BY <1>1 DEF BkIInv, DeviceWorks
  <1>7. \A i \in 1..Len(queue) : (ToServe(i)' <=> ToServe(i)) /\ (ToServe(i) <=> i # 1)
    BY <1>1 DEF ToServe
  <1>8. QueueLive'
    <2>1. ASSUME NEW i \in 1..Len(queue), i # 1
          PROVE  queue[i][2] = b_calls'[queue[i][1]] /\ InFlight(queue[i][1])'
      <3>1. PICK y \in BCaller : y = queue[i][1] /\ y # x /\ queue[i][2] = b_calls[y] /\ InFlight(y)
        BY <1>0, <1>2, <1>7, <2>1, Entries DEF BkIInv, QueueLive
      <3>2. InFlight(y)' /\ b_calls'[y] = b_calls[y]
        BY <1>1, <1>4, <3>1 DEF InFlight
      <3> QED
        BY <1>1, <3>1, <3>2 DEF InFlight
    <2>2. Leaving(queue[1])'
      BY <1>1, <1>2, <1>4 DEF Leaving, Finished
    <2> QED
      BY <1>1, <1>7, <2>1, <2>2 DEF BkIInv, QueueLive
  <1>9. \/ b_pc[x] \in {"check", "started"} /\ Finished(x) /\ BAlive(queue[1])
        \/ b_pc[x] = "idle"
        \/ b_pc[x] = "request" /\ ~BAlive(queue[1])
    BY <1>1, <1>2 DEF Leaving, BAlive
  <1>10. CallersServed'
    <2>1. ASSUME NEW y \in BCaller, y # x
          PROVE  /\ b_pc'[y] = "stopped" => Queued(y)' /\ b_ctx'[y] /\ b_mode'[y] = "wait"
                 /\ b_pc'[y] = "check" /\ ~b_done'[y] => Queued(y)'
                 /\ b_pc'[y] = "started" \/ (b_pc'[y] = "check" /\ b_done'[y]) => Finished(y)'
                 /\ b_pc'[y] = "request" /\ b_touched' = {} => ~b_done'[y]
      <3>1. Queued(y) => Queued(y)'
        BY <1>1, <1>7 DEF Queued
      <3>2. /\ b_pc[y] = "stopped" => Queued(y) /\ b_ctx[y] /\ b_mode[y] = "wait"
            /\ b_pc[y] = "check" /\ ~b_done[y] => Queued(y)
            /\ b_pc[y] = "started" \/ (b_pc[y] = "check" /\ b_done[y]) => Finished(y)
            /\ b_pc[y] = "request" /\ b_touched = {} => ~b_done[y]
        BY <1>2, <2>1, SMTT(30) DEF BkIInv, CallersServed
      <3>3. b_touched' = {} => b_touched = {}
        BY <1>1 DEF BUse
      <3> QED
        BY <1>1, <1>4, <2>1, <3>1, <3>2, <3>3 DEF Finished
    <2>2. b_pc[x] = "request" => b_touched' # {}
      BY <1>1, <1>2, <1>9 DEF BUse
    <2>3. b_pc[x] # "stopped" /\ (b_pc[x] \in {"check", "started"} => Finished(x))
      BY <1>9
    <2> QED
      BY <1>1, <1>4, <2>1, <2>2, <2>3 DEF CallersServed, Finished
  <1>11. BNoDeadRequest'
    <2>1. ~smp => BAlive(queue[1])
      BY <1>1, <1>2 DEF Leaving, BAlive
    <2> QED
      BY <1>1, <1>2, <2>1 DEF BkIInv, BNoDeadRequest, BUse
  <1> QED
    BY <1>5, <1>6, <1>8, <1>10, <1>11 DEF BkIInv

\* block_soclib_irq, after the callback: the request leaves the queue.
LEMMA BlockEndStep ==
  ASSUME BkIInv, block_end
  PROVE  BkIInv'
  <1>0. BkTypes /\ BlkCount \in Nat /\ BMaxCalls \in Nat
    BY BlockAssumption DEF BkIInv
  <1>1. /\ b_at = "end" /\ b_at' = "wait" /\ queue # <<>> /\ Leaving(queue[1]) /\ BUse(Head(queue))
        /\ UNCHANGED <<smp, b_pc, b_mode, lba, bcount, progress, b_done, b_ctx, b_calls>>
    BY DEF block_end, BIrqAt, BkIInv, QueueLive
  <1>2. PICK x \in BCaller :
          /\ bwho = x /\ Head(queue) = queue[1] /\ queue[1][1] = x /\ queue[1] = <<x, queue[1][2]>>
          /\ 1 \in 1..Len(queue) /\ Len(queue) \in Nat
          /\ \A i \in 1..Len(queue) : i # 1 => queue[i][1] # x
    BY <1>1, AtHead
  <1>3. rq_end
    <2>1. bcount[x] \in Int /\ progress[x] \in Int /\ progress[x] <= bcount[x]
      BY <1>0, SMTT(30) DEF BkTypes
    <2> QED
      BY <1>2, <2>1 DEF block_end
  <1>4. PICK l \in Nat : Len(queue) = l + 1
    BY <1>2, SMTT(30)
  <1>5. /\ queue' = Tail(queue) /\ queue' \in Seq(BCaller \X (1..BMaxCalls)) /\ Len(queue') = l
        /\ \A i \in 1..l : queue'[i] = queue[i + 1]
    BY <1>0, <1>1, <1>3, <1>4, SMTT(30) DEF BkTypes, rq_end
  <1>6. BkTypes'
    BY <1>0, <1>1, <1>5 DEF BkTypes
  <1>7. \A i \in 1..l : /\ i + 1 \in 1..Len(queue) /\ i + 1 # 1 /\ ToServe(i + 1) /\ ToServe(i)'
    BY <1>1, <1>4, <1>5, SMTT(30) DEF ToServe
  <1>8. ASSUME NEW i \in 1..l
        PROVE  \E y \in BCaller : /\ y = queue'[i][1] /\ y # x /\ queue'[i][2] = b_calls'[y]
                                  /\ InFlight(y) /\ InFlight(y)'
    <2>1. PICK k \in 1..Len(queue) : k = i + 1 /\ k # 1 /\ ToServe(k) /\ queue'[i] = queue[k]
      BY <1>5, <1>7
    <2>2. PICK y \in BCaller : y = queue[k][1] /\ y # x /\ queue[k][2] = b_calls[y] /\ InFlight(y)
      BY <1>0, <1>2, <2>1, Entries DEF BkIInv, QueueLive
    <2>3. InFlight(y)'
      BY <1>1, <2>2 DEF InFlight
    <2> QED
      BY <1>1, <2>1, <2>2, <2>3
  <1>9. QueueLive'
    <2>1. ASSUME NEW i \in 1..Len(queue')
          PROVE  queue'[i][2] = b_calls'[queue'[i][1]] /\ (InFlight(queue[i][1]))'
      BY <1>5, <1>8 DEF InFlight
    <2>2. ASSUME NEW i \in 1..Len(queue'), NEW j \in 1..Len(queue'), i # j
          PROVE  queue'[i][1] # queue'[j][1]
      <3>1. /\ i + 1 \in 1..Len(queue) /\ j + 1 \in 1..Len(queue) /\ i + 1 # j + 1
            /\ queue'[i] = queue[i + 1] /\ queue'[j] = queue[j + 1]
        BY <1>4, <1>5, <2>2, SMTT(30)
      <3> QED
        BY <3>1 DEF BkIInv, QueueLive
    <2> QED
      BY <1>1, <2>1, <2>2 DEF QueueLive
  <1>10. DeviceWorks'
    <2>1. CASE Tail(queue) = <<>>
      <3>1. op' = <<>> /\ queue' = <<>>
        BY <1>3, <1>5, <2>1 DEF rq_end
      <3> QED
        BY <3>1 DEF DeviceWorks
    <2>2. CASE Tail(queue) # <<>>
      <3>1. 1 \in 1..l /\ Head(queue') = queue'[1] /\ queue' # <<>>
        BY <1>5, <2>2, SMTT(30)
      <3>2. PICK y \in BCaller : y = queue'[1][1] /\ InFlight(y)
        BY <1>8, <3>1
      <3>3. op' = <<y, lba[y] + progress'[y]>>
        BY <1>3, <1>5, <2>2, <3>1, <3>2 DEF rq_end, op_start
      <3>4. lba[y] + progress'[y] = lba[y] /\ lba[y] < BlkCount
        <4>1. progress'[y] = 0 /\ bcount[y] = 1 /\ lba[y] \in Nat /\ lba[y] + bcount[y] <= BlkCount
          BY <1>0, <1>1, <3>2 DEF InFlight, BkTypes
        <4> QED
          BY <1>0, <4>1, SMTT(30)
      <3>5. op' # <<>> /\ op'[1] = y /\ op'[2] = lba[y]
        BY <3>3, <3>4
      <3> QED
        BY <1>1, <3>1, <3>2, <3>4, <3>5 DEF DeviceWorks, bwho
    <2> QED
      BY <2>1, <2>2
  <1>11. CallersServed'
    <2>1. ASSUME NEW y \in BCaller, y # x
          PROVE  /\ b_pc'[y] = "stopped" => Queued(y)' /\ b_ctx'[y] /\ b_mode'[y] = "wait"
                 /\ b_pc'[y] = "check" /\ ~b_done'[y] => Queued(y)'
                 /\ b_pc'[y] = "started" \/ (b_pc'[y] = "check" /\ b_done'[y]) => Finished(y)'
                 /\ b_pc'[y] = "request" /\ b_touched' = {} => ~b_done'[y]
      <3>1. ASSUME Queued(y)
            PROVE  Queued(y)'
        <4>1. PICK i \in 1..Len(queue) : ToServe(i) /\ queue[i] = <<y, b_calls[y]>>
          BY <3>1 DEF Queued
        <4>2. i # 1
          BY <1>1, <4>1 DEF ToServe
        <4>3. PICK k \in 1..l : i = k + 1
          BY <1>4, <4>2, SMTT(30)
        <4>4. queue'[k] = <<y, b_calls'[y]>> /\ k \in 1..Len(queue') /\ ToServe(k)'
          BY <1>1, <1>5, <1>7, <4>1, <4>3
        <4> QED
          BY <4>4 DEF Queued
      <3>2. /\ b_pc[y] = "stopped" => Queued(y) /\ b_ctx[y] /\ b_mode[y] = "wait"
            /\ b_pc[y] = "check" /\ ~b_done[y] => Queued(y)
            /\ b_pc[y] = "started" \/ (b_pc[y] = "check" /\ b_done[y]) => Finished(y)
            /\ b_pc[y] = "request" /\ b_touched = {} => ~b_done[y]
        BY <1>1 DEF BkIInv, CallersServed
      <3>3. b_touched' = {} => b_touched = {}
        BY <1>1 DEF BUse
      <3> QED
        BY <1>1, <2>1, <3>1, <3>2, <3>3 DEF Finished
    <2>2. /\ b_pc[x] # "stopped" /\ (b_pc[x] \in {"check", "started"} => Finished(x))
          /\ b_pc[x] = "check" => b_done[x]
      BY <1>1, <1>2 DEF Leaving
    <2>3. b_pc[x] = "request" /\ b_touched' = {} => ~b_done[x]
      <3>1. b_touched' = {} => b_touched = {}
        BY <1>1 DEF BUse
      <3> QED
        BY <3>1 DEF BkIInv, CallersServed
    <2> QED
      BY <1>1, <2>1, <2>2, <2>3 DEF CallersServed, Finished
  <1>12. BNoDeadRequest'
    <2>1. ~smp => BAlive(queue[1])
      BY <1>1, <1>2 DEF Leaving, BAlive
    <2> QED
      BY <1>1, <1>2, <2>1 DEF BkIInv, BNoDeadRequest, BUse
  <1> QED
    BY <1>6, <1>9, <1>10, <1>11, <1>12 DEF BkIInv

\* The invariant is inductive for requests of one block.
LEMMA BlockInductive == ASSUME Counts \subseteq {1} PROVE BSpec => []BkIInv
  <1>1. BInit => BkIInv
    <2> SUFFICES ASSUME BInit
                 PROVE  BkIInv
      OBVIOUS
    <2>1. Len(queue) = 0 /\ queue \in Seq(BCaller \X (1..BMaxCalls))
      BY SMTT(30) DEF BInit
    <2>2. BkTypes
      BY <2>1, BlockAssumption, SMTT(30) DEF BInit, BkTypes
    <2>3. QueueLive
      BY <2>1, SMTT(30) DEF BInit, QueueLive
    <2> QED
      BY <2>2, <2>3 DEF BInit, BkIInv, DeviceWorks, CallersServed, BNoDeadRequest
  <1>2. BkIInv /\ UNCHANGED bkVars => BkIInv'
    <2> SUFFICES ASSUME BkIInv, UNCHANGED bkVars
                 PROVE  BkIInv'
      OBVIOUS
    <2>1. BkTypes' /\ DeviceWorks' /\ BNoDeadRequest'
      BY DEF bkVars, bkOnly, BkIInv, BkTypes, DeviceWorks, BNoDeadRequest, bwho
    <2>2. QueueLive'
      BY SMTT(30) DEF bkVars, bkOnly, BkIInv, QueueLive, ToServe, InFlight, Leaving, Finished
    <2>3. CallersServed'
      BY DEF bkVars, bkOnly, BkIInv, CallersServed, Queued, ToServe, Finished
    <2> QED
      BY <2>1, <2>2, <2>3 DEF BkIInv
  <1>3. BkIInv /\ BNext => BkIInv'
    BY BlockAccessStep, BlockRequestStep, BlockStopStep, BlockReturnStep, BlockIrqStep, BlockDoneStep, BlockEndStep DEF BNext, BServe, BStep
  <1> QED
    BY <1>1, <1>2, <1>3, PTL DEF BSpec

\* It gives what the run checks.
LEMMA BlockFollows == BkIInv => BlockInv
  <1> SUFFICES ASSUME BkIInv
               PROVE  BlockInv
    OBVIOUS
  <1>1. BkTypes
    BY DEF BkIInv
  <1>2. BTypeOK
    <2>1. \A x \in BCaller : progress[x] \in -1..1 /\ bcount[x] \in 0..1 /\ progress[x] <= bcount[x]
      BY <1>1 DEF BkTypes
    <2>2. \A x \in BCaller : progress[x] \in -1..bcount[x]
      BY <2>1, SMTT(30)
    <2> QED
      BY <1>1, <2>2 DEF BTypeOK, BkTypes
  <1>3. HeadInTransfer
    BY DEF BkIInv, DeviceWorks, HeadInTransfer
  <1>4. BNoLostWakeUp
    <2> SUFFICES ASSUME NEW x \in BCaller, b_pc[x] = "stopped"
                 PROVE  <<x, b_calls[x]>> \in Range(queue) /\ ~b_done[x]
      BY DEF BNoLostWakeUp
    <2>1. PICK i \in 1..Len(queue) : ToServe(i) /\ queue[i] = <<x, b_calls[x]>>
      BY DEF BkIInv, CallersServed, Queued
    <2>2. InFlight(x)
      BY <2>1, SMTT(30) DEF BkIInv, QueueLive
    <2>3. <<x, b_calls[x]>> \in Range(queue)
      BY <1>1, <2>1, SMTT(30) DEF Range, BkTypes
    <2> QED
      BY <2>2, <2>3 DEF InFlight
  <1> QED
    BY <1>2, <1>3, <1>4 DEF BlockInv, BkIInv

\* For requests of one block and any number of callers and calls: the device works
\* on the first request of the queue, no caller stays stopped with its request
\* gone and, with one processor, the handler never uses a request whose caller
\* has returned (device_block.c:81-132, block-soclib.c:61-199).
THEOREM BlockSafe == ASSUME Counts \subseteq {1} PROVE BSpec => []BlockInv
  BY BlockInductive, BlockFollows, PTL

\* A caller returns only when all its blocks were transferred or the request
\* has failed (device_block.c:115-132).
THEOREM BlockComplete == ASSUME Counts \subseteq {1} PROVE BSpec => AllTransferred
  <1>1. BkIInv /\ [BNext]_bkVars =>
          [\A x \in BCaller : b_pc[x] \in {"check", "started"} /\ b_pc'[x] = "idle"
             => progress[x] < 0 \/ progress[x] = bcount[x]]_bkVars
    <2> SUFFICES ASSUME BkIInv, BNext, NEW x \in BCaller, b_pc[x] \in {"check", "started"}, b_pc'[x] = "idle"
                 PROVE  Finished(x)
      BY DEF Finished
    <2>1. BkTypes
      BY DEF BkIInv
    <2>2. ASSUME NEW y \in BCaller, block_return(y)
          PROVE  Finished(x)
      BY <2>1, <2>2 DEF block_return, BAt, BGoto, BkIInv, CallersServed, BkTypes
    <2>3. ASSUME NEW y \in BCaller, block_access(y) \/ block_request(y) \/ block_stop(y)
          PROVE  Finished(x)
      BY <2>1, <2>3 DEF block_access, block_request, block_stop, BAt, BGoto, BkTypes
    <2>4. ASSUME BServe
          PROVE  Finished(x)
      BY <2>1, <2>4 DEF BServe, block_irq, block_done, block_end, block_callback, BkTypes
    <2> QED
      BY <2>2, <2>3, <2>4 DEF BNext, BStep
  <1> QED
    BY <1>1, BlockInductive, PTL DEF BSpec, AllTransferred
-----------------------------------------------------------------------------
(* Physical pages.                                                         *)

\* A set of numbers has a least one.
LEMMA LeastNat ==
  ASSUME NEW T \in SUBSET Nat, T # {}
  PROVE  \E m \in T : \A k \in T : m <= k
  <1>1. PICK R : R = OpToRel(<, Nat) /\ IsWellFoundedOn(R, Nat)
    BY NatLessThanWellFounded
  <1>2. PICK x \in T : \A y \in T : ~(<<y, x>> \in R)
    BY <1>1, WFMin
  <1>3. \A z, y \in Nat : <<y, z>> \in R <=> y < z
    BY <1>1 DEF OpToRel
  <1>4. ASSUME NEW y \in T PROVE x <= y
    <2>1. x \in Nat /\ y \in Nat
      OBVIOUS
    <2>2. ~(<<y, x>> \in R)
      BY <1>2
    <2>3. ~(y < x)
      BY <1>3, <2>1, <2>2
    <2> QED
      BY <2>1, <2>3, SMTT(30)
  <1> QED
    BY <1>4

PgSpec == ppage_region_init /\ [][PgNext]_pgVars

\* L is the list of the n pages that are linked from h by the entries of t
Chain(L, t, h, n) ==
  /\ L \in [1..n -> Page]
  /\ n > 0 => L[1] = h
  /\ \A k \in 1..(n - 1) : L[k + 1] = t[L[k]].val

\* L holds the pages of F, each once
Lists(L, n, F) ==
  /\ \A i, j \in 1..n : L[i] = L[j] => i = j
  /\ \A i \in 1..n : L[i] \in F
  /\ \A p \in F : \E i \in 1..n : L[i] = p

FreePages == {p \in Page : refs[p] = 0}

\* A free page has a link, even the last one, whose link is not used before it
\* becomes free_head of an empty list; another page has its references.
EntryInv ==
  \A p \in Page :
    /\ refs[p] = 0 => table[p].val \in Page
    /\ refs[p] > 0 => table[p] = [free |-> FALSE, val |-> refs[p]]

PgIInv ==
  /\ PgTypeOK /\ table \in [Page -> [free : BOOLEAN, val : Nat]] /\ EntryInv
  /\ \E L : Chain(L, table, free_head, free_count) /\ Lists(L, free_count, FreePages)

\* Following the links yields one list.
LEMMA OneChain ==
  ASSUME NEW t, NEW h, NEW n \in Nat, NEW L, NEW M, Chain(L, t, h, n), Chain(M, t, h, n)
  PROVE  L = M
  <1> DEFINE T == {k \in 1..n : L[k] # M[k]}
  <1>1. SUFFICES ASSUME T # {} PROVE FALSE
    BY SMTT(30) DEF Chain
  <1>2. T \in SUBSET Nat
    BY SMTT(30)
  <1>3. PICK m \in T : \A k \in T : m <= k
    BY <1>1, <1>2, LeastNat
  <1>4. m \in 1..n /\ L[m] # M[m] /\ m \in Nat
    BY <1>2, <1>3
  <1>5. m # 1
    BY <1>4, SMTT(30) DEF Chain
  <1>6. m - 1 \in 1..(n - 1) /\ m - 1 \in 1..n /\ ~(m <= m - 1) /\ (m - 1) + 1 = m
    BY <1>4, <1>5, SMTT(30)
  <1>7. L[m - 1] = M[m - 1]
    BY <1>3, <1>6
  <1>8. L[m] = t[L[m - 1]].val /\ M[m] = t[M[m - 1]].val
    BY <1>6 DEF Chain
  <1> QED
    BY <1>4, <1>7, <1>8

\* A list of n different pages has n pages.
LEMMA ListCount ==
  ASSUME NEW n \in Nat, NEW F, NEW L \in [1..n -> Page], Lists(L, n, F)
  PROVE  IsFiniteSet(F) /\ Cardinality(F) = n
  <1>1. L \in [1..n -> F]
    BY SMTT(30) DEF Lists
  <1>2. L \in Bijection(1..n, F)
    BY <1>1, SMTT(30) DEF Lists, Bijection, Injection, Surjection, IsInjective
  <1>3. IsFiniteSet(1..n) /\ Cardinality(1..n) = n
    BY FS_Interval, SMTT(30)
  <1> QED
    BY <1>2, <1>3, FS_Bijection DEF ExistsBijection

\* e enumerates the numbers of K in their order
Enumerates(e, m, K) ==
  /\ m \in Nat /\ e \in [1..m -> K]
  /\ \A i, j \in 1..m : i < j => e[i] < e[j]
  /\ \A k \in K : \E i \in 1..m : e[i] = k

\* The numbers of a set up to n can be enumerated.
LEMMA Enumeration ==
  ASSUME NEW n \in Nat, NEW K \in SUBSET (1..n)
  PROVE  \E m, e : Enumerates(e, m, K)
  <1> DEFINE Bad == {a \in Nat : \E J \in SUBSET (1..a) : ~\E m, e : Enumerates(e, m, J)}
  <1>1. SUFFICES ASSUME Bad # {} PROVE FALSE
    OBVIOUS
  <1>2. PICK a \in Bad : \A b \in Bad : a <= b
    <2>1. Bad \in SUBSET Nat
      OBVIOUS
    <2> QED
      BY <1>1, <2>1, LeastNat
  <1>3. a \in Nat
    OBVIOUS
  <1>4. PICK J \in SUBSET (1..a) : ~\E m, e : Enumerates(e, m, J)
    OBVIOUS
  <1>5. a # 0
    <2>1. SUFFICES ASSUME a = 0 PROVE FALSE
      OBVIOUS
    <2>2. J = {}
      BY <2>1, SMTT(30)
    <2>3. Enumerates([i \in 1..0 |-> 0], 0, J)
      BY <2>2, SMTT(30) DEF Enumerates
    <2> QED
      BY <1>4, <2>3
  <1>6. a - 1 \in Nat /\ ~(a <= a - 1)
    BY <1>3, <1>5, SMTT(30)
  <1>7. a - 1 \notin Bad
    BY <1>2, <1>6
  <1>8. J \ {a} \in SUBSET (1..(a - 1))
    BY <1>3, SMTT(30)
  <1>9. PICK m, e : Enumerates(e, m, J \ {a})
    BY <1>6, <1>7, <1>8
  <1>10. CASE a \notin J
    <2>1. J \ {a} = J
      BY <1>10
    <2> QED
      BY <1>4, <1>9, <2>1
  <1>11. CASE a \in J
    <2> DEFINE f == [i \in 1..(m + 1) |-> IF i = m + 1 THEN a ELSE e[i]]
    <2>1. m \in Nat /\ m + 1 \in Nat /\ e \in [1..m -> J \ {a}]
      BY <1>9, SMTT(30) DEF Enumerates
    <2>2. \A i \in 1..m : e[i] \in J /\ e[i] < a /\ e[i] \in Nat
      <3>1. SUFFICES ASSUME NEW i \in 1..m PROVE e[i] \in J /\ e[i] < a /\ e[i] \in Nat
        OBVIOUS
      <3>2. e[i] \in J \ {a}
        BY <2>1
      <3>3. e[i] \in 1..(a - 1)
        BY <1>8, <3>2
      <3> QED
        BY <1>3, <3>2, <3>3, SMTT(30)
    <2>3. f \in [1..(m + 1) -> J]
      BY <1>11, <2>1, <2>2, SMTT(30)
    <2>4. \A i, j \in 1..(m + 1) : i < j => f[i] < f[j]
      <3>1. \A i, j \in 1..m : i < j => e[i] < e[j]
        BY <1>9 DEF Enumerates
      <3> QED
        BY <2>1, <2>2, <3>1, SMTT(30)
    <2>5. ASSUME NEW k \in J PROVE \E i \in 1..(m + 1) : f[i] = k
      <3>1. CASE k = a
        BY <2>1, <3>1, SMTT(30)
      <3>2. CASE k # a
        <4>1. PICK i \in 1..m : e[i] = k
          BY <1>9, <3>2 DEF Enumerates
        <4> QED
          BY <2>1, <4>1, SMTT(30)
      <3> QED
        BY <3>1, <3>2
    <2>6. Enumerates(f, m + 1, J)
      BY <2>1, <2>3, <2>4, <2>5 DEF Enumerates
    <2> QED
      BY <1>4, <2>6
  <1> QED
    BY <1>10, <1>11

\* PgIInv says what FreeList is.
LEMMA FreeListIs ==
  ASSUME PgIInv
  PROVE  /\ Chain(FreeList, table, free_head, free_count)
         /\ Lists(FreeList, free_count, FreePages)
  <1>1. PICK L : Chain(L, table, free_head, free_count) /\ Lists(L, free_count, FreePages)
    BY DEF PgIInv
  <1>2. free_count \in Nat
    BY PageAssumption, SMTT(30) DEF PgIInv, PgTypeOK
  <1>3. L \in [1..free_count -> Page] /\ IsFreeList(L)
    BY <1>1 DEF Chain, IsFreeList
  <1>4. FreeList \in [1..free_count -> Page] /\ IsFreeList(FreeList)
    BY <1>3 DEF FreeList
  <1>5. Chain(FreeList, table, free_head, free_count)
    BY <1>4 DEF Chain, IsFreeList
  <1>6. FreeList = L
    BY <1>1, <1>2, <1>5, OneChain
  <1> QED
    BY <1>1, <1>6

\* PgIInv implies what the run checks.
LEMMA PgIInvImplies == PgIInv => PageInv
  <1>1. SUFFICES ASSUME PgIInv PROVE FreeListSound
    BY DEF PgIInv, PageInv
  <1>2. free_count \in Nat
    BY <1>1, PageAssumption, SMTT(30) DEF PgIInv, PgTypeOK
  <1>3. PICK L : L = FreeList
    OBVIOUS
  <1>4. L \in [1..free_count -> Page] /\ Lists(L, free_count, FreePages)
    BY <1>1, <1>3, FreeListIs DEF Chain
  <1>5. Cardinality(FreePages) = free_count
    BY <1>2, <1>4, ListCount
  <1>6. DOMAIN L = 1..free_count
    BY <1>4
  <1>7. Range(L) = FreePages
    <2>1. Range(L) = {L[i] : i \in 1..free_count}
      BY <1>6 DEF Range
    <2> QED
      BY <1>4, <2>1, SMTT(30) DEF Lists
  <1>8. \A p \in Page : refs[p] > 0 => table[p] = [free |-> FALSE, val |-> refs[p]]
    BY <1>1 DEF PgIInv, EntryInv
  <1> QED
    BY <1>3, <1>5, <1>7, <1>8 DEF FreeListSound, FreePages

\* The region starts with all its pages in order.
LEMMA PageStart == ppage_region_init => PgIInv
  <1>1. SUFFICES ASSUME ppage_region_init PROVE PgIInv
    OBVIOUS
  <1> DEFINE L == [n \in 1..PageCount |-> n - 1]
  <1>2. \A p \in Page : (p + 1) % PageCount \in Page /\ (p + 1) % PageCount \in Nat
    BY PageAssumption, SMTT(30) DEF Page
  <1>3. PgTypeOK
    <2>1. 0 \in Page /\ PageCount \in 0..PageCount /\ 0 \in 0..MaxRefs /\ 0 \in 0..PageCount
      BY PageAssumption, SMTT(30) DEF Page
    <2> QED
      BY <1>1, <2>1 DEF ppage_region_init, PgTypeOK
  <1>4. table \in [Page -> [free : BOOLEAN, val : Nat]]
    BY <1>1, <1>2 DEF ppage_region_init
  <1>5. EntryInv
    BY <1>1, <1>2, SMTT(30) DEF ppage_region_init, EntryInv
  <1>6. Chain(L, table, free_head, free_count)
    <2>1. L \in [1..PageCount -> Page]
      BY PageAssumption, SMTT(30) DEF Page
    <2>2. L[1] = 0
      BY PageAssumption, SMTT(30)
    <2>3. ASSUME NEW k \in 1..(PageCount - 1) PROVE L[k + 1] = table[L[k]].val
      <3>1. L[k + 1] = k /\ L[k] = k - 1 /\ k - 1 \in Page
        BY PageAssumption, SMTT(30) DEF Page
      <3>2. table[k - 1].val = ((k - 1) + 1) % PageCount
        BY <1>1, <3>1 DEF ppage_region_init
      <3>3. ((k - 1) + 1) % PageCount = k
        BY PageAssumption, SMTT(30)
      <3> QED
        BY <3>1, <3>2, <3>3
    <2> QED
      BY <1>1, <2>1, <2>2, <2>3 DEF Chain, ppage_region_init
  <1>7. Lists(L, free_count, FreePages)
    <2>1. FreePages = Page /\ free_count = PageCount
      BY <1>1 DEF FreePages, ppage_region_init
    <2>2. Lists(L, PageCount, Page)
      <3>1. \A i, j \in 1..PageCount : L[i] = L[j] => i = j
        BY PageAssumption, SMTT(30)
      <3>2. \A i \in 1..PageCount : L[i] \in Page
        BY PageAssumption, SMTT(30) DEF Page
      <3>3. ASSUME NEW p \in Page PROVE \E i \in 1..PageCount : L[i] = p
        <4>1. p + 1 \in 1..PageCount /\ L[p + 1] = p
          BY PageAssumption, SMTT(30) DEF Page
        <4> QED
          BY <4>1
      <3> QED
        BY <3>1, <3>2, <3>3 DEF Lists
    <2> QED
      BY <2>1, <2>2
  <1> QED
    BY <1>3, <1>4, <1>5, <1>6, <1>7 DEF PgIInv

\* A list of pages has no more than there are.
LEMMA ListBound ==
  ASSUME NEW n \in Nat, NEW F \in SUBSET Page, NEW L \in [1..n -> Page], Lists(L, n, F)
  PROVE  n \in 0..PageCount
  <1>1. IsFiniteSet(Page) /\ Cardinality(Page) = PageCount
    BY PageAssumption, FS_Interval, SMTT(30) DEF Page
  <1>2. Cardinality(F) = n
    BY ListCount
  <1>3. Cardinality(F) <= Cardinality(Page)
    BY <1>1, FS_Subset
  <1> QED
    BY <1>1, <1>2, <1>3, PageAssumption, SMTT(30)

\* ppage_alloc takes the first page of the list.
LEMMA AllocStep == ASSUME PgIInv, ppage_alloc PROVE PgIInv'
  <1>1. PICK n, h, L : n = free_count /\ h = free_head /\ L = FreeList
    OBVIOUS
  <1>2. n \in Nat /\ n > 0 /\ n - 1 \in Nat /\ h \in Page
    BY <1>1, PageAssumption, SMTT(30) DEF PgIInv, PgTypeOK, ppage_alloc
  <1>3. Chain(L, table, h, n) /\ Lists(L, n, FreePages)
    BY <1>1, FreeListIs
  <1>4. L[1] = h /\ 1 \in 1..n /\ refs[h] = 0
    <2>1. 1 \in 1..n
      BY <1>2, SMTT(30)
    <2> QED
      BY <1>2, <1>3, <2>1 DEF Chain, Lists, FreePages
  <1>5. /\ table' = [table EXCEPT ![h] = [free |-> FALSE, val |-> 1]]
        /\ refs' = [refs EXCEPT ![h] = 1]
        /\ free_head' = table[h].val /\ free_count' = n - 1
        /\ UNCHANGED <<want, pg_lock, overrun>>
    BY <1>1 DEF ppage_alloc
  <1>6. /\ table \in [Page -> [free : BOOLEAN, val : Nat]] /\ refs \in [Page -> 0..MaxRefs]
        /\ EntryInv /\ PgTypeOK
    BY DEF PgIInv, PgTypeOK
  <1>7. table' \in [Page -> [free : BOOLEAN, val : Nat]]
    <2>1. [free |-> FALSE, val |-> 1] \in [free : BOOLEAN, val : Nat]
      BY SMTT(30)
    <2> QED
      BY <1>5, <1>6, <2>1
  <1>8. refs' \in [Page -> 0..MaxRefs]
    <2>1. 1 \in 0..MaxRefs
      BY PageAssumption, SMTT(30)
    <2> QED
      BY <1>5, <1>6, <2>1
  <1>9. EntryInv'
    <2>1. ASSUME NEW p \in Page
          PROVE  /\ refs'[p] = 0 => table'[p].val \in Page
                 /\ refs'[p] > 0 => table'[p] = [free |-> FALSE, val |-> refs'[p]]
      <3>1. CASE p = h
        <4>1. refs'[p] = 1 /\ table'[p] = [free |-> FALSE, val |-> 1] /\ 1 # 0
          BY <1>5, <1>6, <3>1, SMTT(30)
        <4> QED
          BY <4>1
      <3>2. CASE p # h
        <4>1. refs'[p] = refs[p] /\ table'[p] = table[p]
          BY <1>5, <1>6, <3>2
        <4> QED
          BY <1>6, <4>1 DEF EntryInv
      <3> QED
        BY <3>1, <3>2
    <2> QED
      BY <2>1 DEF EntryInv
  <1>10. free_head' \in Page
    BY <1>2, <1>4, <1>5, <1>6 DEF EntryInv
  <1> DEFINE M == [k \in 1..(n - 1) |-> L[k + 1]]
  <1>11. \A k \in 1..(n - 1) : k + 1 \in 1..n /\ M[k] = L[k + 1] /\ k + 1 # 1
    BY <1>2, SMTT(30)
  <1>12. L \in [1..n -> Page]
    BY <1>3 DEF Chain
  <1>13. M \in [1..(n - 1) -> Page]
    BY <1>11, <1>12
  <1>14. Chain(M, table', free_head', n - 1)
    <2>1. ASSUME n - 1 > 0 PROVE M[1] = free_head'
      <3>1. 1 \in 1..(n - 1) /\ 1 + 1 = 2
        BY <1>2, <2>1, SMTT(30)
      <3>2. M[1] = table[L[1]].val
        BY <1>3, <1>11, <3>1 DEF Chain
      <3> QED
        BY <1>4, <1>5, <3>2
    <2>2. ASSUME NEW k \in 1..((n - 1) - 1) PROVE M[k + 1] = table'[M[k]].val
      <3>1. k \in 1..(n - 1) /\ k + 1 \in 1..(n - 1)
        BY <1>2, SMTT(30)
      <3>2. L[(k + 1) + 1] = table[L[k + 1]].val
        BY <1>3, <3>1 DEF Chain
      <3>3. M[k + 1] = L[(k + 1) + 1] /\ M[k] = L[k + 1]
        BY <1>11, <3>1
      <3>4. L[k + 1] # h
        BY <1>3, <1>4, <1>11, <3>1 DEF Lists
      <3>5. table'[L[k + 1]] = table[L[k + 1]]
        BY <1>5, <1>6, <1>11, <1>12, <3>1, <3>4
      <3> QED
        BY <3>2, <3>3, <3>5
    <2> HIDE DEF M
    <2> QED
      BY <1>13, <2>1, <2>2 DEF Chain
  <1>15. FreePages' = FreePages \ {h}
    <2>1. \A p \in Page : refs'[p] = 0 <=> refs[p] = 0 /\ p # h
      BY <1>2, <1>4, <1>5, <1>6, SMTT(30)
    <2> QED
      BY <2>1 DEF FreePages
  <1>16. Lists(M, n - 1, FreePages')
    <2>1. \A i, j \in 1..(n - 1) : M[i] = M[j] => i = j
      <3>1. SUFFICES ASSUME NEW i \in 1..(n - 1), NEW j \in 1..(n - 1), M[i] = M[j] PROVE i = j
        OBVIOUS
      <3>2. i + 1 = j + 1
        BY <1>3, <1>11, <3>1 DEF Lists
      <3> QED
        BY <1>2, <3>2, SMTT(30)
    <2>2. \A i \in 1..(n - 1) : M[i] \in FreePages /\ M[i] # h
      BY <1>3, <1>4, <1>11 DEF Lists
    <2>3. ASSUME NEW p \in FreePages, p # h PROVE \E i \in 1..(n - 1) : M[i] = p
      <3>1. PICK i \in 1..n : L[i] = p
        BY <1>3 DEF Lists
      <3>2. i # 1
        BY <1>4, <2>3, <3>1
      <3>3. i - 1 \in 1..(n - 1) /\ (i - 1) + 1 = i
        BY <1>2, <3>2, SMTT(30)
      <3>4. M[i - 1] = p
        BY <1>11, <3>1, <3>3
      <3> QED
        BY <3>3, <3>4
    <2> HIDE DEF M
    <2> QED
      BY <1>15, <2>1, <2>2, <2>3 DEF Lists
  <1>17. free_count' \in 0..PageCount
    <2>1. FreePages' \in SUBSET Page
      BY <1>15 DEF FreePages
    <2> HIDE DEF M
    <2> QED
      BY <1>2, <1>5, <1>13, <1>16, <2>1, ListBound
  <1> HIDE DEF M
  <1>18. PgTypeOK'
    BY <1>5, <1>6, <1>8, <1>10, <1>17 DEF PgTypeOK
  <1> QED
    BY <1>5, <1>7, <1>9, <1>14, <1>16, <1>18 DEF PgIInv

\* ppage_refnew and ppage_refdrop with other references left: the list stays.
LEMMA ListStays ==
  ASSUME PgIInv, NEW p \in Page, refs[p] > 0, NEW r \in 1..MaxRefs,
         table' = [table EXCEPT ![p] = [free |-> FALSE, val |-> r]],
         refs' = [refs EXCEPT ![p] = r],
         UNCHANGED <<free_head, free_count, want, pg_lock, overrun>>
  PROVE  PgIInv'
  <1>1. PICK L : Chain(L, table, free_head, free_count) /\ Lists(L, free_count, FreePages)
    BY DEF PgIInv
  <1>2. /\ table \in [Page -> [free : BOOLEAN, val : Nat]] /\ refs \in [Page -> 0..MaxRefs]
        /\ EntryInv /\ PgTypeOK
    BY DEF PgIInv, PgTypeOK
  <1>3. r \in 0..MaxRefs /\ r # 0 /\ refs[p] # 0 /\ r \in Nat
    BY <1>2, PageAssumption, SMTT(30)
  <1>4. table' \in [Page -> [free : BOOLEAN, val : Nat]]
    <2>1. [free |-> FALSE, val |-> r] \in [free : BOOLEAN, val : Nat]
      BY <1>3, SMTT(30)
    <2> QED
      BY <1>2, <2>1
  <1>5. PgTypeOK'
    <2>1. refs' \in [Page -> 0..MaxRefs]
      BY <1>2, <1>3
    <2> QED
      BY <1>2, <2>1 DEF PgTypeOK
  <1>6. \A q \in Page : /\ q # p => refs'[q] = refs[q] /\ table'[q] = table[q]
                        /\ q = p => refs'[q] = r /\ table'[q] = [free |-> FALSE, val |-> r]
    BY <1>2
  <1>7. EntryInv'
    BY <1>2, <1>3, <1>6 DEF EntryInv
  <1>8. FreePages' = FreePages
    BY <1>3, <1>6 DEF FreePages
  <1>9. Chain(L, table', free_head', free_count')
    <2>1. ASSUME NEW k \in 1..(free_count - 1) PROVE L[k + 1] = table'[L[k]].val
      <3>1. k \in 1..free_count
        BY <1>2, PageAssumption, SMTT(30) DEF PgTypeOK
      <3>2. L[k] \in Page /\ L[k] # p
        BY <1>1, <1>3, <3>1 DEF Chain, Lists, FreePages
      <3> QED
        BY <1>1, <1>6, <3>2 DEF Chain
    <2> QED
      BY <1>1, <2>1 DEF Chain
  <1> QED
    BY <1>1, <1>4, <1>5, <1>7, <1>8, <1>9 DEF PgIInv

\* ppage_refdrop of the last reference: the page becomes the first of the list.
LEMMA FreeStep ==
  ASSUME PgIInv, NEW p \in Page, refs[p] > 0,
         table' = [table EXCEPT ![p] = [free |-> TRUE, val |-> free_head]],
         refs' = [refs EXCEPT ![p] = 0], free_head' = p, free_count' = free_count + 1,
         UNCHANGED <<want, pg_lock, overrun>>
  PROVE  PgIInv'
  <1>1. PICK n, h, L : /\ n = free_count /\ h = free_head
                       /\ Chain(L, table, h, n) /\ Lists(L, n, FreePages)
    BY DEF PgIInv
  <1>2. /\ table \in [Page -> [free : BOOLEAN, val : Nat]] /\ refs \in [Page -> 0..MaxRefs]
        /\ EntryInv /\ PgTypeOK
    BY DEF PgIInv, PgTypeOK
  <1>3. n \in Nat /\ n + 1 \in Nat /\ h \in Page /\ h \in Nat
    BY <1>1, <1>2, PageAssumption, SMTT(30) DEF PgTypeOK, Page
  <1>4. refs[p] # 0 /\ 0 \in 0..MaxRefs /\ ~(0 > 0)
    BY <1>2, PageAssumption, SMTT(30)
  <1>5. table' \in [Page -> [free : BOOLEAN, val : Nat]]
    <2>1. [free |-> TRUE, val |-> h] \in [free : BOOLEAN, val : Nat]
      BY <1>3, SMTT(30)
    <2> QED
      BY <1>1, <1>2, <2>1
  <1>6. refs' \in [Page -> 0..MaxRefs]
    BY <1>2, <1>4
  <1>7. \A q \in Page : /\ q # p => refs'[q] = refs[q] /\ table'[q] = table[q]
                        /\ q = p => refs'[q] = 0 /\ table'[q] = [free |-> TRUE, val |-> h]
    BY <1>1, <1>2
  <1>8. EntryInv'
    <2>1. ASSUME NEW q \in Page
          PROVE  /\ refs'[q] = 0 => table'[q].val \in Page
                 /\ refs'[q] > 0 => table'[q] = [free |-> FALSE, val |-> refs'[q]]
      <3>1. CASE q = p
        <4>1. refs'[q] = 0 /\ table'[q] = [free |-> TRUE, val |-> h]
          BY <1>7, <3>1
        <4>2. table'[q].val = h
          BY <4>1, SMTT(30)
        <4> QED
          BY <1>3, <1>4, <4>1, <4>2
      <3>2. CASE q # p
        BY <1>2, <1>7, <3>2 DEF EntryInv
      <3> QED
        BY <3>1, <3>2
    <2> QED
      BY <2>1 DEF EntryInv
  <1>9. FreePages' = FreePages \cup {p}
    BY <1>7 DEF FreePages
  <1> DEFINE M == [k \in 1..(n + 1) |-> IF k = 1 THEN p ELSE L[k - 1]]
  <1>10. L \in [1..n -> Page] /\ \A k \in 1..n : L[k] \in FreePages /\ L[k] # p
    BY <1>1, <1>4 DEF Chain, Lists, FreePages
  <1>11. /\ 1 \in 1..(n + 1) /\ M[1] = p
         /\ \A k \in 1..n : k + 1 \in 1..(n + 1) /\ k + 1 # 1 /\ (k + 1) - 1 = k
         /\ \A k \in 1..(n + 1) : k # 1 => k - 1 \in 1..n /\ (k - 1) + 1 = k
    BY <1>3, SMTT(30)
  <1>12. \A k \in 1..n : M[k + 1] = L[k]
    BY <1>11
  <1>13. M \in [1..(n + 1) -> Page]
    BY <1>10, <1>11
  <1> HIDE DEF M
  <1>14. Chain(M, table', p, n + 1)
    <2>1. ASSUME NEW k \in 1..((n + 1) - 1) PROVE M[k + 1] = table'[M[k]].val
      <3>1. k \in 1..n /\ k \in 1..(n + 1)
        BY <1>3, SMTT(30)
      <3>2. CASE k = 1
        <4>1. table'[p].val = h /\ L[1] = h
          <5>1. n > 0
            BY <1>3, <3>1, SMTT(30)
          <5>2. table'[p] = [free |-> TRUE, val |-> h]
            BY <1>7
          <5>3. table'[p].val = h
            BY <5>2, SMTT(30)
          <5> QED
            BY <1>1, <5>1, <5>3 DEF Chain
        <4>2. M[k + 1] = L[k]
          BY <1>12, <3>1
        <4> QED
          BY <1>11, <3>2, <4>1, <4>2
      <3>3. CASE k # 1
        <4>1. k - 1 \in 1..n /\ (k - 1) + 1 = k /\ k - 1 \in 1..(n - 1)
          BY <1>3, <3>1, <3>3, SMTT(30)
        <4>2. L[k] = table[L[k - 1]].val
          BY <1>1, <4>1 DEF Chain
        <4>3. M[k] = L[k - 1] /\ M[k + 1] = L[k]
          BY <1>12, <3>1, <4>1
        <4>4. table'[L[k - 1]] = table[L[k - 1]]
          BY <1>7, <1>10, <4>1
        <4> QED
          BY <4>2, <4>3, <4>4
      <3> QED
        BY <3>2, <3>3
    <2> QED
      BY <1>11, <1>13, <2>1 DEF Chain
  <1>15. Lists(M, n + 1, FreePages')
    <2>a. ASSUME NEW i \in 1..(n + 1), i # 1
          PROVE  i - 1 \in 1..n /\ M[i] = L[i - 1] /\ M[i] \in FreePages /\ M[i] # p
      <3>1. i - 1 \in 1..n /\ (i - 1) + 1 = i
        BY <1>11, <2>a
      <3>2. M[(i - 1) + 1] = L[i - 1]
        BY <1>12, <3>1
      <3> QED
        BY <1>10, <3>1, <3>2
    <2>1. ASSUME NEW i \in 1..(n + 1), NEW j \in 1..(n + 1), M[i] = M[j] PROVE i = j
      <3>1. CASE i = 1
        BY <1>11, <2>1, <2>a, <3>1
      <3>2. CASE j = 1
        BY <1>11, <2>1, <2>a, <3>2
      <3>3. CASE i # 1 /\ j # 1
        <4>1. i - 1 \in 1..n /\ j - 1 \in 1..n /\ M[i] = L[i - 1] /\ M[j] = L[j - 1]
          BY <2>a, <3>3
        <4>2. i - 1 = j - 1
          BY <1>1, <2>1, <4>1 DEF Lists
        <4> QED
          BY <1>3, <4>2, SMTT(30)
      <3> QED
        BY <3>1, <3>2, <3>3
    <2>2. ASSUME NEW i \in 1..(n + 1) PROVE M[i] \in FreePages \cup {p}
      BY <1>11, <2>a
    <2>3. ASSUME NEW q \in FreePages \cup {p} PROVE \E i \in 1..(n + 1) : M[i] = q
      <3>1. CASE q = p
        BY <1>11, <3>1
      <3>2. CASE q \in FreePages
        <4>1. PICK i \in 1..n : L[i] = q
          BY <1>1, <3>2 DEF Lists
        <4> QED
          BY <1>11, <1>12, <4>1
      <3> QED
        BY <3>1, <3>2
    <2> QED
      BY <1>9, <2>1, <2>2, <2>3 DEF Lists
  <1>16. free_count' \in 0..PageCount
    <2>1. FreePages' \in SUBSET Page
      BY <1>9 DEF FreePages
    <2> QED
      BY <1>1, <1>3, <1>13, <1>15, <2>1, ListBound
  <1>17. PgTypeOK'
    BY <1>2, <1>6, <1>16 DEF PgTypeOK
  <1> QED
    BY <1>1, <1>5, <1>8, <1>14, <1>15, <1>17 DEF PgIInv

\* A run of pages of S that follows position k ends.
LEMMA RunEndIs ==
  ASSUME NEW L, NEW S, NEW n \in Nat, free_count = n, NEW k \in 0..(n - 1), L[k + 1] \in S
  PROVE  /\ RunEnd(L, S, k) \in (k + 1)..n
         /\ \A m \in (k + 1)..RunEnd(L, S, k) : L[m] \in S
         /\ RunEnd(L, S, k) = n \/ L[RunEnd(L, S, k) + 1] \notin S
  <1> DEFINE T == {j \in (k + 1)..n : j = n \/ L[j + 1] \notin S}
  <1>1. k \in Nat /\ n \in (k + 1)..n
    BY SMTT(30)
  <1>2. T \in SUBSET Nat
    BY <1>1, SMTT(30)
  <1>3. PICK j \in T : \A i \in T : j <= i
    BY <1>1, <1>2, LeastNat
  <1>4. j \in (k + 1)..n /\ (j = n \/ L[j + 1] \notin S)
    OBVIOUS
  <1>5. ASSUME NEW m \in (k + 1)..j PROVE L[m] \in S
    <2>1. CASE m = k + 1
      BY <2>1
    <2>2. CASE m # k + 1
      <3>1. m - 1 \in (k + 1)..n /\ ~(j <= m - 1) /\ (m - 1) + 1 = m
        BY <1>1, <1>4, <2>2, SMTT(30)
      <3>2. m - 1 \notin T
        BY <1>3, <3>1
      <3> QED
        BY <3>1, <3>2
    <2> QED
      BY <2>1, <2>2
  <1> QED
    BY <1>4, <1>5 DEF RunEnd

\* The link that ends a run leads to the page after it.
LEMMA RunLinkIs ==
  ASSUME NEW L, NEW S, NEW n \in Nat, free_count = n, Chain(L, table, free_head, n),
         NEW k \in 0..(n - 1), L[k + 1] \in S, NEW q \in (k + 1)..n, L[q] \notin S,
         \A i \in (k + 1)..(q - 1) : L[i] \in S
  PROVE  table[L[RunEnd(L, S, k)]].val = L[q]
  <1>1. PICK j : j = RunEnd(L, S, k)
    OBVIOUS
  <1>2. /\ j \in (k + 1)..n /\ \A m \in (k + 1)..j : L[m] \in S
        /\ j = n \/ L[j + 1] \notin S
    BY <1>1, RunEndIs
  <1>3. ~(q \in (k + 1)..j)
    BY <1>2
  <1>4. j < q /\ j # n
    BY <1>2, <1>3, SMTT(30)
  <1>5. ~(j + 1 \in (k + 1)..(q - 1))
    BY <1>2, <1>4
  <1>6. j + 1 = q /\ j \in 1..(n - 1)
    BY <1>2, <1>4, <1>5, SMTT(30)
  <1> QED
    BY <1>1, <1>6 DEF Chain

\* Between two numbers of K that follow each other in the enumeration there is
\* none, nor before the first.
LEMMA NoneBetween ==
  ASSUME NEW e, NEW m, NEW n \in Nat, NEW K \in SUBSET (1..n), Enumerates(e, m, K)
  PROVE  /\ \A i \in 1..(m - 1) : \A k \in (e[i] + 1)..(e[i + 1] - 1) : k \notin K
         /\ m > 0 => \A k \in 1..(e[1] - 1) : k \notin K
  <1>1. m \in Nat /\ \A i \in 1..m : e[i] \in Nat /\ e[i] \in K
    <2>1. m \in Nat /\ \A i \in 1..m : e[i] \in K
      BY DEF Enumerates
    <2>2. \A k \in K : k \in Nat
      BY SMTT(30)
    <2> QED
      BY <2>1, <2>2
  <1>2. \A i, j \in 1..m : i < j => e[i] < e[j]
    BY DEF Enumerates
  <1>3. \A i, j \in 1..m : e[i] < e[j] => i < j
    <2>1. SUFFICES ASSUME NEW i \in 1..m, NEW j \in 1..m, e[i] < e[j] PROVE i < j
      OBVIOUS
    <2>2. i = j \/ j < i \/ i < j
      BY <1>1, SMTT(30)
    <2>3. ~(e[j] < e[i]) /\ e[i] # e[j]
      BY <1>1, <2>1, SMTT(30)
    <2> QED
      BY <1>2, <2>2, <2>3
  <1>4. ASSUME NEW i \in 1..(m - 1), NEW k \in (e[i] + 1)..(e[i + 1] - 1), k \in K PROVE FALSE
    <2>1. i \in 1..m /\ i + 1 \in 1..m
      BY <1>1, SMTT(30)
    <2>2. PICK r \in 1..m : e[r] = k
      BY <1>4 DEF Enumerates
    <2>3. e[i] < e[r] /\ e[r] < e[i + 1]
      BY <1>1, <2>1, <2>2, SMTT(30)
    <2>4. i < r /\ r < i + 1
      BY <1>3, <2>1, <2>3
    <2> QED
      BY <1>1, <2>4, SMTT(30)
  <1>5. ASSUME m > 0, NEW k \in 1..(e[1] - 1), k \in K PROVE FALSE
    <2>1. 1 \in 1..m
      BY <1>1, <1>5, SMTT(30)
    <2>2. PICK r \in 1..m : e[r] = k
      BY <1>5 DEF Enumerates
    <2>3. e[r] < e[1]
      BY <1>1, <2>1, <2>2, SMTT(30)
    <2>4. r < 1
      BY <1>3, <2>1, <2>3
    <2> QED
      BY <1>1, <2>4, SMTT(30)
  <1> QED
    BY <1>4, <1>5

\* The loop of ppage_contiguous_alloc and ppage_reserve leaves a list of the
\* other pages, in their order.
LEMMA UnlinkStep ==
  ASSUME PgIInv, NEW S \in SUBSET FreePages, S # {}, Unlink(S),
         want' \in 0..PageCount, UNCHANGED <<pg_lock, overrun>>
  PROVE  PgIInv'
  <1>1. PICK n, h, t, L : n = free_count /\ h = free_head /\ t = table /\ L = FreeList
    OBVIOUS
  <1>2. /\ t \in [Page -> [free : BOOLEAN, val : Nat]] /\ refs \in [Page -> 0..MaxRefs]
        /\ EntryInv /\ PgTypeOK /\ h \in Page
    BY <1>1 DEF PgIInv, PgTypeOK
  <1>3. n \in Nat
    BY <1>1, PageAssumption, SMTT(30) DEF PgIInv, PgTypeOK
  <1>4. Chain(L, t, h, n) /\ Lists(L, n, FreePages)
    BY <1>1, FreeListIs
  <1>5. L \in [1..n -> Page]
    BY <1>4 DEF Chain
  <1> DEFINE link(k) == t[L[RunEnd(L, S, k)]].val
             before(p) == {k \in 1..(n - 1) : L[k] = p /\ L[k + 1] \in S}
  <1>6. /\ table' = [p \in Page |->
              IF p \in S THEN [free |-> FALSE, val |-> 1]
              ELSE IF before(p) = {} THEN t[p]
              ELSE [free |-> FALSE, val |-> link(CHOOSE k \in before(p) : TRUE)]]
        /\ free_head' = IF L[1] \in S THEN link(0) ELSE h
        /\ free_count' = n - Cardinality(S)
        /\ refs' = [p \in Page |-> IF p \in S THEN 1 ELSE refs[p]]
    BY <1>1 DEF Unlink
  \* the links of runs
  <1>7. ASSUME NEW k \in 0..(n - 1), L[k + 1] \in S PROVE link(k) \in Page
    <2>1. RunEnd(L, S, k) \in 1..n
      <3>1. RunEnd(L, S, k) \in (k + 1)..n
        BY <1>1, <1>3, <1>7, RunEndIs
      <3> QED
        BY <1>3, <3>1, SMTT(30)
    <2>2. L[RunEnd(L, S, k)] \in FreePages
      BY <1>4, <2>1 DEF Lists
    <2> QED
      BY <1>1, <1>2, <2>2 DEF EntryInv, FreePages
  <1>8. n > 0 /\ 0 \in 0..(n - 1) /\ 0 + 1 = 1
    <2>1. PICK p \in S : TRUE
      OBVIOUS
    <2>2. PICK i \in 1..n : L[i] = p
      BY <1>4 DEF Lists
    <2> QED
      BY <1>3, SMTT(30)
  <1>9. free_head' \in Page
    BY <1>2, <1>6, <1>7, <1>8
  \* the entries
  <1>10. ASSUME NEW p \in Page, p \notin S, before(p) = {}
         PROVE  table'[p] = t[p]
    BY <1>6, <1>10
  <1>11. ASSUME NEW p \in Page, p \notin S, before(p) # {}
         PROVE  \E k \in before(p) : table'[p] = [free |-> FALSE, val |-> link(k)]
    <2>1. PICK k : k = CHOOSE j \in before(p) : TRUE
      OBVIOUS
    <2>2. k \in before(p)
      BY <1>11, <2>1
    <2> HIDE DEF before, link
    <2> QED
      BY <1>6, <1>11, <2>1, <2>2
  <1>12. ASSUME NEW p \in S PROVE table'[p] = [free |-> FALSE, val |-> 1] /\ refs'[p] = 1
    BY <1>6 DEF FreePages
  <1>13. ASSUME NEW p \in Page, p \notin S PROVE refs'[p] = refs[p]
    BY <1>6, <1>13
  <1>14. ASSUME NEW p \in Page, NEW k \in before(p)
         PROVE  /\ k \in 1..(n - 1) /\ k \in 0..(n - 1) /\ k \in 1..n
                /\ L[k] = p /\ L[k + 1] \in S /\ refs[p] = 0
    <2>1. k \in 0..(n - 1) /\ k \in 1..n
      BY <1>3, SMTT(30)
    <2> QED
      BY <1>4, <2>1 DEF Lists, FreePages
  <1> HIDE DEF link, before
  <1>15. \A p \in Page : p \notin S /\ before(p) # {} =>
           \E v \in Page : table'[p] = [free |-> FALSE, val |-> v]
    <2>1. SUFFICES ASSUME NEW p \in Page, p \notin S, before(p) # {}
                   PROVE  \E v \in Page : table'[p] = [free |-> FALSE, val |-> v]
      OBVIOUS
    <2>2. PICK k \in before(p) : table'[p] = [free |-> FALSE, val |-> link(k)]
      BY <1>11, <2>1
    <2>3. k \in 0..(n - 1) /\ L[k + 1] \in S
      BY <1>14
    <2>4. link(k) \in Page
      BY <1>7, <2>3
    <2> QED
      BY <2>2, <2>4
  <1>16. table' \in [Page -> [free : BOOLEAN, val : Nat]]
    <2>1. \A v \in Nat : [free |-> FALSE, val |-> v] \in [free : BOOLEAN, val : Nat]
      BY SMTT(30)
    <2>2. 1 \in Nat /\ Page \subseteq Nat
      BY PageAssumption, SMTT(30) DEF Page
    <2>3. ASSUME NEW p \in Page PROVE table'[p] \in [free : BOOLEAN, val : Nat]
      <3>1. CASE p \in S
        BY <1>12, <2>1, <2>2, <3>1
      <3>2. CASE p \notin S /\ before(p) = {}
        BY <1>2, <1>10, <3>2
      <3>3. CASE p \notin S /\ before(p) # {}
        BY <1>15, <2>1, <2>2, <3>3
      <3> QED
        BY <3>1, <3>2, <3>3
    <2>4. table' = [p \in Page |-> table'[p]]
      BY <1>6
    <2> QED
      BY <2>3, <2>4
  <1>17. refs' \in [Page -> 0..MaxRefs]
    <2>1. 1 \in 0..MaxRefs
      BY PageAssumption, SMTT(30)
    <2> QED
      BY <1>2, <1>6, <2>1
  <1>18. EntryInv'
    <2>1. ASSUME NEW p \in Page
          PROVE  /\ refs'[p] = 0 => table'[p].val \in Page
                 /\ refs'[p] > 0 => table'[p] = [free |-> FALSE, val |-> refs'[p]]
      <3>1. CASE p \in S
        <4>1. refs'[p] = 1 /\ table'[p] = [free |-> FALSE, val |-> 1]
          BY <1>12, <3>1
        <4>2. 1 # 0
          BY SMTT(30)
        <4> QED
          BY <4>1, <4>2
      <3>2. CASE p \notin S /\ before(p) = {}
        <4>1. refs'[p] = refs[p] /\ table'[p] = table[p]
          BY <1>1, <1>10, <1>13, <3>2
        <4> QED
          BY <1>2, <4>1 DEF EntryInv
      <3>3. CASE p \notin S /\ before(p) # {}
        <4>1. refs[p] = 0 /\ refs'[p] = 0 /\ ~(0 > 0)
          <5>1. ~(0 > 0)
            BY SMTT(30)
          <5> QED
            BY <1>13, <1>14, <3>3, <5>1
        <4>2. PICK v \in Page : table'[p] = [free |-> FALSE, val |-> v]
          BY <1>15, <3>3
        <4>3. table'[p].val = v
          BY <4>2, SMTT(30)
        <4> QED
          BY <4>1, <4>3
      <3> QED
        BY <3>1, <3>2, <3>3
    <2> QED
      BY <2>1 DEF EntryInv
  \* the pages that are left, in their order
  <1> DEFINE K == {k \in 1..n : L[k] \notin S}
  <1>19. PICK m, e : Enumerates(e, m, K)
    <2>1. K \in SUBSET (1..n)
      OBVIOUS
    <2> QED
      BY <1>3, <2>1, Enumeration
  <1>20. /\ m \in Nat
         /\ \A i \in 1..m : e[i] \in 1..n /\ L[e[i]] \notin S /\ L[e[i]] \in Page /\ e[i] \in Nat
    <2>1. m \in Nat /\ \A i \in 1..m : e[i] \in 1..n /\ L[e[i]] \notin S
      BY <1>19 DEF Enumerates
    <2>2. \A k \in 1..n : k \in Nat
      BY <1>3, SMTT(30)
    <2> QED
      BY <1>5, <2>1, <2>2
  <1>21. /\ \A i \in 1..(m - 1) : \A k \in (e[i] + 1)..(e[i + 1] - 1) : k \notin K
         /\ m > 0 => \A k \in 1..(e[1] - 1) : k \notin K
    <2>1. K \in SUBSET (1..n)
      OBVIOUS
    <2> HIDE DEF K
    <2> QED
      BY <1>3, <1>19, <2>1, NoneBetween
  <1>22. \A i, j \in 1..m : i < j => e[i] < e[j]
    BY <1>19 DEF Enumerates
  <1>23. \A k \in 1..n : L[k] \notin S => \E i \in 1..m : e[i] = k
    BY <1>19 DEF Enumerates
  <1>24. /\ \A i \in 1..(m - 1) : \A k \in 1..n : k \in (e[i] + 1)..(e[i + 1] - 1) => L[k] \in S
         /\ m > 0 => \A k \in 1..n : k \in 1..(e[1] - 1) => L[k] \in S
    BY <1>21
  <1> HIDE DEF K
  <1> DEFINE M == [i \in 1..m |-> L[e[i]]]
  <1>25. M \in [1..m -> Page] /\ \A i \in 1..m : M[i] = L[e[i]]
    BY <1>20
  <1> HIDE DEF M
  <1>26. ASSUME m > 0 PROVE M[1] = free_head'
    <2>1. 1 \in 1..m /\ 1 \in 1..n
      BY <1>3, <1>8, <1>20, <1>26, SMTT(30)
    <2>2. PICK q : q = e[1]
      OBVIOUS
    <2>3. q \in 1..n /\ L[q] \notin S /\ M[1] = L[q]
      BY <1>20, <1>25, <2>1, <2>2
    <2>4. CASE L[1] \notin S
      <3>1. q = 1
        <4>1. ~(1 \in 1..(q - 1))
          BY <1>24, <1>26, <2>1, <2>2, <2>4
        <4> QED
          BY <1>3, <2>3, <4>1, SMTT(30)
      <3>2. L[1] = h
        BY <1>4, <1>8 DEF Chain
      <3> QED
        BY <1>6, <2>3, <2>4, <3>1, <3>2
    <2>5. CASE L[1] \in S
      <3>1. \A i \in (0 + 1)..(q - 1) : L[i] \in S
        <4>1. \A i \in (0 + 1)..(q - 1) : i \in 1..n /\ i \in 1..(q - 1)
          BY <1>3, <2>3, SMTT(30)
        <4> QED
          BY <1>24, <1>26, <2>2, <4>1
      <3>2. q \in (0 + 1)..n
        BY <1>8, <2>3
      <3>3. L[0 + 1] \in S
        BY <1>8, <2>5
      <3>4. link(0) = L[q]
        <4>1. free_count = n /\ Chain(L, table, free_head, n) /\ 0 \in 0..(n - 1) /\ L[q] \notin S
          BY <1>1, <1>4, <1>8, <2>3
        <4>2. table[L[RunEnd(L, S, 0)]].val = L[q]
          BY ONLY <1>3, <3>1, <3>2, <3>3, <4>1, RunLinkIs, SMTT(30)
        <4> QED
          BY <1>1, <4>2 DEF link
      <3> QED
        BY <1>6, <2>3, <2>5, <3>4
    <2> QED
      BY <2>4, <2>5
  <1>27. ASSUME NEW i \in 1..(m - 1) PROVE M[i + 1] = table'[M[i]].val
    <2>1. i \in 1..m /\ i + 1 \in 1..m /\ i < i + 1
      BY <1>20, SMTT(30)
    <2>2. PICK k, q : k = e[i] /\ q = e[i + 1]
      OBVIOUS
    <2>3. /\ k \in 1..n /\ L[k] \notin S /\ L[k] \in Page /\ M[i] = L[k]
          /\ q \in 1..n /\ L[q] \notin S /\ M[i + 1] = L[q] /\ k < q
      BY <1>20, <1>22, <1>25, <2>1, <2>2
    <2>4. k \in 1..(n - 1) /\ k \in 0..(n - 1) /\ k + 1 \in 1..n /\ q \in (k + 1)..n
      BY <1>3, <2>3, SMTT(30)
    <2>5. \A j \in (k + 1)..(q - 1) : L[j] \in S
      <3>1. \A j \in (k + 1)..(q - 1) : j \in 1..n
        BY <1>3, <2>3, SMTT(30)
      <3> QED
        BY <1>24, <2>2, <3>1
    <2>6. CASE L[k + 1] \notin S
      <3>1. q = k + 1
        <4>1. ~(k + 1 \in (k + 1)..(q - 1))
          BY <2>5, <2>6
        <4> QED
          BY <1>3, <2>3, <2>4, <4>1, SMTT(30)
      <3>2. before(L[k]) = {}
        <4>1. SUFFICES ASSUME NEW j \in before(L[k]) PROVE FALSE
          OBVIOUS
        <4>2. j \in 1..n /\ L[j] = L[k] /\ L[j + 1] \in S
          BY <1>14, <2>3
        <4>3. j = k
          BY <1>4, <2>3, <4>2 DEF Lists
        <4> QED
          BY <2>6, <4>2, <4>3
      <3>3. table'[L[k]] = t[L[k]]
        BY <1>10, <2>3, <3>2
      <3>4. L[k + 1] = t[L[k]].val
        BY <1>4, <2>4 DEF Chain
      <3> QED
        BY <2>3, <3>1, <3>3, <3>4
    <2>7. CASE L[k + 1] \in S
      <3>1. k \in before(L[k])
        BY <2>4, <2>7 DEF before
      <3>2. PICK j \in before(L[k]) : table'[L[k]] = [free |-> FALSE, val |-> link(j)]
        BY <1>11, <2>3, <3>1
      <3>3. j = k
        <4>1. j \in 1..n /\ L[j] = L[k]
          BY <1>14, <2>3
        <4> QED
          BY <1>4, <2>3, <4>1 DEF Lists
      <3>4. link(k) = L[q]
        <4>1. free_count = n /\ Chain(L, table, free_head, n)
          BY <1>1, <1>4
        <4>2. table[L[RunEnd(L, S, k)]].val = L[q]
          BY ONLY <1>3, <2>3, <2>4, <2>5, <2>7, <4>1, RunLinkIs, SMTT(30)
        <4> QED
          BY <1>1, <4>2 DEF link
      <3>5. table'[L[k]] = [free |-> FALSE, val |-> L[q]]
        BY <3>2, <3>3, <3>4
      <3>6. table'[L[k]].val = L[q]
        BY ONLY <3>5, SMTT(30)
      <3> QED
        BY <2>3, <3>6
    <2> QED
      BY <2>6, <2>7
  <1>28. Chain(M, table', free_head', m)
    BY <1>25, <1>26, <1>27 DEF Chain
  <1>29. FreePages' = FreePages \ S
    <2>1. 1 # 0
      BY SMTT(30)
    <2>2. \A p \in Page : refs'[p] = 0 <=> refs[p] = 0 /\ p \notin S
      BY <1>12, <1>13, <2>1
    <2> QED
      BY <2>2 DEF FreePages
  <1>30. Lists(M, m, FreePages \ S)
    <2>1. ASSUME NEW i \in 1..m, NEW j \in 1..m, M[i] = M[j] PROVE i = j
      <3>1. e[i] \in 1..n /\ e[j] \in 1..n /\ L[e[i]] = L[e[j]] /\ e[i] \in Nat
        BY <1>20, <1>25, <2>1
      <3>2. e[i] = e[j]
        BY <1>4, <3>1 DEF Lists
      <3>3. ~(e[i] < e[j]) /\ ~(e[j] < e[i])
        BY <3>1, <3>2, SMTT(30)
      <3>4. ~(i < j) /\ ~(j < i)
        BY <1>22, <3>3
      <3> QED
        BY <1>20, <3>4, SMTT(30)
    <2>2. ASSUME NEW i \in 1..m PROVE M[i] \in FreePages \ S
      <3>1. e[i] \in 1..n /\ L[e[i]] \notin S /\ M[i] = L[e[i]]
        BY <1>20, <1>25
      <3> QED
        BY <1>4, <3>1 DEF Lists
    <2>3. ASSUME NEW p \in FreePages \ S PROVE \E i \in 1..m : M[i] = p
      <3>1. PICK k \in 1..n : L[k] = p
        BY <1>4 DEF Lists
      <3>2. PICK i \in 1..m : e[i] = k
        BY <1>23, <3>1
      <3> QED
        BY <1>25, <3>1, <3>2
    <2> QED
      BY <2>1, <2>2, <2>3 DEF Lists
  <1>31. free_count' = m
    <2>1. IsFiniteSet(FreePages) /\ Cardinality(FreePages) = n
      BY <1>3, <1>4, <1>5, ListCount
    <2>2. Cardinality(FreePages \ S) = m
      BY <1>20, <1>25, <1>30, ListCount
    <2>3. FreePages \cap S = S
      OBVIOUS
    <2>4. Cardinality(FreePages \ S) = Cardinality(FreePages) - Cardinality(S)
      BY <2>1, <2>3, FS_Difference
    <2>5. Cardinality(S) \in Nat
      BY <2>1, FS_Subset, FS_CardinalityType
    <2>6. m = n - Cardinality(S)
      BY <2>1, <2>2, <2>4
    <2> QED
      BY <1>6, <2>6
  <1>32. m \in 0..PageCount
    <2>1. FreePages \ S \in SUBSET Page
      BY DEF FreePages
    <2> QED
      BY <1>20, <1>25, <1>30, <2>1, ListBound
  <1>33. PgTypeOK'
    BY <1>2, <1>9, <1>17, <1>31, <1>32 DEF PgTypeOK
  <1> QED
    BY <1>16, <1>18, <1>28, <1>29, <1>30, <1>31, <1>33 DEF PgIInv

\* Only marked pages are taken in runs, and these are free.
LEMMA MarkedFree ==
  ASSUME PgIInv, NEW p \in Page, table[p].free
  PROVE  p \in FreePages
  <1>1. refs[p] \in Nat /\ (refs[p] = 0 \/ refs[p] > 0)
    BY PageAssumption, SMTT(30) DEF PgIInv, PgTypeOK
  <1>2. ASSUME refs[p] > 0 PROVE FALSE
    <2>1. table[p] = [free |-> FALSE, val |-> refs[p]]
      BY <1>2 DEF PgIInv, EntryInv
    <2>2. table[p].free = FALSE
      BY ONLY <2>1, SMTT(30)
    <2> QED
      BY <2>2
  <1> QED
    BY <1>1, <1>2 DEF FreePages

\* The entry of a page with references counts them.
LEMMA EntryCounts ==
  ASSUME PgIInv, NEW p \in Page, refs[p] > 0
  PROVE  /\ table[p] = [free |-> FALSE, val |-> refs[p]] /\ table[p].val = refs[p]
         /\ refs[p] \in Nat
         /\ \A r \in Nat : [table EXCEPT ![p].val = r] = [table EXCEPT ![p] = [free |-> FALSE, val |-> r]]
  <1>1. table[p] = [free |-> FALSE, val |-> refs[p]]
    BY DEF PgIInv, EntryInv
  <1>2. table[p].val = refs[p]
    BY ONLY <1>1, SMTT(30)
  <1>3. refs[p] \in Nat
    BY PageAssumption, SMTT(30) DEF PgIInv, PgTypeOK
  <1>4. ASSUME NEW r \in Nat
        PROVE  [table EXCEPT ![p].val = r] = [table EXCEPT ![p] = [free |-> FALSE, val |-> r]]
    <2>1. [table[p] EXCEPT !.val = r] = [free |-> FALSE, val |-> r]
      <3>1. PICK v : v = table[p]
        OBVIOUS
      <3>2. v \in [free : BOOLEAN, val : Nat]
        BY <3>1 DEF PgIInv
      <3>3. v.free = FALSE
        BY ONLY <1>1, <3>1, SMTT(30)
      <3>4. [v EXCEPT !.val = r] \in [free : BOOLEAN, val : Nat]
        BY <3>2
      <3>5. [v EXCEPT !.val = r].val = r /\ [v EXCEPT !.val = r].free = FALSE
        BY <3>2, <3>3
      <3>6. \A w \in [free : BOOLEAN, val : Nat] : w.val = r /\ w.free = FALSE => w = [free |-> FALSE, val |-> r]
        BY SMTT(30)
      <3> QED
        BY <3>1, <3>4, <3>5, <3>6
    <2> QED
      BY <2>1
  <1> QED
    BY <1>1, <1>2, <1>3, <1>4

\* Every operation on pages keeps PgIInv.
LEMMA NextPage == ASSUME PgIInv, PgNext PROVE PgIInv'
  <1>1. PgTypeOK /\ want \in 0..PageCount /\ refs \in [Page -> 0..MaxRefs]
    BY DEF PgIInv, PgTypeOK
  <1>2. ASSUME UNCHANGED <<table, free_head, free_count, refs>>, want' \in 0..PageCount,
               pg_lock' \in {"free", "leaked"}, overrun' \in BOOLEAN
        PROVE  PgIInv'
    <2>1. PgTypeOK'
      BY <1>1, <1>2 DEF PgTypeOK
    <2>2. EntryInv' /\ FreePages' = FreePages
      BY <1>2 DEF PgIInv, EntryInv, FreePages
    <2> QED
      BY <1>2, <2>1, <2>2 DEF PgIInv
  <1>3. CASE ppage_alloc
    BY <1>3, AllocStep
  <1>4. CASE contiguous_alloc
    <2>1. want # 0 /\ Fits # {} /\ want' = 0 /\ UNCHANGED <<pg_lock, overrun>>
      BY <1>4 DEF contiguous_alloc
    <2>2. PICK f : f = CHOOSE first \in Fits : \A g \in Fits : first <= g
      OBVIOUS
    <2>3. f \in Fits
      <3>1. Fits \in SUBSET Nat
        BY <1>1, PageAssumption, SMTT(30) DEF Fits
      <3> QED
        BY <2>1, <2>2, <3>1, LeastNat
    <2>4. Unlink(Run(f))
      BY <1>4, <2>2 DEF contiguous_alloc
    <2>5. Run(f) \in SUBSET Page /\ f \in Run(f)
      BY <1>1, <2>1, <2>3, PageAssumption, SMTT(30) DEF Fits, Run, Page
    <2>6. Run(f) \in SUBSET FreePages
      BY <2>3, <2>5, MarkedFree DEF Fits
    <2>7. 0 \in 0..PageCount
      BY PageAssumption, SMTT(30)
    <2> QED
      BY <2>1, <2>4, <2>5, <2>6, <2>7, UnlinkStep
  <1>5. CASE contiguous_fail
    <2>1. 0 \in 0..PageCount
      BY PageAssumption, SMTT(30)
    <2>2. /\ UNCHANGED <<table, free_head, free_count, refs>> /\ want' = 0
          /\ pg_lock' \in {"free", "leaked"} /\ overrun' \in BOOLEAN
      BY <1>1, <1>5 DEF contiguous_fail, PgTypeOK
    <2> QED
      BY <1>2, <2>1, <2>2
  <1>6. CASE \E n \in 2..PageCount : contiguous_test(n)
    <2>1. PICK n \in 2..PageCount : contiguous_test(n)
      BY <1>6
    <2>2. n \in 0..PageCount
      BY PageAssumption, SMTT(30)
    <2> QED
      BY <1>1, <1>2, <2>1, <2>2 DEF contiguous_test, PgTypeOK
  <1>7. ASSUME NEW p \in Page, ppage_refnew(p) PROVE PgIInv'
    <2>1. PICK r : r = refs[p] + 1
      OBVIOUS
    <2>2. refs[p] > 0 /\ r \in 1..MaxRefs /\ r \in Nat
      BY <1>1, <1>7, <2>1, PageAssumption, SMTT(30) DEF ppage_refnew
    <2>3. /\ table' = [table EXCEPT ![p].val = table[p].val + 1] /\ refs' = [refs EXCEPT ![p] = refs[p] + 1]
          /\ UNCHANGED <<free_head, free_count, want, pg_lock, overrun>>
      BY <1>7 DEF ppage_refnew
    <2>4. table' = [table EXCEPT ![p].val = r] /\ refs' = [refs EXCEPT ![p] = r]
      BY <2>1, <2>2, <2>3, EntryCounts
    <2>5. table' = [table EXCEPT ![p] = [free |-> FALSE, val |-> r]]
      BY <2>2, <2>4, EntryCounts
    <2> QED
      BY <2>2, <2>3, <2>4, <2>5, ListStays
  <1>8. ASSUME NEW p \in Page, ppage_refdrop(p) PROVE PgIInv'
    <2>1. PICK r : r = refs[p] - 1
      OBVIOUS
    <2>2. refs[p] > 0 /\ table[p].val = refs[p] /\ refs[p] \in 0..MaxRefs /\ refs[p] \in Nat
      BY <1>1, <1>8, EntryCounts DEF ppage_refdrop
    <2>3. refs' = [refs EXCEPT ![p] = r] /\ UNCHANGED <<want, pg_lock, overrun>>
      BY <1>8, <2>1 DEF ppage_refdrop
    <2>4. CASE refs[p] = 1
      <3>1. /\ table' = [table EXCEPT ![p] = [free |-> TRUE, val |-> free_head]]
            /\ free_head' = p /\ free_count' = free_count + 1
        BY <1>8, <2>2, <2>4 DEF ppage_refdrop
      <3>2. r = 0
        BY <2>1, <2>4, SMTT(30)
      <3> QED
        BY <2>2, <2>3, <3>1, <3>2, FreeStep
    <2>5. CASE refs[p] # 1
      <3>1. r \in 1..MaxRefs /\ r \in Nat
        BY <2>1, <2>2, <2>5, PageAssumption, SMTT(30)
      <3>2. table' = [table EXCEPT ![p].val = table[p].val - 1] /\ UNCHANGED <<free_head, free_count>>
        BY <1>8, <2>2, <2>5 DEF ppage_refdrop
      <3>3. table' = [table EXCEPT ![p].val = r]
        BY <2>1, <2>2, <3>2
      <3>4. table' = [table EXCEPT ![p] = [free |-> FALSE, val |-> r]]
        BY <2>2, <3>1, <3>3, EntryCounts
      <3> QED
        BY <2>2, <2>3, <3>1, <3>2, <3>4, ListStays
    <2> QED
      BY <2>4, <2>5
  <1>9. ASSUME NEW p \in Page, NEW q \in p..(PageCount - 1), ppage_reserve(p, q) PROVE PgIInv'
    <2>1. p..q \in SUBSET Page /\ p \in p..q
      BY PageAssumption, SMTT(30) DEF Page
    <2>2. p..q \in SUBSET FreePages
      BY <1>9, <2>1, MarkedFree DEF ppage_reserve
    <2>3. Unlink(p..q) /\ UNCHANGED <<want, pg_lock, overrun>>
      BY <1>9 DEF ppage_reserve
    <2>4. want' \in 0..PageCount
      BY <1>1, <2>3
    <2> QED
      BY <2>1, <2>2, <2>3, <2>4, UnlinkStep
  <1> QED
    BY <1>3, <1>4, <1>5, <1>6, <1>7, <1>8, <1>9 DEF PgNext

\* No page is lost or handed out twice, for any number of pages and references:
\* whatever single pages, runs and ranges are taken and references dropped, the
\* list that goes through the table holds every page without references once
\* (page_alloc.c:76-259).
THEOREM PageSafe == PgSpec => []PageInv
  <1>1. PgIInv /\ UNCHANGED pgVars => PgIInv'
    <2>1. SUFFICES ASSUME PgIInv, UNCHANGED pgVars PROVE PgIInv'
      OBVIOUS
    <2> QED
      BY <2>1 DEF PgIInv, PgTypeOK, EntryInv, FreePages, pgVars
  <1>2. PgIInv /\ [PgNext]_pgVars => PgIInv'
    BY <1>1, NextPage
  <1> QED
    BY <1>2, PageStart, PgIInvImplies, PTL DEF PgSpec
=============================================================================
