----------------------------- MODULE NetDispatch -----------------------------
(***************************************************************************)
(* The packet dispatching thread of a network interface,                   *)
(* libnetwork/dispatch.c: interrupt handlers queue packets and give a      *)
(* semaphore, the thread takes the semaphore and pushes the packets up the *)
(* stack, and the driver's cleanup, which has unbound the interrupt (but   *)
(* handlers may still be at work on other processors), kills the thread    *)
(* and frees everything.  The semaphore has a single taker: its count.     *)
(*                                                                         *)
(* thread: "new", "take", "pop", "quit", "exit", "dead"                    *)
(* killer: "run", "give", "stop", "stopped", "started", "freed"            *)
(* handler, one for each packet: "none", "push", "give", "sent"            *)
(***************************************************************************)
EXTENDS Machine, Naturals, Sequences, FiniteSets

CONSTANTS Packet   \* packets received

VARIABLES
  d_pc,       \* the thread
  killer,     \* the context that kills it
  rx,         \* handlers
  d_sem,      \* dispatch->sem
  d_queue,    \* dispatch->queue
  must_quit,  \* dispatch->must_quit
  handled,    \* packets pushed up the stack
  if_refs,    \* references on the interface held by dispatch and its thread
  in_time,    \* packets queued before the thread was told to quit
  misused     \* a context was started that was not stopped, or freed memory used

ndOnly == <<d_pc, killer, rx, d_sem, d_queue, must_quit, handled, if_refs, in_time, misused>>
ndVars == <<smp, ndOnly>>

\* network_dispatch_create
DInit ==
  /\ smp \in BOOLEAN
  /\ d_pc = "new" /\ killer = "run" /\ rx = [p \in Packet |-> "none"]
  /\ d_sem = 0 /\ d_queue = <<>> /\ must_quit = FALSE
  /\ handled = {} /\ if_refs = 1 /\ in_time = {} /\ misused = FALSE

\* With one processor a handler runs to its end, and contexts are switched
\* where one waits.  A behaviour is followed up to the first misuse.
NoHandler == ~misused /\ (smp \/ \A p \in Packet : rx[p] \notin {"push", "give"})
ThreadAt(pc) == NoHandler /\ d_pc = pc /\ (smp \/ killer \notin {"give", "stop"})
KillerAt(pc) == NoHandler /\ killer = pc /\ (smp \/ d_pc \in {"new", "take", "dead"})
RxAt(p, pc) == ~misused /\ rx[p] = pc

-----------------------------------------------------------------------------
dispatch_enter ==
  /\ ThreadAt("new")
  /\ if_refs' = if_refs + 1
  /\ d_pc' = "take"
  /\ UNCHANGED <<smp, killer, rx, d_sem, d_queue, must_quit, handled, misused, in_time>>

dispatch_take ==
  /\ ThreadAt("take") /\ d_sem > 0
  /\ d_sem' = d_sem - 1
  /\ d_pc' = "pop"
  /\ UNCHANGED <<smp, killer, rx, d_queue, must_quit, handled, if_refs, misused, in_time>>

dispatch_handle ==
  /\ ThreadAt("pop") /\ d_queue # <<>>
  /\ handled' = handled \cup {Head(d_queue)}
  /\ d_queue' = Tail(d_queue)
  /\ d_pc' = "take"
  /\ UNCHANGED <<smp, killer, rx, d_sem, must_quit, if_refs, misused, in_time>>

\* MUTANT of dispatch_empty: must_quit is looked at first
MutEmpty ==
  /\ ThreadAt("pop") /\ (d_queue = <<>> \/ must_quit)
  /\ IF must_quit
     THEN d_pc' = "quit" /\ if_refs' = if_refs - 1
     ELSE d_pc' = "take" /\ UNCHANGED if_refs
  /\ UNCHANGED <<smp, killer, rx, d_sem, d_queue, must_quit, handled, misused, in_time>>

\* no packet: quit if told so
dispatch_empty ==
  /\ ThreadAt("pop") /\ d_queue = <<>>
  /\ IF must_quit
     THEN d_pc' = "quit" /\ if_refs' = if_refs - 1
     ELSE d_pc' = "take" /\ UNCHANGED if_refs
  /\ UNCHANGED <<smp, killer, rx, d_sem, d_queue, must_quit, handled, misused, in_time>>

\* sched_context_start(dispatch->killer)
start_killer ==
  /\ ThreadAt("quit")
  /\ misused' = (killer # "stopped")
  /\ killer' = "started"
  /\ d_pc' = "exit"
  /\ UNCHANGED <<smp, rx, d_sem, d_queue, must_quit, handled, if_refs, in_time>>

\* sched_lock, sched_context_exit: still on the stack that is in dispatch
dispatch_exit ==
  /\ ThreadAt("exit")
  /\ d_pc' = "dead"
  /\ UNCHANGED <<smp, killer, rx, d_sem, d_queue, must_quit, handled, if_refs, misused, in_time>>

Thread_ == \/ dispatch_enter \/ dispatch_take \/ dispatch_handle
           \/ dispatch_empty \/ start_killer \/ dispatch_exit

-----------------------------------------------------------------------------
\* an interrupt, while it is bound
rx_irq(p) ==
  /\ NoHandler /\ RxAt(p, "none") /\ killer = "run"
  /\ rx' = [rx EXCEPT ![p] = "push"]
  /\ UNCHANGED <<smp, d_pc, killer, d_sem, d_queue, must_quit, handled, if_refs, misused, in_time>>

\* network_dispatch_packet, network_dispatch_data: dispatch_wakeup
rx_push(p) ==
  /\ RxAt(p, "push")
  /\ d_queue' = Append(d_queue, p)
  /\ misused' = (killer = "freed")
  /\ rx' = [rx EXCEPT ![p] = "give"]
  /\ UNCHANGED <<smp, d_pc, killer, d_sem, must_quit, handled, if_refs, in_time>>

rx_give(p) ==
  /\ RxAt(p, "give")
  /\ d_sem' = d_sem + 1
  /\ misused' = (killer = "freed")
  /\ rx' = [rx EXCEPT ![p] = "sent"]
  /\ UNCHANGED <<smp, d_pc, killer, d_queue, must_quit, handled, if_refs, in_time>>

-----------------------------------------------------------------------------
\* network_dispatch_kill
dispatch_kill ==
  /\ KillerAt("run")
  /\ must_quit' = TRUE /\ in_time' = {p \in Packet : rx[p] = "sent"}
  /\ killer' = "give"
  /\ UNCHANGED <<smp, d_pc, rx, d_sem, d_queue, handled, if_refs, misused>>

\* MUTANT of kill_give: the thread is not told
MutKillGive ==
  /\ KillerAt("give")
  /\ killer' = "stop"
  /\ UNCHANGED <<smp, d_pc, rx, d_sem, d_queue, must_quit, handled, if_refs, misused, in_time>>

kill_give ==
  /\ KillerAt("give")
  /\ d_sem' = d_sem + 1
  /\ killer' = "stop"
  /\ UNCHANGED <<smp, d_pc, rx, d_queue, must_quit, handled, if_refs, misused, in_time>>

\* sched_context_stop
kill_stop ==
  /\ KillerAt("stop")
  /\ killer' = "stopped"
  /\ UNCHANGED <<smp, d_pc, rx, d_sem, d_queue, must_quit, handled, if_refs, misused, in_time>>

\* the interface reference is dropped, dispatch and the thread's stack are freed
kill_free ==
  /\ KillerAt("started")
  /\ misused' = (d_pc # "dead")
  /\ if_refs' = if_refs - 1
  /\ killer' = "freed"
  /\ UNCHANGED <<smp, d_pc, rx, d_sem, d_queue, must_quit, handled, in_time>>

Killer == kill_give \/ kill_stop \/ kill_free

DNext ==
  \/ Thread_ \/ dispatch_kill \/ Killer
  \/ \E p \in Packet : rx_irq(p) \/ rx_push(p) \/ rx_give(p)

DFair ==
  /\ WF_ndVars(Thread_) /\ WF_ndVars(Killer)
  /\ \A p \in Packet : WF_ndVars(rx_push(p) \/ rx_give(p))
-----------------------------------------------------------------------------
\* The type invariant.
DTypeOK ==
  /\ d_pc \in {"new", "take", "pop", "quit", "exit", "dead"}
  /\ killer \in {"run", "give", "stop", "stopped", "started", "freed"}
  /\ rx \in [Packet -> {"none", "push", "give", "sent"}]
  /\ d_sem \in Nat /\ d_queue \in Seq(Packet)
  /\ handled \subseteq Packet /\ if_refs \in 0..2

\* The queue is emptied before the thread quits: the packets queued before it
\* was told so are pushed up the stack (dispatch.c:77, 83).
PacketsDrained == d_pc \in {"quit", "exit", "dead"} => in_time \subseteq handled

\* Every packet queued in time is pushed up the stack: the semaphore is never
\* below what is in the queue.
PacketHandled ==
  \A p \in Packet :
    rx[p] = "sent" /\ (must_quit => p \in in_time) ~> p \in handled \/ misused

\* The killer comes back.
KillReturns == must_quit ~> killer = "freed" \/ misused

\* The thread and the killer drop what they hold of the interface, once each.
RefsDropped == killer = "freed" /\ ~misused => if_refs = 0

\* With one processor nothing is misused: the killer is started when it has
\* stopped, and what it frees is not in use.
NoMisuse == ~smp => ~misused

\* What the thread, its killer and the handlers that queue packets keep true:
\* packets and references are not forgotten and, with one processor, nothing
\* is used after it was freed (dispatch.c:58-150).
DispatchInv == DTypeOK /\ PacketsDrained /\ RefsDropped /\ NoMisuse

\* Every packet is handled, and killing the thread ends (dispatch.c:74, 140).
DispatchEnds == PacketHandled /\ KillReturns
=============================================================================
