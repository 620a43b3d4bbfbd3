-------------------------------- MODULE Timer --------------------------------
(***************************************************************************)
(* Software timers, mutek/timer.c: a list of events in the order they      *)
(* expire, on a tick count that wraps.  The clock's interrupt handler adds *)
(* ticks and calls the callbacks of the events that have expired; contexts *)
(* add and cancel events, with interrupts disabled except where they read  *)
(* the tick count.  One processor: nothing else protects the list.         *)
(*                                                                         *)
(* now and due count ticks since the start, they do not wrap.              *)
(***************************************************************************)
EXTENDS Naturals, Sequences, SequencesExt

CONSTANTS
  Event,
  Delays,    \* delays of events
  TickBits,  \* width of timer_delay_t
  MaxNow,    \* bound: ticks counted
  NoEvent

ASSUME TimerAssumption ==
  NoEvent \notin Event /\ Delays \subseteq Nat /\ TickBits \in Nat /\ MaxNow \in Nat

VARIABLES
  now,       \* timer->ticks, before it wraps
  tlist,     \* timer->root
  tstart,    \* event->start
  tdelay,    \* event->delay
  due,       \* when each event is to expire
  adding,    \* the event being added, its start is set
  in_irq     \* the interrupt handler is in timer_inc_ticks

tmVars == <<now, tlist, tstart, tdelay, due, adding, in_irq>>

ticks == now % 2^TickBits

\* event->start + event->delay
expire(e) == (tstart[e] + tdelay[e]) % 2^TickBits

TmInit ==
  /\ now = 0 /\ tlist = <<>> /\ adding = NoEvent /\ in_irq = FALSE
  /\ tstart = [e \in Event |-> 0] /\ tdelay = [e \in Event |-> 0] /\ due = [e \in Event |-> 0]

\* MUTANT of sorted_insert: in the order they are added
MutInsert(list, e, t) == Append(list, e)

\* list with e, that expires at t, before the first event that does not
\* expire earlier
sorted_insert(list, e, t) ==
  LET later == SelectInSeq(list, LAMBDA f : t <= expire(f)) IN
  IF later = 0 THEN Append(list, e) ELSE InsertAt(list, later, e)

SetStart(e, d) ==
  /\ tstart' = [tstart EXCEPT ![e] = ticks]
  /\ tdelay' = [tdelay EXCEPT ![e] = d]
  /\ due' = [due EXCEPT ![e] = now + d]

-----------------------------------------------------------------------------
\* timer_add_event, up to where interrupts are disabled
add_start(e, d) ==
  /\ ~in_irq /\ adding = NoEvent /\ ~Contains(tlist, e)
  /\ SetStart(e, d)
  /\ adding' = e
  /\ UNCHANGED <<now, tlist, in_irq>>

\* the rest of it: ticks may have been counted since
add_insert ==
  /\ ~in_irq /\ adding # NoEvent
  /\ tlist' = sorted_insert(tlist, adding, expire(adding))
  /\ adding' = NoEvent
  /\ UNCHANGED <<now, tstart, tdelay, due, in_irq>>

\* timer_cancel_event of an event that has not expired
timer_cancel_event(e) ==
  /\ ~in_irq /\ Contains(tlist, e)
  /\ tlist' = RemoveFirst(tlist, e)
  /\ UNCHANGED <<now, tstart, tdelay, due, adding, in_irq>>

\* timer_inc_ticks, up to its loop
timer_inc_ticks(n) ==
  /\ ~in_irq /\ now + n <= MaxNow
  /\ now' = now + n
  /\ in_irq' = TRUE
  /\ UNCHANGED <<tlist, tstart, tdelay, due, adding>>

\* the first event has expired
expired == tlist # <<>> /\ expire(Head(tlist)) <= ticks

\* the first event is removed and its callback called, which may add it again
expire_event ==
  LET e == Head(tlist) IN
  /\ in_irq /\ expired
  /\ \/ tlist' = Tail(tlist) /\ UNCHANGED <<tstart, tdelay, due>>
     \/ \E d \in Delays \ {0} :
          /\ SetStart(e, d)
          /\ tlist' = sorted_insert(Tail(tlist), e, (ticks + d) % 2^TickBits)
  /\ UNCHANGED <<now, adding, in_irq>>

\* MUTANT of inc_end: one callback for each interrupt
MutIncEnd ==
  /\ in_irq
  /\ in_irq' = FALSE
  /\ UNCHANGED <<now, tlist, tstart, tdelay, due, adding>>

\* the end of the loop
inc_end ==
  /\ in_irq /\ ~expired
  /\ in_irq' = FALSE
  /\ UNCHANGED <<now, tlist, tstart, tdelay, due, adding>>

TmNext ==
  \/ \E e \in Event : (\E d \in Delays : add_start(e, d)) \/ timer_cancel_event(e)
  \/ add_insert \/ (\E n \in 1..2 : timer_inc_ticks(n)) \/ expire_event \/ inc_end
-----------------------------------------------------------------------------
\* The type invariant.
TmTypeOK ==
  /\ now \in 0..MaxNow /\ tlist \in Seq(Event) /\ in_irq \in BOOLEAN
  /\ tstart \in [Event -> 0..(2^TickBits - 1)] /\ adding \in Event \cup {NoEvent}

\* "the timers are sorted by expire time" (timer.c:107), those added late, with
\* a start read before an interrupt, included.
TimerSorted ==
  \A i, j \in DOMAIN tlist : i < j => due[tlist[i]] <= due[tlist[j]]

\* A callback is never called before the delay has gone by (timer.c:109).
NeverEarly ==
  [][in_irq /\ in_irq' /\ tlist' # tlist => due[Head(tlist)] <= now]_tmVars

\* Nor is one forgotten: when the handler returns no event is due, even when
\* callbacks have added events, or several expire at once (timer.c:108).
NotLate ==
  [][in_irq /\ ~in_irq' => \A i \in DOMAIN tlist : due[tlist[i]] > now]_tmVars

\* What adding, cancelling and the tick keep true (timer.c:36-117).
TimerInv == TmTypeOK /\ TimerSorted

\* Callbacks are called when their delay has gone by, neither before nor a tick
\* later (timer.c:108-116).
OnTime == NeverEarly /\ NotLate
=============================================================================
