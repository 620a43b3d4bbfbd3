----------------------------- MODULE SocketRecv -----------------------------
(***************************************************************************)
(* Receiving from a packet, raw or UDP socket: socket_grab_packet and      *)
(* socket_grab_buffer of libnetwork/libsocket/socket.c, the signalling of  *)
(* packets and the shutdown of socket_packet.c (socket_raw.c and           *)
(* socket_udp.c are alike), composed with the kernel's semaphores and      *)
(* timers.  A receiver first looks at the queue and takes the semaphore    *)
(* when it is empty; a packet, and a timeout, give it.                     *)
(*                                                                         *)
(* One processor, whose contexts may be switched anywhere.  The timeout's  *)
(* event is on the stack of the receiver; its name is the receiver.        *)
(*                                                                         *)
(* receiver: "idle", "again" (looks at the queue), "take", "taken" (in or  *)
(*   after semaphore_take)                                                 *)
(* the network (sig): "idle", "give" (a packet was queued)                 *)
(* shutdown: "open", "clear", "wake", "shut"                               *)
(***************************************************************************)
EXTENDS Semaphore, Timer

CONSTANTS
  Timeout,     \* values of fd->recv_timeout, 0 for none
  MaxRecv,     \* bound: receives
  MaxSignals   \* bound: packets received

ASSUME SocketAssumption == Event = Ctx /\ Timeout \subseteq Nat /\ {MaxRecv, MaxSignals} \subseteq Nat

VARIABLES
  users,        \* contexts that use the socket
  recv_timeout, \* fd->recv_timeout
  call,         \* the receivers: pc, flag (MSG_PEEK, MSG_DONTWAIT or none), since
                \* (start, the tick of the call) and started (timeout_started)
  calls,        \* receives so far
  left,         \* how a receive returned that left its event in the list (history)
  recv_q,       \* how many packets are in recv_q
  signals,      \* packets received so far
  sig,
  shut,
  peeked        \* some receiver was called with MSG_PEEK (history)

skOnly == <<users, recv_timeout, call, calls, left, recv_q, signals, sig, shut, peeked>>
skVars == <<semVars, tmVars, skOnly>>

NoCall == [pc |-> "idle", flag |-> "wait", since |-> 0, started |-> FALSE]

SkInit ==
  /\ semaphore_init /\ TmInit
  /\ users \in SUBSET Ctx \ {{}} /\ recv_timeout \in Timeout
  /\ call = [x \in Ctx |-> NoCall] /\ calls = 0 /\ left = "none"
  /\ recv_q = 0 /\ signals = 0 /\ sig = "idle" /\ shut = "open" /\ peeked = FALSE

\* Once the event of a receiver that has returned is in the timer's list, the
\* list goes through memory that holds anything: behaviours end there.
Sane == left = "none" /\ ~in_irq

SkAt(x, pc) == Sane /\ status[x] = "running" /\ call[x].pc = pc
SkGoto(x, pc) == call' = [call EXCEPT ![x].pc = pc] /\ UNCHANGED left

\* after tlist' is known
SkReturn(x, r) ==
  /\ call' = [call EXCEPT ![x] = NoCall]
  /\ left' = IF Contains(tlist', x) THEN r ELSE "none"

-----------------------------------------------------------------------------
recv(x) ==
  /\ x \in users /\ SkAt(x, "idle") /\ calls < MaxRecv
  /\ \E f \in {"wait", "peek", "dontwait"} :
       /\ call' = [call EXCEPT ![x] = [pc |-> "again", flag |-> f, since |-> now, started |-> FALSE]]
       /\ peeked' = (peeked \/ f = "peek")
  /\ calls' = calls + 1
  /\ UNCHANGED <<semVars, tmVars, users, recv_timeout, left, recv_q, signals, sig, shut>>

\* it does not cancel the timeout
recv_shut(x) ==
  /\ SkAt(x, "again") /\ shut # "open"
  /\ UNCHANGED tmVars /\ SkReturn(x, "ESHUTDOWN")
  /\ UNCHANGED <<semVars, users, recv_timeout, peeked, calls, recv_q, signals, sig, shut>>

recv_packet(x) ==
  /\ SkAt(x, "again") /\ shut = "open" /\ recv_q > 0
  /\ recv_q' = IF call[x].flag = "peek" THEN recv_q ELSE recv_q - 1
  /\ IF call[x].started /\ Contains(tlist, x) THEN timer_cancel_event(x) ELSE UNCHANGED tmVars
  /\ SkReturn(x, "packet")
  /\ UNCHANGED <<semVars, users, recv_timeout, peeked, calls, signals, sig, shut>>

\* no packet: MSG_DONTWAIT, or start the timeout unless it was started before
recv_empty(x) ==
  /\ SkAt(x, "again") /\ shut = "open" /\ recv_q = 0
  /\ IF call[x].flag = "dontwait"
     THEN UNCHANGED tmVars /\ SkReturn(x, "EAGAIN")
     ELSE IF ~call[x].started /\ recv_timeout # 0
          THEN /\ call' = [call EXCEPT ![x].pc = "take", ![x].started = TRUE]
               /\ SetStart(x, recv_timeout)
               /\ tlist' = sorted_insert(tlist, x, (ticks + recv_timeout) % 2^TickBits)
               /\ UNCHANGED <<now, adding, in_irq, left>>
          ELSE SkGoto(x, "take") /\ UNCHANGED tmVars
  /\ UNCHANGED <<semVars, users, recv_timeout, peeked, calls, recv_q, signals, sig, shut>>

recv_take(x) ==
  /\ SkAt(x, "take")
  /\ semaphore_take(x, 1)
  /\ SkGoto(x, "taken")
  /\ UNCHANGED <<tmVars, users, recv_timeout, peeked, calls, recv_q, signals, sig, shut>>

\* has timeout expired?  the code's test is on 5/6 of it
TimedOut(x) == call[x].started /\ now - call[x].since >= (recv_timeout * 5) \div 6

\* semaphore_take returns: EAGAIN, or look again
recv_taken(x) ==
  /\ SkAt(x, "taken")
  /\ SemConsume(x)
  /\ UNCHANGED tmVars
  /\ IF TimedOut(x) THEN SkReturn(x, "EAGAIN") ELSE SkGoto(x, "again")
  /\ UNCHANGED <<users, recv_timeout, peeked, calls, recv_q, signals, sig, shut>>

recv_resume(x) ==
  /\ Sane /\ SemResume(x) /\ UNCHANGED <<tmVars, skOnly>>

-----------------------------------------------------------------------------
\* pf_packet_signal: queue the packet ...
signal_push ==
  /\ Sane /\ sig = "idle" /\ shut = "open" /\ signals < MaxSignals
  /\ recv_q' = recv_q + 1 /\ signals' = signals + 1
  /\ sig' = "give"
  /\ UNCHANGED <<semVars, tmVars, users, recv_timeout, peeked, call, calls, left, shut>>

\* MUTANT of signal_give: no unit when the queue was not empty
MutGive ==
  /\ Sane /\ sig = "give"
  /\ IF recv_q = 1 THEN GiveUnits(1) ELSE UNCHANGED <<status, waitq, sem_count, avail>>
  /\ sig' = "idle"
  /\ UNCHANGED <<asked, tmVars, users, recv_timeout, peeked, call, calls, left, recv_q, signals, shut>>

\* ... and give the semaphore
signal_give ==
  /\ Sane /\ sig = "give"
  /\ GiveUnits(1)
  /\ sig' = "idle"
  /\ UNCHANGED <<asked, tmVars, users, recv_timeout, peeked, call, calls, left, recv_q, signals, shut>>

\* the clock, only while somebody waits for it
clock ==
  /\ Sane /\ tlist # <<>>
  /\ timer_inc_ticks(1)
  /\ UNCHANGED <<semVars, skOnly>>

\* timer_inc_ticks: the event expires, recv_timeout gives the semaphore
timeout ==
  /\ in_irq /\ expired
  /\ tlist' = Tail(tlist)
  /\ GiveUnits(1)
  /\ UNCHANGED <<asked, now, tstart, tdelay, due, adding, in_irq, skOnly>>

clock_end == inc_end /\ UNCHANGED <<semVars, skOnly>>

-----------------------------------------------------------------------------
\* shutdown_packet(SHUT_RD): the socket is marked ...
shutdown_mark ==
  /\ Sane /\ shut = "open"
  /\ shut' = "clear"
  /\ UNCHANGED <<semVars, tmVars, users, recv_timeout, peeked, call, calls, left, recv_q, signals, sig>>

\* ... the queue is emptied ...
shutdown_clear ==
  /\ Sane /\ shut = "clear"
  /\ recv_q' = 0
  /\ shut' = "wake"
  /\ UNCHANGED <<semVars, tmVars, users, recv_timeout, peeked, call, calls, left, signals, sig>>

\* ... and the semaphore is given as long as its value is negative
shutdown_wake ==
  /\ Sane /\ shut = "wake"
  /\ IF sem_count < 0
     THEN GiveUnits(1) /\ UNCHANGED shut
     ELSE shut' = "shut" /\ UNCHANGED <<status, waitq, sem_count, avail>>
  /\ UNCHANGED <<asked, tmVars, users, recv_timeout, peeked, call, calls, left, recv_q, signals, sig>>

Receive(x) ==
  \/ recv_shut(x) \/ recv_packet(x) \/ recv_empty(x) \/ recv_take(x) \/ recv_taken(x) \/ recv_resume(x)

SkNext ==
  \/ \E x \in Ctx : recv(x) \/ Receive(x)
  \/ signal_push \/ signal_give \/ clock \/ timeout \/ clock_end
  \/ shutdown_mark \/ shutdown_clear \/ shutdown_wake

SkSpec == SkInit /\ [][SkNext]_skVars
-----------------------------------------------------------------------------
\* The type invariant.
SkTypeOK ==
  /\ \A x \in Ctx : call[x].pc \in {"idle", "again", "take", "taken"}
  /\ left \in {"none", "packet", "EAGAIN", "ESHUTDOWN"}
  /\ recv_q \in 0..MaxSignals /\ sig \in {"idle", "give"}
  /\ shut \in {"open", "clear", "wake", "shut"}

Blocked(x) == status[x] = "blocked"

\* No packet waits for a sleeping receiver, although receivers take packets
\* without taking the semaphore: when one sleeps and the queue is not empty,
\* a give is under way, or another receiver is awake and looks at the queue
\* again (without timeouts, shutdown and MSG_PEEK, which takes the unit and
\* leaves the packet).
NoStuckRecv ==
  recv_timeout = 0 /\ ~peeked /\ shut = "open" /\ recv_q > 0 /\ (\E x \in Ctx : Blocked(x)) =>
    sig = "give" \/ \E y \in Ctx : ~Blocked(y) /\ call[y].pc \in {"taken", "again", "take"}

\* The only receiver of a socket never sleeps past its timeout: as long as it
\* sleeps the event is there to wake it ("if there is a receive timeout, start
\* a timer", socket.c:454).
TimeoutPending ==
  recv_timeout # 0 /\ Cardinality(users) = 1 =>
    \A x \in users : Blocked(x) => Contains(tlist, x)

\* The event does not outlive a receive that returns a packet (socket.c:477).
PacketCancels == left # "packet"

\* Shutting down a socket is to "end all the recv with errors"
\* (socket_packet.c:456): nobody sleeps on it.
ShutdownEndsRecv == shut = "shut" => \A x \in Ctx : ~Blocked(x)

\* What receivers, packets and timeouts keep true: nobody sleeps beside a packet
\* or past its timeout (socket.c:420-480).
RecvInv == SkTypeOK /\ NoStuckRecv /\ TimeoutPending /\ PacketCancels
=============================================================================
