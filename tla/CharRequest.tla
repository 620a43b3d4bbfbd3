----------------------------- MODULE CharRequest -----------------------------
(***************************************************************************)
(* Synchronous requests to a character device: drivers/char/device_char.c  *)
(* on top of the tty driver, drivers/char/tty-soclib/tty-soclib.c.  The    *)
(* request and its status are on the stack of the caller: they are gone    *)
(* when it returns.  Characters arrive in a bounded fifo; the interrupt    *)
(* handler, or a caller that finds the queue empty, serves the queue with  *)
(* the device's lock held.                                                 *)
(*                                                                         *)
(* caller: "idle", "request" (about to call the driver), "try" (serving    *)
(*   the queue itself), "check" (looks at done), "stopped", "started" (by  *)
(*   the callback)                                                         *)
(* whoever serves the queue (at): "next", "done" (callback has started the *)
(*   caller), "remove" (callback has returned)                             *)
(***************************************************************************)
EXTENDS Machine, Naturals, Sequences

CONSTANTS
  Caller,
  Irq,       \* the interrupt handler
  Sizes,     \* sizes of requests
  FifoSize,  \* of the driver's read_fifo
  MaxCalls   \* bound: requests made by each caller

ASSUME CharAssumption ==
  /\ Irq \notin Caller /\ "nobody" \notin Caller \cup {Irq}
  /\ Sizes \subseteq Nat \ {0} /\ FifoSize \in Nat \ {0} /\ MaxCalls \in Nat

VARIABLES
  c_pc,      \* of each caller
  mode,      \* of its request: "wait" or "spin"
  size,      \* rq.size: what is left to read
  got_c,     \* characters put in the buffer of the request
  c_done,    \* status.done
  waiting,   \* whether status.ctx is set
  ncalls,    \* how many requests the caller has made
  read_q,    \* the driver's queue: caller and number of its request
  fifo,      \* characters in read_fifo
  dev_lock,  \* who holds dev->lock between two steps: a caller or Irq, or Nobody
  at,        \* where the holder is in tty_soclib_try_read
  touched    \* requests used by the driver after their caller has returned

chOnly == <<c_pc, mode, size, got_c, c_done, waiting, ncalls, read_q, fifo, dev_lock, at, touched>>
chVars == <<smp, chOnly>>

Nobody == "nobody"

ChInit ==
  /\ smp \in BOOLEAN
  /\ c_pc = [x \in Caller |-> "idle"] /\ mode = [x \in Caller |-> "wait"]
  /\ size = [x \in Caller |-> 0] /\ got_c = [x \in Caller |-> 0]
  /\ c_done = [x \in Caller |-> FALSE] /\ waiting = [x \in Caller |-> FALSE]
  /\ ncalls = [x \in Caller |-> 0]
  /\ read_q = <<>> /\ fifo = 0
  /\ dev_lock = Nobody /\ at = "next" /\ touched = {}

\* with one processor nobody else runs while the lock is held, interrupts
\* disabled.  A behaviour is followed up to the first use of a dead request:
\* the memory it is in holds anything by then.
Runs(x) == touched = {} /\ (smp \/ dev_lock \in {x, Nobody})
Serving == touched = {} /\ dev_lock # Nobody

ChAt(x, pc) == c_pc[x] = pc /\ Runs(x)
ChGoto(x, pc) == c_pc' = [c_pc EXCEPT ![x] = pc]

\* the request at the head of the queue, and its caller
rq == Head(read_q)
who == rq[1]

\* the caller of the request has not returned from it
Alive(r) == c_pc[r[1]] # "idle" /\ ncalls[r[1]] = r[2]
Use(r) == touched' = IF Alive(r) THEN touched ELSE touched \cup {r}

-----------------------------------------------------------------------------
\* dev_char_wait_read, dev_char_spin_read: set up the request
read(x) ==
  /\ ChAt(x, "idle") /\ ncalls[x] < MaxCalls
  /\ \E m \in {"wait", "spin"}, n \in Sizes :
       mode' = [mode EXCEPT ![x] = m] /\ size' = [size EXCEPT ![x] = n]
  /\ ncalls' = [ncalls EXCEPT ![x] = @ + 1]
  /\ c_done' = [c_done EXCEPT ![x] = FALSE] /\ waiting' = [waiting EXCEPT ![x] = FALSE]
  /\ got_c' = [got_c EXCEPT ![x] = 0]
  /\ ChGoto(x, "request")
  /\ UNCHANGED <<smp, read_q, fifo, dev_lock, at, touched>>

\* dev_char_wait_write, dev_char_spin_write: the driver sends everything and
\* calls the callback before it returns; nobody waits for anything
write(x) ==
  /\ ChAt(x, "idle") /\ dev_lock = Nobody /\ ncalls[x] < MaxCalls
  /\ ncalls' = [ncalls EXCEPT ![x] = @ + 1]
  /\ UNCHANGED <<smp, c_pc, mode, size, got_c, c_done, waiting, read_q, fifo, dev_lock, at, touched>>

\* tty_soclib_request: queue the request, serve the queue if it was empty
tty_request(x) ==
  /\ ChAt(x, "request") /\ dev_lock = Nobody
  /\ read_q' = Append(read_q, <<x, ncalls[x]>>)
  /\ IF read_q = <<>>
     THEN dev_lock' = x /\ at' = "next" /\ ChGoto(x, "try")
     ELSE ChGoto(x, "check") /\ UNCHANGED <<dev_lock, at>>
  /\ UNCHANGED <<smp, mode, size, got_c, c_done, waiting, ncalls, fifo, touched>>

\* tty_soclib_irq: fetch the characters that are there, while there is room,
\* then serve the queue
tty_irq ==
  /\ touched = {} /\ dev_lock = Nobody
  /\ IF fifo < FifoSize THEN \E n \in fifo + 1 .. FifoSize : fifo' = n ELSE UNCHANGED fifo
  /\ dev_lock' = Irq /\ at' = "next"
  /\ UNCHANGED <<smp, c_pc, mode, size, got_c, c_done, waiting, ncalls, read_q, touched>>

-----------------------------------------------------------------------------
\* MUTANT of callback: done is not set, the caller is only started
MutCallback ==
  /\ c_pc' = [c_pc EXCEPT ![who] = IF waiting[who] THEN "started" ELSE @]
  /\ at' = IF mode[who] = "wait" THEN "done" ELSE "remove"
  /\ UNCHANGED c_done

\* dev_char_wait_request_cb starts the caller if it has stopped; for a caller
\* that spins done is set.  (The lock of the status is free: the caller holds
\* it only in its own one step.)
callback ==
  /\ c_pc' = [c_pc EXCEPT ![who] = IF waiting[who] THEN "started" ELSE @]
  /\ c_done' = IF mode[who] = "wait" THEN c_done ELSE [c_done EXCEPT ![who] = TRUE]
  /\ at' = IF mode[who] = "wait" THEN "done" ELSE "remove"

\* tty_soclib_try_read: characters for the first request, and its callback
try_read ==
  LET n == IF fifo < size[who] THEN fifo ELSE size[who] IN
  /\ Serving /\ at = "next" /\ read_q # <<>> /\ fifo > 0
  /\ fifo' = fifo - n
  /\ size' = [size EXCEPT ![who] = @ - n]
  /\ got_c' = [got_c EXCEPT ![who] = @ + n]
  /\ callback
  /\ UNCHANGED <<smp, mode, waiting, ncalls, read_q, dev_lock, touched>>

\* dev_char_wait_request_cb: done is set after the caller was started
callback_done ==
  /\ Serving /\ at = "done"
  /\ Use(rq)
  /\ c_done' = [c_done EXCEPT ![who] = TRUE]
  /\ at' = "remove"
  /\ UNCHANGED <<smp, c_pc, mode, size, got_c, waiting, ncalls, read_q, fifo, dev_lock>>

\* the callback returned true: the request leaves the queue
try_remove ==
  /\ Serving /\ at = "remove"
  /\ Use(rq)
  /\ read_q' = Tail(read_q)
  /\ at' = "next"
  /\ UNCHANGED <<smp, c_pc, mode, size, got_c, c_done, waiting, ncalls, fifo, dev_lock>>

\* nothing more to serve: the lock is released
try_end ==
  /\ Serving /\ at = "next" /\ (read_q = <<>> \/ fifo = 0)
  /\ dev_lock' = Nobody
  /\ IF dev_lock = Irq THEN UNCHANGED c_pc ELSE ChGoto(dev_lock, "check")
  /\ UNCHANGED <<smp, mode, size, got_c, c_done, waiting, ncalls, read_q, fifo, at, touched>>

Serve == try_read \/ callback_done \/ try_remove \/ try_end

-----------------------------------------------------------------------------
\* MUTANT of stop: done is looked at before the lock of the status is taken
MutStop(x) ==
  /\ ChAt(x, "check") /\ mode[x] = "wait"
  /\ waiting' = [waiting EXCEPT ![x] = TRUE]
  /\ ChGoto(x, "stopped")
  /\ UNCHANGED <<smp, mode, size, got_c, c_done, ncalls, read_q, fifo, dev_lock, at, touched>>

\* dev_char_wait_request, under the lock of the status: stop if not done
stop(x) ==
  /\ ChAt(x, "check") /\ mode[x] = "wait" /\ ~c_done[x]
  /\ at # "done" \/ who # x
  /\ waiting' = [waiting EXCEPT ![x] = TRUE]
  /\ ChGoto(x, "stopped")
  /\ UNCHANGED <<smp, mode, size, got_c, c_done, ncalls, read_q, fifo, dev_lock, at, touched>>

\* done, seen under the lock or by a caller that spins; or started
finish(x) ==
  /\ (ChAt(x, "check") /\ c_done[x]) \/ ChAt(x, "started")
  /\ ChGoto(x, "idle")
  /\ UNCHANGED <<smp, mode, size, got_c, c_done, waiting, ncalls, read_q, fifo, dev_lock, at, touched>>

CallerStep(x) == tty_request(x) \/ stop(x) \/ finish(x)

ChNext == tty_irq \/ Serve \/ \E x \in Caller : read(x) \/ write(x) \/ CallerStep(x)

\* characters keep coming; handlers and callers go on; a caller that wants the
\* device's lock gets it although others take it again and again
ChFair ==
  /\ WF_chVars(tty_irq) /\ WF_chVars(Serve)
  /\ \A x \in Caller : SF_chVars(CallerStep(x))
-----------------------------------------------------------------------------
\* The type invariant.
ChTypeOK ==
  /\ c_pc \in [Caller -> {"idle", "request", "try", "check", "stopped", "started"}]
  /\ mode \in [Caller -> {"wait", "spin"}]
  /\ \A x \in Caller : size[x] \in Nat /\ got_c[x] \in Nat /\ ncalls[x] \in 0..MaxCalls
  /\ read_q \in Seq(Caller \X (1..MaxCalls)) /\ fifo \in 0..FifoSize
  /\ dev_lock \in Caller \cup {Irq, Nobody} /\ at \in {"next", "done", "remove"}

\* No wake-up is lost: a caller stops only while its request is queued and has
\* got nothing, so that the callback is still to come (device_char.c:150).
NoLostWakeUp ==
  \A x \in Caller : c_pc[x] = "stopped" =>
    /\ \E i \in 1..Len(read_q) : read_q[i] = <<x, ncalls[x]>>
    /\ got_c[x] = 0 /\ ~c_done[x]

\* A read returns at least one character: nobody returns before the callback,
\* nor with the request still untouched in the queue.
ReadGotSome ==
  [][\A x \in Caller : c_pc[x] \in {"check", "started"} /\ c_pc'[x] = "idle" => got_c[x] > 0]_chVars

\* Every read returns, if characters keep coming (and no dead request is used).
ReadReturns == \A x \in Caller : c_pc[x] # "idle" ~> c_pc[x] = "idle" \/ touched # {}

\* With one processor the driver never uses a request whose caller has returned.
NoDeadRequest == ~smp => touched = {}

\* What callers, callback and driver keep true: no wake-up is lost, no dead
\* request is used with one processor (device_char.c:93-164).
CharInv == ChTypeOK /\ NoLostWakeUp /\ NoDeadRequest

\* A read returns, with something (device_char.c:145-164).
ReadDone == ReadGotSome /\ ReadReturns
=============================================================================
