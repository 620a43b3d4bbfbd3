---------------------------- MODULE BlockRequest ----------------------------
(***************************************************************************)
(* Synchronous requests to a block device: drivers/block/device_block.c on *)
(* top of drivers/block/soclib/block-soclib.c.  The device transfers one   *)
(* block at a time for the request at the head of the driver's queue and   *)
(* then raises an interrupt; the handler calls the request's callback      *)
(* after each block.  The request is on the stack of the caller.           *)
(*                                                                         *)
(* caller: "idle", "request", "check" (looks at done), "stopped",          *)
(*   "started" (by the callback)                                           *)
(* handler (b_at): "wait", "done" (callback has started the caller), "end" *)
(*   (callback has returned)                                               *)
(***************************************************************************)
EXTENDS Machine, Integers, Sequences, Functions

CONSTANTS
  BCaller,
  Counts,     \* sizes of requests, in blocks
  BlkCount,   \* params.blk_count
  BMaxCalls   \* bound: requests made by each caller

ASSUME BlockAssumption == Counts \subseteq Nat \ {0} /\ BlkCount \in Nat /\ BMaxCalls \in Nat

VARIABLES
  b_pc,      \* of each caller
  b_mode,    \* of its request: "wait" or "spin"
  lba, bcount, progress,  \* fields of the request
  b_done,    \* status.done
  b_ctx,     \* whether status.ctx is set
  b_calls,   \* how many requests the caller has made
  queue,     \* the driver's queue: caller and number of its request
  op,        \* device: the caller and the lba of the block being transferred, or <<>>
  b_at,      \* where the interrupt handler is
  b_err,     \* whether it handles an error
  b_touched  \* requests used by the driver after their caller has returned

bkOnly == <<b_pc, b_mode, lba, bcount, progress, b_done, b_ctx, b_calls, queue, op, b_at, b_err, b_touched>>
bkVars == <<smp, bkOnly>>

BInit ==
  /\ smp \in BOOLEAN
  /\ b_pc = [x \in BCaller |-> "idle"] /\ b_mode = [x \in BCaller |-> "wait"]
  /\ lba = [x \in BCaller |-> 0] /\ bcount = [x \in BCaller |-> 0]
  /\ progress = [x \in BCaller |-> 0]
  /\ b_done = [x \in BCaller |-> FALSE] /\ b_ctx = [x \in BCaller |-> FALSE]
  /\ b_calls = [x \in BCaller |-> 0]
  /\ queue = <<>> /\ op = <<>> /\ b_at = "wait" /\ b_err = FALSE /\ b_touched = {}

\* with one processor the handler runs to its end.  A behaviour is followed up
\* to the first use of a dead request: its memory holds anything by then.
BAt(x, pc) == b_touched = {} /\ b_pc[x] = pc /\ (smp \/ b_at = "wait")
BIrqAt(pc) == b_touched = {} /\ b_at = pc
BGoto(x, pc) == b_pc' = [b_pc EXCEPT ![x] = pc]

\* the request at the head of the queue is the one of this caller
bwho == Head(queue)[1]

BAlive(r) == b_pc[r[1]] # "idle" /\ b_calls[r[1]] = r[2]
BUse(r) == b_touched' = IF BAlive(r) THEN b_touched ELSE b_touched \cup {r}

\* block_soclib_op_start
op_start(x) == op' = <<x, lba[x] + progress'[x]>>

-----------------------------------------------------------------------------
\* dev_block_{wait,spin}_{read,write}: set up the request
block_access(x) ==
  /\ BAt(x, "idle") /\ b_calls[x] < BMaxCalls
  /\ \E m \in {"wait", "spin"}, a \in 0..BlkCount, n \in Counts :
       /\ b_mode' = [b_mode EXCEPT ![x] = m]
       /\ lba' = [lba EXCEPT ![x] = a] /\ bcount' = [bcount EXCEPT ![x] = n]
  /\ progress' = [progress EXCEPT ![x] = 0]
  /\ b_done' = [b_done EXCEPT ![x] = FALSE] /\ b_ctx' = [b_ctx EXCEPT ![x] = FALSE]
  /\ b_calls' = [b_calls EXCEPT ![x] = @ + 1]
  /\ BGoto(x, "request")
  /\ UNCHANGED <<smp, queue, op, b_at, b_err, b_touched>>

\* block_soclib_request: queue the request, start it if the device is idle;
\* past the end of the device: -ERANGE, the callback is called at once
block_request(x) ==
  /\ BAt(x, "request") /\ b_at = "wait"
  /\ IF lba[x] + bcount[x] <= BlkCount
     THEN /\ queue' = Append(queue, <<x, b_calls[x]>>)
          /\ UNCHANGED <<progress, b_done>>
          /\ IF queue = <<>> THEN op_start(x) ELSE UNCHANGED op
     ELSE /\ progress' = [progress EXCEPT ![x] = -1] /\ b_done' = [b_done EXCEPT ![x] = TRUE]
          /\ UNCHANGED <<queue, op>>
  /\ BGoto(x, "check")
  /\ UNCHANGED <<smp, b_mode, lba, bcount, b_ctx, b_calls, b_at, b_err, b_touched>>

-----------------------------------------------------------------------------
\* MUTANT of block_callback: done is not set for a caller that spins
MutBlockCallback(x) ==
  IF progress'[x] < 0 \/ progress'[x] >= bcount[x]
  THEN IF b_mode[x] = "wait"
       THEN /\ b_pc' = [b_pc EXCEPT ![x] = IF b_ctx[x] THEN "started" ELSE @]
            /\ b_at' = "done" /\ UNCHANGED b_done
       ELSE b_at' = "end" /\ UNCHANGED <<b_pc, b_done>>
  ELSE b_at' = "end" /\ UNCHANGED <<b_pc, b_done>>

\* the callbacks dev_block_sync_request and dev_block_syncl_request
block_callback(x) ==
  IF progress'[x] < 0 \/ progress'[x] >= bcount[x]
  THEN IF b_mode[x] = "wait"
       THEN /\ b_pc' = [b_pc EXCEPT ![x] = IF b_ctx[x] THEN "started" ELSE @]
            /\ b_at' = "done" /\ UNCHANGED b_done
       ELSE b_done' = [b_done EXCEPT ![x] = TRUE] /\ b_at' = "end" /\ UNCHANGED b_pc
  ELSE b_at' = "end" /\ UNCHANGED <<b_pc, b_done>>

\* block_soclib_irq, up to the callback: a block was transferred, or failed
block_irq ==
  /\ BIrqAt("wait") /\ op # <<>>
  /\ \E err \in BOOLEAN :
       /\ b_err' = err
       /\ progress' = [progress EXCEPT ![bwho] = IF err THEN -1 ELSE @ + 1]
  /\ op' = <<>>
  /\ block_callback(bwho)
  /\ UNCHANGED <<smp, b_mode, lba, bcount, b_ctx, b_calls, queue, b_touched>>

\* dev_block_sync_request: done is set after the caller was started
block_done ==
  /\ BIrqAt("done")
  /\ BUse(Head(queue))
  /\ b_done' = [b_done EXCEPT ![bwho] = TRUE]
  /\ b_at' = "end"
  /\ UNCHANGED <<smp, b_pc, b_mode, lba, bcount, progress, b_ctx, b_calls, queue, op, b_err>>

\* block_soclib_rq_end: drop the request, start the next one
rq_end ==
  /\ queue' = Tail(queue)
  /\ IF Tail(queue) # <<>> THEN op_start(Head(Tail(queue))[1]) ELSE op' = <<>>

\* block_soclib_irq, after the callback: the next block or the next request.
\* (The queue links the requests themselves.)
block_end ==
  /\ BIrqAt("end")
  /\ BUse(Head(queue))
  /\ UNCHANGED progress
  /\ IF b_err \/ bcount[bwho] >= progress[bwho]
     THEN rq_end
     ELSE op_start(bwho) /\ UNCHANGED queue
  /\ b_at' = "wait"
  /\ UNCHANGED <<smp, b_pc, b_mode, lba, bcount, b_done, b_ctx, b_calls, b_err>>

-----------------------------------------------------------------------------
\* MUTANT of block_stop: stops without looking at done
MutBlockStop(x) ==
  /\ BAt(x, "check") /\ b_mode[x] = "wait"
  /\ b_ctx' = [b_ctx EXCEPT ![x] = TRUE]
  /\ BGoto(x, "stopped")
  /\ UNCHANGED <<smp, b_mode, lba, bcount, progress, b_done, b_calls, queue, op, b_at, b_err, b_touched>>

\* dev_block_wait_request, under the lock of the status: stop if not done
block_stop(x) ==
  /\ BAt(x, "check") /\ b_mode[x] = "wait" /\ ~b_done[x]
  /\ b_at # "done" \/ bwho # x
  /\ b_ctx' = [b_ctx EXCEPT ![x] = TRUE]
  /\ BGoto(x, "stopped")
  /\ UNCHANGED <<smp, b_mode, lba, bcount, progress, b_done, b_calls, queue, op, b_at, b_err, b_touched>>

\* done, seen under the lock or by a caller that spins; or started
block_return(x) ==
  /\ (BAt(x, "check") /\ b_done[x]) \/ BAt(x, "started")
  /\ BGoto(x, "idle")
  /\ UNCHANGED <<smp, b_mode, lba, bcount, progress, b_done, b_ctx, b_calls, queue, op, b_at, b_err, b_touched>>

BServe == block_irq \/ block_done \/ block_end
BStep(x) == block_request(x) \/ block_stop(x) \/ block_return(x)

BNext == BServe \/ \E x \in BCaller : block_access(x) \/ BStep(x)

\* the device finishes its transfers; handlers and callers go on
BFair == WF_bkVars(BServe) /\ \A x \in BCaller : SF_bkVars(BStep(x))
-----------------------------------------------------------------------------
\* The type invariant.
BTypeOK ==
  /\ b_pc \in [BCaller -> {"idle", "request", "check", "stopped", "started"}]
  /\ \A x \in BCaller : progress[x] \in -1..bcount[x] /\ b_calls[x] \in 0..BMaxCalls
  /\ queue \in Seq(BCaller \X (1..BMaxCalls)) /\ b_at \in {"wait", "done", "end"}

\* The device only ever works on a block of the request at the head of the
\* queue, inside the range of the device, and it works whenever a request is
\* queued and the handler is not running (block-soclib.c:73, "start next in
\* queue if any").
HeadInTransfer ==
  /\ b_at = "wait" => (op # <<>>) = (queue # <<>>)
  /\ op # <<>> => op[1] = bwho /\ op[2] < BlkCount

\* No wake-up is lost: a caller stops only while the callback that starts it is
\* still to come (device_block.c:119).
BNoLostWakeUp ==
  \A x \in BCaller : b_pc[x] = "stopped" =>
    <<x, b_calls[x]>> \in Range(queue) /\ ~b_done[x]

\* A caller returns when all its blocks were transferred, or with an error.
AllTransferred ==
  [][\A x \in BCaller : b_pc[x] \in {"check", "started"} /\ b_pc'[x] = "idle"
       => progress[x] < 0 \/ progress[x] = bcount[x]]_bkVars

\* Every request returns (if no dead request is used).
BlockReturns == \A x \in BCaller : b_pc[x] # "idle" ~> b_pc[x] = "idle" \/ b_touched # {}

\* A request stays in the queue till its end: the callback "is called for each
\* group of blocks [...] may be called several times", rq->progress tells when
\* the operation ends (block.h:50).
QueuedTillEnd ==
  \A x \in BCaller :
    b_pc[x] \in {"check", "stopped"} /\ progress[x] \in 0 .. bcount[x] - 1
      => <<x, b_calls[x]>> \in Range(queue)

\* With one processor the driver never uses a request whose caller has returned.
BNoDeadRequest == ~smp => b_touched = {}

\* What callers, callback and driver keep true: the head of the queue is in
\* transfer, no wake-up is lost, no dead request is used with one processor
\* (device_block.c:81-132, block-soclib.c:61-199).
BlockInv == BTypeOK /\ HeadInTransfer /\ BNoLostWakeUp /\ BNoDeadRequest

\* An access returns, with all its blocks or an error (device_block.c:115-132).
BlockDone == AllTransferred /\ BlockReturns
=============================================================================
