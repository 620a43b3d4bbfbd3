----------------------------- MODULE MwmrLocked -----------------------------
(***************************************************************************)
(* MWMR channels under a spin lock, libmwmr/mwmr_soclib.c.  A task takes   *)
(* the lock, makes a copy of the status, transfers what it can in runs     *)
(* that do not go around the end of the buffer, writes the status back and *)
(* releases the lock; mwmr_read and mwmr_write start again until all is    *)
(* transferred, mwmr_try_read and mwmr_try_write return.                   *)
(*                                                                         *)
(* Units are numbered as they are written; the buffer holds their numbers. *)
(***************************************************************************)
EXTENDS Integers, FiniteSets, FiniteSetsExt

CONSTANTS
  LkReader, LkWriter,  \* tasks that read and that write
  LkDepth,             \* fifo->gdepth, in units of fifo->width
  LkLen,               \* units that each task transfers
  NoTask

ASSUME LockedAssumption ==
  /\ LkDepth \in Nat \ {0} /\ LkLen \in Nat
  /\ Cardinality(LkReader) = Cardinality(LkWriter) /\ LkReader \cap LkWriter = {}
  /\ NoTask \notin LkReader \cup LkWriter

VARIABLES
  trying,     \* tasks that call mwmr_try_read or mwmr_try_write
  holder,     \* of fifo->status->lock
  fstatus,    \* *fifo->status: usage, wptr, rptr
  lstatus,    \* the copy of the task that holds the lock, with modified
  slot,       \* fifo->buffer
  lensw,      \* units each task has yet to transfer
  lk_pc,      \* "lock", "copy", "unlock", "wait" of each task
  put_no, got_no,  \* units written and read so far
  out_of_turn \* a reader has copied a unit that is not the next one (history)

lkVars == <<trying, holder, fstatus, lstatus, slot, lensw, lk_pc, put_no, got_no, out_of_turn>>

LkTask == LkReader \cup LkWriter
Status(u, w, r) == [usage |-> u, wptr |-> w, rptr |-> r, modified |-> FALSE]

LkInit ==
  /\ trying \in SUBSET LkTask
  /\ holder = NoTask /\ fstatus = Status(0, 0, 0) /\ lstatus = Status(0, 0, 0)
  /\ slot = [i \in 0..(LkDepth - 1) |-> -1]
  /\ lensw = [x \in LkTask |-> LkLen] /\ lk_pc = [x \in LkTask |-> "lock"]
  /\ put_no = 0 /\ got_no = 0 /\ out_of_turn = FALSE

LkGoto(x, pc) == lk_pc' = [lk_pc EXCEPT ![x] = pc]

\* mwmr_lock, or mwmr_try_lock when it succeeds, and rehash_status
mwmr_lock(x) ==
  /\ lk_pc[x] = "lock" /\ lensw[x] > 0 /\ holder = NoTask
  /\ holder' = x
  /\ lstatus' = fstatus
  /\ LkGoto(x, "copy")
  /\ UNCHANGED <<fstatus, slot, lensw, put_no, got_no, out_of_turn>>

\* the units of the next run
ReadRun(s, n) == Min({n, IF s.rptr < s.wptr THEN s.usage ELSE LkDepth - s.rptr})

\* MUTANT of WriteRun: the whole room, around the end
MutWriteRun(s, n) == Min({n, LkDepth - s.usage})

WriteRun(s, n) == Min({n, IF s.rptr <= s.wptr THEN LkDepth - s.wptr ELSE LkDepth - s.usage})

read_run(x) ==
  LET n == ReadRun(lstatus, lensw[x]) IN
  /\ lk_pc[x] = "copy" /\ x \in LkReader /\ lensw[x] > 0 /\ lstatus.usage >= 1
  /\ out_of_turn' = (out_of_turn \/ \E i \in 0..(n - 1) : slot[lstatus.rptr + i] # got_no + i)
  /\ lstatus' = [lstatus EXCEPT !.rptr = (@ + n) % LkDepth, !.usage = @ - n, !.modified = TRUE]
  /\ lensw' = [lensw EXCEPT ![x] = @ - n]
  /\ got_no' = got_no + n
  /\ UNCHANGED <<holder, fstatus, slot, lk_pc, put_no>>

write_run(x) ==
  LET n == WriteRun(lstatus, lensw[x]) IN
  /\ lk_pc[x] = "copy" /\ x \in LkWriter /\ lensw[x] > 0 /\ lstatus.usage < LkDepth
  /\ slot' = [i \in DOMAIN slot |->
       IF i \in lstatus.wptr..(lstatus.wptr + n - 1) THEN put_no + i - lstatus.wptr ELSE slot[i]]
  /\ lstatus' = [lstatus EXCEPT !.wptr = (@ + n) % LkDepth, !.usage = @ + n, !.modified = TRUE]
  /\ lensw' = [lensw EXCEPT ![x] = @ - n]
  /\ put_no' = put_no + n
  /\ UNCHANGED <<holder, fstatus, lk_pc, got_no, out_of_turn>>

\* MUTANT of writeback_status: not when all is transferred
MutWriteback(x) ==
  /\ lk_pc[x] = "copy"
  /\ lensw[x] = 0 \/ (IF x \in LkReader THEN lstatus.usage < 1 ELSE lstatus.usage >= LkDepth)
  /\ fstatus' = IF lstatus.modified /\ lensw[x] > 0 THEN [lstatus EXCEPT !.modified = FALSE] ELSE fstatus
  /\ LkGoto(x, "unlock")
  /\ UNCHANGED <<holder, lstatus, slot, lensw, put_no, got_no, out_of_turn>>

\* nothing more can be transferred
writeback_status(x) ==
  /\ lk_pc[x] = "copy"
  /\ lensw[x] = 0 \/ (IF x \in LkReader THEN lstatus.usage < 1 ELSE lstatus.usage >= LkDepth)
  /\ fstatus' = IF lstatus.modified THEN [lstatus EXCEPT !.modified = FALSE] ELSE fstatus
  /\ LkGoto(x, "unlock")
  /\ UNCHANGED <<holder, lstatus, slot, lensw, put_no, got_no, out_of_turn>>

\* mwmr_try_read and mwmr_try_write return what they have done
mwmr_unlock(x) ==
  /\ lk_pc[x] = "unlock"
  /\ holder' = NoTask
  /\ lensw' = IF x \in trying THEN [lensw EXCEPT ![x] = 0] ELSE lensw
  /\ LkGoto(x, "wait")
  /\ UNCHANGED <<fstatus, lstatus, slot, put_no, got_no, out_of_turn>>

\* srl_sched_wait_ge_le, srl_sched_wait_le_le: the status is read without lock
wait_usage(x) ==
  /\ lk_pc[x] = "wait" /\ lensw[x] > 0
  /\ IF x \in LkReader THEN fstatus.usage >= 1 ELSE fstatus.usage <= LkDepth - 1
  /\ LkGoto(x, "lock")
  /\ UNCHANGED <<holder, fstatus, lstatus, slot, lensw, put_no, got_no, out_of_turn>>

LkStep(x) ==
  /\ \/ mwmr_lock(x) \/ read_run(x) \/ write_run(x)
     \/ writeback_status(x) \/ mwmr_unlock(x) \/ wait_usage(x)
  /\ UNCHANGED trying

LkNext == \E x \in LkTask : LkStep(x)

LkFair == \A x \in LkTask : WF_lkVars(LkStep(x))
-----------------------------------------------------------------------------
\* The type invariant.
LkTypeOK ==
  /\ holder \in LkTask \cup {NoTask} /\ lensw \in [LkTask -> 0..LkLen]
  /\ fstatus.usage \in 0..LkDepth /\ fstatus.rptr \in 0..(LkDepth - 1) /\ fstatus.wptr \in 0..(LkDepth - 1)

\* Units are read in the order they were written, each once and as written,
\* through the copies of the status and around the end of the buffer
\* (mwmr_soclib.c:183-197, 243-256).
ReadInTurn == ~out_of_turn

\* A task is not left waiting for what is there: when as much is written as is
\* read, all tasks end (mwmr_soclib.c:169, 229).
LkThrough == (trying = {}) => <>(\A x \in LkTask : lensw[x] = 0)

LkChannel == INSTANCE MwmrChannel WITH
  gdepth <- LkDepth,
  put <- IF holder \in LkWriter THEN got_no + fstatus.usage ELSE put_no,
  got <- IF holder \in LkReader THEN put_no - fstatus.usage ELSE got_no

\* The channel keeps what MwmrChannel promises; units count as written or read
\* when the status is written back.
LkImplements == LkChannel!Channel

\* What the tasks keep true between their steps.
LkInv == LkTypeOK /\ ReadInTurn
=============================================================================
