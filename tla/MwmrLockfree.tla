---------------------------- MODULE MwmrLockfree ----------------------------
(***************************************************************************)
(* MWMR channels without locks, libmwmr/mwmr_soclib_lockfree.c.  A task    *)
(* gets room on one side of the buffer, the place of it, copies, waits for *)
(* its turn to move the head of the other side, and then adds the room     *)
(* there.  Readers go from "data" to "free", writers the other way, in the *)
(* same steps.  A loop around a compare and swap is one step, the one that *)
(* succeeds.                                                               *)
(*                                                                         *)
(* Units are numbered as they are written; the buffer holds their numbers. *)
(* Tails count units and do not wrap, heads are indices as in the code.    *)
(***************************************************************************)
EXTENDS Integers, FiniteSets, FiniteSetsExt

CONSTANTS
  Reader, Writer,
  LfDepth,  \* fifo->gdepth, in units
  LfLen     \* units that each task transfers

ASSUME LockfreeAssumption ==
  /\ LfDepth \in Nat \ {0} /\ LfLen \in Nat
  /\ IsFiniteSet(Reader) /\ IsFiniteSet(Writer)
  /\ Cardinality(Reader) = Cardinality(Writer) /\ Reader \cap Writer = {}

VARIABLES
  size,     \* data_size and free_size
  tail,     \* data_tail and free_tail, before they wrap
  head,     \* data_head and free_head
  buffer,
  lf_pc,    \* "size", "tail", "copy", "head", "done" of each task
  todo,     \* units it has yet to transfer
  xfer,     \* xfer_size
  place,    \* rptr or wptr, before it wraps
  wrong     \* a reader has copied a unit that is not the one in turn (history)

lfVars == <<size, tail, head, buffer, lf_pc, todo, xfer, place, wrong>>

Task == Reader \cup Writer
From(x) == IF x \in Reader THEN "data" ELSE "free"
To(x) == IF x \in Reader THEN "free" ELSE "data"

LfInit ==
  /\ size = [data |-> 0, free |-> LfDepth]
  /\ tail = [data |-> 0, free |-> 0] /\ head = [data |-> 0, free |-> 0]
  /\ buffer = [i \in 0..(LfDepth - 1) |-> -1]
  /\ lf_pc = [x \in Task |-> "size"] /\ todo = [x \in Task |-> LfLen]
  /\ xfer = [x \in Task |-> 0] /\ place = [x \in Task |-> 0]
  /\ wrong = FALSE

LfAt(x, pc) == lf_pc[x] = pc
LfGoto(x, pc) == lf_pc' = [lf_pc EXCEPT ![x] = pc]

\* take room, as much as there is; nothing changes when there is none
cpu_atomic_sub_minz(x) ==
  LET n == Min({todo[x], LfDepth, size[From(x)]}) IN
  /\ LfAt(x, "size") /\ n > 0
  /\ size' = [size EXCEPT ![From(x)] = @ - n]
  /\ xfer' = [xfer EXCEPT ![x] = n]
  /\ LfGoto(x, "tail")
  /\ UNCHANGED <<tail, head, buffer, todo, place, wrong>>

\* get the place of it
cpu_atomic_add_wrap(x) ==
  /\ LfAt(x, "tail")
  /\ place' = [place EXCEPT ![x] = tail[From(x)]]
  /\ tail' = [tail EXCEPT ![From(x)] = @ + xfer[x]]
  /\ LfGoto(x, "copy")
  /\ UNCHANGED <<size, head, buffer, todo, xfer, wrong>>

Units(x) == place[x]..(place[x] + xfer[x] - 1)

\* copy, in two pieces when the units go around the end of the buffer
copy(x) ==
  /\ LfAt(x, "copy")
  /\ IF x \in Reader
     THEN /\ wrong' = (wrong \/ \E u \in Units(x) : buffer[u % LfDepth] # u)
          /\ UNCHANGED buffer
     ELSE /\ buffer' = [i \in DOMAIN buffer |->
            IF \E u \in Units(x) : u % LfDepth = i THEN CHOOSE u \in Units(x) : u % LfDepth = i ELSE buffer[i]]
          /\ UNCHANGED wrong
  /\ LfGoto(x, "head")
  /\ UNCHANGED <<size, tail, head, todo, xfer, place>>

\* MUTANT of cpu_atomic_wait_and_swap: does not wait for its turn
MutSwap(x) ==
  /\ LfAt(x, "head")
  /\ head' = [head EXCEPT ![To(x)] = (place[x] + xfer[x]) % LfDepth]
  /\ LfGoto(x, "add")
  /\ UNCHANGED <<size, tail, buffer, todo, xfer, place, wrong>>

\* MUTANT of cpu_atomic_wait_and_swap: the value waited for does not wrap
MutSwapWrap(x) ==
  /\ LfAt(x, "head") /\ head[To(x)] = place[x]
  /\ head' = [head EXCEPT ![To(x)] = (place[x] + xfer[x]) % LfDepth]
  /\ LfGoto(x, "add")
  /\ UNCHANGED <<size, tail, buffer, todo, xfer, place, wrong>>

\* wait until those before have moved the head up to here, and move it
cpu_atomic_wait_and_swap(x) ==
  /\ LfAt(x, "head") /\ head[To(x)] = place[x] % LfDepth
  /\ head' = [head EXCEPT ![To(x)] = (place[x] + xfer[x]) % LfDepth]
  /\ LfGoto(x, "add")
  /\ UNCHANGED <<size, tail, buffer, todo, xfer, place, wrong>>

\* add the room; mwmr_read and mwmr_write go on until all is transferred
cpu_atomic_add(x) ==
  /\ LfAt(x, "add")
  /\ size' = [size EXCEPT ![To(x)] = @ + xfer[x]]
  /\ todo' = [todo EXCEPT ![x] = @ - xfer[x]]
  /\ xfer' = [xfer EXCEPT ![x] = 0] /\ place' = [place EXCEPT ![x] = 0]
  /\ LfGoto(x, "size")
  /\ UNCHANGED <<tail, head, buffer, wrong>>

Transfer(x) ==
  \/ cpu_atomic_sub_minz(x) \/ cpu_atomic_add_wrap(x) \/ copy(x)
  \/ cpu_atomic_wait_and_swap(x) \/ cpu_atomic_add(x)

LfNext == \E x \in Task : Transfer(x)

\* a task that waits yields the processor and tries again
LfFair == \A x \in Task : WF_lfVars(Transfer(x))
-----------------------------------------------------------------------------
\* The type invariant.
LfTypeOK ==
  /\ size.data \in 0..LfDepth /\ size.free \in 0..LfDepth
  /\ head.data \in 0..(LfDepth - 1) /\ head.free \in 0..(LfDepth - 1)
  /\ todo \in [Task -> 0..LfLen] /\ xfer \in [Task -> 0..LfDepth]

\* Readers get the units in the order of their places, those that were written
\* there: no unit is read before it is written, or overwritten before it is
\* read, however tasks overtake each other between their steps
\* (mwmr_soclib_lockfree.c:173, 221).
UnitsInTurn == ~wrong

\* Everything gets through: no task waits for ever for room or for its turn
\* (mwmr_soclib_lockfree.c:124, 237).
EverythingThrough == <>(\A x \in Task : todo[x] = 0)

\* what has been written, by writer: all but its last todo units
Written == {p \in Writer \X (1..LfLen) : p[2] > todo[p[1]]}

LfPut == Cardinality(Written)
LfGot == LfPut - size.data

LfChannel == INSTANCE MwmrChannel WITH gdepth <- LfDepth, put <- LfPut, got <- LfGot

\* The channel keeps what MwmrChannel promises; a unit counts as written when
\* data_size says so, as read when it is taken off data_size.
LfImplements == LfChannel!Channel

\* What the tasks keep true between their steps.
LfInv == LfTypeOK /\ UnitsInTurn
=============================================================================
