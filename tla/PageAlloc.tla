----------------------------- MODULE PageAlloc -----------------------------
(***************************************************************************)
(* The physical page allocator, mutek/page_alloc.c.  An entry of the table *)
(* has a flag and a value: the next free page for a free page, the number  *)
(* of references for another one.  Operations run under the lock of the    *)
(* region with interrupts disabled and are one step, but for the test of   *)
(* free_count that ppage_contiguous_alloc does before it takes the lock.   *)
(*                                                                         *)
(* refs counts the references that were handed out.                        *)
(***************************************************************************)
EXTENDS Naturals, FiniteSets, Functions

CONSTANTS
  PageCount,  \* r->count
  MaxRefs     \* bound: references to a page

ASSUME PageAssumption == PageCount \in Nat \ {0} /\ MaxRefs \in Nat \ {0}

VARIABLES
  table,       \* r->table: [free, val]
  free_head,
  free_count,
  refs,
  want,        \* size asked of a ppage_contiguous_alloc that is past the test
  pg_lock,     \* "free", or "leaked" when a call returned without releasing it
  overrun      \* the table was read past its end

pgVars == <<table, free_head, free_count, refs, want, pg_lock, overrun>>

Page == 0..(PageCount - 1)

ppage_region_init ==
  /\ table = [p \in Page |-> [free |-> TRUE, val |-> (p + 1) % PageCount]]
  /\ free_head = 0 /\ free_count = PageCount
  /\ refs = [p \in Page |-> 0]
  /\ want = 0 /\ pg_lock = "free" /\ overrun = FALSE

\* the free_count pages that are linked from free_head
IsFreeList(L) ==
  /\ free_count > 0 => L[1] = free_head
  /\ \A n \in 1..(free_count - 1) : L[n + 1] = table[L[n]].val
FreeList == CHOOSE L \in [1..free_count -> Page] : IsFreeList(L)

-----------------------------------------------------------------------------
ppage_alloc ==
  /\ pg_lock = "free" /\ free_count > 0
  /\ free_head' = table[free_head].val
  /\ table' = [table EXCEPT ![free_head] = [free |-> FALSE, val |-> 1]]
  /\ free_count' = free_count - 1
  /\ refs' = [refs EXCEPT ![free_head] = 1]
  /\ UNCHANGED <<want, pg_lock, overrun>>

\* the last of the pages of S that follow position k of the list L
RunEnd(L, S, k) ==
  CHOOSE j \in (k + 1)..free_count :
    /\ \A m \in (k + 1)..j : L[m] \in S
    /\ j = free_count \/ L[j + 1] \notin S

\* The loop that removes the pages of S from the free list: what precedes a run
\* of them, free_head or an entry, gets the link that ends the run.  The entry
\* is written without its flag.
Unlink(S) ==
  LET L == FreeList
      link(k) == table[L[RunEnd(L, S, k)]].val
      before(p) == {k \in 1..(free_count - 1) : L[k] = p /\ L[k + 1] \in S} IN
  /\ table' = [p \in Page |->
       IF p \in S THEN [free |-> FALSE, val |-> 1]
       ELSE IF before(p) = {} THEN table[p]
       ELSE [free |-> FALSE, val |-> link(CHOOSE k \in before(p) : TRUE)]]
  /\ free_head' = IF L[1] \in S THEN link(0) ELSE free_head
  /\ free_count' = free_count - Cardinality(S)
  /\ refs' = [p \in Page |-> IF p \in S THEN 1 ELSE refs[p]]

\* ppage_contiguous_alloc, before it takes the lock
contiguous_test(size) ==
  /\ want = 0 /\ size <= free_count
  /\ want' = size
  /\ UNCHANGED <<table, free_head, free_count, refs, pg_lock, overrun>>

Run(first) == first..(first + want - 1)
Fits == {first \in 0..(PageCount - want) : \A p \in Run(first) : table[p].free}

\* the first run of pages that are marked
contiguous_alloc ==
  /\ want # 0 /\ pg_lock = "free" /\ Fits # {}
  /\ Unlink(Run(CHOOSE f \in Fits : \A g \in Fits : f <= g))
  /\ want' = 0
  /\ UNCHANGED <<pg_lock, overrun>>

\* No run is left.  The test on "no more place" comes when a page is met that is
\* not marked, and lets the search start again one page too far: either all of
\* the last pages are marked, and it goes past the table, or it returns -ENOMEM.
contiguous_fail ==
  /\ want # 0 /\ pg_lock = "free" /\ Fits = {}
  /\ IF \A p \in (PageCount - want + 1)..(PageCount - 1) : table[p].free
     THEN overrun' = TRUE /\ UNCHANGED pg_lock
     ELSE pg_lock' = "leaked" /\ UNCHANGED overrun
  /\ want' = 0
  /\ UNCHANGED <<table, free_head, free_count, refs>>

ppage_reserve(first, last) ==
  /\ pg_lock = "free" /\ \A p \in first..last : table[p].free
  /\ Unlink(first..last)
  /\ UNCHANGED <<want, pg_lock, overrun>>

ppage_refnew(p) ==
  /\ pg_lock = "free" /\ refs[p] \in 1..(MaxRefs - 1)
  /\ table' = [table EXCEPT ![p].val = @ + 1]
  /\ refs' = [refs EXCEPT ![p] = @ + 1]
  /\ UNCHANGED <<free_head, free_count, want, pg_lock, overrun>>

\* MUTANT of ppage_refdrop: freed with a reference left
MutRefdrop(p) ==
  /\ pg_lock = "free" /\ refs[p] > 0
  /\ refs' = [refs EXCEPT ![p] = @ - 1]
  /\ IF table[p].val <= 2
     THEN /\ table' = [table EXCEPT ![p] = [free |-> TRUE, val |-> free_head]]
          /\ free_head' = p /\ free_count' = free_count + 1
     ELSE table' = [table EXCEPT ![p].val = @ - 1] /\ UNCHANGED <<free_head, free_count>>
  /\ UNCHANGED <<want, pg_lock, overrun>>

ppage_refdrop(p) ==
  /\ pg_lock = "free" /\ refs[p] > 0
  /\ refs' = [refs EXCEPT ![p] = @ - 1]
  /\ IF table[p].val = 1
     THEN /\ table' = [table EXCEPT ![p] = [free |-> TRUE, val |-> free_head]]
          /\ free_head' = p /\ free_count' = free_count + 1
     ELSE table' = [table EXCEPT ![p].val = @ - 1] /\ UNCHANGED <<free_head, free_count>>
  /\ UNCHANGED <<want, pg_lock, overrun>>

\* behaviours end where the table is read past its end
PgNext ==
  /\ ~overrun
  /\ \/ ppage_alloc \/ contiguous_alloc \/ contiguous_fail
     \/ \E n \in 2..PageCount : contiguous_test(n)
     \/ \E p \in Page : ppage_refnew(p) \/ ppage_refdrop(p) \/ \E q \in p..(PageCount - 1) : ppage_reserve(p, q)
-----------------------------------------------------------------------------
\* The type invariant.
PgTypeOK ==
  /\ free_head \in Page /\ free_count \in 0..PageCount
  /\ refs \in [Page -> 0..MaxRefs] /\ want \in 0..PageCount
  /\ pg_lock \in {"free", "leaked"} /\ overrun \in BOOLEAN

\* No page is lost or handed out twice, however single pages, runs and ranges
\* are taken and references dropped: the list holds every page without
\* references exactly once, and the table counts the references of the others
\* (page_alloc.c:87, 125, 252).
FreeListSound ==
  /\ free_count = Cardinality({p \in Page : refs[p] = 0})
  /\ Range(FreeList) = {p \in Page : refs[p] = 0}
  /\ \A p \in Page : refs[p] > 0 => table[p] = [free |-> FALSE, val |-> refs[p]]

\* What the operations on pages keep true (page_alloc.c:76-259).
PageInv == PgTypeOK /\ FreeListSound
=============================================================================
