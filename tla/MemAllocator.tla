---------------------------- MODULE MemAllocator ----------------------------
(***************************************************************************)
(* The kernel's memory allocator, mutek/memory_allocator_smart.c (and      *)
(* memory_allocator_experimental.c, the same file), and realloc of         *)
(* libc/alloc.c on top of it.  A region is a list of adjacent blocks, each *)
(* with a header, closed by an end block; the free ones are in a list of   *)
(* their own.  Operations run under the region's lock with interrupts      *)
(* disabled and are one step; realloc is a sequence of them.               *)
(*                                                                         *)
(* Addresses and sizes count units of CONFIG_MUTEK_MEMALLOC_ALIGN bytes,   *)
(* and a header takes one.  MEMALLOC_SPLIT_SIZE, a header and 16 bytes, is *)
(* then more than one unit and at most two.                                *)
(***************************************************************************)
EXTENDS Integers, FiniteSets, Sequences, SequencesExt

CONSTANTS
  RegionSize,  \* units between the first header and the end block
  ExtraSize,   \* units of the memory the region is extended with
  AllocSizes,  \* sizes that are asked for
  MaxMoving    \* bound: reallocs between their two steps

ASSUME MemAssumption ==
  /\ RegionSize \in Nat \ {0, 1} /\ ExtraSize \in Nat \ {0, 1}
  /\ AllocSizes \subseteq Nat /\ MaxMoving \in Nat

VARIABLES
  best_fit,     \* CONFIG_MUTEK_MEMALLOC_ALGO_BESTFIT
  blocks,       \* block_root: [addr, kind], kind "free", "alloc" or "end"
  free_list,    \* free_root: addresses
  free_blocks, alloc_blocks,  \* the region's statistics
  live,         \* what the users have: [addr, size]
  moving        \* old blocks of the reallocs that have yet to free them

maVars == <<best_fit, blocks, free_list, free_blocks, alloc_blocks, live, moving>>

Hdr == 1
SplitSize == Hdr + 1

\* the extension does not touch the region
Extra == RegionSize + 2

memory_allocator_init ==
  /\ best_fit \in BOOLEAN
  /\ blocks = <<[addr |-> 0, kind |-> "free"], [addr |-> RegionSize, kind |-> "end"]>>
  /\ free_list = <<0>> /\ free_blocks = 1 /\ alloc_blocks = 0
  /\ live = {} /\ moving = {}

size_alloc2real(n) == n + Hdr

Block(addr, kind) == [addr |-> addr, kind |-> kind]
IndexOf(a) == CHOOSE i \in DOMAIN blocks : blocks[i].addr = a
header_get_size(i) == blocks[i + 1].addr - blocks[i].addr
IsFree(i) == i \in DOMAIN blocks /\ blocks[i].kind = "free"

\* the free blocks that are large enough, in the order of the list
Large(size) == SelectSeq(free_list, LAMBDA a : header_get_size(IndexOf(a)) >= size)

memory_allocator_candidate(size) ==
  LET large == Large(size)
      length(k) == header_get_size(IndexOf(large[k])) IN
  IF ~best_fit THEN large[1]
  ELSE large[CHOOSE k \in DOMAIN large :
               \A m \in DOMAIN large :
                 length(k) < length(m) \/ (length(k) = length(m) /\ k <= m)]

-----------------------------------------------------------------------------
memory_allocator_extend ==
  /\ ~\E i \in DOMAIN blocks : blocks[i].addr = Extra
  /\ blocks' = blocks \o <<Block(Extra, "free"), Block(Extra + ExtraSize - Hdr, "end")>>
  /\ free_list' = <<Extra>> \o free_list
  /\ free_blocks' = free_blocks + 1
  /\ UNCHANGED <<alloc_blocks, live, moving>>

\* the block at i of list is cut at size; the rest is free
CutAt(list, i, size) == InsertAt(list, i + 1, Block(list[i].addr + size, "free"))

\* memory_allocator_pop, when it does not return NULL
Pop(n) ==
  LET size == size_alloc2real(n)
      a == memory_allocator_candidate(size)
      i == IndexOf(a)
      taken == ReplaceAt(blocks, i, Block(a, "alloc"))
      split == header_get_size(i) >= size + SplitSize IN
  /\ Large(size) # <<>>
  /\ blocks' = IF split THEN CutAt(taken, i, size) ELSE taken
  /\ free_list' = (IF split THEN <<a + size>> ELSE <<>>) \o Remove(free_list, a)
  /\ free_blocks' = IF split THEN free_blocks ELSE free_blocks - 1
  /\ alloc_blocks' = alloc_blocks + 1
  /\ live' = live \cup {[addr |-> a, size |-> n]}

memory_allocator_pop(n) == Pop(n) /\ UNCHANGED moving

\* memory_allocator_push: merged with the next block, then with the one before
Push(a) ==
  LET i == IndexOf(a)
      merge_next == IsFree(i + 1)
      merge_prev == IsFree(i - 1)
      alone == IF merge_next THEN RemoveAt(blocks, i + 1) ELSE blocks
      others == IF merge_next THEN Remove(free_list, blocks[i + 1].addr) ELSE free_list IN
  /\ blocks' = IF merge_prev THEN RemoveAt(alone, i) ELSE ReplaceAt(alone, i, Block(a, "free"))
  /\ free_list' = IF merge_prev THEN others ELSE <<a>> \o others
  /\ free_blocks' = free_blocks + (IF merge_prev THEN 0 ELSE 1) - (IF merge_next THEN 1 ELSE 0)
  /\ alloc_blocks' = alloc_blocks - 1

memory_allocator_push(u) ==
  /\ u \in live
  /\ Push(u.addr)
  /\ live' = live \ {u}
  /\ UNCHANGED moving

\* A resize can be done in place.  diff is compared as an unsigned number with
\* the size of a free block that follows.
Resizable(i, diff) ==
  \/ diff = 0
  \/ IF IsFree(i + 1) THEN diff >= 0 /\ diff <= header_get_size(i + 1) ELSE diff < 0

\* MUTANT of Resize: a block that is taken over stays in the free list
MutResize(a, n) ==
  LET i == IndexOf(a)
      size == size_alloc2real(n)
      diff == size - header_get_size(i)
      grown == RemoveAt(blocks, i + 1)
      split == IF IsFree(i + 1) THEN header_get_size(i + 1) >= diff + SplitSize ELSE -diff >= SplitSize IN
  /\ Resizable(i, diff)
  /\ blocks' = IF diff = 0 THEN blocks
               ELSE IF IsFree(i + 1) THEN IF split THEN CutAt(grown, i, size) ELSE grown
               ELSE IF split THEN CutAt(blocks, i, size) ELSE blocks
  /\ free_list' = (IF split /\ diff # 0 THEN <<a + size>> ELSE <<>>) \o free_list
  /\ free_blocks' = free_blocks
  /\ UNCHANGED alloc_blocks

\* memory_allocator_resize, when it does not return NULL
Resize(a, n) ==
  LET i == IndexOf(a)
      size == size_alloc2real(n)
      diff == size - header_get_size(i)
      next == IsFree(i + 1)
      rest == IF next THEN header_get_size(i + 1) - diff ELSE -diff
      joined == IF next THEN RemoveAt(blocks, i + 1) ELSE blocks
      others == IF next THEN Remove(free_list, blocks[i + 1].addr) ELSE free_list
      split == rest >= SplitSize IN
  /\ Resizable(i, diff)
  /\ IF diff = 0 THEN UNCHANGED <<blocks, free_list, free_blocks>>
     ELSE /\ blocks' = IF split THEN CutAt(joined, i, size) ELSE joined
          /\ free_list' = (IF split THEN <<a + size>> ELSE <<>>) \o others
          /\ free_blocks' = free_blocks + (IF split THEN 1 ELSE 0) - (IF next THEN 1 ELSE 0)
  /\ UNCHANGED alloc_blocks

\* realloc: in place ...
realloc_resize(u, n) ==
  /\ u \in live /\ n # 0
  /\ Resize(u.addr, n)
  /\ live' = (live \ {u}) \cup {[u EXCEPT !.size = n]}
  /\ UNCHANGED moving

\* ... or a new block is allocated, nothing is copied to it ...
realloc_move(u, n) ==
  LET i == IndexOf(u.addr) IN
  /\ u \in live /\ n # 0 /\ Cardinality(moving) < MaxMoving
  /\ ~Resizable(i, size_alloc2real(n) - header_get_size(i))
  /\ Pop(n)
  /\ moving' = moving \cup {u}

\* ... and the old one is freed
realloc_free(u) ==
  /\ u \in moving
  /\ Push(u.addr)
  /\ live' = live \ {u} /\ moving' = moving \ {u}

MaNext ==
  /\ \/ memory_allocator_extend
     \/ \E n \in AllocSizes : memory_allocator_pop(n)
     \/ \E u \in live \ moving :
          memory_allocator_push(u) \/ \E n \in AllocSizes : realloc_resize(u, n) \/ realloc_move(u, n)
     \/ \E u \in moving : realloc_free(u)
  /\ UNCHANGED best_fit
-----------------------------------------------------------------------------
\* The type invariant: each memory of the region is tiled by its blocks.
MaTypeOK ==
  /\ \A i \in 1..(Len(blocks) - 1) : blocks[i].addr < blocks[i + 1].addr
  /\ {b \in ToSet(blocks) : b.kind = "end"} \subseteq
       {Block(RegionSize, "end"), Block(Extra + ExtraSize - Hdr, "end")}
  /\ free_list \in Seq(Nat) /\ moving \subseteq live

\* No user's memory overlaps a header or another user's memory, and none is
\* forgotten: the allocated blocks are those of the users, and each is large
\* enough for its header and what was asked for, whatever was split, merged
\* and resized in between (memory_allocator_smart.c:592, 685, 753).
LiveFits ==
  LET allocated == {i \in DOMAIN blocks : blocks[i].kind = "alloc"} IN
  /\ \A i \in allocated : \E u \in live :
       u.addr = blocks[i].addr /\ header_get_size(i) >= u.size + Hdr
  /\ Cardinality(live) = Cardinality(allocated)

\* Blocks that are free are found: the free list holds each of them once, and
\* nothing else (memory_allocator_smart.c:587, 681, 748).
FreeListed ==
  /\ ToSet(free_list) = {blocks[i].addr : i \in {j \in DOMAIN blocks : IsFree(j)}}
  /\ Len(free_list) = Cardinality(ToSet(free_list))

\* Free memory does not fragment by itself: no two adjacent blocks are free, so
\* that a region whose users have freed everything is one block again
\* (memory_allocator_smart.c:746-757).
Coalesced == \A i \in DOMAIN blocks : ~(IsFree(i) /\ IsFree(i + 1))

\* What memory_allocator_stats tells of the blocks is so, however they were split
\* and merged (memory_allocator_smart.c:419, 607, 699, 750).
StatsTell ==
  /\ free_blocks = Len(free_list)
  /\ alloc_blocks = Cardinality(live)

\* What pop, push, resize and extend keep true: blocks are large enough and do
\* not overlap, free ones are listed and merged, the counters are right
\* (memory_allocator_smart.c:441-774).
BlocksInv == MaTypeOK /\ LiveFits /\ FreeListed /\ Coalesced /\ StatsTell
=============================================================================
