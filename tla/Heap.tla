-------------------------------- MODULE Heap --------------------------------
(***************************************************************************)
(* The kernel heap: mm/heap.c on the TLSF allocator of mm/tlsf.c.          *)
(*                                                                         *)
(* A heap is a record.  Its blocks are the addresses in DOMAIN size; the   *)
(* two flag bits of a size word are membership in free and prevfree; prev  *)
(* holds the prev_phys_block words that are valid (a word is at the end of *)
(* the previous block, so it is lost when that block is used); blocks, fl  *)
(* and sl are the control structure, a free list being a sequence of       *)
(* addresses; ok says that every tlsf_assert() met so far held.  There is  *)
(* one operator per function of tlsf.c, from heaps to heaps, and one       *)
(* action per call.  Each call is one step: the heap has no lock, and its  *)
(* callers all run on the boot processor.                                  *)
(*                                                                         *)
(* Sizes are in bytes.  The constants of the code are SlLog2 = 5 and       *)
(* FlIndexMax = 32; smaller ones put class boundaries within small pools.  *)
(***************************************************************************)
EXTENDS Integers, Sequences, FiniteSets

CONSTANTS
  SlLog2,          \* SL_INDEX_COUNT_LOG2
  FlIndexMax,      \* FL_INDEX_MAX
  FirstPool,       \* [mem, bytes]: what heap_init() hands to tlsf_add_pool()
  MorePools,       \* further pools that may come and go
  Requests,        \* numbers of bytes asked for
  ReallocRequests, \* numbers of bytes asked of krealloc()
  Aligns           \* alignments asked of tlsf_memalign()

\* 1 << k.
Pow2[k \in 0 .. FlIndexMax + 1] == IF k = 0 THEN 1 ELSE 2 * Pow2[k - 1]

AlignLog2 == 3
AlignSize == Pow2[AlignLog2]
SlCount   == Pow2[SlLog2]
FlShift   == SlLog2 + AlignLog2
FlCount   == FlIndexMax - FlShift + 1
SmallBlockSize == Pow2[FlShift]

Overhead     == 8        \* block_header_overhead: the size word
HeaderSize   == 32       \* sizeof(block_header_t)
BlockSizeMin == 24
BlockSizeMax == Pow2[FlIndexMax]

Pools == {FirstPool} \cup MorePools

\* Pools are memory of their own; align_up() takes powers of two.
ASSUME HeapAssumption ==
  /\ SlLog2 \in Nat /\ FlIndexMax \in Nat /\ FlIndexMax > FlShift
  /\ \A q \in Pools : /\ q = [mem |-> q.mem, bytes |-> q.bytes]
                      /\ q.mem \in Nat /\ q.bytes \in Nat /\ q.mem >= Overhead
  /\ \A q, r \in Pools :
       q # r => q.mem + q.bytes <= r.mem \/ r.mem + r.bytes <= q.mem
  /\ Requests \subseteq Nat /\ ReallocRequests \subseteq Nat \ {0}
  /\ Aligns \subseteq {Pow2[k] : k \in 0 .. FlIndexMax}

Classes == (0 .. FlCount - 1) \X (0 .. SlCount - 1)

----------------------------------------------------------------------------
(* Block headers.                                                          *)

ToPtr(b)   == b + 16
FromPtr(p) == p - 16

Insist(h, cond) == [h EXCEPT !.ok = @ /\ cond]

BlockNext(h, b) == b + h.size[b] + Overhead

SetSize(h, b, n) ==
  [h EXCEPT !.size = [c \in DOMAIN @ \cup {b} |-> IF c = b THEN n ELSE @[c]]]

\* block_link_next(): the next block's prev_phys_block word.
LinkNext(h, b) ==
  LET n == BlockNext(h, b)
  IN  [Insist(h, h.size[b] # 0) EXCEPT !.prev =
         [c \in DOMAIN @ \cup {n} |-> IF c = n THEN b ELSE @[c]]]

MarkAsFree(h, b) ==
  [LinkNext(h, b) EXCEPT !.prevfree = @ \cup {BlockNext(h, b)},
                         !.free = @ \cup {b}]

\* From here the user may write over the next block's prev_phys_block.
MarkAsUsed(h, b) ==
  LET n == BlockNext(h, b)
  IN  [Insist(h, h.size[b] # 0) EXCEPT
         !.prevfree = @ \ {n}, !.free = @ \ {b},
         !.prev = [c \in DOMAIN @ \ {n} |-> @[c]]]

AlignUp(x, a)   == ((x + a - 1) \div a) * a
AlignDown(x, a) == x - (x % a)

\* Requests are far below 2^64, where align_up() would wrap.
AdjustRequestSize(n, a) ==
  LET aligned == AlignUp(n, a)
  IN  IF n = 0 \/ aligned >= BlockSizeMax THEN 0
      ELSE IF aligned < BlockSizeMin THEN BlockSizeMin ELSE aligned

----------------------------------------------------------------------------
(* Size classes.                                                           *)

\* tlsf_fls_sizet(): the index of the highest bit that is 1.
Fls(n) == CHOOSE k \in 0 .. FlIndexMax : Pow2[k] <= n /\ n < Pow2[k + 1]

MappingInsert(n) ==
  IF n < SmallBlockSize
  THEN <<0, n \div (SmallBlockSize \div SlCount)>>
  ELSE LET k == Fls(n)
       IN  <<k - (FlShift - 1), n \div Pow2[k - SlLog2] - SlCount>>

\* Mutant: a search does not round up, as an insertion does not.
MappingSearchDown(n) == MappingInsert(n)

\* mapping_search(): rounded up, so that every block of the class fits.
MappingSearch(n) ==
  MappingInsert(IF n >= SmallBlockSize
                THEN n + Pow2[Fls(n) - SlLog2] - 1 ELSE n)

MinOf(S) == CHOOSE i \in S : \A j \in S : i <= j

NoClass == <<-1, -1>>

\* search_suitable_block(): the class whose first block is taken.
SearchSuitableBlock(h, c) ==
  LET slmap == {s \in h.sl[c[1]] : s >= c[2]}
      flmap == {f \in h.fl : f > c[1]}
  IN  IF slmap # {} THEN <<c[1], MinOf(slmap)>>
      ELSE IF flmap = {} THEN NoClass
      ELSE <<MinOf(flmap), MinOf(h.sl[MinOf(flmap)])>>

\* A free list once b is taken out of it.
Unlink(list, b) ==
  LET i == CHOOSE i \in DOMAIN list : list[i] = b
  IN  [j \in 1 .. Len(list) - 1 |-> list[IF j < i THEN j ELSE j + 1]]

\* Mutant: the bitmaps are cleared when a block leaves, not when the last does.
RemoveFreeBlockEager(h, b, c) ==
  [h EXCEPT !.blocks[c] = Unlink(@, b),
            !.sl[c[1]] = @ \ {c[2]},
            !.fl = IF h.sl[c[1]] = {c[2]} THEN @ \ {c[1]} ELSE @]

RemoveFreeBlock(h, b, c) ==
  LET list  == Unlink(h.blocks[c], b)
      slmap == IF list = << >> THEN h.sl[c[1]] \ {c[2]} ELSE h.sl[c[1]]
  IN  [h EXCEPT !.blocks[c] = list, !.sl[c[1]] = slmap,
                !.fl = IF slmap = {} THEN @ \ {c[1]} ELSE @]

InsertFreeBlock(h, b, c) ==
  [Insist(h, ToPtr(b) % AlignSize = 0) EXCEPT
     !.blocks[c] = <<b>> \o @, !.fl = @ \cup {c[1]},
     !.sl[c[1]] = @ \cup {c[2]}]

BlockRemove(h, b) == RemoveFreeBlock(h, b, MappingInsert(h.size[b]))
BlockInsert(h, b) == InsertFreeBlock(h, b, MappingInsert(h.size[b]))

----------------------------------------------------------------------------
(* Splitting and coalescing.                                               *)

BlockCanSplit(h, b, n) == h.size[b] >= HeaderSize + n

\* Where block_split() puts the remaining block.
Remaining(b, n) == b + n + Overhead

\* block_split().  The prev_free bit of the remaining block is whatever the
\* memory held; every caller sets it before it is read.
BlockSplit(h, b, n) ==
  LET r  == Remaining(b, n)
      rs == h.size[b] - (n + Overhead)
      h1 == Insist(h, ToPtr(r) % AlignSize = 0 /\ rs >= BlockSizeMin)
  IN  MarkAsFree(SetSize(SetSize(h1, r, rs), b, n), r)

\* block_absorb(): b disappears into the block before it.
BlockAbsorb(h, p, b) ==
  LET h1 == SetSize(Insist(h, h.size[p] # 0), p,
                    h.size[p] + h.size[b] + Overhead)
  IN  LinkNext([h1 EXCEPT !.size = [c \in DOMAIN @ \ {b} |-> @[c]],
                          !.prev = [c \in DOMAIN @ \ {b} |-> @[c]],
                          !.free = @ \ {b}, !.prevfree = @ \ {b}], p)

\* The block that block_merge_prev() returns.
MergedPrev(h, b) == IF b \in h.prevfree THEN h.prev[b] ELSE b

BlockMergePrev(h, b) ==
  IF b \in h.prevfree
  THEN LET p == h.prev[b]
       IN  BlockAbsorb(BlockRemove(Insist(h, p \in h.free), p), p, b)
  ELSE h

\* Mutant: a freed block is not merged with a free one after it.
BlockMergeNextNot(h, b) == Insist(h, TRUE)

BlockMergeNext(h, b) ==
  LET n  == BlockNext(h, b)
      h1 == Insist(h, h.size[b] # 0)
  IN  IF n \in h.free THEN BlockAbsorb(BlockRemove(h1, n), b, n) ELSE h1

BlockTrimFree(h, b, n) ==
  LET r  == Remaining(b, n)
      h1 == Insist(h, b \in h.free)
      h2 == LinkNext(BlockSplit(h1, b, n), b)
  IN  IF ~BlockCanSplit(h, b, n) THEN h1
      ELSE BlockInsert([h2 EXCEPT !.prevfree = @ \cup {r}], r)

BlockTrimUsed(h, b, n) ==
  LET r  == Remaining(b, n)
      h1 == Insist(h, b \notin h.free)
      h2 == BlockSplit(h1, b, n)
  IN  IF ~BlockCanSplit(h, b, n) THEN h1
      ELSE BlockInsert(BlockMergeNext([h2 EXCEPT !.prevfree = @ \ {r}], r), r)

\* block_trim_free_leading(); the block it returns is b + n.
BlockTrimFreeLeading(h, b, n) ==
  LET r  == Remaining(b, n - Overhead)
      h1 == BlockSplit(h, b, n - Overhead)
  IN  BlockInsert(LinkNext([h1 EXCEPT !.prevfree = @ \cup {r}], b), b)

----------------------------------------------------------------------------
(* Allocation.                                                             *)

\* The class block_locate_free() takes a block of, if there is one.
LocateClass(h, n) ==
  LET c == MappingSearch(n)
  IN  IF n = 0 \/ c[1] >= FlCount THEN NoClass ELSE SearchSuitableBlock(h, c)

Located(h, n) == Head(h.blocks[LocateClass(h, n)])

BlockLocateFree(h, n) ==
  LET b == Located(h, n)
  IN  RemoveFreeBlock(Insist(h, h.size[b] >= n), b, LocateClass(h, n))

BlockPrepareUsed(h, b, n) ==
  MarkAsUsed(BlockTrimFree(Insist(h, n # 0), b, n), b)

\* tlsf_malloc(), once a block is located.
TlsfMalloc(h, n) ==
  LET adjust == AdjustRequestSize(n, AlignSize)
  IN  BlockPrepareUsed(BlockLocateFree(h, adjust), Located(h, adjust), adjust)

\* tlsf_memalign(): the size it looks for.
AlignedSize(n, a) ==
  LET adjust == AdjustRequestSize(n, AlignSize)
  IN  IF adjust # 0 /\ a > AlignSize
      THEN AdjustRequestSize(adjust + a + HeaderSize, a) ELSE adjust

\* tlsf_memalign(): the bytes cut off before the aligned block.
Gap(b, a) ==
  LET p   == ToPtr(b)
      gap == AlignUp(p, a) - p
      off == IF HeaderSize - gap > a THEN HeaderSize - gap ELSE a
  IN  IF gap # 0 /\ gap < HeaderSize
      THEN AlignUp(AlignUp(p, a) + off, a) - p ELSE gap

TlsfMemalign(h, n, a) ==
  LET size == AlignedSize(n, a)
      b    == Located(h, size)
      gap  == Gap(b, a)
      h1   == BlockLocateFree(h, size)
      h2   == IF gap # 0 /\ BlockCanSplit(h1, b, gap)
              THEN BlockTrimFreeLeading(Insist(h1, gap >= HeaderSize), b, gap)
              ELSE Insist(h1, gap = 0)
  IN  BlockPrepareUsed(h2, b + gap, AdjustRequestSize(n, AlignSize))

TlsfFree(h, p) ==
  LET b  == FromPtr(p)
      h1 == MarkAsFree(Insist(h, b \notin h.free), b)
      c  == MergedPrev(h1, b)
  IN  BlockInsert(BlockMergeNext(BlockMergePrev(h1, b), c), c)

\* Mutant: the next block is counted in whether it is free or not.
MustMoveUnchecked(h, p, adjust) ==
  LET b == FromPtr(p)
  IN  adjust > h.size[b] + h.size[BlockNext(h, b)] + Overhead

\* Must a realloc of the block at p move?
MustMove(h, p, adjust) ==
  LET b == FromPtr(p)
      n == BlockNext(h, b)
  IN  /\ adjust > h.size[b]
      /\ n \notin h.free \/ adjust > h.size[b] + h.size[n] + Overhead

\* tlsf_realloc() in place.
TlsfReallocHere(h, p, adjust) ==
  LET b == FromPtr(p)
      g == IF adjust > h.size[b] THEN MarkAsUsed(BlockMergeNext(h, b), b) ELSE h
  IN  BlockTrimUsed(Insist(g, b \notin h.free), b, adjust)

----------------------------------------------------------------------------
(* Pools.                                                                  *)

PoolBytes(q) == AlignDown(q.bytes - 2 * Overhead, AlignSize)
PoolFirst(q) == q.mem - Overhead
PoolEnd(q)   == PoolFirst(q) + PoolBytes(q) + Overhead    \* the sentinel

\* tlsf_add_pool() takes q.  (Fewer bytes than the overhead wrap around to a
\* size above the largest.)
PoolFits(q) ==
  /\ q.mem % AlignSize = 0
  /\ q.bytes >= 2 * Overhead
  /\ PoolBytes(q) >= BlockSizeMin /\ PoolBytes(q) <= BlockSizeMax

\* A pool of exactly the largest size is taken too, but its one block would
\* index past the free lists: no caller has 4 GiB to offer.
ASSUME PoolAssumption == \A q \in Pools : PoolBytes(q) # BlockSizeMax

\* heap_init() asks for pages enough for the control structure and a pool.
ASSUME FirstPoolAssumption == PoolFits(FirstPool)

TlsfAddPool(h, q) ==
  LET b  == PoolFirst(q)
      h1 == SetSize([h EXCEPT !.free = @ \cup {b}], b, PoolBytes(q))
      h2 == SetSize(LinkNext(BlockInsert(h1, b), b), PoolEnd(q), 0)
  IN  [h2 EXCEPT !.prevfree = @ \cup {PoolEnd(q)}]

TlsfRemovePool(h, q) ==
  LET b  == PoolFirst(q)
      n  == BlockNext(h, b)
      h1 == Insist(h, b \in h.free /\ n \notin h.free /\ h.size[n] = 0)
  IN  [BlockRemove(h1, b) EXCEPT
         !.size = [c \in DOMAIN @ \ {b, n} |-> @[c]],
         !.prev = [c \in DOMAIN @ \ {n} |-> @[c]],
         !.free = @ \ {b}, !.prevfree = @ \ {n}]

ControlConstruct ==
  [size |-> << >>, prev |-> << >>, free |-> {}, prevfree |-> {},
   blocks |-> [c \in Classes |-> << >>], fl |-> {},
   sl |-> [f \in 0 .. FlCount - 1 |-> {}], ok |-> TRUE]

----------------------------------------------------------------------------
VARIABLES
  heap,       \* the heap
  pools,      \* the pools it has
  live,       \* ptr -> [asked, align]: what callers hold
  faulted     \* kcalloc() cleared memory at NULL

vars == <<heap, pools, live, faulted>>

\* heap_init(): tlsf_create_with_pool() on the pages of vmm_alloc_pages().
Init ==
  /\ heap = TlsfAddPool(ControlConstruct, FirstPool)
  /\ pools = {FirstPool}
  /\ live = << >>
  /\ faulted = FALSE

Hold(p, n, a) ==
  live' = [q \in DOMAIN live \cup {p} |->
             IF q = p THEN [asked |-> n, align |-> a] ELSE live[q]]

Drop(p) == live' = [q \in DOMAIN live \ {p} |-> live[q]]

CanMalloc(n) ==
  LocateClass(heap, AdjustRequestSize(n, AlignSize)) # NoClass

NewPtr(n) == ToPtr(Located(heap, AdjustRequestSize(n, AlignSize)))

\* kmalloc(), and krealloc() of NULL; NULL when no block is found.
Kmalloc(n) ==
  /\ ~faulted
  /\ IF CanMalloc(n)
     THEN heap' = TlsfMalloc(heap, n) /\ Hold(NewPtr(n), n, AlignSize)
     ELSE UNCHANGED <<heap, live>>
  /\ UNCHANGED <<pools, faulted>>

\* kcalloc(): memzero() on what kmalloc() returned, without a look at it.
Kcalloc(n) ==
  /\ ~faulted
  /\ IF CanMalloc(n)
     THEN heap' = TlsfMalloc(heap, n) /\ Hold(NewPtr(n), n, AlignSize)
     ELSE UNCHANGED <<heap, live>>
  /\ faulted' = (n # 0 /\ ~CanMalloc(n))
  /\ UNCHANGED pools

Memalign(n, a) ==
  /\ ~faulted
  /\ IF LocateClass(heap, AlignedSize(n, a)) # NoClass
     THEN LET b == Located(heap, AlignedSize(n, a))
          IN  /\ heap' = TlsfMemalign(heap, n, a)
              /\ Hold(ToPtr(b) + Gap(b, a), n, a)
     ELSE UNCHANGED <<heap, live>>
  /\ UNCHANGED <<pools, faulted>>

\* kfree(), and krealloc() to nothing.
Kfree(p) ==
  /\ ~faulted
  /\ heap' = TlsfFree(heap, p)
  /\ Drop(p)
  /\ UNCHANGED <<pools, faulted>>

\* krealloc() that has to move: the old block is freed once the new one is
\* there and the bytes are copied; without a new one nothing changes.
KreallocMove(p, n) ==
  /\ ~faulted
  /\ MustMove(heap, p, AdjustRequestSize(n, AlignSize))
  /\ IF CanMalloc(n)
     THEN /\ heap' = TlsfFree(TlsfMalloc(heap, n), p)
          /\ live' = [q \in (DOMAIN live \ {p}) \cup {NewPtr(n)} |->
                        IF q = NewPtr(n) THEN [asked |-> n, align |-> AlignSize]
                        ELSE live[q]]
     ELSE UNCHANGED <<heap, live>>
  /\ UNCHANGED <<pools, faulted>>

\* krealloc() in place.  A request beyond the largest block adjusts to 0 and
\* comes here too; its caller may count on what it had.
KreallocHere(p, n) ==
  LET adjust == AdjustRequestSize(n, AlignSize)
  IN  /\ ~faulted
      /\ ~MustMove(heap, p, adjust)
      /\ heap' = TlsfReallocHere(heap, p, adjust)
      /\ IF adjust = 0 THEN UNCHANGED live ELSE Hold(p, n, live[p].align)
      /\ UNCHANGED <<pools, faulted>>

AddPool(q) ==
  /\ ~faulted
  /\ q \notin pools
  /\ IF PoolFits(q)
     THEN heap' = TlsfAddPool(heap, q) /\ pools' = pools \cup {q}
     ELSE UNCHANGED <<heap, pools>>
  /\ UNCHANGED <<live, faulted>>

InPool(p, q) == PoolFirst(q) <= p /\ p <= PoolEnd(q)

\* tlsf_remove_pool(): its caller has given back all of the pool's blocks.
RemovePool(q) ==
  /\ ~faulted
  /\ q \in pools
  /\ \A p \in DOMAIN live : ~InPool(p, q)
  /\ heap' = TlsfRemovePool(heap, q)
  /\ pools' = pools \ {q}
  /\ UNCHANGED <<live, faulted>>

Next ==
  \/ \E n \in Requests : Kmalloc(n) \/ Kcalloc(n)
  \/ \E n \in Requests, a \in Aligns : Memalign(n, a)
  \/ \E p \in DOMAIN live : Kfree(p)
  \/ \E p \in DOMAIN live, n \in ReallocRequests :
       KreallocMove(p, n) \/ KreallocHere(p, n)
  \/ \E q \in MorePools : AddPool(q) \/ RemovePool(q)

Spec == Init /\ [][Next]_vars

----------------------------------------------------------------------------
(* Properties.                                                             *)

\* Addresses and sizes are numbers, lists hold blocks, callers hold pointers.
TypeOK ==
  /\ DOMAIN heap = {"size", "prev", "free", "prevfree", "blocks", "fl", "sl", "ok"}
  /\ \A b \in DOMAIN heap.size : b \in Nat /\ heap.size[b] \in Nat
  /\ heap.free \subseteq DOMAIN heap.size
  /\ heap.prevfree \subseteq DOMAIN heap.size
  /\ \A c \in Classes : heap.blocks[c] \in Seq(DOMAIN heap.size)
  /\ heap.fl \subseteq 0 .. FlCount - 1
  /\ \A f \in 0 .. FlCount - 1 : heap.sl[f] \subseteq 0 .. SlCount - 1
  /\ pools \subseteq Pools
  /\ \A p \in DOMAIN live : FromPtr(p) \in DOMAIN heap.size
  /\ faulted \in BOOLEAN

\* tlsf_check(): bitmaps, lists, flags and classes agree; and the lists hold
\* every free block, once.
TlsfCheck(h) ==
  /\ \A f \in 0 .. FlCount - 1, s \in 0 .. SlCount - 1 :
       /\ s \in h.sl[f] => f \in h.fl
       /\ s \in h.sl[f] <=> h.blocks[<<f, s>>] # << >>
       /\ \A i \in 1 .. Len(h.blocks[<<f, s>>]) :
            LET b == h.blocks[<<f, s>>][i]
            IN  /\ b \in h.free /\ b \notin h.prevfree
                /\ BlockNext(h, b) \in h.prevfree \ h.free
                /\ h.size[b] >= BlockSizeMin
                /\ MappingInsert(h.size[b]) = <<f, s>>
                /\ \A j \in 1 .. i - 1 : h.blocks[<<f, s>>][j] # b
  /\ \A b \in h.free :
       LET list == h.blocks[MappingInsert(h.size[b])]
       IN  \E i \in DOMAIN list : list[i] = b

\* tlsf_check_pool(): the walk from the first block to the sentinel meets
\* blocks whose prev_free bits tell whether the block before them is free.
TlsfCheckPool(h, q) ==
  LET walked == {b \in DOMAIN h.size : InPool(b, q)}
  IN  /\ {PoolFirst(q), PoolEnd(q)} \subseteq walked
      /\ h.size[PoolEnd(q)] = 0
      /\ PoolFirst(q) \notin h.prevfree
      /\ \A b \in walked \ {PoolEnd(q)} :
           /\ BlockNext(h, b) \in walked
           /\ BlockNext(h, b) \in h.prevfree <=> b \in h.free

\* A prev_phys_block word is there for exactly the blocks that follow a free
\* one, and points at it: block_prev() never reads what a user wrote.
PrevPhysExact ==
  /\ DOMAIN heap.prev = heap.prevfree
  /\ \A b \in heap.free : heap.prev[BlockNext(heap, b)] = b

\* No tlsf_assert() of tlsf.c has failed, whatever the order of the calls, and
\* the heap passes its own integrity checks, the tags at block ends included.
ChecksPass ==
  /\ TypeOK
  /\ heap.ok
  /\ TlsfCheck(heap) /\ \A q \in pools : TlsfCheckPool(heap, q)
  /\ PrevPhysExact

\* block_locate_free() finds a block that is large enough; and when it finds
\* none, no free block is as large as the request rounded up to its class.
GoodFit ==
  \A n \in {AdjustRequestSize(r, AlignSize) : r \in Requests} \ {0} :
    LET c  == LocateClass(heap, n)
        up == IF n >= SmallBlockSize THEN Pow2[Fls(n) - SlLog2] ELSE 1
    IN  IF c # NoClass
        THEN LET b == Head(heap.blocks[c])
             IN  b \in heap.free /\ heap.size[b] >= n
        ELSE \A b \in heap.free : heap.size[b] < AlignUp(n, up)

\* When everything is given back, every pool is one free block again.
AllFreedWhole ==
  live = << >> =>
    \A q \in pools : /\ PoolFirst(q) \in heap.free
                     /\ heap.size[PoolFirst(q)] = PoolBytes(q)

\* The heap keeps the promises of an arena.
Promise == INSTANCE Arena WITH
  Extents <- {[first |-> q.mem, last |-> q.mem + q.bytes - 1] : q \in Pools},
  extents <- {[first |-> q.mem, last |-> q.mem + q.bytes - 1] : q \in pools},
  Requests <- Requests \cup ReallocRequests,
  Aligns <- Aligns \cup {AlignSize},
  regions <- [p \in DOMAIN live |->
                [asked |-> live[p].asked, align |-> live[p].align,
                 bytes |-> heap.size[FromPtr(p)]]]

\* Every call hands out, resizes or takes back regions as an arena does.
ArenaPromise == Promise!Spec

\* The code's comment on tlsf_realloc(): a request that cannot be satisfied
\* leaves the original buffer untouched.
RefusedUntouched ==
  \A p \in DOMAIN live : heap.size[FromPtr(p)] >= live[p].asked
=============================================================================
