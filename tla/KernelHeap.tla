----------------------------- MODULE KernelHeap -----------------------------
(* mem/kmemzone.c, mem/kmalloc.c and io/shared_buffer: kernel virtual zones  *)
(* from a bump pointer before the bitmap exists and from the bitmap after,   *)
(* the kernel heap of blocks with a header, and the buffers processes share. *)
(* Zones are counted in pages, the heap and the buffers in cells of which    *)
(* HBlock make a block; a header and a stored pointer take one cell each.    *)
(* From Blocks on, mem/pmm.c: the allocator of physical pages.               *)
EXTENDS Bitmap

CONSTANTS Zoner,        \* pages the zone bitmap covers
          EarlyBase,    \* first page kmemzone_init leaves free
          ZoneSizes, ZoneAligns,
          HBlock, HeapBlocks, HeapSizes, HeapAligns,
          MaxBuffers,   \* SHBUF_MAX_BUFFERS
          Pids, Su,     \* processes, and those that are superuser
          MaxLive       \* bound: live objects of each kind
ASSUME HeapAssumption ==
    /\ Zoner \in Nat \ {0} /\ EarlyBase \in 0 .. Zoner - 1
    /\ HBlock \in Nat \ {0} /\ HeapBlocks \in Nat \ {0} /\ MaxBuffers \in Nat \ {0}

VARIABLES next_vaddr, zbitmap, stage2, zones,   \* kmemzone.c
          hbitmap, heap,                        \* kmalloc.c
          sbitmap, descs                        \* shared_buffer.c

zonevars == <<next_vaddr, zbitmap, stage2, zones>>
heapvars == <<hbitmap, heap>>
shbufvars == <<sbitmap, descs>>

-----------------------------------------------------------------------------
ZoneExtent(z) == z.start .. z.start + z.len - 1

\* _zoner_new_vzone_locked and its aligned form: a bump pointer.
EarlyZone(n, al) ==
    IF al = 1 THEN [start |-> next_vaddr, len |-> n]
    ELSE [start |-> next_vaddr + al - ((next_vaddr + al) % al), len |-> n]

kmemzone_new_early(n, al) ==
    LET z == EarlyZone(n, al) IN
    /\ ~stage2 /\ Cardinality(zones) < MaxLive
    /\ next_vaddr + n + al + 1 < Zoner      \* bound: what the bitmap needs is left
    /\ next_vaddr' = next_vaddr + n + (IF al = 1 THEN 0 ELSE al)
    /\ zones' = zones \cup {z}
    /\ UNCHANGED <<zbitmap, stage2>>

\* The bitmap takes a zone of its own and starts with everything below the
\* bump pointer set.
kmemzone_init_stage2 ==
    /\ ~stage2 /\ next_vaddr + 1 < Zoner
    /\ stage2' = TRUE
    /\ next_vaddr' = next_vaddr + 1
    /\ zones' = zones \cup {[start |-> next_vaddr, len |-> 1]}
    /\ zbitmap' = bitmap_set_range(zbitmap, 0, next_vaddr + 1)

kmemzone_new(n, al) ==
    LET start == IF al = 1 THEN bitmap_find_space(zbitmap, n)
                           ELSE bitmap_find_space_aligned(zbitmap, n, al)
    IN /\ stage2 /\ start >= 0 /\ Cardinality(zones) < MaxLive
       /\ zbitmap' = bitmap_set_range(zbitmap, start, n)
       /\ zones' = zones \cup {[start |-> start, len |-> n]}
       /\ UNCHANGED <<next_vaddr, stage2>>

\* -EPERM for what the bump pointer gave: it stays taken for ever.
kmemzone_free(z) ==
    /\ stage2 /\ z \in zones /\ z.start >= next_vaddr
    /\ zbitmap' = bitmap_unset_range(zbitmap, z.start, z.len)
    /\ zones' = zones \ {z}
    /\ UNCHANGED <<next_vaddr, stage2>>

ZoneNext ==
    \/ \E n \in ZoneSizes, al \in ZoneAligns : kmemzone_new_early(n, al) \/ kmemzone_new(n, al)
    \/ kmemzone_init_stage2
    \/ \E z \in zones : kmemzone_free(z)

-----------------------------------------------------------------------------
\* A heap object: len is in its header, ptr what the caller got, size what it
\* asked for; base is the pointer kfree must get.
HBlocks(cells) == (cells + HBlock - 1) \div HBlock

kmalloc_at(cells) == bitmap_find_space(hbitmap, HBlocks(cells + 1))

kmalloc(n) ==
    LET start == kmalloc_at(n) IN
    /\ start >= 0 /\ Cardinality(heap) < MaxLive
    /\ hbitmap' = bitmap_set_range(hbitmap, start, HBlocks(n + 1))
    /\ heap' = heap \cup {[base |-> start * HBlock + 1, len |-> n + 1,
                           ptr |-> start * HBlock + 1, size |-> n]}

\* Mutant: no room for the stored pointer.
kmalloc_alignedNoPointer(n, al) ==
    LET cells == n + al - 1
        start == kmalloc_at(cells)
        base  == start * HBlock + 1
        top   == base + 1 + al
    IN /\ start >= 0 /\ Cardinality(heap) < MaxLive
       /\ hbitmap' = bitmap_set_range(hbitmap, start, HBlocks(cells + 1))
       /\ heap' = heap \cup {[base |-> base, len |-> cells + 1,
                              ptr |-> top - (top % al), size |-> n]}

\* The caller's pointer is moved up, the real one stored in the cell below it.
kmalloc_aligned(n, al) ==
    LET cells == n + al + 1
        start == kmalloc_at(cells)
        base  == start * HBlock + 1
        top   == base + 1 + al
    IN /\ start >= 0 /\ Cardinality(heap) < MaxLive
       /\ hbitmap' = bitmap_set_range(hbitmap, start, HBlocks(cells + 1))
       /\ heap' = heap \cup {[base |-> base, len |-> cells + 1,
                              ptr |-> top - (top % al), size |-> n]}

\* kfree and kfree_aligned: the header says how many blocks go.
kfree(o) ==
    /\ o \in heap
    /\ hbitmap' = bitmap_unset_range(hbitmap, (o.base - 1) \div HBlock, HBlocks(o.len))
    /\ heap' = heap \ {o}

HeapNext ==
    \/ \E n \in HeapSizes : kmalloc(n)
    \/ \E n \in HeapSizes, al \in HeapAligns : kmalloc_aligned(n, al)
    \/ \E o \in heap : kfree(o)

-----------------------------------------------------------------------------
NoBuffer == [base |-> 0, len |-> 0, owner |-> 0]
Ids == 0 .. MaxBuffers - 1
FreeIds == {i \in Ids : descs[i] = NoBuffer}

shared_buffer_create(p, n) ==
    LET start == bitmap_find_space(sbitmap, HBlocks(n + 1)) IN
    /\ FreeIds # {} /\ start >= 0
    /\ sbitmap' = bitmap_set_range(sbitmap, start, HBlocks(n + 1))
    /\ descs' = [descs EXCEPT ![CHOOSE i \in FreeIds : \A j \in FreeIds : i <= j] =
                    [base |-> start * HBlock + 1, len |-> n + 1, owner |-> p]]

\* Only the superuser or the process that created the buffer; nobody else who
\* got its address is asked.
shared_buffer_free(p, i) ==
    /\ descs[i] # NoBuffer
    /\ p \in Su \/ descs[i].owner = p
    /\ sbitmap' = bitmap_unset_range(sbitmap, (descs[i].base - 1) \div HBlock,
                                     HBlocks(descs[i].len))
    /\ descs' = [descs EXCEPT ![i] = NoBuffer]

ShbufNext ==
    \E p \in Pids : \/ \E n \in HeapSizes : shared_buffer_create(p, n)
                    \/ \E i \in Ids : shared_buffer_free(p, i)

HeapInit ==
    /\ next_vaddr = EarlyBase /\ zbitmap = bitmap_wrap(Zoner)
    /\ stage2 = FALSE /\ zones = {}
    \* The bitmap lives in the first block of the space it describes.
    /\ hbitmap = bitmap_set_range(bitmap_wrap(HeapBlocks), 0, 1) /\ heap = {}
    /\ sbitmap = bitmap_set_range(bitmap_wrap(HeapBlocks), 0, 1)
    /\ descs = [i \in Ids |-> NoBuffer]

-----------------------------------------------------------------------------
\* Zones given out before and after the bitmap was set up never overlap, and
\* no zone overlaps the kernel image and the tables below EarlyBase.
ZonesDisjoint ==
    \A z \in zones :
        /\ z.start >= EarlyBase
        /\ \A y \in zones : y # z => ZoneExtent(z) \cap ZoneExtent(y) = {}

\* Header, stored pointer and data of a heap object lie in its own blocks: no
\* header, no stored pointer and no data of another object overlaps them.
HeapExtent(o) == o.base - 1 .. o.base + o.len - 2
HeapObjectsDisjoint ==
    \A o \in heap :
        /\ o.ptr + o.size - 1 \in HeapExtent(o)
        /\ o.ptr # o.base => o.ptr - 1 \in o.base .. o.base + o.len - 2
        /\ \A q \in heap : q # o => HeapExtent(o) \cap HeapExtent(q) = {}
        /\ HBlock <= o.base - 1          \* the bitmap itself

\* Two live shared buffers have no memory in common, whatever was freed before.
BuffersDisjoint ==
    \A i, j \in Ids :
        i # j /\ descs[i] # NoBuffer /\ descs[j] # NoBuffer
        => (descs[i].base - 1 .. descs[i].base + descs[i].len - 2)
             \cap (descs[j].base - 1 .. descs[j].base + descs[j].len - 2) = {}

-----------------------------------------------------------------------------
(* mem/pmm.c: a bitmap of blocks and a count of used ones.  Boot marks all   *)
(* memory available, then the reserved areas, the memory below the kernel    *)
(* and the kernel as used.                                                   *)

CONSTANTS Blocks,       \* mat.len = max_blocks
          Reserved,     \* choices of the reserved areas: sets of [start, count]
          Counts,       \* block counts asked for
          Aligns        \* alignments asked for, in blocks
ASSUME PmmAssumption ==
    /\ Blocks \in Nat \ {0} /\ Counts \subseteq 1 .. Blocks
    /\ Aligns \subseteq Nat \ {0}

VARIABLES mat, used_blocks, allocated, marked

pmmvars == <<mat, used_blocks, allocated, marked>>

Extent(a) == a.start .. a.start + a.count - 1

\* pmm_setup: every call of _pmm_mark_avail_region and of _pmm_mark_used_region
\* takes its blocks off used_blocks.  marked remembers how many were marked.
PmmInit ==
    \E areas \in Reserved :
        LET sum[s \in SUBSET areas] ==
                IF s = {} THEN 0
                ELSE LET a == CHOOSE x \in s : TRUE IN a.count + sum[s \ {a}]
        IN /\ mat = [len |-> Blocks, set |-> UNION {Extent(a) : a \in areas}]
           /\ used_blocks = Blocks - Blocks - sum[areas]
           /\ marked = sum[areas]
           /\ allocated = {}

PmmTake(start, n) ==
    /\ start >= 0
    /\ mat' = bitmap_set_range(mat, start, n)
    /\ used_blocks' = used_blocks + n
    /\ allocated' = allocated \cup {[start |-> start, count |-> n]}
    /\ UNCHANGED marked

pmm_alloc(n)                == PmmTake(bitmap_find_space(mat, n), n)
pmm_alloc_aligned(n, align) ==
    PmmTake(IF align = 1 THEN bitmap_find_space(mat, n)
                         ELSE bitmap_find_space_aligned(mat, n, align), n)

\* Callers free what they allocated, with the same size.
pmm_free(a) ==
    /\ a \in allocated
    /\ mat' = bitmap_unset_range(mat, a.start, a.count)
    /\ used_blocks' = used_blocks - a.count
    /\ allocated' = allocated \ {a}
    /\ UNCHANGED marked

pmm_get_free_blocks == Blocks - used_blocks

PmmNext ==
    \/ \E n \in Counts : pmm_alloc(n)
    \/ \E n \in Counts, align \in Aligns : pmm_alloc_aligned(n, align)
    \/ \E a \in allocated : pmm_free(a)

-----------------------------------------------------------------------------
\* Both searches agree with the reference on every bitmap the allocator gets
\* into: no block is skipped, no run of free blocks is missed, and only the
\* aligned search may overlook the blocks after the last whole byte.
PmmFirstFit ==
    \A n \in Counts :
        /\ bitmap_find_space(mat, n) = FirstFit(mat, Blocks, n, 1)
        /\ \A al \in Aligns :
              bitmap_find_space_aligned(mat, n, al) =
                  FirstFit(mat, (Blocks \div ByteBits) * ByteBits, n, al)

\* No block is handed out twice, and the bitmap is exactly what is reserved
\* and what is allocated.
PmmAllocationsDisjoint ==
    /\ \A a, b \in allocated : a # b => Extent(a) \cap Extent(b) = {}
    /\ \A a \in allocated : Extent(a) \subseteq mat.set

\* The free space kswapd compares with the size of the memory is the number of
\* free blocks plus what boot counted the wrong way round, never anything
\* that depends on the history of allocations.  (Areas do not overlap here.)
PmmFreeCountSkew ==
    pmm_get_free_blocks = Cardinality((0 .. Blocks - 1) \ mat.set) + 2 * marked
=============================================================================
