------------------------------ MODULE Memzone ------------------------------
(* mem/memzone.c with the callers that lay out an address space: elf_load,   *)
(* sys_mmap, sys_munmap, fork.  Addresses and lengths are size_t of Width    *)
(* bits: every sum and difference wraps.  The array that keeps the zones is  *)
(* algo/dynamic_array.c, DynArr; here it is the sequence it implements.      *)
EXTENDS Integers, Sequences, SequencesExt

CONSTANTS Width, PageSize,
          USER_HIGH,       \* last address of user space
          Lens,            \* lengths asked for
          Ptrs,            \* addresses unmapped
          Segments,        \* programs: sequences of [vaddr, memsz] to load
          StackSize,       \* USER_STACK_SIZE
          MaxZones         \* bound on mmap
Word == 0 .. 2^Width - 1
ASSUME MemzoneAssumption ==
    /\ Width \in Nat \ {0} /\ PageSize \in Word \ {0}
    /\ 2^Width % PageSize = 0
    /\ USER_HIGH \in Word /\ (USER_HIGH + 1) % PageSize = 0
    /\ Lens \cup Ptrs \subseteq Word /\ StackSize \in Word \ {0}

VARIABLES zs,        \* zs[p]: the zones of address space p, <<>> when none
          loaded     \* address spaces in use

Spaces == {1, 2}
mzvars == <<zs, loaded>>

Wrap(n) == n % 2^Width
RoundPage(len) == IF len % PageSize = 0 THEN len ELSE Wrap(len + PageSize - (len % PageSize))
PageStart(a) == a - (a % PageSize)

_pzones_intersect(start1, size1, start2, size2) ==
    LET end1 == Wrap(start1 + size1 - 1)
        end2 == Wrap(start2 + size2 - 1)
    IN \/ start1 <= start2 /\ start2 <= end1
       \/ start1 <= end2 /\ end2 <= end1
       \/ start2 <= start1 /\ start1 <= end2
       \/ start2 <= end1 /\ end1 <= end2

_proc_can_add_zone(z, start, len) ==
    /\ Wrap(start + len) >= start
    /\ Wrap(start + len - 1) <= USER_HIGH
    /\ \A i \in DOMAIN z : ~_pzones_intersect(start, len, z[i].vaddr, z[i].len)

NewZone(start, len, kind) == [vaddr |-> start, len |-> len, kind |-> kind]

\* Each returns the new sequence, or the old one for NULL.
memzone_new(z, start, len, kind) ==
    LET n == RoundPage(Wrap(len + (start % PageSize)))
        s == PageStart(start)
    IN IF _proc_can_add_zone(z, s, n) THEN Append(z, NewZone(s, n, kind)) ELSE z

ZoneEnd(zone) == Wrap(zone.vaddr + zone.len)

\* Mutant: the end of the first zone that has room, not the lowest one.
memzone_new_randomFirst(z, length, kind) ==
    LET len  == RoundPage(length)
        zero == memzone_new(z, 0, len, kind)
        fits == {j \in DOMAIN z : ZoneEnd(z[j]) < USER_HIGH
                                  /\ _proc_can_add_zone(z, ZoneEnd(z[j]), len)}
    IN IF zero # z THEN zero
       ELSE IF fits = {} THEN z
       ELSE memzone_new(z, ZoneEnd(z[CHOOSE i \in fits : \A j \in fits : i <= j]), len, kind)

memzone_new_random(z, length, kind) ==
    LET len   == RoundPage(length)
        zero  == memzone_new(z, 0, len, kind)
        ends  == {ZoneEnd(z[i]) : i \in {j \in DOMAIN z :
                     ZoneEnd(z[j]) < USER_HIGH /\ _proc_can_add_zone(z, ZoneEnd(z[j]), len)}}
    IN IF zero # z THEN zero
       ELSE IF ends = {} THEN z
       ELSE memzone_new(z, CHOOSE e \in ends : \A x \in ends : e <= x, len, kind)

memzone_new_random_backward(z, length, kind) ==
    LET len    == RoundPage(length)
        top    == memzone_new(z, Wrap(USER_HIGH - len + 1), len, kind)
        starts == {z[i].vaddr : i \in {j \in DOMAIN z :
                      z[j].vaddr > 0 /\ _proc_can_add_zone(z, Wrap(z[j].vaddr - len), len)}}
    IN IF top # z THEN top
       ELSE IF starts = {} THEN z
       ELSE memzone_new(z, Wrap((CHOOSE e \in starts : \A x \in starts : e >= x) - len), len, kind)

\* Index of the first zone with the address, 0 for NULL.
memzone_find(z, addr) ==
    LET hits == {i \in DOMAIN z : z[i].vaddr <= addr /\ addr < z[i].vaddr + z[i].len}
    IN IF hits = {} THEN 0 ELSE CHOOSE i \in hits : \A j \in hits : i <= j

\* The zone is cut at its own start: the part kept has length 0, and a zone of
\* length 0 still intersects the new one, so memzone_new fails and the length
\* is put back.
memzone_split(z, i, address) ==
    LET addr == PageStart(address)
        cut  == [z EXCEPT ![i].len = addr - z[i].vaddr]
        new  == memzone_new(cut, addr, z[i].len - (addr - z[i].vaddr), z[i].kind)
    IN IF z[i].len <= PageSize \/ z[i].vaddr # addr \/ new = cut THEN z ELSE new

-----------------------------------------------------------------------------
\* Mutant: page 0 is left free.
LoadImageNoNull(segs) ==
    LET load[i \in 0 .. Len(segs)] ==
            IF i = 0 THEN <<>>
            ELSE memzone_new(load[i - 1], segs[i].vaddr, segs[i].memsz, "load")
    IN memzone_new_random_backward(load[Len(segs)], StackSize, "stack")

\* _elf_do_load: the segments in order (one that does not fit is skipped), a
\* zone that keeps page 0 unmapped, and the stack at the top.
LoadImage(segs) ==
    LET load[i \in 0 .. Len(segs)] ==
            IF i = 0 THEN <<>>
            ELSE memzone_new(load[i - 1], segs[i].vaddr, segs[i].memsz, "load")
        body == load[Len(segs)]
        null == IF memzone_find(body, 0) = 0 THEN memzone_new(body, 0, PageSize, "null") ELSE body
    IN memzone_new_random_backward(null, StackSize, "stack")

elf_load(p) ==
    /\ p \in loaded
    /\ \E segs \in Segments : zs' = [zs EXCEPT ![p] = LoadImage(segs)]
    /\ UNCHANGED loaded

\* MAP_STACK from the top, MAP_ANONYMOUS and files from the bottom; -ENOMEM
\* leaves the zones as they are.  _vfs_do_mmap does not look at the result of
\* memzone_new_random and stores through NULL: that call has no next state.
sys_mmap(p, len, how) ==
    LET z   == zs[p]
        new == CASE how = "stack" -> memzone_new_random_backward(z, len, "mapped")
                 [] how = "anon"  -> memzone_new_random(z, len, "mapped")
                 [] OTHER         -> memzone_new_random(z, len, "file")
    IN /\ p \in loaded /\ Len(z) < MaxZones
       /\ how = "file" => new # z
       /\ zs' = [zs EXCEPT ![p] = new]
       /\ UNCHANGED loaded

\* Both cuts fail (see memzone_split) and the call returns 0 for a mapping;
\* vfs_munmap of a file mapping looks for the zone type in mmu_flags, where
\* these bits are never set, and returns -EFAULT before it frees the zone:
\* memzone_free is never reached.
sys_munmap(p, ptr, len) ==
    LET z == zs[p]
        i == memzone_find(z, ptr)
        m == IF i = 0 THEN z ELSE memzone_split(z, i, ptr)
        j == IF m = z THEN i ELSE Len(m)
    IN /\ p \in loaded
       /\ zs' = IF i = 0 THEN zs ELSE [zs EXCEPT ![p] = memzone_split(m, j, Wrap(ptr + len))]
       /\ UNCHANGED loaded

\* memzone_copy.
ForkZones(p, c) ==
    /\ p \in loaded /\ c \notin loaded
    /\ zs' = [zs EXCEPT ![c] = @ \o zs[p]]
    /\ loaded' = loaded \cup {c}

ExitZones(p) ==
    /\ p \in loaded /\ loaded # {p}
    /\ zs' = [zs EXCEPT ![p] = <<>>] /\ loaded' = loaded \ {p}

MzInit == \E segs \in Segments :
    loaded = {1} /\ zs = [p \in Spaces |-> IF p = 1 THEN LoadImage(segs) ELSE <<>>]

MzNext == \E p \in Spaces :
    \/ elf_load(p) \/ ExitZones(p)
    \/ \E len \in Lens, how \in {"stack", "anon", "file"} : sys_mmap(p, len, how)
    \/ \E ptr \in Ptrs, len \in Lens : sys_munmap(p, ptr, len)
    \/ \E c \in Spaces : ForkZones(p, c)

-----------------------------------------------------------------------------
ZonePages(zone) == zone.vaddr .. zone.vaddr + zone.len - 1

\* Whatever lengths are asked for, wrapping ones included, the zones of an
\* address space are non-empty, page aligned, inside user space and disjoint:
\* memzone_find has one answer.
ZonesSound ==
    \A p \in Spaces : \A i \in DOMAIN zs[p] :
        LET z == zs[p][i] IN
        /\ z.vaddr % PageSize = 0 /\ z.len % PageSize = 0
        /\ z.len > 0 /\ z.vaddr + z.len - 1 <= USER_HIGH
        /\ \A j \in DOMAIN zs[p] : i # j => ZonePages(z) \cap ZonePages(zs[p][j]) = {}

\* Every place a zone of n pages could be put.
Fits(z, n) ==
    {s \in {x \in 0 .. USER_HIGH : x % PageSize = 0} :
        /\ s + n - 1 <= USER_HIGH
        /\ \A i \in DOMAIN z : (s .. s + n - 1) \cap ZonePages(z[i]) = {}}

\* memzone_new_random finds the lowest place and memzone_new_random_backward
\* the highest, and neither fails while there is one.
PlacementExact ==
    \A p \in loaded : \A n \in {RoundPage(len) : len \in Lens} \ {0} :
        LET z == zs[p]  f == Fits(z, n)
            low == memzone_new_random(z, n, "mapped")
            high == memzone_new_random_backward(z, n, "mapped")
        IN /\ f = {} <=> low = z
           /\ f = {} <=> high = z
           /\ f # {} => /\ \A s \in f : Last(low).vaddr <= s /\ s <= Last(high).vaddr
                        /\ {Last(low).vaddr, Last(high).vaddr} \subseteq f

\* A process that was loaded has its stack, and page 0 is never given to mmap:
\* the zone that catches null pointers, or the program itself, holds it.
NullPageKept ==
    \A p \in loaded :
        /\ memzone_find(zs[p], 0) # 0
        /\ zs[p][memzone_find(zs[p], 0)].kind \notin {"mapped", "file"}
        /\ \E i \in DOMAIN zs[p] : zs[p][i].kind = "stack"
=============================================================================
