----------------------------- MODULE PageTables -----------------------------
(* The page tables of the 64-bit targets: vmm_setup, mapping, page faults,   *)
(* fork, which copies every page, and the freeing of address spaces          *)
(* (mem/bits64, vm_alloc.c), on the entries of module Mmu; and, in part      *)
(* "entry", one entry of any architecture under the operations on it.        *)
(*                                                                           *)
(* One processor, as vmm_setup_secondary_cpu fails on these targets.  All    *)
(* words of memory are entries: a page of user data is a table's worth of    *)
(* words nobody meant as entries.  Tables have two entries, those of pages   *)
(* four.  A step needs the frames it takes: the callers of pmm_alloc do not  *)
(* look at its result.                                                       *)
EXTENDS Mmu, Sequences, FiniteSetsExt

CONSTANTS PtArchs,    \* the 64-bit targets to check
          NRam,       \* frames of the physical memory, from 1
          PtSpaces,   \* address spaces of processes; 0 is the kernel's
          ZoneFlags,  \* ZoneFlags[v]: mmu_flags of the zone of user page v
          DevPage,    \* the user page a device may be mapped at
          StackPage,  \* the page a program touches first
          MaxMade     \* bound: spaces ever made

VARIABLES pt, ent

ptvars == <<pt, ent>>

UserPages == DOMAIN ZoneFlags \cup {DevPage}
Ram       == 1 .. NRam
DevFr     == NRam + 1
TableFlags == {"R", "W", "X", "U"}
KernFlags  == {"R", "W", "X"}

\* Entries of a table and pages an entry covers, at a level.
Count(lv) == IF lv = 0 THEN 4 ELSE 2
Cover(lv) == IF lv = 0 THEN 1 ELSE 2 ^ (lv + 1)
VM_VADDR_OFFSET_AT_LEVEL(v, lv) == (v \div Cover(lv)) % Count(lv)

\* The kernel's half: its image, the two directories and the directory of
\* space s, a heap page, and the window on physical memory.
KBase      == 16
IS_KERNEL_VADDR(v) == v >= KBase
KDir(s)    == KBase + 3 + s
KHeap      == KBase + 3
Window     == KBase + 8

\* A page of zeros, as memset leaves it, and one of data: words that would
\* be taken for entries that are present.
Blank  == [i \in 0 .. 3 |-> ZeroWord]
Marked == [i \in 0 .. 3 |-> [bits |-> {0, 1}, frame |-> 1]]

-----------------------------------------------------------------------------
(* Memory, as [mem, free]; pmm takes the first free frame.                   *)

First(st) == Min(st.free)

RECURSIVE vm_get_table_impl(_, _, _, _, _, _)
vm_get_table_impl(a, m, cur, v, lv, needlv) ==
    IF lv = needlv THEN cur
    ELSE LET e == m[cur][VM_VADDR_OFFSET_AT_LEVEL(v, lv)] IN
         IF vm_ptable_entity_is_present(a, e, lv)
         THEN vm_get_table_impl(a, m, e.frame, v, lv - 1, needlv)
         ELSE 0

\* The table of the kernel's half is shared where there are two, else copied.
DirOf(a, dirs, s, v) == IF Double(a) /\ IS_KERNEL_VADDR(v) THEN dirs.pdir1 ELSE dirs.pdir[s]

vm_get_table(a, m, dir, v, lv) == vm_get_table_impl(a, m, dir, v, LvTop(a), lv)

\* Mutant: a new table keeps what its frame held.
ZeroedNot(m, f) == m

\* memset of a new table.
Zeroed(m, f) == [m EXCEPT ![f] = Blank]

\* _vmm_map_page_locked_impl: tables down to the level of the mapping, then
\* _vmm_map_page_locked_lv0 or _vmm_map_huge_page_locked_lv.
RECURSIVE MapImpl(_, _, _, _, _, _, _, _)
MapImpl(a, st, dir, v, f, fl, lv, termlv) ==
    LET up  == vm_get_table(a, st.mem, dir, v, lv + 1)
        i   == VM_VADDR_OFFSET_AT_LEVEL(v, lv + 1)
        st1 == IF vm_ptable_entity_is_present(a, st.mem[up][i], lv + 1) THEN st
               ELSE [mem |-> Zeroed([st.mem EXCEPT ![up][i] =
                                        Entity(a, lv + 1, TableFlags, First(st))], First(st)),
                     free |-> st.free \ {First(st)}]
        tab == vm_get_table(a, st1.mem, dir, v, lv)
        own == IF lv = 0 THEN {"R"} ELSE {"R", "HUGE"}
    IN IF lv = termlv
       THEN [st1 EXCEPT !.mem[tab][VM_VADDR_OFFSET_AT_LEVEL(v, lv)] = Entity(a, lv, fl \cup own, f)]
       ELSE MapImpl(a, st1, dir, v, f, fl, lv - 1, termlv)

vmm_map_page_locked(a, st, dir, v, f, fl) == MapImpl(a, st, dir, v, f, fl, LvTop(a) - 1, 0)

\* vmm_map_huge_page_locked_impl; on arm64 the level is the top one.
MapHuge(a, st, dir, v, f, fl, termlv) ==
    IF termlv = LvTop(a)
    THEN [st EXCEPT !.mem[dir][VM_VADDR_OFFSET_AT_LEVEL(v, termlv)] =
                        Entity(a, termlv, fl \cup {"R", "HUGE"}, f)]
    ELSE MapImpl(a, st, dir, v, f, fl, LvTop(a) - 1, termlv)

\* vmm_alloc_page_no_fill_locked, and what fills the page.
AllocPage64(a, st, dir, v, fl) ==
    LET f == First(st) IN
    vmm_map_page_locked(a, [mem |-> Zeroed(st.mem, f), free |-> st.free \ {f}], dir, v, f, fl)

vmm_unmap_page_locked(a, st, dir, v) ==
    [st EXCEPT !.mem[vm_get_table(a, st.mem, dir, v, 0)][VM_VADDR_OFFSET_AT_LEVEL(v, 0)] = ZeroWord]

-----------------------------------------------------------------------------
(* Address spaces.                                                           *)

\* vm_alloc_kernel_pdir and vmm_create_kernel_ptables: the image in frame 1.
vmm_setup(a) ==
    LET st0  == [mem  |-> [f \in 0 .. DevFr |-> Blank],
                 free |-> Ram \ (IF Double(a) THEN {1, 2, 3} ELSE {1, 2})]
        dirs == [pdir |-> [s \in {0} |-> 2], pdir1 |-> IF Double(a) THEN 3 ELSE 0]
        dir  == DirOf(a, dirs, 0, KBase)
        st1  == vmm_map_page_locked(a, st0, dir, KBase, 1, KernFlags)
        st2  == vmm_map_page_locked(a, st1, dir, KBase + 1, 2, {"R", "W", "UC"})
        st3  == IF Double(a) THEN vmm_map_page_locked(a, st2, dir, KBase + 2, 3, {"R", "W", "UC"})
                ELSE st2
    IN [st |-> MapHuge(a, st3, dir, Window, 1, {"R", "W", "UC"}, 2), dirs |-> dirs]

\* PTABLE_TOP_KERNEL_OFFSET: the entries of a user's share of a table.
UserCount(a, lv) == IF lv = LvTop(a) /\ ~Double(a) THEN Count(lv) \div 2 ELSE Count(lv)

\* vm_alloc_ptable_lv_top maps the directory in a zone of the kernel, through
\* the active tables; vmm_copy_kernel_tables shares the kernel's half.
NewDirectory(a, st, dirs, act, s) ==
    LET f   == First(st)
        st1 == vmm_map_page_locked(a, [st EXCEPT !.free = @ \ {f}],
                                   DirOf(a, dirs, act, KDir(s)), KDir(s), f, {"R", "W", "UC"})
        new == [i \in 0 .. 3 |-> IF i \in UserCount(a, LvTop(a)) .. 1
                                 THEN st1.mem[dirs.pdir[0]][i] ELSE st1.mem[f][i]]
    IN [st |-> [st1 EXCEPT !.mem[f] = new], dir |-> f]

\* The page of a child: a frame of its own with the same content.
CopiedPage(m, e, f) == [m |-> [m EXCEPT ![f] = m[e.frame]], e |-> vm_ptable_entity_set_frame(e, f)]

\* _vmm_copy_of_aspace from entry i on.  A present page of a device zone is
\* skipped: the entry of the new table stays what the frame held.
RECURSIVE CopyTable(_, _, _, _, _, _, _)
CopyTable(a, st, old, new, v, lv, i) ==
    IF i = UserCount(a, lv) THEN st
    ELSE LET e   == st.mem[old][i]
             at  == v + i * Cover(lv)
             f   == First(st)
             pg  == CopiedPage(st.mem, e, f)
             st1 == CASE ~vm_ptable_entity_is_present(a, e, lv) ->
                           [st EXCEPT !.mem[new][i] = ZeroWord]
                      [] lv = 0 /\ at = DevPage -> st
                      [] lv = 0 -> [mem |-> [pg.m EXCEPT ![new][i] = pg.e], free |-> st.free \ {f}]
                      [] OTHER -> CopyTable(a, [mem |-> [st.mem EXCEPT ![new][i] =
                                                            vm_ptable_entity_set_frame(e, f)],
                                                free |-> st.free \ {f}],
                                            e.frame, f, at, lv - 1, 0)
         IN CopyTable(a, st1, old, new, v, lv, i + 1)

\* vm_pspace_free_ptable_locked and vm_pspace_free_page_locked; st.lost are
\* frames of pmm found in a device's zone, which are not given back.
RECURSIVE vm_pspace_free_ptable_locked(_, _, _, _, _, _)
vm_pspace_free_ptable_locked(a, st, tab, v, lv, i) ==
    IF i = UserCount(a, lv) THEN st
    ELSE LET e   == st.mem[tab][i]
             at  == v + i * Cover(lv)
             st1 == IF lv = 0 THEN st
                    ELSE vm_pspace_free_ptable_locked(a, st, e.frame, at, lv - 1, 0)
             st2 == CASE ~vm_ptable_entity_is_present(a, e, lv) -> st
                      [] lv = 0 /\ at = DevPage ->
                            [st EXCEPT !.mem[tab][i] = ZeroWord, !.lost = @ \cup ({e.frame} \cap Ram)]
                      [] OTHER -> [st1 EXCEPT !.mem[tab][i] = ZeroWord, !.free = @ \cup {e.frame}]
         IN vm_pspace_free_ptable_locked(a, st2, tab, v, lv, i + 1)

-----------------------------------------------------------------------------
(* The hardware's walk.                                                      *)

NoPage == [ok |-> FALSE, frame |-> 0, u |-> FALSE, w |-> FALSE]

RECURSIVE WalkFrom(_, _, _, _, _, _, _)
WalkFrom(a, m, cur, v, lv, u, w) ==
    LET e  == m[cur][VM_VADDR_OFFSET_AT_LEVEL(v, lv)]
        k  == HwKind(a, e, lv)
        u1 == u /\ HwUser(a, e, lv)
        w1 == w /\ HwWritable(a, e, lv)
    IN CASE k = "fault" -> NoPage
         [] k = "page"  -> [ok |-> TRUE, u |-> u1, w |-> w1,
                            frame |-> e.frame + (v % Cover(lv))]
         [] OTHER       -> WalkFrom(a, m, e.frame, v, lv - 1, u1, w1)

Walk(s, v) == WalkFrom(pt.arch, pt.mem, DirOf(pt.arch, pt.dirs, s, v), v, LvTop(pt.arch), TRUE, TRUE)

-----------------------------------------------------------------------------
(* Actions.  want[s][v] is what the process stored.                          *)

NoWant == [v \in UserPages |-> Blank]

PtInit ==
    \E a \in PtArchs :
        LET k == vmm_setup(a) IN
        pt = [arch |-> a, mem |-> k.st.mem, free |-> k.st.free, dirs |-> k.dirs, act |-> 0,
              live |-> {}, dev |-> {}, devok |-> {}, lost |-> {}, want |-> <<>>, heap |-> FALSE, made |-> 0]

\* Frames enough for the longest step.
Enough == Cardinality(pt.free) >= 2 * (LvTop(pt.arch) + 1) + 4

\* Slots are taken from the lowest.
FreeSlot == Min((PtSpaces \ pt.live) \cup {1 + Max(PtSpaces)})

State(st) == [mem |-> st.mem, free |-> st.free]

\* vmm_new_address_space of exec, which then switches to it.  Bound: only the
\* first program, and one after all have ended, is started this way.
NewSpace(s) ==
    LET a == pt.arch
        n == NewDirectory(a, State(pt), pt.dirs, pt.act, s)
    IN
    /\ s = FreeSlot /\ Enough /\ pt.made < MaxMade /\ pt.live = {}
    /\ pt' = [pt EXCEPT !.made = @ + 1, !.mem = [n.st.mem EXCEPT ![n.dir] =
                                    [i \in 0 .. 3 |-> IF i < UserCount(a, LvTop(a))
                                                      THEN ZeroWord ELSE @[i]]],
                        !.free = n.st.free, !.act = s, !.live = @ \cup {s},
                        !.dirs.pdir = [x \in DOMAIN @ \cup {s} |-> IF x = s THEN n.dir ELSE @[x]],
                        !.want = [x \in DOMAIN @ \cup {s} |-> IF x = s THEN NoWant ELSE @[x]]]

\* vmm_new_forked_address_space; the zones are copied afterwards.
ForkSpace(s) ==
    LET a == pt.arch
        n == NewDirectory(a, State(pt), pt.dirs, pt.act, s)
        c == CopyTable(a, n.st, pt.dirs.pdir[pt.act], n.dir, 0, LvTop(a), 0)
    IN
    /\ pt.act # 0 /\ s = FreeSlot /\ Enough /\ pt.made < MaxMade
    /\ pt' = [pt EXCEPT !.made = @ + 1, !.mem = c.mem, !.free = c.free, !.live = @ \cup {s},
                        !.dev = IF pt.act \in @ THEN @ \cup {s} ELSE @,
                        !.dirs.pdir = [x \in DOMAIN @ \cup {s} |-> IF x = s THEN n.dir ELSE @[x]],
                        !.want = [x \in DOMAIN @ \cup {s} |-> IF x = s THEN @[pt.act] ELSE @[x]]]

\* vmm_free_address_space: the freed space is active meanwhile, then the one
\* before it, or the kernel's; last the directory and its zone.
FreeSpace(s) ==
    LET a   == pt.arch
        dir == pt.dirs.pdir[s]
        f   == vm_pspace_free_ptable_locked(
                   a, [mem |-> pt.mem, free |-> pt.free, lost |-> pt.lost], dir, 0, LvTop(a), 0)
        now == IF pt.act = s THEN 0 ELSE pt.act
        u   == vmm_unmap_page_locked(a, State(f), DirOf(a, pt.dirs, now, KDir(s)), KDir(s))
    IN
    /\ s \in pt.live
    /\ pt' = [pt EXCEPT !.mem = u.mem, !.free = u.free \cup {dir},
                        !.lost = f.lost, !.act = now, !.live = @ \ {s},
                        !.dev = @ \ {s}, !.devok = @ \ {s},
                        !.dirs.pdir = [x \in DOMAIN @ \ {s} |-> @[x]],
                        !.want = [x \in DOMAIN @ \ {s} |-> @[x]]]

SwitchSpace(s) == s \in pt.live \ {pt.act} /\ pt' = [pt EXCEPT !.act = s]

\* A driver's mmap maps its buffer in a zone of type DEVICE.  Bounds: the first
\* program does it before all else, and the second touches the heap page below
\* while it has at most its stack.
MapDevice ==
    LET st == vmm_map_page_locked(pt.arch, State(pt), pt.dirs.pdir[pt.act], DevPage, DevFr,
                                  {"R", "W", "U"})
    IN
    /\ pt.act # 0 /\ pt.act \notin pt.dev /\ Enough /\ pt.made = 1
    /\ ~Walk(pt.act, StackPage).ok
    /\ pt' = [pt EXCEPT !.mem = st.mem, !.free = st.free, !.dev = @ \cup {pt.act},
                        !.devok = @ \cup {pt.act}]

ZoneOf(s, v) ==
    CASE v \in DOMAIN ZoneFlags -> ZoneFlags[v]
      [] s \in pt.dev -> {"R", "W", "U"}
      [] OTHER -> {}

\* An access of user code that the tables allow.
UserAccess(v) ==
    LET w == Walk(pt.act, v) IN
    /\ pt.act # 0 /\ w.ok /\ w.u /\ w.w /\ v = StackPage
    /\ pt.want[pt.act][v] # Marked
    /\ pt' = [pt EXCEPT !.mem[w.frame] = Marked, !.want[pt.act][v] = Marked]

\* An access that faults.  The handler resolves an absent page; it returns an
\* error for a refused store (no copy on write here), for a page in no zone
\* and for other refusals: the process gets a SIGSEGV, and its space is freed
\* when it is.  A refused access taken for an absent page is tried again.
UserFault(v, write) ==
    LET a    == pt.arch
        s    == pt.act
        w    == Walk(s, v)
        info == vm_arch_parse_pf_info(a, HwPfInfo(a, ~w.ok, write))
        tab  == vm_get_table(a, pt.mem, pt.dirs.pdir[s], v, 0)
        here == tab # 0 /\ vm_ptable_entity_is_present(
                              a, pt.mem[tab][VM_VADDR_OFFSET_AT_LEVEL(v, 0)], 0)
        st   == AllocPage64(a, State(pt), pt.dirs.pdir[s], v, ZoneOf(s, v))
    IN
    /\ s # 0 /\ (v # StackPage => Walk(s, StackPage).ok)
    /\ ~(w.ok /\ w.u /\ (write => w.w)) /\ Enough
    /\ IF "absent" \in info /\ ~here /\ ZoneOf(s, v) # {}
       THEN pt' = [pt EXCEPT !.mem = st.mem, !.free = st.free]
       ELSE IF "absent" \in info /\ here THEN UNCHANGED pt
       ELSE FreeSpace(s)

\* vm_alloc_kernel_page_locked for a heap page, in the tables of whoever runs.
KernelFault ==
    LET st == AllocPage64(pt.arch, State(pt), DirOf(pt.arch, pt.dirs, pt.act, KHeap), KHeap, KernFlags)
    IN
    /\ ~pt.heap /\ Enough /\ pt.act = 2
    /\ pt.live = {1, 2} /\ \A v \in UserPages \ {StackPage} : ~Walk(2, v).ok
    /\ pt' = [pt EXCEPT !.mem = st.mem, !.free = st.free, !.heap = TRUE]

PtNext ==
    /\ \/ \E s \in PtSpaces : NewSpace(s) \/ ForkSpace(s) \/ FreeSpace(s) \/ SwitchSpace(s)
       \/ MapDevice \/ KernelFault
       \/ \E v \in UserPages : UserAccess(v) \/ (\E w \in BOOLEAN : UserFault(v, w))
    /\ UNCHANGED ent

-----------------------------------------------------------------------------
(* Part "entry": one entry, with the flags and the frame it was given since  *)
(* its defaults; ro: PERM_WRITE was removed.                                 *)

EntInit == \E a \in Archs, lv \in 0 .. 1 :
    ent = [arch |-> a, lv |-> lv, e |-> ZeroWord, fl |-> {}, set |-> FALSE, ro |-> FALSE, fr |-> 0]

EntDefault ==
    ent' = [ent EXCEPT !.e = vm_ptable_entity_set_default_flags(ent.arch, ent.lv),
                       !.fl = {}, !.set = TRUE, !.ro = FALSE, !.fr = 0]

EntSet(fl) ==
    /\ ent.set /\ "R" \in fl
    /\ ent' = [ent EXCEPT !.e = vm_ptable_entity_set_mmu_flags(ent.arch, @, ent.lv, fl),
                          !.fl = @ \cup fl, !.ro = @ /\ "W" \notin fl]

\* As fork on 32 bits does with the user pages of a table it shares.
EntReadOnly ==
    /\ ent.set /\ ent.lv = 0 /\ {"R", "U"} \subseteq ent.fl
    /\ ent' = [ent EXCEPT !.e = vm_ptable_entity_rm_mmu_flags(ent.arch, @, ent.lv, {"W"}),
                          !.fl = @ \ {"W"}, !.ro = TRUE]

EntAllocated ==
    /\ ent.lv = 1 /\ ent.arch # "arm64"
    /\ ent' = [ent EXCEPT !.e = vm_ptable_entity_allocated(ent.arch, @),
                          !.fl = {}, !.set = FALSE, !.ro = FALSE, !.fr = 0]

EntFrame(f) == ent' = [ent EXCEPT !.e = vm_ptable_entity_set_frame(@, f), !.fr = f]

EntInvalidate == ent' = [ent EXCEPT !.e = ZeroWord, !.fl = {}, !.set = FALSE, !.ro = FALSE, !.fr = 0]

EntNext ==
    /\ \/ EntDefault \/ EntReadOnly \/ EntAllocated \/ EntInvalidate
       \/ \E fl \in SUBSET {"R", "W", "U", "UC"} \cup {{"COW", "R"}} : EntSet(fl)
       \/ EntFrame(1)
    /\ UNCHANGED pt

-----------------------------------------------------------------------------
\* An entry that was made present grants user code what its flags say: access
\* iff NONPRIV, stores if PERM_WRITE; it refuses stores once PERM_WRITE was
\* removed, and on x86 whenever it was not given.  On riscv64 every page can
\* be stored to.  Changing the flags keeps the frame, and a table that is only
\* allocated faults.
EntrySound ==
    LET a == ent.arch  e == ent.e  lv == ent.lv  fl == ent.fl IN
    /\ e.frame = ent.fr
    /\ ent.set /\ "R" \in fl =>
          /\ vm_ptable_entity_is_present(a, e, lv)
          /\ HwKind(a, e, lv) = (IF lv = 0 THEN "page" ELSE "table")
          /\ "U" \in fl => HwUser(a, e, lv)
          /\ lv = 0 => (HwUser(a, e, lv) => "U" \in fl)
          /\ "W" \in fl => HwWritable(a, e, lv)
          /\ lv = 0 /\ "U" \in fl /\ "W" \notin fl
                => (HwWritable(a, e, lv) => a = "riscv64" \/ (a \in {"arm32", "arm64"} /\ ~ent.ro))
          /\ lv = 1 /\ a \in {"i386", "arm32"}
                => ("COW" \in fl <=> "COW" \in vm_arch_to_mmu_flags(a, e.bits, lv))
    /\ ~ent.set => ~vm_ptable_entity_is_present(a, e, lv) /\ HwKind(a, e, lv) = "fault"

\* The frames of a space's tables and pages; those of a device's page are not
\* looked at.
RECURSIVE Reach(_, _, _)
Reach(cur, v, lv) ==
    {cur} \cup UNION {LET e == pt.mem[cur][i]  at == v + i * Cover(lv) IN
                      CASE ~vm_ptable_entity_is_present(pt.arch, e, lv) \/ at = DevPage -> {}
                        [] lv = 0 -> {e.frame}
                        [] OTHER  -> Reach(e.frame, at, lv - 1)
                     : i \in 0 .. UserCount(pt.arch, lv) - 1}

SpaceFrames(s) == Reach(pt.dirs.pdir[s], 0, LvTop(pt.arch))

\* The kernel's tables and pages, without the window.
KernelFrames ==
    LET a   == pt.arch
        dir == DirOf(a, pt.dirs, 0, KBase)
        lv1 == vm_get_table(a, pt.mem, dir, KBase, 1)
    IN {pt.dirs.pdir[0], dir, 1} \cup {vm_get_table(a, pt.mem, dir, KBase, lv) : lv \in 0 .. 2}
         \cup {Walk(0, KBase + i).frame : i \in 0 .. 7}
         \cup {vm_get_table(a, pt.mem, dir, KBase + 4 * i, 0) : i \in 0 .. 1}

\* Every frame has one owner: a space, the kernel or the allocator.  Faults,
\* forks and exits neither give a frame to two of them nor lose one, but for
\* frames that a fault put in a device's zone.
FramesOwned ==
    LET k   == KernelFrames
        own == [s \in pt.live |-> SpaceFrames(s)]
        all == k \cup UNION {own[s] : s \in pt.live}
    IN /\ \A s, t \in pt.live : s # t => own[s] \cap own[t] = {}
       /\ \A s \in pt.live : own[s] \cap k = {pt.dirs.pdir[s]}
       /\ all \cap pt.free = {}
       /\ Ram \subseteq pt.free \cup all \cup pt.lost \cup {Walk(s, DevPage).frame : s \in pt.dev}

\* The walk of the hardware finds, in every space, what its process stored, in
\* pages user code may use as their zone says, and nothing where no zone is;
\* the kernel's half is the same in all spaces and its pages are its own.  A
\* child's view of a device its parent had mapped is left open.
TablesTranslate ==
    /\ \A s \in pt.live, v \in DOMAIN ZoneFlags :
          LET w == Walk(s, v) IN
          IF w.ok
          THEN /\ w.u /\ w.frame \in Ram /\ pt.mem[w.frame] = pt.want[s][v]
               /\ "W" \in ZoneFlags[v] => w.w
               /\ w.w => "W" \in ZoneFlags[v] \/ pt.arch # "x86_64"
          ELSE pt.want[s][v] = Blank
    /\ \A s \in pt.live : /\ s \in pt.devok => Walk(s, DevPage).frame = DevFr
                          /\ s \notin pt.dev => ~Walk(s, DevPage).ok
                          /\ ~Walk(s, DevPage + 1).ok
    /\ LET k == [i \in 0 .. 15 |-> Walk(0, KBase + i)] IN
       /\ \A s \in pt.live, i \in 0 .. 15 : Walk(s, KBase + i) = k[i]
       /\ \A i \in 0 .. 7 : ~k[i].u /\ k[i + 8].frame = 1 + i
       /\ k[1].frame = pt.dirs.pdir[0]
       /\ \A s \in pt.live : k[KDir(s) - KBase].frame = pt.dirs.pdir[s]
=============================================================================
