-------------------------------- MODULE Vmm --------------------------------
(* The virtual memory of user processes on a 32-bit target: page directory   *)
(* and page tables in physical frames, demand paging, fork with copy on      *)
(* write, exec, exit, the copy functions between kernel and user memory, and *)
(* kswapd with the swap file.                                                *)
(*                                                                           *)
(* One processor that is not preempted in the kernel (PREEMPT_KERNEL unset): *)
(* cpu is the process that runs kernel code, and it gives the processor up   *)
(* only in _vmm_sleep_locked, when the physical allocator has no frame.      *)
(* Every allocation is a step of its own, so other processes and kswapd run  *)
(* between the steps of a sleeper.  One page table fills one page (x86); the *)
(* pspace, which only gives the kernel a window on the active tables, is the *)
(* frame vm_pspace_gen takes.  Page contents are opaque values.              *)
EXTENDS Integers, Sequences, FiniteSets, FiniteSetsExt

CONSTANTS NProcs,     \* process slots; slot 1 runs at boot
          NTables,    \* user entries of a page directory
          NIdx,       \* entries of a page table
          NFrames,    \* the largest memory of any boot
          Boots,      \* [ram, swap, spaces]: frames of pmm; is there a swap file;
                      \* bound on the address spaces fork and exec make
          ZoneKind,   \* [Pages -> {"anon", "text", "dev", "none"}]
          Values, Zero, FileData,
          KswapdPerPid, KswapdPerRun, KswapdFailed,   \* kswapd.c's thresholds
          MaxSwap     \* bound: pages ever written to the swap file

Procs    == 1 .. NProcs
Tables   == 1 .. NTables
Idx      == 1 .. NIdx
Frames   == 1 .. NFrames
DevFrame == NFrames + 1            \* bga_buf_paddr: not a frame of pmm
Pages    == Tables \X Idx

\* The page tables the first process has for its device pages.
DevTables == {t \in Tables : \E i \in Idx : ZoneKind[<<t, i>>] = "dev"}

ASSUME VmmAssumption ==
    /\ NProcs \in Nat \ {0} /\ NTables \in Nat \ {0} /\ NIdx \in Nat \ {0}
    /\ NFrames \in Nat \ {0} /\ MaxSwap \in Nat
    /\ ZoneKind \in [Pages -> {"anon", "text", "dev", "none"}]
    /\ {Zero, FileData} \subseteq Values
    /\ \A b \in Boots : /\ b.ram \in 2 .. NFrames /\ b.swap \in BOOLEAN /\ b.spaces \in Nat
                       /\ \A t \in DevTables : 2 + t <= b.ram

VARIABLES boot,       \* the machine: chosen once, never changes
          live,       \* slots whose process is alive
          pdir,       \* pdir[p][t]: directory entry, [tab, cow]; tab 0: absent
          base,       \* base[p]: frames of p's page directory and pspace
          table,      \* table[f]: the page table in frame f
          mem,        \* mem[f]: the page content in frame f
          free,       \* free frames of pmm
          swap,       \* contents of the swap file, one page per element
          k,          \* k[p]: what process p is doing in the kernel
          cpu,        \* the process running kernel code, or 0
          ksw,        \* kswapd: awake, last_pid, pages moved per pid and run
          devz,       \* processes whose zones include the device's
          spaces,     \* address spaces made so far, for boot.spaces
          halted      \* the failed assertion the kernel stopped at, or ""

vars == <<boot, live, pdir, base, table, mem, free, swap, k, cpu, ksw, devz, spaces, halted>>

None    == [st |-> "none", ref |-> 0, w |-> FALSE]
NoTable == [tab |-> 0, cow |-> FALSE]
Empty   == [i \in Idx |-> None]
Idle    == [at |-> "user"]
Asleep  == [awake |-> FALSE, pid |-> 1, perpid |-> 0, run |-> 0]

-----------------------------------------------------------------------------
\* vm_get_entity at PTABLE_LV0; None also when the table is absent.
Entry(p, pg) ==
    IF pdir[p][pg[1]].tab = 0 THEN None ELSE table[pdir[p][pg[1]].tab][pg[2]]

vmm_is_page_present(p, pg) == Entry(p, pg).st = "present"
vmm_is_page_swapped(p, pg) == Entry(p, pg).st = "swapped"

\* Only directory entries ever carry MMU_FLAG_COW.
vmm_is_copy_on_write(p, pg) == pdir[p][pg[1]].cow

\* memzone_find: exec drops the zones, so the device's is not in every process.
Zone(p, pg) ==
    IF ZoneKind[pg] = "dev" /\ p \notin devz THEN "none" ELSE ZoneKind[pg]

\* zone->mmu_flags: text is mapped without write permission.
ZoneWrites(pg) == ZoneKind[pg] \in {"anon", "dev"}

\* What a page holds before the first store: load_page_content or memset.
Loaded(pg) == IF ZoneKind[pg] = "text" THEN FileData ELSE Zero

\* A frame is overwritten whenever it is allocated; the model forgets what a
\* freed one held.
Forget(m, fs) == [f \in DOMAIN m |-> IF f \in fs THEN Zero ELSE m[f]]

\* pmm_alloc_aligned of one page takes the first free one.
NextFrame == Min(free)

Goto(p, job) == cpu' = p /\ k' = [k EXCEPT ![p] = job]
Leave(p)      == cpu' = 0 /\ k' = [k EXCEPT ![p] = Idle]

Runs(p)    == halted = "" /\ (cpu = p \/ (cpu = 0 /\ k[p] # Idle))
InUser(p)  == halted = "" /\ cpu = 0 /\ p \in live /\ k[p] = Idle

\* A job of the kernel for one page: as is the active address space, then
\* what follows the resolving of copy on write, last what follows the page.
Job(p, as, pg, at, then, last, v) ==
    [at |-> at, as |-> as, pg |-> pg, then |-> then, last |-> last, val |-> v,
     src |-> Empty, idx |-> 1, spare |-> 0]

-----------------------------------------------------------------------------
(* The processor's view.                                                     *)

UserStore(p, pg, v) ==
    /\ InUser(p)
    /\ vmm_is_page_present(p, pg) /\ Entry(p, pg).w
    /\ mem' = [mem EXCEPT ![Entry(p, pg).ref] = v]
    /\ UNCHANGED <<boot, spaces, devz, live, pdir, base, table, free, swap, k, cpu, ksw, halted>>

\* vmm_page_fault_handler for a page that is absent: copy on write first.
FaultNotPresent(p, pg) ==
    /\ InUser(p)
    /\ ~vmm_is_page_present(p, pg)
    /\ Goto(p, Job(p, p, pg,
                    IF vmm_is_copy_on_write(p, pg) THEN "src" ELSE "absent",
                    "absent", "return", Zero))
    /\ UNCHANGED <<boot, spaces, devz, live, pdir, base, table, mem, free, swap, ksw, halted>>

\* vmm_page_fault_handler for a store to a page mapped without permission.
FaultOnWriting(p, pg) ==
    /\ InUser(p)
    /\ vmm_is_page_present(p, pg) /\ ~Entry(p, pg).w
    /\ Goto(p, Job(p, p, pg,
                    IF vmm_is_copy_on_write(p, pg) THEN "src" ELSE "fail",
                    "return", "return", Zero))
    /\ UNCHANGED <<boot, spaces, devz, live, pdir, base, table, mem, free, swap, ksw, halted>>

(* The kernel's accesses to user memory.  The environment hands the kernel   *)
(* pointers into zones of the process, writable ones to store through.       *)

\* umem_copy_to_user (q = p), and vmm_copy_to_address_space into another
\* process q for a signal: the space of q becomes the active one.
KernelStore(p, q, pg, v) ==
    /\ InUser(p) /\ q \in live /\ k[q] = Idle
    /\ ZoneKind[pg] = "anon"
    /\ Goto(p, Job(p, q, pg,
                    IF vmm_is_copy_on_write(q, pg) THEN "src" ELSE "check",
                    "check", "store", v))
    /\ UNCHANGED <<boot, spaces, devz, live, pdir, base, table, mem, free, swap, ksw, halted>>

\* umem_copy_from_user: _vmm_ensure_read_from_page does not look at copy on
\* write, and vmm_resolve_page_not_present_locked asserts that it did.
KernelLoad(p, pg) ==
    /\ InUser(p)
    /\ Zone(p, pg) # "none"
    /\ ~vmm_is_page_present(p, pg)
    /\ IF vmm_is_copy_on_write(p, pg)
       THEN halted' = "cow" /\ UNCHANGED <<k, cpu>>
       ELSE Goto(p, Job(p, p, pg, "absent", "return", "return", Zero))
            /\ UNCHANGED halted
    /\ UNCHANGED <<boot, spaces, devz, live, pdir, base, table, mem, free, swap, ksw>>

-----------------------------------------------------------------------------
(* vmm_resolve_copy_on_write.                                                *)

\* The zone for the copy of the table, the copy, and the invalidation of the
\* directory entry by _vmm_force_allocate_ptable_locked.
ResolveSource(p) ==
    LET j == k[p] IN
    /\ Runs(p) /\ j.at = "src" /\ free # {}
    /\ Goto(p, [j EXCEPT !.at = "tab", !.spare = NextFrame,
                         !.src = table[pdir[j.as][j.pg[1]].tab]])
    /\ pdir' = [pdir EXCEPT ![j.as][j.pg[1]] = NoTable]
    /\ free' = free \ {NextFrame}
    /\ UNCHANGED <<boot, spaces, devz, live, base, table, mem, swap, ksw, halted>>

\* _vmm_allocate_ptable_locked: the new, empty table.
ResolveTable(p) ==
    LET j == k[p] IN
    /\ Runs(p) /\ j.at = "tab" /\ free # {}
    /\ Goto(p, [j EXCEPT !.at = "copy"])
    /\ pdir' = [pdir EXCEPT ![j.as][j.pg[1]] = [tab |-> NextFrame, cow |-> FALSE]]
    /\ table' = [table EXCEPT ![NextFrame] = Empty]
    /\ free' = free \ {NextFrame}
    /\ UNCHANGED <<boot, spaces, devz, live, base, mem, swap, ksw, halted>>

\* Does the next page of the old table need a frame of its own?
CopiesPage(j) ==
    /\ j.at = "copy" /\ j.idx <= NIdx
    /\ j.src[j.idx].st = "present"
    /\ ZoneKind[<<j.pg[1], j.idx>>] # "dev"

\* Mutant: the new table maps the old frame.
ResolvePageSameFrame(p) ==
    LET j   == k[p]
        e   == j.src[j.idx]
        tab == pdir[j.as][j.pg[1]].tab
    IN
    /\ Runs(p) /\ CopiesPage(j) /\ free # {}
    /\ Goto(p, [j EXCEPT !.idx = @ + 1])
    /\ table' = [table EXCEPT ![tab][j.idx] = [e EXCEPT !.w = ZoneWrites(<<j.pg[1], j.idx>>)]]
    /\ UNCHANGED <<boot, spaces, devz, live, pdir, base, mem, free, swap, ksw, halted>>

\* _vmm_copy_page_to_resolve_cow, with the entry's new mapping.
ResolvePage(p) ==
    LET j   == k[p]
        e   == j.src[j.idx]
        tab == pdir[j.as][j.pg[1]].tab
        new == [e EXCEPT !.ref = NextFrame, !.w = ZoneWrites(<<j.pg[1], j.idx>>)]
    IN
    /\ Runs(p) /\ CopiesPage(j) /\ free # {}
    /\ Goto(p, [j EXCEPT !.idx = @ + 1])
    /\ table' = [table EXCEPT ![tab][j.idx] = new]
    /\ mem' = [mem EXCEPT ![NextFrame] = mem[e.ref]]
    /\ free' = free \ {NextFrame}
    /\ UNCHANGED <<boot, spaces, devz, live, pdir, base, swap, ksw, halted>>

\* Entries that need no frame: swapped ones are copied (swapfile_new_ref does
\* nothing), device pages keep their frame, absent ones stay absent.
ResolveEntry(p) ==
    LET j   == k[p]
        e   == j.src[j.idx]
        tab == pdir[j.as][j.pg[1]].tab
        new == IF e.st = "present" THEN [e EXCEPT !.w = TRUE] ELSE e
    IN
    /\ Runs(p) /\ j.at = "copy" /\ j.idx <= NIdx /\ ~CopiesPage(j)
    /\ Goto(p, [j EXCEPT !.idx = @ + 1])
    /\ table' = [table EXCEPT ![tab][j.idx] = new]
    /\ UNCHANGED <<boot, spaces, devz, live, pdir, base, mem, free, swap, ksw, halted>>

\* vm_free_mapped_zone of the copy; the old table is left to its other users.
ResolveDone(p) ==
    LET j == k[p] IN
    /\ Runs(p) /\ j.at = "copy" /\ j.idx > NIdx
    /\ Goto(p, [j EXCEPT !.at = j.then, !.spare = 0, !.src = Empty, !.idx = 1])
    /\ free' = free \cup {j.spare}
    /\ UNCHANGED <<boot, spaces, devz, live, pdir, base, table, mem, swap, ksw, halted>>

-----------------------------------------------------------------------------
(* vmm_resolve_page_not_present_locked and what follows.                     *)

\* _vmm_ensure_write_to_page, after copy on write: is the page there?
EnsurePresent(p) ==
    LET j == k[p] IN
    /\ Runs(p) /\ j.at = "check"
    /\ Goto(p, [j EXCEPT !.at = IF vmm_is_page_present(j.as, j.pg)
                                THEN j.last ELSE "absent"])
    /\ UNCHANGED <<boot, spaces, devz, live, pdir, base, table, mem, free, swap, ksw, halted>>

\* No zone: -EFAULT.
FindZone(p) ==
    LET j == k[p] IN
    /\ Runs(p) /\ j.at = "absent"
    /\ Goto(p, [j EXCEPT !.at = IF Zone(j.as, j.pg) = "none" THEN "fail" ELSE "page"])
    /\ UNCHANGED <<boot, spaces, devz, live, pdir, base, table, mem, free, swap, ksw, halted>>

\* Mutant: a swapped page is filled like a new one.
MapAndFillNew(tables, tab, f, pg) ==
    /\ table' = [tables EXCEPT ![tab][pg[2]] =
                    [st |-> "present", ref |-> f, w |-> ZoneWrites(pg)]]
    /\ mem' = [mem EXCEPT ![f] = Loaded(pg)]

\* vmm_map_page_locked of frame f in table tab, then swapfile_load, the zone's
\* load_page_content, or memset.
MapAndFill(tables, tab, f, pg) ==
    LET e == tables[tab][pg[2]] IN
    /\ table' = [tables EXCEPT ![tab][pg[2]] =
                    [st |-> "present", ref |-> f, w |-> ZoneWrites(pg)]]
    /\ mem' = [mem EXCEPT ![f] = IF e.st = "swapped" THEN swap[e.ref] ELSE Loaded(pg)]

\* vmm_alloc_page_no_fill_locked: the page's frame, and the mapping when the
\* table is there.
AllocPage(p) ==
    LET j == k[p]  tab == pdir[j.as][j.pg[1]].tab IN
    /\ Runs(p) /\ j.at = "page" /\ free # {}
    /\ free' = free \ {NextFrame}
    /\ IF tab = 0
       THEN /\ Goto(p, [j EXCEPT !.at = "ptab", !.spare = NextFrame])
            /\ UNCHANGED <<table, mem>>
       ELSE /\ Goto(p, [j EXCEPT !.at = j.last])
            /\ MapAndFill(table, tab, NextFrame, j.pg)
    /\ UNCHANGED <<boot, spaces, devz, live, pdir, base, swap, ksw, halted>>

\* vmm_map_page_locked finds no table and allocates one.
AllocTable(p) ==
    LET j == k[p] IN
    /\ Runs(p) /\ j.at = "ptab" /\ free # {}
    /\ free' = free \ {NextFrame}
    /\ pdir' = [pdir EXCEPT ![j.as][j.pg[1]] = [tab |-> NextFrame, cow |-> FALSE]]
    /\ MapAndFill([table EXCEPT ![NextFrame] = Empty], NextFrame, j.spare, j.pg)
    /\ Goto(p, [j EXCEPT !.at = j.last, !.spare = 0])
    /\ UNCHANGED <<boot, spaces, devz, live, base, swap, ksw, halted>>

Return(p) ==
    /\ Runs(p) /\ k[p].at = "return"
    /\ Leave(p)
    /\ UNCHANGED <<boot, spaces, devz, live, pdir, base, table, mem, free, swap, ksw, halted>>

\* The memcpy after the page was made ready.
CopyToUser(p) ==
    LET j == k[p] IN
    /\ Runs(p) /\ j.at = "store"
    /\ mem' = [mem EXCEPT ![Entry(j.as, j.pg).ref] = j.val]
    /\ Leave(p)
    /\ UNCHANGED <<boot, spaces, devz, live, pdir, base, table, free, swap, ksw, halted>>

-----------------------------------------------------------------------------
(* Address spaces.                                                           *)

\* Mutant: tables marked copy on write are freed as well.
OwnedShared(p) ==
    LET own == {t \in Tables : pdir[p][t].tab # 0} IN
    base[p] \cup {pdir[p][t].tab : t \in own}
            \cup {table[pdir[p][pg[1]].tab][pg[2]].ref :
                    pg \in {x \in own \X Idx : /\ ZoneKind[x] # "dev"
                                               /\ Entry(p, x).st = "present"}}

\* vm_pspace_free_address_space_locked: tables marked copy on write are
\* skipped, device frames are not pmm's.
Owned(p) ==
    LET own == {t \in Tables : pdir[p][t].tab # 0 /\ ~pdir[p][t].cow} IN
    base[p] \cup {pdir[p][t].tab : t \in own}
            \cup {table[pdir[p][pg[1]].tab][pg[2]].ref :
                    pg \in {x \in own \X Idx : /\ ZoneKind[x] # "dev"
                                               /\ Entry(p, x).st = "present"}}

\* _tasking_alloc_proc gives every fork a slot of its own.
Forking(q, c) == k[q].at = "pdir" /\ k[q].then = "fork" /\ k[q].idx = c

\* proc_fork_from and sys_exec start with a page directory for the new space.
StartSpace(p, what, c) ==
    /\ InUser(p)
    /\ spaces < boot.spaces /\ spaces' = spaces + 1
    /\ IF what = "fork" THEN c \notin live /\ \A q \in Procs : ~Forking(q, c) ELSE c = p
    /\ Goto(p, [Job(p, p, <<1, 1>>, "pdir", what, "return", Zero) EXCEPT !.idx = c])
    /\ UNCHANGED <<boot, devz, live, pdir, base, table, mem, free, swap, ksw, halted>>

\* vm_pspace_gen asserts that it gets the second frame.
PspaceFails(p) ==
    /\ Runs(p) /\ k[p].at = "pdir" /\ Cardinality(free) = 1
    /\ halted' = "pspace"
    /\ UNCHANGED <<boot, spaces, devz, live, pdir, base, table, mem, free, swap, k, cpu, ksw>>

TwoFrames == {NextFrame, Min(free \ {NextFrame})}

\* _vmm_tables_set_cow on an entry of the shared table.
ReadOnly(e) == IF e.st = "present" THEN [e EXCEPT !.w = FALSE] ELSE e

\* vmm_fill_up_forked_address_space and memzone_copy.
Fork(p) ==
    LET j == k[p]
        shared == {t \in Tables : pdir[p][t].tab # 0}
        both == [t \in Tables |-> [tab |-> pdir[p][t].tab, cow |-> t \in shared]]
    IN
    /\ Runs(p) /\ j.at = "pdir" /\ j.then = "fork" /\ Cardinality(free) >= 2
    /\ live' = live \cup {j.idx}
    /\ devz' = IF p \in devz THEN devz \cup {j.idx} ELSE devz
    /\ base' = [base EXCEPT ![j.idx] = TwoFrames]
    /\ pdir' = [pdir EXCEPT ![p] = both, ![j.idx] = both]
    /\ table' = [f \in Frames |->
                   IF \E t \in shared : pdir[p][t].tab = f
                   THEN [i \in Idx |-> ReadOnly(table[f][i])] ELSE table[f]]
    /\ free' = free \ TwoFrames
    /\ Leave(p)
    /\ UNCHANGED <<boot, spaces, mem, swap, ksw, halted>>

\* proc_load_locked: the new space replaces the old one, which is freed; when
\* elf_load fails the new one is freed and nothing has changed.
Exec(p) ==
    /\ Runs(p) /\ k[p].at = "pdir" /\ k[p].then = "exec" /\ Cardinality(free) >= 2
    /\ \/ /\ base' = [base EXCEPT ![p] = TwoFrames]
          /\ pdir' = [pdir EXCEPT ![p] = [t \in Tables |-> NoTable]]
          /\ devz' = devz \ {p}
          /\ table' = [f \in Frames |-> IF f \in Owned(p) THEN Empty ELSE table[f]]
          /\ free' = (free \ TwoFrames) \cup Owned(p)
          /\ mem' = Forget(mem, Owned(p))
       \/ UNCHANGED <<base, pdir, devz, table, free, mem>>
    /\ Leave(p)
    /\ UNCHANGED <<boot, spaces, live, swap, ksw, halted>>

Release(p) ==
    /\ live' = live \ {p}
    /\ devz' = devz \ {p}
    /\ pdir' = [pdir EXCEPT ![p] = [t \in Tables |-> NoTable]]
    /\ base' = [base EXCEPT ![p] = {}]
    /\ table' = [f \in Frames |-> IF f \in Owned(p) THEN Empty ELSE table[f]]
    /\ free' = free \cup Owned(p)
    /\ mem' = Forget(mem, Owned(p))
    /\ Leave(p)
    /\ UNCHANGED <<boot, spaces, swap, ksw, halted>>

\* proc_die, and the end of a process whose fault is an error.
Exit(p)      == InUser(p) /\ live # {p} /\ Release(p)
Killed(p)    == Runs(p) /\ k[p].at = "fail" /\ Release(p)

-----------------------------------------------------------------------------
(* No frame: _vmm_sleep_locked.                                              *)

WantsFrame(j) == j.at \in {"src", "tab", "page", "ptab", "pdir"} \/ CopiesPage(j)

\* The scheduler resumes the thread in its own space, whatever space was the
\* active one: the code that slept in another process's space goes on in its
\* own.  The model stops there.
Sleep(p) ==
    /\ halted = "" /\ cpu = p /\ WantsFrame(k[p]) /\ free = {}
    /\ cpu' = 0
    /\ halted' = IF k[p].as = p THEN "" ELSE "space"
    /\ UNCHANGED <<boot, spaces, devz, live, pdir, base, table, mem, free, swap, k, ksw>>

-----------------------------------------------------------------------------
(* kswapd.                                                                   *)

Before(a, b) == a[1] < b[1] \/ (a[1] = b[1] /\ a[2] < b[2])

\* Pages find_victim reaches before KswapdFailed pages were refused.
Victims(p) ==
    {pg \in Pages :
        /\ vmm_is_page_present(p, pg) /\ ZoneKind[pg] # "dev"
        /\ Cardinality({x \in Pages : /\ Before(x, pg) /\ ZoneKind[x] = "dev"
                                      /\ vmm_is_page_present(p, x)}) <= KswapdFailed}

KswapdWake ==
    /\ halted = "" /\ cpu = 0 /\ ~ksw.awake
    /\ boot.swap /\ Len(swap) < MaxSwap
    /\ Cardinality(free) * 4 < boot.ram
    /\ ksw' = [ksw EXCEPT !.awake = TRUE, !.run = 0]
    /\ UNCHANGED <<boot, spaces, devz, live, pdir, base, table, mem, free, swap, k, cpu, halted>>

\* find_victim and vmm_swap_page_impl: the first page that may be swapped.
KswapdSwap ==
    LET p == ksw.pid IN
    /\ halted = "" /\ cpu = 0 /\ ksw.awake
    /\ p \in live /\ ksw.perpid < KswapdPerPid /\ Len(swap) < MaxSwap
    /\ \E pg \in Victims(p) :
        LET e == Entry(p, pg) IN
        /\ \A x \in Victims(p) : ~Before(x, pg)
        /\ swap' = Append(swap, mem[e.ref])
        /\ free' = free \cup {e.ref}
        /\ mem' = Forget(mem, {e.ref})
        /\ table' = [table EXCEPT ![pdir[p][pg[1]].tab][pg[2]] =
                        [st |-> "swapped", ref |-> Len(swap) + 1, w |-> FALSE]]
    /\ ksw' = [ksw EXCEPT !.perpid = @ + 1, !.run = @ + 1]
    /\ UNCHANGED <<boot, spaces, devz, live, pdir, base, k, cpu, halted>>

\* The loop of kswapd: at the threshold last_pid stays where it is.
KswapdNext ==
    LET p == ksw.pid IN
    /\ halted = "" /\ cpu = 0 /\ ksw.awake
    /\ p \in live =>
         Victims(p) = {} \/ ksw.perpid >= KswapdPerPid \/ Len(swap) >= MaxSwap
    /\ ksw' = IF ksw.run >= KswapdPerRun THEN [Asleep EXCEPT !.pid = p]
              ELSE IF p = NProcs THEN Asleep
              ELSE [ksw EXCEPT !.pid = p + 1, !.perpid = 0]
    /\ UNCHANGED <<boot, spaces, devz, live, pdir, base, table, mem, free, swap, k, cpu, halted>>

-----------------------------------------------------------------------------
\* The first process, loaded and run until its device pages are mapped; its
\* other pages are still absent.
Init ==
    /\ boot \in Boots
    /\ live = {1}
    /\ devz = {1}
    /\ base = [p \in Procs |-> IF p = 1 THEN {1, 2} ELSE {}]
    /\ pdir = [p \in Procs |-> [t \in Tables |->
                 IF p = 1 /\ t \in DevTables THEN [tab |-> 2 + t, cow |-> FALSE]
                                             ELSE NoTable]]
    /\ table = [f \in Frames |->
                  IF f - 2 \in DevTables
                  THEN [i \in Idx |-> IF ZoneKind[<<f - 2, i>>] = "dev"
                                      THEN [st |-> "present", ref |-> DevFrame, w |-> TRUE]
                                      ELSE None]
                  ELSE Empty]
    /\ mem = [f \in Frames \cup {DevFrame} |-> Zero]
    /\ free = (1 .. boot.ram) \ ({1, 2} \cup {2 + t : t \in DevTables})
    /\ swap = <<>>
    /\ k = [p \in Procs |-> Idle]
    /\ cpu = 0
    /\ ksw = Asleep
    /\ spaces = 0
    /\ halted = ""

KernelStep(p) ==
    \/ ResolveSource(p) \/ ResolveTable(p) \/ ResolvePage(p)
    \/ ResolveEntry(p) \/ ResolveDone(p)
    \/ EnsurePresent(p) \/ FindZone(p) \/ AllocPage(p) \/ AllocTable(p)
    \/ Return(p) \/ CopyToUser(p)
    \/ PspaceFails(p) \/ Fork(p) \/ Exec(p) \/ Killed(p)
    \/ Sleep(p)

UserStep(p) ==
    \/ \E pg \in Pages :
         \/ FaultNotPresent(p, pg) \/ FaultOnWriting(p, pg) \/ KernelLoad(p, pg)
         \/ \E v \in Values : UserStore(p, pg, v)
         \/ \E q \in Procs, v \in Values : KernelStore(p, q, pg, v)
    \/ \E c \in Procs, what \in {"fork", "exec"} : StartSpace(p, what, c)
    \/ Exit(p)

Next ==
    \/ \E p \in Procs : KernelStep(p) \/ UserStep(p)
    \/ KswapdWake \/ KswapdSwap \/ KswapdNext

Spec == Init /\ [][Next]_vars
=============================================================================
