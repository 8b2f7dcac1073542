------------------------------ MODULE VmmInv ------------------------------
(* The properties of the virtual memory, and the inductive invariant from    *)
(* which VmmProofs derives them.                                             *)
EXTENDS Vmm

Entries == [st : {"none", "present", "swapped"}, ref : Nat, w : BOOLEAN]

Stages == {"src", "tab", "copy", "check", "absent", "page", "ptab", "return",
           "store", "fail", "pdir"}

Jobs == [at : Stages, as : Procs, pg : Pages,
         then : {"absent", "return", "check", "fork", "exec"},
         last : {"return", "store"}, val : Values,
         src : [Idx -> Entries], idx : Nat, spare : 0 .. NFrames]

TypeOK ==
    /\ boot \in Boots /\ live \subseteq Procs /\ devz \subseteq Procs
    /\ pdir \in [Procs -> [Tables -> [tab : 0 .. NFrames, cow : BOOLEAN]]]
    /\ base \in [Procs -> SUBSET Frames]
    /\ table \in [Frames -> [Idx -> Entries]]
    /\ mem \in [Frames \cup {DevFrame} -> Values]
    /\ free \in SUBSET Frames
    /\ swap \in Seq(Values)
    /\ k \in [Procs -> {Idle} \cup Jobs]
    /\ cpu \in 0 .. NProcs /\ spaces \in Nat
    /\ ksw \in [awake : BOOLEAN, pid : Procs, perpid : Nat, run : Nat]
    /\ halted \in {"", "cow", "pspace", "space"}

\* The tables some process walks, and the entries of them that map memory.
WalkedTables == {pdir[p][t].tab : p \in Procs, t \in Tables} \ {0}
Mapped == {m \in WalkedTables \X Idx : table[m[1]][m[2]].st = "present"}

\* A page of memory that a process may store to is mapped by no other page of
\* any process: neither fork nor the resolving of copy on write leaves a frame
\* in two address spaces with write permission in either.
WritablePagesPrivate ==
    \A p, q \in Procs, x, y \in Pages :
        /\ <<p, x>> # <<q, y>>
        /\ vmm_is_page_present(p, x) /\ vmm_is_page_present(q, y)
        /\ Entry(p, x).ref = Entry(q, y).ref /\ Entry(p, x).ref # DevFrame
        => ~Entry(p, x).w

\* Frames in use: page directories, walked tables, mapped pages, and what a
\* process in the kernel holds between two allocations.
UsedFrames ==
    (UNION {base[p] : p \in Procs}) \cup WalkedTables
        \cup {table[m[1]][m[2]].ref : m \in Mapped}
        \cup {k[p].spare : p \in {q \in Procs : k[q] # Idle}}

\* pmm never hands out a frame that a page table, a page directory or a job
\* in progress still refers to: exit, exec, kswapd and the end of resolving
\* free only what nobody reaches.
NoUsedFrameFree == UsedFrames \cap free = {}

\* A frame belongs to whoever maps it: it is not handed out again, and no two
\* pages store to it.
FramesPrivate == TypeOK /\ WritablePagesPrivate /\ NoUsedFrameFree

\* The process is in the kernel, for itself or for another one.
Busy(p) == k[p] # Idle

\* The job of process r copies a table, and still has to copy entry i of table t of process p.
Copying(r) == Busy(r) /\ k[r].at \in {"tab", "copy"}
Pending(r, p, t, i) ==
    Copying(r) /\ k[r].as = p /\ k[r].pg[1] = t /\ k[r].idx <= i

\* The entry that holds what process p sees at page pg: while copy on write
\* is being resolved, the old table's for the pages not yet copied.
SeenEntry(p, pg) ==
    IF \E r \in Procs : Pending(r, p, pg[1], pg[2])
    THEN k[CHOOSE r \in Procs : Pending(r, p, pg[1], pg[2])].src[pg[2]]
    ELSE Entry(p, pg)

Seen(p, pg) ==
    LET e == SeenEntry(p, pg) IN
    IF ZoneKind[pg] = "dev" THEN Zero
    ELSE IF e.st = "present" THEN mem[e.ref]
    ELSE IF e.st = "swapped" THEN swap[e.ref]
    ELSE Loaded(pg)

Private == INSTANCE PrivateMemory WITH
    DevPages <- {pg \in Pages : ZoneKind[pg] = "dev"},
    Fresh    <- [pg \in Pages |-> IF ZoneKind[pg] = "dev" THEN Zero ELSE Loaded(pg)],
    alive    <- live,
    content  <- [p \in Procs |-> [pg \in Pages |-> Seen(p, pg)]],
    dev      <- mem[DevFrame]

\* Demand paging, copy on write, swap, exec and exit are invisible: what a
\* process reads changes only by its own stores, fork copies all of it, and
\* no store of one process reaches another one's memory.
ImplementsPrivateMemory == Private!ASpec

\* What a live process reads at a page changes only in a step that stores to
\* that page of that process, or in its exec: faults, the resolving of copy on
\* write by anybody, swapping out and back in change nothing.
OnlyStoresChangeMemory ==
    [][\A p \in live \cap live', pg \in Pages : Seen(p, pg)' # Seen(p, pg) =>
          \/ \E v \in Values : UserStore(p, pg, v)
          \/ \E q \in Procs : k[q] # Idle /\ k[q].as = p /\ k[q].pg = pg /\ CopyToUser(q)
          \/ Exec(p)]_vars

-----------------------------------------------------------------------------
(* The inductive invariant behind FramesPrivate: who holds which frame.      *)

Tab(p, t) == pdir[p][t].tab
Spare(p) == IF Busy(p) THEN k[p].spare ELSE 0
Maps(p, t, i) == Tab(p, t) # 0 /\ table[Tab(p, t)][i].st = "present"
Ref(p, t, i)  == table[Tab(p, t)][i].ref
IsDev(t, i)   == ZoneKind[<<t, i>>] = "dev"

DeadHoldNothing ==
    \A p \in Procs \ live : /\ k[p] = Idle /\ base[p] = {} /\ p \notin devz
                            /\ \A t \in Tables : pdir[p][t] = NoTable

\* One job at a time works on an address space: its own process's, unless the
\* process has not given the processor up.
OneJobPerSpace ==
    \A p \in Procs : Busy(p) =>
        /\ k[p].as \in live
        /\ k[p].as # p => k[k[p].as] = Idle /\ (halted = "" => cpu = p)

\* What a job has reached: the directory entry and the frame it holds.
InStep(p, j) ==
    LET d == pdir[j.as][j.pg[1]] IN
    /\ j.at = "src" => d.cow /\ j.idx = 1
    /\ j.at = "tab" => d = NoTable /\ j.idx = 1
    /\ j.at = "copy" => d.tab # 0 /\ ~d.cow /\ j.idx \in 1 .. NIdx + 1
    /\ j.at \in {"check", "absent", "page", "ptab", "store"} => ~d.cow
    /\ j.at = "ptab" => d.tab = 0
    /\ j.at \in {"src", "tab", "copy"} => j.then \in {"absent", "return", "check"}
    /\ j.at \in {"tab", "copy", "ptab"} <=> j.spare # 0
    /\ j.as # p => ZoneKind[j.pg] = "anon"
    /\ j.at \in {"pdir", "fail"} => j.as = p
    /\ j.at = "pdir" => /\ j.then \in {"fork", "exec"}
                        /\ j.then = "fork" => j.idx \in Procs \ live

JobsInStep == \A p \in Procs : Busy(p) => InStep(p, k[p])

\* Two forks never fill the same process slot.
ForksApart ==
    \A p, q \in Procs, c \in Procs : Forking(p, c) /\ Forking(q, c) => p = q

\* Pages of the device map the device's frame and no others do, in the tables
\* and in the copy a job works from.
SourceHasDevice(j) ==
    \A i \in Idx : j.at \in {"tab", "copy"} /\ j.src[i].st = "present" =>
        IF IsDev(j.pg[1], i) THEN j.src[i].ref = DevFrame ELSE j.src[i].ref \in Frames

DeviceFrame ==
    /\ \A p \in Procs, t \in Tables, i \in Idx :
         Maps(p, t, i) => IF IsDev(t, i) THEN Ref(p, t, i) = DevFrame
                                         ELSE Ref(p, t, i) \in Frames
    /\ \A r \in Procs : Busy(r) => SourceHasDevice(k[r])

\* A process with the device's zone has its pages mapped, or a job is about to
\* copy their entries.
DeviceMapped ==
    /\ \A p \in devz, t \in Tables, i \in Idx :
         IsDev(t, i) => Maps(p, t, i) \/ \E r \in Procs : Pending(r, p, t, i)
    /\ \A r, p \in Procs, t \in Tables, i \in Idx :
         Pending(r, p, t, i) /\ p \in devz /\ IsDev(t, i) => k[r].src[i].st = "present"

\* The job goes on, or will go on, to look for the zone of an absent page.
ToLoad(j) == \/ j.at \in {"absent", "check"}
             \/ j.at \in {"src", "tab", "copy"} /\ j.then \in {"absent", "check"}

\* So no fault allocates memory for a page of the device.
LoadsNoDevice(j) ==
    /\ ToLoad(j) /\ IsDev(j.pg[1], j.pg[2]) => j.as \notin devz
    /\ j.at \in {"page", "ptab"} => ~IsDev(j.pg[1], j.pg[2])

DeviceNotLoaded == \A p \in Procs : Busy(p) => LoadsNoDevice(k[p])

\* No frame has two roles: of page directory, page table, page, frame held by
\* a job, free frame.
BasesApart ==
    \A p \in Procs : \A f \in base[p] :
        f \notin free /\ \A q \in Procs : q # p => f \notin base[q]

TablesApart ==
    \A p \in Procs, t \in Tables : Tab(p, t) # 0 =>
        /\ Tab(p, t) \notin free
        /\ \A q \in Procs : Tab(p, t) \notin base[q] /\ Tab(p, t) # Spare(q)

PagesApart ==
    \A p \in Procs, t \in Tables, i \in Idx : Maps(p, t, i) =>
        /\ Ref(p, t, i) \notin free
        /\ \A q \in Procs : Ref(p, t, i) \notin base[q] /\ Ref(p, t, i) # Spare(q)
        /\ \A q \in Procs, u \in Tables : Ref(p, t, i) # Tab(q, u)

SparesApart ==
    \A p \in Procs : Spare(p) # 0 =>
        /\ Spare(p) \notin free
        /\ \A q \in Procs : Spare(p) \notin base[q] /\ (q # p => Spare(p) # Spare(q))

\* A frame of memory is mapped by one entry of one table.
OneEntryPerPage ==
    \A p, q \in Procs, t, u \in Tables, i, j \in Idx :
        /\ Maps(p, t, i) /\ Maps(q, u, j) /\ Ref(p, t, i) # DevFrame
        /\ Ref(p, t, i) = Ref(q, u, j)
        => Tab(p, t) = Tab(q, u) /\ i = j

\* A table in two address spaces is at the same place in both and marked copy
\* on write in both.
SharedMarked ==
    \A p, q \in Procs, t, u \in Tables :
        Tab(p, t) # 0 /\ Tab(p, t) = Tab(q, u) =>
            t = u /\ (p # q => pdir[p][t].cow)

\* The marked tables map nothing for writing.
MarkedReadOnly ==
    \A p \in Procs, t \in Tables : pdir[p][t].cow =>
        /\ Tab(p, t) # 0
        /\ \A i \in Idx : Maps(p, t, i) => ~table[Tab(p, t)][i].w

\* A swapped entry names a page of the swap file.
OnFile(e) == e.st = "swapped" => e.ref \in 1 .. Len(swap)

SwapInv ==
    /\ \A f \in Frames, i \in Idx : OnFile(table[f][i])
    /\ \A p \in Procs : Busy(p) => \A i \in Idx : OnFile(k[p].src[i])

JobInv == DeadHoldNothing /\ OneJobPerSpace /\ JobsInStep /\ ForksApart

DeviceInv == DeviceFrame /\ DeviceMapped /\ DeviceNotLoaded

RoleInv == BasesApart /\ TablesApart /\ PagesApart /\ SparesApart

ShareInv == OneEntryPerPage /\ SharedMarked /\ MarkedReadOnly

\* Which process holds which frame, and how: inductive.
HoldingInv == TypeOK /\ JobInv /\ DeviceInv /\ SwapInv /\ RoleInv /\ ShareInv

-----------------------------------------------------------------------------
(* What ImplementsPrivateMemory needs on a machine that never swaps: where   *)
(* the content of a page is while its table is being copied.                 *)

\* No boot has a swap file.
NoSwap == \A b \in Boots : ~b.swap

NothingSwapped == ~boot.swap /\ ~ksw.awake /\ swap = <<>>

\* Two jobs never work on one address space, not even when the machine stops.
JobsApart ==
    \A p, q \in Procs : Busy(p) /\ Busy(q) /\ k[p].as = k[q].as => p = q

\* Nobody can be given the frame, and nobody who maps it may write to it or
\* will free it.
Frozen(f) ==
    /\ f \notin free
    /\ \A q \in Procs : f \notin base[q] /\ f # Spare(q)
    /\ \A q \in Procs, t \in Tables : f # Tab(q, t)
    /\ \A q \in Procs, t \in Tables, x \in Idx :
         Maps(q, t, x) /\ Ref(q, t, x) = f => pdir[q][t].cow

\* The pages a job still has to copy stay as they are.
SourceFrozen ==
    \A r \in Procs, i \in Idx :
        /\ Copying(r) /\ k[r].idx <= i
        /\ k[r].src[i].st = "present" /\ ~IsDev(k[r].pg[1], i)
        => Frozen(k[r].src[i].ref)

\* The job is on its way to allocate the page.
Loading(j) == \/ j.at \in {"absent", "page", "ptab"}
              \/ j.at \in {"src", "tab", "copy"} /\ j.then = "absent"

\* A job finds the page it loads absent, in the old table too, and the page
\* it stores to present.
PageInStep(j) ==
    /\ Loading(j) => ~Maps(j.as, j.pg[1], j.pg[2])
    /\ j.at \in {"tab", "copy"} /\ j.then = "absent" => j.src[j.pg[2]].st # "present"
    /\ j.at = "store" => Maps(j.as, j.pg[1], j.pg[2])

PagesInStep == \A p \in Procs : Busy(p) => PageInStep(k[p])

\* Where the content of every page is: inductive together with HoldingInv.
ContentInv == NothingSwapped /\ JobsApart /\ SourceFrozen /\ PagesInStep
=============================================================================
