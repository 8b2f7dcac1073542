------------------------------ MODULE MCKernel ------------------------------
(* The parts of the kernel that share no state: the allocators, the layout   *)
(* of address spaces, page tables, the byte streams, traps, the FPU, the     *)
(* process table and the stack of a new program.  part                       *)
(* selects the one a behaviour exercises, so that the run is the sum of      *)
(* their state spaces and not the product.                                   *)
EXTENDS KernelHeap, Memzone, DynArr, Streams, Traps, Fpu, PageTables, ProcTable

VARIABLE part

\* Reserved areas that do not overlap, as the boot descriptions list them.
MCReserved == {{[start |-> 0, count |-> 1]},
               {[start |-> 0, count |-> 2], [start |-> 5, count |-> 1]}}

\* One program below the stack, one that starts at page 0 and has a segment
\* that does not start on a page, one whose second segment does not fit.
MCSegments == {<<[vaddr |-> 2, memsz |-> 2]>>,
               <<[vaddr |-> 0, memsz |-> 1], [vaddr |-> 5, memsz |-> 2]>>,
               <<[vaddr |-> 4, memsz |-> 4], [vaddr |-> 7, memsz |-> 1]>>}

\* A page of data and stack, and one of a program's text.
MCZoneFlags ==
    [v \in {0, 12} |-> IF v = 0 THEN {"R", "W", "U"} ELSE {"R", "X", "U"}]

\* The readers of a terminal are alike.
Symmetry == Permutations(Readers)

Init ==
    /\ part \in {"pmm", "zones", "heap", "shbuf", "space", "array",
                 "tty", "ptm", "kbd", "sock", "trap", "fpu", "tables", "entry",
                 "procs", "exec"}
    /\ PmmInit /\ HeapInit /\ DaInit /\ StreamsInit
    /\ part # "pmm" => mat.set = {0}
    /\ IF part = "space" THEN MzInit ELSE loaded = {} /\ zs = [p \in Spaces |-> <<>>]
    /\ part # "array" => buckets[1].cap = FirstCap
    /\ IF part = "trap" THEN TrapInit
       ELSE /\ arch = "i386" /\ calls = 0 /\ seen = [what |-> "none"]
            /\ regs = <<>> /\ ustack = <<>> /\ kstack = <<>> /\ th = <<>> /\ cpu = <<>>
    /\ FpuInit /\ (part # "fpu" => fpu.arch = "x86")
    /\ IF part = "tables" THEN PtInit ELSE pt = <<>>
    /\ EntInit /\ (part # "entry" => ent.arch = "i386" /\ ent.lv = 0)
    /\ PrInit
    /\ IF part = "exec" THEN XaInit ELSE xa = <<>>

procvars == <<pr, xa>>
memvars == <<pmmvars, zonevars, heapvars, shbufvars, mzvars, davars>>
platvars == <<trapvars, fpu, ptvars, procvars>>

Next ==
    \/ /\ part = "pmm" /\ PmmNext
       /\ UNCHANGED <<part, zonevars, heapvars, shbufvars, mzvars, davars, svars, platvars>>
    \/ /\ part = "zones" /\ ZoneNext
       /\ UNCHANGED <<part, pmmvars, heapvars, shbufvars, mzvars, davars, svars, platvars>>
    \/ /\ part = "heap" /\ HeapNext
       /\ UNCHANGED <<part, pmmvars, zonevars, shbufvars, mzvars, davars, svars, platvars>>
    \/ /\ part = "shbuf" /\ ShbufNext
       /\ UNCHANGED <<part, pmmvars, zonevars, heapvars, mzvars, davars, svars, platvars>>
    \/ /\ part = "space" /\ MzNext
       /\ UNCHANGED <<part, pmmvars, zonevars, heapvars, shbufvars, davars, svars, platvars>>
    \/ /\ part = "array" /\ DaNext
       /\ UNCHANGED <<part, pmmvars, zonevars, heapvars, shbufvars, mzvars, svars, platvars>>
    \/ part = "tty" /\ TtyNext /\ UNCHANGED <<part, memvars, platvars>>
    \/ part = "ptm" /\ PtmNext /\ UNCHANGED <<part, memvars, platvars>>
    \/ part = "kbd" /\ KbdNext /\ UNCHANGED <<part, memvars, platvars>>
    \/ part = "sock" /\ SockNext /\ UNCHANGED <<part, memvars, platvars>>
    \/ part = "trap" /\ TrapNext /\ UNCHANGED <<part, memvars, svars, fpu, ptvars, procvars>>
    \/ part = "fpu" /\ FpuNext /\ UNCHANGED <<part, memvars, svars, trapvars, ptvars, procvars>>
    \/ part = "tables" /\ PtNext /\ UNCHANGED <<part, memvars, svars, trapvars, fpu, procvars>>
    \/ part = "entry" /\ EntNext /\ UNCHANGED <<part, memvars, svars, trapvars, fpu, procvars>>
    \/ part = "procs" /\ PrNext /\ UNCHANGED <<part, memvars, svars, trapvars, fpu, ptvars, xa>>
    \/ part = "exec" /\ XaNext /\ UNCHANGED <<part, memvars, svars, trapvars, fpu, ptvars, pr>>

-----------------------------------------------------------------------------
\* No allocator hands out what somebody holds: blocks of physical memory,
\* kernel zones, heap objects, shared buffers, and zones of a process;
\* and the free count is off by what boot marked and nothing else.
AllocatorsSound ==
    CASE part = "pmm" -> PmmAllocationsDisjoint /\ PmmFreeCountSkew
      [] part = "zones" -> ZonesDisjoint
      [] part = "heap" -> HeapObjectsDisjoint
      [] part = "shbuf" -> BuffersDisjoint
      [] part = "space" -> ZonesSound
      [] OTHER -> TRUE

\* The data structures below them are exact: bitmap_find_space and its aligned variant find
\* the lowest run of free blocks, memzone_new_random the lowest place in an address space
\* and its backward variant the highest; dynarr_push, dynarr_pop, dynarr_clear and
\* dynarr_get are a sequence's operations, and a push never writes outside of its bucket.
StructuresExact ==
    /\ part = "pmm" => PmmFirstFit
    /\ part = "space" => PlacementExact
    /\ ArrayIsSequence /\ PushHasRoom

\* What user code can tell of the kernel at work: its registers and its stack
\* are kept by traps, switches and handlers, and so is the unit's state.
UserStateKept ==
    /\ part = "trap" => Restored /\ HandlersEntered /\ TrapsBalanced
                      /\ CrashesContained /\ KernelRegsKept
    /\ part = "fpu" => OwnRegisters /\ FpuTrapsBalanced

\* Page tables give every space its own memory under the permissions of its
\* zones, and the kernel's half to all.
MemoryMapped ==
    /\ part = "tables" => TablesTranslate /\ FramesOwned
    /\ part = "entry" => EntrySound

\* Processes are born and end in order: waitpid gives the code its process ended with, zombies
\* have somebody to ask for them, nobody runs in an address space that is gone, and a new
\* program finds its arguments.
ProcessesSound ==
    /\ part = "procs" => WaitIsExact /\ WaitsForLiving /\ ZombiesAwaited /\ RunsInOwnSpace
    /\ part = "exec" => ArgumentsArrive

Spec == Init /\ [][Next]_<<part, memvars, svars, platvars>>
=============================================================================
