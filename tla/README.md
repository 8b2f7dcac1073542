# A TLA+ verification of opuntiaOS

opuntiaOS is a Unix-like operating system for x86, x86_64, arm32, arm64 and riscv64 with a
kernel, a C library and a window system of its own. This directory holds TLA+ models of the
parts whose correctness depends on long sequences of operations, on several actors or on
exact arithmetic, the TLC runs that check them on small instances, and TLAPS proofs of the
most important properties for every value of the constants.

Contents: [inventory](#1-inventory), [plan](#2-plan), [scheduler](#3-scheduler),
[files](#4-file-system), [memory](#5-memory), [streams, devices and traps](#6-streams-devices-and-traps),
[user space](#7-user-space), [runs](#8-runs), [proofs](#9-proofs),
[disagreements](#10-where-the-code-disagrees-with-what-it-says),
[not modelled](#11-what-is-not-modelled), [how to run](#12-how-to-run).
All paths are relative to `src/`.

## 1. Inventory

| Component | State | Operations | Hard behaviour |
|---|---|---|---|
| Scheduler, `kernel/kernel/tasking/sched.c` | per CPU two arrays of intrusive lists (master, slave), one list per priority; `next_read_prio`, `enqueued_tasks`; `sched_next`, `sched_prev` of every thread | `sched_enqueue`, `sched_dequeue`, `resched`, `sched`, `sched_unblock_threads` | list operations that leave links unwritten; a thread is woken, stopped or killed while it is queued, runs, or runs elsewhere |
| Threads and blockers, `tasking/thread.c`, `blocker.c` | status, blocker reason and condition | `init_*_blocker`, `thread_stop`, `thread_continue`, `thread_die`, `thread_free` | a condition that becomes true at any time; status changes of a thread by another one |
| Processes and signals, `tasking/proc.c`, `tasking.c`, `signal.c` | `proc[]`, status, priority, pending signals, zombies | fork, exec, exit, `proc_die`, `proc_free`, kill, sigreturn, waitpid | deferred freeing, reuse of thread slots, dispatch of signals at a switch |
| Dentry cache, `fs/dentry.c` | blocks of entries; count, inode, flags and parent of each; sizes of the cache | `dentry_get`, `dentry_duplicate`, `dentry_put`, flushing, freeing | nested puts with locks held, reuse of entries, limit of the inode cache, flusher thread |
| VFS and files, `fs/vfs.c`, `fs/file.c`, `syscalls/fs.c` | open files, descriptors, cwd | open, create, unlink, mkdir, rmdir, chdir, write, fsync, close; mount, umount | every error path must give back what it took; a file without a name lives on while it is open |
| ext2, `fs/ext2/ext2.c` | inodes, link counts, directory blocks, bitmaps | lookup, create, mkdir, rm, rmdir, read, write, truncate | in-memory inodes written later, a reboot in between; trees of blocks; locks of two dentries |
| devfs, procfs, `fs/devfs`, `fs/procfs` | device entries and the copies dentries hold; inode indices that pack level, pid and file | open, lookup, getdents, read | entries shared between copies, listings while processes come and go |
| Physical memory and heaps, `mem/pmm.c`, `kmalloc.c`, `kmemzone.c`, `algo/bitmap.c` | bitmaps, block headers, counts | allocate, free | first fit over buckets, alignment, counts from boot |
| Address spaces, `mem/memzone.c`, `vmm.c`, `bits32`, `bits64`, `swapfile.c`, `kswapd.c` | zones; directories and tables in frames; swap slots | mmap, munmap, fault, copy on write, fork, exec, exit, swap out and in | wrapping arithmetic; shared tables; sleeping for a frame in the middle of a fault; stale copies |
| Ring buffers, sockets, terminals, input, `algo/ringbuffer.c`, `io/`, `drivers/io` | buffer with `start` and `end`; readers with an offset each; line counter | read, write, connect, bind, ioctl | full against empty, a writer that overtakes readers, offsets that wrap |
| Traps, signals, FPU, `platform/*` | trap frames, contexts, signal frames on the user's stack, the owner of the FPU | entry stubs, `trap_return`, `switch_contexts`, sigreturn, lazy FPU switch | five layouts that C, assembly and libc must agree on; nesting of handlers |
| Drivers, `drivers/driver_manager.c`, `drivers/virtio` | registered drivers and devices; rings of descriptors shared with a device | install, notify, boot; requests and their completion | any link order; a device that answers late, a ring and a pool of memory that are reused |
| IPC and window server, `libs/libipc`, `libfoundation`, `libui`, `userland/servers/window_server` | connections, queues of messages and events, windows, focus, menus, dock | requests, replies, events, clicks | a client that waits in the middle of an event, pointers to closed windows |
| C library, `libs/libc` | heap, FILE buffers, environment, passwd reader | malloc, stdio, strings, formatting, time | boundaries of buffers, overflow, order of calls |

How they interact: a system call runs in the context of a thread, with interrupts off
unless the kernel is built with `PREEMPT_KERNEL`. It may block (a blocker takes the
thread out of the run queues and calls `resched()`), and the end of a round of
`sched()` on CPU 0 wakes threads whose condition holds and frees dying processes
(`tasking_kill_dying`, which calls `proc_free`, which closes files and puts the cwd
into the dentry cache). Files reach the cache by `dentry_get` / `dentry_put`; the
flusher thread writes dirty inodes every two seconds. A fault allocates frames and sleeps
when there are none; `kswapd` moves pages out meanwhile. Inside the kernel components share
memory, and the hazards are orders of calls, counts and locks. In user space the window
server and its clients exchange messages over two local sockets that every client reads.

What makes each part correct:

- scheduler: every runnable thread is in exactly one place; only runnable threads are
  picked; priority within a round; no starvation; no thread runs after it was freed;
- processes: a dying process is freed once and leaves no thread behind; `waitpid` returns the
  code of the process it was asked about;
- disk: a block has one owner, also after a reboot; files and directories hold what was put
  into them;
- dentry cache: as many counts as holders; one dentry per inode; no update lost; an
  inode is deleted when and only when its last name and its last holder are gone; no
  call waits for itself;
- memory: nothing is handed out twice; every process has memory of its own, whatever
  is shared, copied or swapped below; page 0 is never given out;
- streams: what is read is what was written, once and in order;
- traps: a program finds its registers, its stack and its FPU as it left them;
- IPC and desktop: every request gets its own reply, no event is lost, no pointer to a
  closed window is used, the focus and the frames agree, the dock knows the windows;
- C library: buffers of the heap are disjoint, a FILE is the file, functions compute
  what the standard says.

The hazards, each at its line with the property that covers it, are the list
`hazards` of `PROJECT.json`.

## 2. Plan

Done, in this order: run queues and scheduler with the abstract `RoundSched`; dentry cache
and system calls on files; allocators, zones, virtual memory with the abstract
`PrivateMemory`; page tables of five architectures; ring buffers, terminals, sockets;
traps, system call tables, FPU; IPC and its protocol; C library; window manager; driver
manager, devfs, procfs; blocks and directories of ext2, virtio; the process table with
`waitpid`, exec and dumps. Proofs: scheduler on one CPU, virtual memory (frames, content and
the refinement of `PrivateMemory`), byte streams, window manager, clients and window server.

Left: `ProcTable` under the scheduler's order of threads; mounts in `Vfs`; views of libui. Proofs that are within reach:
`ZonesSound` and `NullPageKept` of `Memzone` (once the loading of a program is one action per
segment), `HoldersKept` and `OneDentryPerInode` without preemption.

## 3. Scheduler

`RunQueue` holds the intrusive lists: `head` and `tail` of the list `<<cpu, buffer,
priority>>`, `sched_next` and `sched_prev` of every thread, and `master`, the index of the
array that is being read. `AddToStart`, `AddToEnd`, `DequeueImpl`, `PopHead` and
`SwapBuffers` are the functions of `sched.c`, pointer by pointer, including the links they
leave unwritten.

`Sched` adds the status of threads and processes and one action for each way in which
the kernel changes it:

| Action | Code |
|---|---|
| `Resched` | `resched()`, from a system call or from the tick |
| `NextPrio`, `RoundEnd`, `NewRound`, `Pick` | the loop of `sched()`; `RoundEnd` on CPU 0 includes `tasking_kill_dying` |
| `UnblockThread` | one iteration of `sched_unblock_threads` |
| `DieThread`, `DieEnd` | the loop of `proc_die` and its return |
| `Block`, `Condition` | the five blockers, which differ only in the condition; the environment sets and clears it |
| `Sigreturn` | `signal_restore_thread_after_handling_signal` |
| `Exit`, `CreateThread`, `Fork` | `tasking_exit`, `proc_create_thread`, `tasking_fork` |
| `SendStop`, `SendCont`, `SendTerm`, `Raise` | `sys_kill` with the three kinds of default actions, for another thread or for the caller |
| `Nice` | `sys_nice` |

Loops are one step per iteration, so that with several CPUs other CPUs act between the
iterations. `pc[c]` says where a CPU is; the comment at the head of the module lists the
values. A list operation is one step although the code has no lock for it: on several
CPUs the real code is at least as racy as the model, so a trace of the model on two CPUs is one
of the code (the run `sched_smp`), while a property that holds there would show nothing. What
holds is therefore checked and proved on one CPU. `TOTAL_PRIOS_COUNT` is `MIN_PRIO + 2`
of the model (the last list is the idle one) and the counter `next_read_prio`, which the
code lets run one past the end for an instant, is reset in the same step.

`SchedInv` holds the inductive invariant and the properties. They speak of the lists as
found by walking along `sched_next` from the head: `Walk` is the least set of threads that holds the
head and is closed under the links, so that TLC can compute it and the proofs need no
recursion. `RoundSched` is the abstract scheduler: a set of threads
for this round, a set for the next one, the best priority first, each thread at most once
per round. `ImplementsRounds` is the refinement, with `now` and `later` computed from the
lists of the master and the slave array.

Bounds: `NThreads`, `NProcs` bound the thread storage and the process table; `MinLoad`
bounds the drift of `enqueued_tasks`, which the code decrements for threads that are in no
list. Three or four threads suffice for every shape of a doubly linked list operation
(empty, one element, head, middle, tail); two priorities and the idle list for every
relation of a queued thread to `next_read_prio`.

Fairness (`FairSpec`): weak fairness of the steps of the kernel's own loops, which wait
for nothing, and of `Resched`, because the timer interrupts every thread and
`sched_tick` calls `resched()` when the slice is over. Nothing is assumed of the
programs.

## 4. File system

`Dentry` models the cache: entry numbers in blocks of `BlockLen`, `d_count`, `inode_indx`
(0 for an entry without a dentry), `flags`, `parent`, the content of the inode and
whether the area it lies in is allocated, and the two statistics. The content of an
inode is one bit that every change flips; `latest` remembers what the last change made it.
Each operator is what the code does between taking a lock and giving it back.

`Vfs` runs system calls over it. `loc[p]` holds the locals of the call process `p` is in
and `frames[p]` its pending calls of `dentry_put`, which nest: a put that reaches zero puts
the parent, with the lock of the child held, and only then writes or deletes the inode.

| Action | Code |
|---|---|
| `Get`, `Dup`, `Alloc`, `Fill` | `dentry_get`: search, duplicate, `dentry_cache_find_empty_entry`, the rest of `dentry_alloc_new` |
| `Put`, `PutImpl` | `dentry_put_locked`, and `dentry_put_impl_locked` after the put of the parent |
| `Begin`, `Again` | the start of a call with a path; the second walk of `open(O_CREAT)` |
| `Walk`, `Link` | one iteration of `vfs_resolve_path_start_from`: lookup, then the parent is set and the directory put. The duplicate and the put at the end of the function cancel out |
| `Open`, `Chdir`, `Unlink`, `Rmdir` | `vfs_open`, `proc_chdir`, `vfs_unlink` with `ext2_rm`, `vfs_rmdir` with `ext2_rmdir`, and the `path_put` of the system call |
| `CreateFound`, `CreateExists`, `CreateInode`, `CreateFails`, `Created` | `vfs_create` with `ext2_create`, `vfs_mkdir` with `ext2_mkdir` |
| `Write`, `Fsync`, `Close` | `vfs_write`, `sys_fsync`, `vfs_close` with `file_put` |
| `Fork`, `Exit`, `ExitClose`, `ExitCwd` | the files and the cwd in `proc_fork_from` and `proc_free` |
| `Flusher` | `kdentryflusherd`, over one block |

Directories are sets of triples (directory, name, inode). Constants: `Preemptible`
switches between calls that run to their end and calls that interleave at every lock;
`CreatExisting` allows `open(O_CREAT)` and `mkdir` of names that exist (most runs forbid
it, because the code then fails an assertion, see section 10); `MaxCount` and `MaxHeld` stop
new calls once a count or the statistics has grown, which leaked references make
happen; `MaxBlocks` bounds the cache. In the initial state one process sits in the
root, which has a directory `d` with a file `f`.

`Ext2` is the disk below: bitmaps and counts of the groups, the tree of direct and indirect blocks
of an inode, `ext2_read`, `ext2_write`, truncation, creation and deletion of inodes, and a
reboot, which forgets inodes that were not written. The power is cut between two calls (`Reboot`)
or in the middle of one: `CutFree`, `CutWrite` and `CutCreate` stop after any number of the
writes that `ext2_free_inode`, `ext2_write` and `ext2_create` make. Memory holds the groups' counts, the disk
keeps those of `mkfs`, as in the code. A block has `Cells` cells, and pointers and
bytes take one cell each, so that a tree of three levels fits into nine blocks. Its second
part is a directory: blocks of records that are split and merged, lookup, and `getdents` with buffers
of any size.

Fairness: a call that has begun goes on (`WF_vars(Kernel(p))`), which the scheduler
model's `RunnableRuns` justifies; programs need not make calls.

Bounds: two processes and two open files let a file be shared by fork and be held by
two opens at once; paths of one and two names and `..` reach every branch of the walk;
four inodes leave one to create; blocks of one or two entries make the cache grow,
reuse entries and run into its limit within a few calls.

## 5. Memory

`Bitmap` is the first-fit search of `algo/bitmap.c`, bucket by bucket; `KernelHeap` (physical pages,
zones, `kmalloc` with its headers, shared buffers) uses it. `Memzone` lays out an address space with the
code's wrapping arithmetic: `elf_load`, `sys_mmap`, `sys_munmap`, fork and exit. `DynArr` is the
array of growing buckets that keeps the zones. They share no state, so `MCKernel` checks them one
at a time: its variable `part` selects one in the initial state and the state space of the run is
a sum and not a product.

`Vmm` is the virtual memory of the 32-bit targets. State: the directory of each process
(`pdir`, with the frame of each table and its copy-on-write mark), the tables and the memory in
frames (`table`, `mem`), the free frames, the swap file, the frames a process has apart
from its tables (`base`: directory and pspace), and the job of each process in the kernel (`k`).
A job is the program counter of a fault, of a copy to or from user memory, of a fork or an exec:

| Stages of a job | Code |
|---|---|
| `src`, `tab`, `copy` | `_vmm_resolve_copy_on_write`: the shared table is read, a new table is allocated, pages are copied one by one |
| `check`, `absent`, `page`, `ptab` | `vmm_page_fault_handler` and `_vmm_ensure_*`: what is missing is decided, a table or a page is allocated and filled |
| `pdir` | `vm_alloc_pdir`, for fork and exec |
| `store`, `return`, `fail` | the access is made again, or the call returns |

Every allocation is a step; when there is no frame the process gives the processor up
(`_vmm_sleep_locked`), other processes and `kswapd` run, and the job goes on later with what
it had read before. `halted` is the name of the assertion or the crash that stopped the kernel
(`"cow"`, `"pspace"`, `"space"`); the properties are about what was reached until then.
`PrivateMemory` is the abstract specification, three variables and one action per thing that a
program can see: a store, a fork, an exec, an exit. `VmmInv` has the properties and the
inductive invariant.

`Mmu` has the bits of page table entries on the five architectures and, external, what the
hardware makes of them; `PageTables` the tables of the 64-bit targets, where fork copies
every page: `vmm_setup`, mapping, faults, fork, freeing. Memory is words, and a page of data
that is taken for a table would show.

## 6. Streams, devices and traps

`Streams` has the ring buffer of `algo/ringbuffer.c` and puts the terminal (with the line discipline
and its counter of lines), the master of a pseudo terminal, the keyboard's queue and local
sockets on it. Bytes are numbered in the order of the writes, and ghost variables hold, for
each reader, what is due: written and not yet read. A stream that was overrun is
marked `over`; nothing is said of it, because the code then drops a ring's worth of bytes.

`Devman` boots: drivers install in any link order, devices are found and matched, file systems
are mounted. `Virtio` has the rings of descriptors with the memory pool of the requests, and the
block, graphics and input drivers on them; the device is external, it takes requests in
order and whenever it likes, and interrupt handlers run between calls. `DevFs` and `ProcFs` are the two file systems without a disk: device entries with the
copies that dentries hold, and indices that pack level, pid and file.

`SysCalls` has the tables of the call numbers as kernel and libc have them, on five
architectures, and the registers of parameters. `Traps` is the life of one user thread: entry
stubs, the frame as C sees it, handlers, interrupts, the switch to the scheduler, signal
frames on the user's stack, `sigreturn`. On arm32 a fault's frame lies on the CPU's banked stack of
its mode and an interrupt's on the thread's kernel stack. A fault that has to wait for a frame gives
the CPU up in the middle (`FaultSleeps`, and `FaultAgain` when it goes on). From a banked stack
(`FaultSleepsBanked`, and a crash) the model ends in the mode `"lost"`, because what runs next on
that stack is undefined. `MaxEarly` bounds the returns of
`undefined_handler` that leave `int_depth_counter` as it is. Registers hold numbers that tell them apart, so that a
layout on which assembly and C disagree shows as a wrong register. `Fpu` is the lazy switch of the
floating point unit.

`ProcTable` is `proc[]` with the slots of threads: fork, exit, zombies, `waitpid` with the thread
it joins or with `WNOHANG`, exec, ptrace, signals as far as they end a wait, and the kernel thread that dumps a
crashed process. Threads run in any order; which is next is the business of `Sched`. The
constant `Uses` allows unusual uses, one by one, with which the properties fail (section 10); the
run has none. The last part checks and copies the strings for a new program and lays them out
on its stack, on five machines, against what `_start` expects.

## 7. User space

`WsProtocol` encodes and decodes the messages of `WSConnection.h`. `Ipc` is the system of
processes: clients, among them the dock, and the server; two sockets; a client that sends a
request reads messages until the reply arrives, with events queued meanwhile. `Only` selects the
messages that are the client's own; `Holds` says that the events among some messages are those
of an interval of numbers, each once and in order. `PidsApart` says that no client has a pid that
is another's connection id, which the code does not guarantee (section 10). Fairness
(`IpcFairness`): both event loops run for ever (`while (1)`); no input is promised.

`UserHeap`, `Stdio`, `CString`, `CFormat`, `CEnv` are the C library. Stateful parts are compared
with what the standard describes after every sequence of calls; functions are compared
with reference definitions on every input of a small alphabet. Where the code departs from the
standard the reference does not follow it: the exceptions are named (`Departs` and the use `"gone"`
of a buffer in `Stdio`, `SafeDigits` in `CFormat`, the empty string in `strstr`) and listed in
section 10. `MCIpc` selects one with `part`.

`WindowManager` is the server on the desktop target. It is one thread, so a handler is an
operator on the record `wm` and an action applies one. `ub` records undefined behaviour: `"dock"`
or `"popup"` when a pointer to a deleted window would be used in one of the two ways that
section 10 lists; any other use of a deleted window violates `NoDanglingWindow`. `hiding` holds the
windows a loop that minimizes several has still to visit.

## 8. Runs

| Run | Checks | What it shows |
|---|---|---|
| `sched_rounds` | `PickedIsRunnable`, `RoundInPriorityOrder`, `ImplementsRounds`, `RunnableRuns`, `ReadyThreadWakes`, `DyingProcessFreed` | one CPU, single-threaded processes that change their priority: the linked lists implement `RoundSched`, nothing is left behind at a priority the round passed; under `FairSpec` runnable threads run, ready threads wake, dying processes are freed |
| `sched_multi` | `InductiveInv`, `QueuesExact`, `NoFreedThreadRuns`, `NoThreadOfDeadProcess` | one CPU, four threads in up to four processes that fork, create threads, exit and are killed; slots are reused |
| `sched_smp` | `PickedIsRunnable`, violated | section 10 |
| `vfs_files` | `HoldersKept`, `NoOrphan`, `CallReturns` | two processes that fork, open, create, unlink, close and exit |
| `vfs_dirs` | `HoldersKept` | directories are made, removed and entered with the inode cache at its limit |
| `vfs_dirty` | `NoLostUpdate`, `OneDentryPerInode` | writes next to the flusher in a cache that grows by single entries |
| `storage` | `DiskSound`, `DevicesSound` | one part at a time: blocks and directories of ext2; virtio; the boot of drivers; `/dev` and `/proc` |
| `vfs_creat` | `PutAsserted`, violated | section 10 |
| `vmm` | `FramesPrivate`, `ImplementsPrivateMemory`, `OnlyStoresChangeMemory` | faults, copy on write, fork, exec, exit, kernel copies; with swap, and without swap and memory for everybody |
| `kernel` | `AllocatorsSound`, `StructuresExact`, `NullPageKept`, `StreamsInOrder`, `InputNotStuck`, `UserStateKept`, `CallsServed`, `MemoryMapped`, `ProcessesSound` | sections 5 and 6, one part at a time |
| `ipc` | `AnswerIsReply`, `EventsInOrder`, `BatchDecoded`, `Answered`, `LibcKeeps`, `LibcExact` | section 7, one part at a time |
| `desktop` | `NoDanglingWindow`, `FocusConsistent`, `DockKnows` | windows made, destroyed, minimized, focused, dragged and clicked in every order |

The bounds not explained in sections 3 and 4:

- `vmm`: two processes, one table of three pages (anonymous memory, program text, device). A
  boot with 14 frames and a swap file, on which nobody waits for memory but pages are moved
  out and in; and one with 8 frames and no swap, fewer than two processes with their tables need, in
  which a job sleeps at every allocation there is. `spaces` bounds forks and execs, `MaxSwap`
  the pages ever written. Every stage of a job is met by every operation of the other process.
- `kernel`: 11 blocks in buckets of 4 bits, so that runs cross buckets and the last bucket is
  partial; words of 5 bits, so that every sum of `Memzone` can wrap; rings of 3 bytes with writes
  of 1 and 3 and reads of 1 and 4, so that a ring is filled, wraps and is emptied; offsets
  modulo 6; 32 frames, tables of two and four entries; two signals and traps that nest three
  deep; three processes and three threads in one node of slots, so that a parent waits for a
  child that has children; two strings in each array of exec.
- `storage`: two groups of blocks with one inode each, writes that begin at the end or two bytes before it
  and reach from a direct block into the tree of the second level, with at most one cut of the power; a directory of two blocks
  with names of three sizes; rings of 2 to 16 descriptors with indices modulo 32, so that rings
  and indices wrap; a PC and a board; three device files in zones of two, five slots in `/proc`.
- `ipc`: two clients, one request and one event of each, reads of two messages; integers
  of 8 bits, of which all values are tried; 8-byte buffers and the size 0 that `setlinebuf` passes;
  both signs of `char`.
- `desktop`: three windows, two menus, so that there is a window above, below and besides.

Deadlock is checked in the runs of the scheduler and of the file system except `vfs_dirty`,
where an assertion may stop the kernel. In the other runs a behaviour ends when its bound is
used up or the part is halted.

Fairness is assumed in three runs: `FairSpec` (section 3), `WF_vars(Kernel(p))` (section 4) and
`IpcFairness` (section 7).

Each property of each run has a mutant in `PROJECT.json`, a changed definition under
which TLC must find it violated.

## 9. Proofs

| Module | Theorems | Assumptions |
|---|---|---|
| `RunQueueProofs` | lemmas on list operations | `RunQueueAssumption` |
| `SchedProofs` | `SchedInvariant`, `TypeCorrect`, `PickedThreadRunnable`, `RoundsFollowPriority`, `FreedThreadNeverRuns`, `DeadProcessHasNoThread`, `SchedulerImplementsRounds`, `RunQueuesExact`, `WalkedInvariant` | `SchedAssumption`, `Uniprocessor` |
| `VmmFrames` | lemmas on frames | `VmmAssumption` |
| `VmmProofs` | `VmmInvariant`, `FramesArePrivate` | `VmmAssumption` |
| `VmmContent` | `ContentInvariant`, `StoresAlone`, `MemoryIsPrivate` | `VmmAssumption`, `NoSwap` |
| `StreamsProofs` | `StreamsInvariant`, `BytesInOrder`, `InputCanBeRead` | `StreamsAssumption` |
| `WindowProofs` | `WindowInvariant`, `NoWindowDangles`, `FocusIsConsistent`, `DockIsTold` | `BoundsAssumption` |
| `IpcProofs` | `IpcInvariant`, `AnswersAreReplies`, `EventsHandledInOrder` | `IpcAssumption`, `[]PidsApart` |

Each is for every value of the constants. TLC checks the scheduler's inductive invariant in
`sched_multi` and the properties the other ones imply in their runs.

### Scheduler

`RunQueueProofs` proves what the list operations do to lists of any length, and
`SchedProofs` that the scheduler keeps its invariant, for every number of threads,
processes and priorities. `Uniprocessor` says: one CPU, no signal for the idle process, no
process that kills itself with a signal, and no `nice` in a process with several threads. Each is
needed; section 10 says what happens without it. `DeadProcessHasNoThread` states them in the
theorem itself, because without the third it is false.

None of the properties is inductive. That the picked thread is runnable
needs that every queued thread is, which needs that a thread is taken out of its list
whenever its status changes, which needs that `DequeueImpl` really removes it: it must
look at the ends of the right list and find exact links. A list is described without
recursion by three functions: `on`, the set of queued threads, `at`, the list of each, and
`pos`, a number that grows along the links. `Lists(on, at, pos)` says that heads, tails
and links agree with them and that a thread in no list has null links. The invariant
`QueueInv` says that such functions exist, with

- `QueuedInv`: a queued thread is runnable, does not execute, and is in a list of the
  present priority of its process;
- `RunnableInv`: a runnable thread is queued, executes, or is the one that called `exit` and is yet
  to be reached by the loop of `proc_die` under way;
- `RoundInv`: nothing is left at a priority that the round has passed;

and `CurrentInv`, `IdleInv`, `LifeInv`, `SingleInv` describe the CPU's place, the idle
thread, the life cycle of threads and processes, and single-threaded processes where
`nice` is used. `RunQueueProofs` gives, for each list operation, the witnesses after it
from those before it; `SchedProofs` has a lemma for each action and conjunct it can
disturb.

The second part of `SchedProofs` connects this with the lists as the code sees them. That a walk
along the links meets all threads `on` a list and no other (`WalkFrom`, `MembersAre`) is shown by
least counterexamples: of the threads that a walk misses, the one with the least `pos` would have
a predecessor that is met, and the link from there leads to it. Hence `FoundAre`: the threads and
lists found by walking are the witnesses of `QueueInv`, and so are the places found by counting
(`FoundPosOrders`, `SameOrder`), which gives `WalkedInvariant`. `RunQueuesExact` follows.

The refinement maps this round to the walked lists of the master array and the next one to
those of the slave array. `Resched` is `Yield` or `Leave`, `Pick` is `Dispatch` (or `Withdraw`, for a
thread with a terminating signal pending), `NewRound` is `NewRound`, waking, forking, creating and
continuing a thread is `Admit`, blocking, stopping and each iteration of `proc_die` is `Withdraw` or
nothing, and the other steps are stutters. `Dispatch` demands the best thread of the round, which is
`RoundInv`; `Admit` that the thread neither runs nor waits already, which is `QueuedInv`; `NewRound`
that the round is empty, which takes one more invariant, `RoundOver`: while
`sched_unblock_threads` runs at the end of a round nothing can join the round that ended.

### Virtual memory

`HoldingInv` is inductive with and without swap. That two pages are never written through one
frame (`FramesPrivate`) needs to know what every frame is for, also in the middle of a
fault:

- `RoleInv`: frames of directories, of tables, of pages and those a job has just
  allocated (`spare`) are apart from each other and from the free ones;
- `ShareInv`: a page of memory has one entry, or several entries in tables of which all are
  shared; a table that two directories have is marked copy on write in both, and a marked table
  maps nothing for writing;
- `JobInv`: a dead process holds nothing, one job works on a space, the stage of a job is in
  step with the directory it works on (what it read before it slept is still so), and a fork
  under way has a child nobody else works on;
- `DeviceInv`, `SwapInv`: device entries point at the device and are never moved out; a
  swapped entry is in the swap file.

`ContentInv` adds where the content of a page is. While a job copies a shared table page by
page, what the process sees of a page not yet copied is in the old table: `SourceFrozen` says
nobody can write to it until then, `PagesInStep` that a job allocates only pages that are
absent, `JobsApart` that no two jobs work on one space. It needs `NoSwap`: with a swap file the
code breaks the refinement (section 10), because a job that slept may copy an entry that `kswapd`
has moved out meanwhile.

The refinement is proved step by step. Each action is shown to be, for what processes see, one
of `Unseen`, `Stores`, `Forks` or `Drops`; these are a stutter, `AStore`, `AFork`, and
`AExec` or `AExit` of `PrivateMemory`. Only the last combination is temporal.

### Byte streams

`StreamsInv` says of each channel, byte by byte, that as long as it did not overflow the
ring holds what is due from its reader's offset on (`Holds`), that a descriptor that is not
connected has nothing due, and (`LinesInv`) that bytes due to the readers of a terminal
come with a line that the counter counts. A byte is named by its number and its cell by a
remainder of the offset; a read that wraps, a write that wraps and an offset that wraps at
2^32 are all the same remainder because the length of the ring divides 2^32, which is the
assumption on `SizeMod`. The lemmas `ModAt`, `ModUnique`, `ModAdd`, `ModMod` say so once.

### Window manager

`WindowInv` is `Sound(wm)` and `ToldBut(wm, {})`. A handler is a composition of operators, so the
proof has a lemma for each of them from `Sound` to `Sound`, and an action cites those it is made
of. What the properties do not say and the proof needs: the list has no duplicates;
`bar` is the active window or none, so that removing the active window drops it; the
active window is first below the dock (`OnTop`), so that `bring_to_front` fades the frame that was
drawn active; ids grow, so that a new window is nobody's old pointer; and while a handler has a
window in transit the listeners' knowledge is right but for that window (`ToldBut`).

### Clients and window server

`IpcInv` follows each message from the process that sends it to the one that takes it, for any
finite set of clients, any size of reads, any number of events and of requests. Its parts:

- `ConnsInv`: connection ids are unique. A message is addressed by a pid before the greeting and by
  a connection id after it, in one field. Both come from counters that start at 1 and know nothing
  of each other, so the theorems have the hypothesis `[]PidsApart`: without it a client takes the
  messages of another one (section 10).
- `AskInv`: a client has at most one request on the way, the one it waits with.
- `StageInv`: what a client that has no key yet can not have: events, a window, a batch.
- `ReplyInv`: only known messages are on the way; at most one is a reply to this client, with the
  id of the request it waits for; the reply to `new_window` comes before every event of the window.
  `wait_for_answer` compares key and id and no magic, and the ids of some events are those of
  replies: what saves it is that no event a client can be sent has the id of a reply it can
  wait for, or that the reply comes first.
- `LoopInv`: what the event loop holds are its own two events and the client's own messages.
- `Holds(Coming(self, s), ...)`: through the batch, the queue of the loop, the messages, the buffer,
  the socket and the server's queue, the client's events are those after `done` up to `sent`.

A step takes messages out of one of these sequences, drops those that are not the client's or
moves them into the next. `Thin(t, s, X)` says that `t` is `s` in order but for elements outside `X`;
it is kept by concatenation and by `Only`, and `Holds` is the same of both when `X` has the events.
The lemmas on the steps of a client and of the server are about records, so that they
speak of no primed variable; those at the end (`...Keeps`) apply them to the actions.

### Only model-checked

- Liveness (`RunnableRuns`, `ReadyThreadWakes`, `DyingProcessFreed`, `CallReturns`,
  `Answered`) and `ENABLED`: out of the prover's reach.
- Several CPUs: `sched_smp` shows a violation; nothing is claimed to hold there.
- The condition `PidsApart` is a hypothesis of the proofs; in the run `ipc` the pids are chosen so
  that it holds.
- What folds and recursive definitions compute for every input: the searches of `Bitmap`,
  the C library, the encoding of messages. They need induction over data.
- `Traps` and what `MCKernel` and `MCStorage` combine; `Memzone`, whose loading of a program is a
  recursive function; the file system; `ProcTable`; `BatchDecoded` of `WsProtocol`.

## 10. Where the code disagrees with what it says

Two runs reproduce one each. `sched_smp`: a blocker sets BLOCKED, SIGCONT from the other CPU
enqueues the thread before it reaches `resched()`, which enqueues it again; a later SIGSTOP removes one
of the two places and `sched()` picks a stopped thread, against its assertion (`sched.c:332`).
`vfs_creat`: a cached dentry keeps the parent pointer that was already put,
`open(O_CREAT)` of an existing file puts the parent again, down to the assertion in
`dentry_put_locked`. The constants of the other runs keep away from further weak spots. The same
modules refute the property named when the constants are changed as follows.

Scheduler and processes:

- `PickedIsRunnable` with `nice` and `create_thread`: `sys_nice` while a sibling is queued, which is
  later removed from the wrong list's ends; `sched()` then picks a dying thread
  (`syscalls/tasking.c`, `sched.c:148`, `sched.c:332`);
- `NoFreedThreadRuns` on two CPUs with `exit`: CPU 0 frees a dying process whose thread
  still executes on CPU 1 (`tasking.c:224`);
- `IdleAvailable` with `Targets = {1}` and `stop`: SIGSTOP for the idle process empties its list;
- `NoThreadOfDeadProcess` and `InductiveInv` with `raise` and `block`: a process that kills itself
  with a signal and blocks before the tick leaves a thread behind.

`ProcessesSound` with one of the `Uses` of `ProcTable`:

- `handler`, `cont`: a SIGCHLD handler or SIGCONT ends `waitpid` before the child has ended
  (`tasking.c:371`), `late`: the joined slot has another thread by then, `nobody`: `kill` of a pid
  nobody has reads a null pointer;
- `stranger`: a process waits for one that is not its child and is never woken;
- `exec`: an exec does not end the other threads of the process;
- `tick`: between the last two steps of the dumper a tick frees the address space it runs in.

Besides, `waitpid` with `WNOHANG` returns success with code 0 while the child still lives
(`tasking.c:368-375`), which `WaitIsExact` states as an exception, and it never gives a zombie's entry of `proc[]` back, fork sets the process group to
the group id, and `signal_process` ends the running process for a signal of another one
(`signal.c:264`). An exec with more than 128 bytes of strings fails with EINVAL.

File system:

- `OneDentryPerInode` and `RefsCovered` with `Preemptible = TRUE`: two misses make two dentries
  of one inode (`dentry.c:335`);
- `NoLostUpdate` with `InodeCacheLimit = 1`: `dentry_put_impl_locked` puts the parent before
  it writes the child, and `free_inode_cache` in that put drops the child's inode; and with
  `rmdir`: the link that a parent loses is not marked dirty;
- `NoOrphan` with `InodeCacheLimit = 1` or `rmdir`: a file to be deleted loses its inode number;
- `CallReturns` with the path `/..`: `ext2_lookup` takes the lock of the root twice
  (`ext2.c:1095`).

`DiskSound`:

- with `Cuts = {1}`: `ftruncate` frees blocks that stay in the inode; with `Gaps = {2}`: a write
  past the end of a file fills the gap with old content;
- with more than `BLOCK_LEN` blocks free in a group: `_ext2_free_block_index` takes the remainder by
  the length of a block, not by the blocks of a group;
- deleting the first entry of a block other than the first panics; a first name that is longer than
  a pointer overruns its record; `getdents` loses or repeats names in a directory of several
  blocks or when the last record has no byte to spare;
- with `StalePointers = TRUE`: a block of pointers is not cleared when it is allocated (`ext2.c:331`,
  `ext2.c:373`), so one that had another use before sends a file into arbitrary blocks; TLC stops
  at the first such pointer.

The free counts of inodes are never decremented, the group table is never written, the blocks of
pointers of a deleted inode are not freed, and a failed write keeps the lock.

Two statistics drift: the path that deletes an inode does not decrement
`stat_cached_dentries`, and `free_inode_cache` subtracts the area of entries that hold none. A lookup
that fails leaves the directory it has reached counted for ever (`vfs.c:625`), which is why
`RefsCovered` is an inequality.

Memory:

- `ImplementsPrivateMemory` on a machine with 9 frames and a swap file: a job that slept copies
  an entry that was moved out;
- reading an absent page of a forked table stops the kernel (`halted = "cow"`), although
  a comment (`vmm.c:321-322`) says that copy on write was resolved by the callers;
- 64-bit fork (`vmm64.c`, `_vmm_copy_of_aspace`) leaves the child's entry of device and shared
  pages unwritten, does not clear new tables and uses a zone that may be null;
- the default flags decode to `PERM_WRITE` on arm32 and arm64; `PERM_READ` on riscv64 sets R, W and
  X; an all-zero entry of a higher level decodes to WRITE and NONPRIV, so the kernel's 1 GB window
  is NONPRIV; a refused access on riscv64 is taken for an absent page; results of
  allocations are not looked at;
- with nothing at the top of user space a zero-length `mmap` with `MAP_STACK` would add an
  empty zone; programs have their stack there.

Traps and FPU: on arm32 `dump_and_kill` and `_vmm_sleep_locked` call `resched()` from a fault, on a
banked stack of the CPU that the next fault of any thread overwrites (`arm32/interrupts.s:90-157`);
`UserStateKept` says nothing of a thread that was left there. `undefined_handler` returns early without counting
`int_depth_counter` back (`handlers.c:100-102`); signal frames on x86_64 overwrite the red zone (`signal.c:147-149` against
`signal_impl.c:16`); a forked thread's FPU state on x86 is what was saved last, not what is in the
registers (`thread.c:110-112`); riscv64 counts `int_depth_counter` twice; the result of a `kill` of
oneself overwrites the argument of the handler (`syscalls/tasking.c:63`); exceptions 1-5 and 15-31
on x86 and faults other than page faults on arm64 stop the machine; x86 stubs 8, 10, 11, 12 and 17
push a word too many.

Virtio, `DevicesSound`: with `Overrun = TRUE` (more requests before a handler runs than the ring
holds) the memory of requests is freed twice, and with `MaxReqs` above `IdxMod` (more than 65536 requests)
a 32-bit `ack_used_idx` is compared with a 16-bit index. No interrupt is acknowledged, an error
of the device is not looked at, and one buffer without a lock serves all requests.

Drivers and system files: with `Drives = {"master", "slave"}` `DriversSound` fails, `ide.c` registers
both as master; every device is notified twice and its file system prepared twice; the first
storage device becomes the root whatever it holds (`vfs.c:137`); with `ChmodStale = TRUE`
`DevicesFound` fails (`devfs.c:273`, `vfs.c:555-578`); `devfs_getdents` is passed a dentry where it
takes a path (`vfs.c:536`); `self` and `sys` share an index in `/proc` (`root.c:69-86`); pids from
1024 on collide; with `GrowWhileRead = TRUE` a text has garbage; a listing with room for one entry
never advances.

C library: `UnsetAny = TRUE` violates `EnvIsMap`, `TellBuffered = TRUE` and `PartialWrites = TRUE`
violate `StreamIsFile`, `VbufSizes = {7}` makes `fwrite` spin; `setlinebuf` passes the size 0, with which
`_resize_buf` frees the buffer and goes on with it (`stdio.c:323-326`, `490-493`), and the model ends
there (`use = "gone"`); `ungetc` on an unbuffered stream is lost (`stdio.c:599-605`); `fgets` keeps the
result of `fgetc` in a `char` (`stdio.c:250`, `262`), so a byte from 128 on ends a line where `char`
is signed, and the end of a file is never seen where it is not; `atoi` overflows on ten digits and
`stoi` returns 0 (`tools.c:13-16`, `utils.c:34`); `strstr("", "")` is NULL (`string.c:251`); `setbuf(NULL)` and `fclose` free a
buffer twice; `fopen` never returns NULL and `_parse_mode` reads an uninitialised flag; `fgets`
writes no final 0; `fseek` leaves the EOF flag; a passwd line with too many fields spoils the
next one; `localtime` gives a 32nd of January (`time.c:29-42`); `printf` returns 0; `atoi` ignores
signs.

`AnswerIsReply` with `Clients = {2, 5, 6}`, `Dock = 6`, `MaxRequests = 0`: the client with pid 2 waits for the
reply to its greeting, whose id is 2, while the client with connection id 2 is sent a
`MouseActionMessage`, whose id is 2 as well; the first takes it for its reply (`ClientConnection.h:51`,
`IPC/Connection.h:34`, `proc.c:111-113`).

Window server: a destroyed dock is still moved to the front (`WindowManager.cpp:194`), and a popup
that a client opened outlives its window (`ServerDecoder.cpp:203`).

## 11. What is not modelled

- Scheduler: interleavings inside a list operation on several CPUs, `PREEMPT_KERNEL`, the balance of time slices; the conditions of
  blockers are flags.
- Processes: the headers of programs, identities, process groups, the text of dumps.
- File system: mounts in `Vfs`, ejection, hard links (no system call makes one), symbolic
  links, custom dentries, disk errors other than a full disk, permissions (an error is a
  choice of the action), select, ioctl, lseek and stat.
  The lock of the directory is not held in the model while `ext2_create` puts the new
  file's dentry, which has no parent then; it makes no difference without preemption.
  A power cut inside `ftruncate` or an operation on directories.
- Memory: sibling threads, which can enter an address space while a job that sleeps for a frame has
  released its lock (`vmm32.c:292`, `561`); processes have one thread in `Vmm`.
- Drivers: device registers; loaders and the set-up of controllers, which run once.
- The wait loop of a lock and the clock: a lock is a guard, a time-out a condition.
- The limit of the sockets between clients and window server: those of `Ipc` lose nothing, while the code
  overwrites the 16 KB ring under a slow reader (`local_socket.c:58-67`; `Streams` has this).
- The window server takes any number of home screens and app lists; the model has one of each.
- The compositor and the drawing of the window server, its mobile target; `libcxx`,
  `libfoundation` but for its event loop, `libg`, `libui` but for its connection, `libobjc`.
- `userland/` but for the window server, and vendored code.

## 12. How to run

`tlc -config SchedRounds.cfg SchedInv` and likewise for every run of `PROJECT.json`, which names its
module and its cfg; each takes less than five minutes. `tlapm SchedProofs.tla` checks the proofs of
a module, likewise `RunQueueProofs`, `VmmFrames`, `VmmProofs`, `VmmContent`, `StreamsProofs`,
`WindowProofs` and `IpcProofs`, the longest with about seven minutes.
