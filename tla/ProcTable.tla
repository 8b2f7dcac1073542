----------------------------- MODULE ProcTable ------------------------------
(* The process table (tasking/tasking.c, proc.c, dump.c, kthread.c): pids,   *)
(* parents, exit and zombies, waitpid over thread slots that are used again, *)
(* exec, ptrace, and the thread that dumps a crashed process.  Threads run   *)
(* in any order; which one is next is the business of Sched.  The last part  *)
(* is the arguments and the environment of a new program.                    *)
EXTENDS Integers, Sequences, FiniteSets, FiniteSetsExt, SequencesExt

CONSTANTS
    MaxProcs,           \* bound: entries of proc[] that get used
    THREADS_PER_NODE,
    MaxThreadsMade,     \* bound: threads created
    Codes,              \* exit codes
    Uses                \* unusual uses that programs may make, see Unusual

Unusual == {"handler",      \* a handler of SIGCHLD
            "stranger",     \* waitpid by a process that is not the parent
            "late",         \* waitpid when the slot of the thread has another thread
            "exec",         \* exec by a thread that is not the first of its process
            "cont",         \* SIGCONT to a thread that waits
            "nobody",       \* kill of a pid that nobody has
            "tick"}         \* a tick between the last two steps of the dumper
ASSUME ProcsAssumption ==
    /\ MaxProcs \in Nat \ {0} /\ THREADS_PER_NODE \in Nat \ {0}
    /\ Codes \subseteq Nat \ {0} /\ Uses \subseteq Unusual

VARIABLE pr
\* procs: proc[0 .. nxt_proc - 1]     ths: the slots of the list of nodes
\* spots: empty_spots of the last node, which is the only one that slots are taken from
\* next: proc_next_pid     saw: what the last waitpid returned     ub: a null pointer was read
\* exits: ghost, the code each pid has exited with     made: threads created

NoThread == [tid |-> 0, p |-> 0, st |-> "free", why |-> "none", joinee |-> 0, jpid |-> 0,
             term |-> FALSE, chld |-> FALSE]
ThreadsIn(v, S) == {k \in DOMAIN v.ths : v.ths[k].st \in S}
MainOf(v, p) == v.ths[v.procs[p].main]

\* foreach_thread: slots in use whose process has this pid.
foreach_thread(v, p) ==
    {k \in DOMAIN v.ths : /\ v.ths[k].st # "free"
                          /\ v.procs[v.ths[k].p].pid = v.procs[p].pid}
SetThreads(v, S, st) ==
    [v EXCEPT !.ths = [k \in DOMAIN @ |-> IF k \in S THEN [@[k] EXCEPT !.st = st] ELSE @[k]]]

\* 0 stands for NULL.
FirstOrNull(S) == IF S = {} THEN 0 ELSE Min(S)
tasking_get_thread(v, tid) == FirstOrNull({k \in DOMAIN v.ths : v.ths[k].tid = tid})
tasking_get_proc(v, pid) == FirstOrNull({p \in DOMAIN v.procs : v.procs[p].pid = pid})
\* A slot that was never used has no process to read the pid of.
thread_by_pid(v, pid) ==
    FirstOrNull({k \in DOMAIN v.ths : v.ths[k].p = 0 \/ v.procs[v.ths[k].p].pid = pid})

-----------------------------------------------------------------------------
\* empty_spots counts allocations: slots that come free are used again only until each node
\* has served THREADS_PER_NODE of them.
proc_alloc_thread_storage_node == [i \in 1 .. THREADS_PER_NODE |-> NoThread]
WithSpot(v) ==
    IF v.spots > 0 THEN v
    ELSE [v EXCEPT !.ths = @ \o proc_alloc_thread_storage_node, !.spots = THREADS_PER_NODE]
FreeSpot(v) ==
    Min({k \in ThreadsIn(v, {"free"}) : k > Len(v.ths) - THREADS_PER_NODE})

\* thread_setup_main, thread_setup and kthread_setup: a new thread of process p, with pid tid.
SetupThread(v, p, tid, chld) ==
    LET w == WithSpot(v)
    IN [w EXCEPT !.ths[FreeSpot(w)] = [NoThread EXCEPT !.tid = tid, !.p = p, !.st = "running",
                                                       !.chld = chld],
                 !.spots = @ - 1, !.made = @ + 1]

NoProc == [pid |-> 0, ppid |-> 0, status |-> "invalid", code |-> 0, main |-> 0,
           kthread |-> FALSE, tracee |-> FALSE, space |-> TRUE, dumps |-> 0]
\* An entry of proc[] with its first thread; entries are never used again.
NewProc(v, rec, chld) ==
    LET w == [v EXCEPT !.procs = Append(@, [rec EXCEPT !.pid = v.next]), !.next = @ + 1]
        p == Len(w.procs)
        x == SetupThread(w, p, v.next, chld)
    IN [x EXCEPT !.procs[p].main = FreeSpot(WithSpot(w))]

proc_fork_from(v, t) ==
    NewProc(v, [NoProc EXCEPT !.status = "alive", !.ppid = v.procs[v.ths[t].p].pid],
            v.ths[t].chld)

tasking_create_kernel_thread(v, dumps) ==
    NewProc(v, [NoProc EXCEPT !.kthread = TRUE, !.dumps = dumps], FALSE)

\* Mutant: the zombies stay when their parent exits.
proc_dieKeepsZombies(v, p, code) ==
    SetThreads([v EXCEPT !.procs[p].code = code, !.procs[p].status = "dying",
                         !.exits = @ @@ v.procs[p].pid :> code],
               foreach_thread(v, p), "dying")

tasking_evict_proc_entry(e) == [e EXCEPT !.pid = 0, !.status = "dead"]
tasking_evict_zombies_waiting_for(v, p) ==
    [v EXCEPT !.procs = [q \in DOMAIN @ |->
        IF @[q].status = "zombie" /\ @[q].ppid = v.procs[p].pid
        THEN tasking_evict_proc_entry(@[q]) ELSE @[q]]]
proc_die(v, p, code) ==
    tasking_evict_zombies_waiting_for(
        SetThreads([v EXCEPT !.procs[p].code = code, !.procs[p].status = "dying",
                             !.exits = @ @@ v.procs[p].pid :> code],
                   foreach_thread(v, p), "dying"), p)

-----------------------------------------------------------------------------
\* A handler of SIGCHLD is told instead; its thread is not woken.
tasking_should_become_zombie(v, p) ==
    LET pp == tasking_get_proc(v, v.procs[p].ppid)
    IN pp # 0 /\ v.procs[pp].status = "alive" /\ ~MainOf(v, pp).chld

proc_free_locked(v, p) ==
    [SetThreads(v, {k \in foreach_thread(v, p) : v.ths[k].st = "dying"}, "free")
       EXCEPT !.procs[p].space = v.procs[p].kthread, !.procs[p].tracee = FALSE]

KillOne(v, p) ==
    IF v.procs[p].status # "dying" THEN v
    ELSE LET w == IF v.procs[p].pid = 0 THEN v ELSE proc_free_locked(v, p)
         IN IF tasking_should_become_zombie(w, p) THEN [w EXCEPT !.procs[p].status = "zombie"]
            ELSE [w EXCEPT !.procs[p] = tasking_evict_proc_entry(@)]
tasking_kill_dying(v) == FoldLeftDomain(KillOne, v, v.procs)

should_unblock_join_block(v, joinee, jpid) ==
    LET j == v.ths[joinee] IN j.st = "free" \/ j.tid # jpid \/ j.st = "dying"
sched_unblock_threads(v) ==
    SetThreads(v, {k \in ThreadsIn(v, {"blocked"}) :
                     /\ v.ths[k].why = "join"
                     /\ should_unblock_join_block(v, v.ths[k].joinee, v.ths[k].jpid)}, "running")

\* The end of a round of the scheduler.
EndOfRound ==
    /\ \E p \in DOMAIN pr.procs : pr.procs[p].status = "dying"
    /\ pr' = sched_unblock_threads(tasking_kill_dying(pr))

-----------------------------------------------------------------------------
\* A thread that is not inside of waitpid, of a program.
InUserCode(t) == pr.ths[t].st = "running" /\ pr.ths[t].why = "none" /\ ~pr.procs[pr.ths[t].p].kthread
RoomForProc == Len(pr.procs) < MaxProcs /\ pr.made < MaxThreadsMade
UsedPids == {pr.procs[p].pid : p \in DOMAIN pr.procs} \ {0}

tasking_fork(t) == InUserCode(t) /\ RoomForProc /\ pr' = proc_fork_from(pr, t)

sys_create_thread(t) ==
    /\ InUserCode(t) /\ pr.made < MaxThreadsMade
    /\ pr' = [SetupThread(pr, pr.ths[t].p, pr.next, FALSE) EXCEPT !.next = @ + 1]

tasking_exit(t, code) == InUserCode(t) /\ pr' = proc_die(pr, pr.ths[t].p, code)

\* A signal whose default is to end the process; the thread takes it when it runs next.
sys_kill(t, pid) ==
    LET k == thread_by_pid(pr, pid)
    IN /\ InUserCode(t) /\ k # 0 /\ k # t
       /\ "nobody" \in Uses \/ pr.ths[k].p # 0
       /\ pr' = IF pr.ths[k].p = 0 THEN [pr EXCEPT !.ub = TRUE]
                ELSE IF pr.ths[k].st \in {"free", "dying"} THEN pr
                ELSE [pr EXCEPT !.ths[k].term = TRUE]
signal_dispatch_pending(t) ==
    /\ pr.ths[t].st = "running" /\ pr.ths[t].term
    /\ pr' = proc_die([pr EXCEPT !.ths[t].term = FALSE], pr.ths[t].p, 0)

signal_set_handler(t) ==
    /\ "handler" \in Uses /\ InUserCode(t) /\ ~pr.ths[t].chld
    /\ pr' = [pr EXCEPT !.ths[t].chld = TRUE]

-----------------------------------------------------------------------------
\* The end of waitpid: the entry is looked up again, and whatever code it has is returned.
\* saw.hung: the call was made without WNOHANG     saw.over: ghost, the process had exited
ReadStatus(v, pid, hung) ==
    LET p == tasking_get_proc(v, pid)
    IN IF p = 0 THEN [v EXCEPT !.ub = TRUE]
       ELSE [v EXCEPT !.saw = [pid |-> pid, code |-> v.procs[p].code, hung |-> hung,
                               over |-> pid \in DOMAIN v.exits]]

MayWait(t, p) == "stranger" \in Uses \/ pr.procs[p].ppid = pr.procs[pr.ths[t].p].pid

\* init_join_blocker takes the slot of the thread pid and blocks unless it is dying or gone;
\* with WNOHANG there is no join.
tasking_waitpid(t, pid, options) ==
    LET p == tasking_get_proc(pr, pid)
        j == tasking_get_thread(pr, pid)
    IN /\ InUserCode(t) /\ p # 0 /\ MayWait(t, p)
       /\ \/ /\ "WNOHANG" \in options
             /\ pr' = ReadStatus(pr, pid, FALSE)
          \/ /\ "WNOHANG" \notin options
             /\ "late" \in Uses \/ j # 0
             /\ pr' = IF j = 0 THEN [pr EXCEPT !.ub = TRUE]
                      ELSE IF should_unblock_join_block(pr, j, pid) THEN ReadStatus(pr, pid, TRUE)
                      ELSE [pr EXCEPT !.ths[t].st = "blocked", !.ths[t].why = "join",
                                      !.ths[t].joinee = j, !.ths[t].jpid = pid]
AfterJoin(t) ==
    /\ pr.ths[t].st = "running" /\ pr.ths[t].why = "join" /\ ~pr.ths[t].term
    /\ pr' = ReadStatus([pr EXCEPT !.ths[t].why = "none", !.ths[t].joinee = 0, !.ths[t].jpid = 0],
                        pr.ths[t].jpid, TRUE)

-----------------------------------------------------------------------------
\* thread_free refuses threads that are not dying: exec leaves the others running.
proc_load(v, t) ==
    LET p == v.ths[t].p
    IN [v EXCEPT !.procs[p].main = t, !.procs[p].pid = v.ths[t].tid]
\* A tracee stops before the first instruction of the new program.
tasking_exec(t) ==
    LET p == pr.ths[t].p
        v == proc_load(pr, t)
    IN /\ InUserCode(t) /\ (pr.ths[t].tid = pr.procs[p].pid \/ "exec" \in Uses)
       /\ pr' = IF pr.procs[p].tracee THEN [v EXCEPT !.ths[t].st = "stopped"] ELSE v
       /\ pr' # pr

PTRACE_TRACEME(t) ==
    /\ InUserCode(t) /\ ~pr.procs[pr.ths[t].p].tracee
    /\ pr' = [pr EXCEPT !.procs[pr.ths[t].p].tracee = TRUE]
PTRACE_CONT(t, pid) ==
    LET k == thread_by_pid(pr, pid)
    IN /\ InUserCode(t) /\ k # 0 /\ pr.ths[k].p # 0
       /\ \/ pr.ths[k].st = "stopped"
          \/ "cont" \in Uses /\ pr.ths[k].st = "blocked" /\ pr.ths[k].why = "join"
       /\ pr' = [pr EXCEPT !.ths[k].st = "running"]

-----------------------------------------------------------------------------
\* All threads of the process are blocked for good, also those that wait, and a kernel
\* thread with its address space runs.
dump_and_kill(t) ==
    LET p == pr.ths[t].p
        blocked == SetThreads(pr, foreach_thread(pr, p), "blocked")
        frozen == [blocked EXCEPT !.ths = [k \in DOMAIN @ |->
                     IF k \in foreach_thread(pr, p) THEN [@[k] EXCEPT !.why = "dump"] ELSE @[k]]]
    IN InUserCode(t) /\ RoomForProc /\ pr' = tasking_create_kernel_thread(frozen, p)

\* proc_die(p, 9), then SYS_EXIT, in the address space of p.
dumper(t) ==
    LET d == pr.ths[t].p
        p == pr.procs[d].dumps
        v == IF pr.procs[p].status # "alive" THEN pr ELSE proc_die(pr, p, 9)
    IN /\ pr.ths[t].st = "running" /\ pr.procs[d].kthread
       /\ \/ pr' = proc_die(v, d, 0)
          \/ "tick" \in Uses /\ v # pr /\ pr' = v

PrInit ==
    LET none == [procs |-> <<>>, ths |-> <<>>, spots |-> 0, next |-> 1, made |-> 0, ub |-> FALSE,
                 saw |-> [pid |-> 0, code |-> 0, hung |-> FALSE, over |-> FALSE],
                 exits |-> 0 :> 0]
    IN pr = NewProc(none, [NoProc EXCEPT !.status = "alive"], FALSE)

PrStep(t) ==
    \/ tasking_fork(t) \/ sys_create_thread(t) \/ \E c \in Codes : tasking_exit(t, c)
    \/ \E pid \in UsedPids : sys_kill(t, pid) \/ PTRACE_CONT(t, pid)
                             \/ \E options \in SUBSET {"WNOHANG"} : tasking_waitpid(t, pid, options)
    \/ signal_dispatch_pending(t) \/ signal_set_handler(t) \/ AfterJoin(t)
    \/ tasking_exec(t) \/ PTRACE_TRACEME(t) \/ dump_and_kill(t) \/ dumper(t)
PrNext == ~pr.ub /\ (EndOfRound \/ \E t \in DOMAIN pr.ths : PrStep(t))

-----------------------------------------------------------------------------
\* waitpid reads no null pointer and returns the code its process has exited with, however
\* the entry, the slot of the thread and the zombie have fared in between.  Only a call with
\* WNOHANG comes back while the process lives, and then with the code of a new process, 0,
\* which the caller cannot tell from an exit.
WaitIsExact ==
    /\ ~pr.ub
    /\ pr.saw.pid # 0 => IF pr.saw.over THEN pr.saw.code = pr.exits[pr.saw.pid]
                         ELSE ~pr.saw.hung /\ pr.saw.code = 0

\* Nobody waits for ever: the thread somebody waits for still exists and belongs to a
\* process that has not gone.
WaitsForLiving ==
    \A t \in ThreadsIn(pr, {"blocked"}) : pr.ths[t].why = "join" =>
      LET j == pr.ths[pr.ths[t].joinee]
      IN j.tid = pr.ths[t].jpid /\ j.st # "free" /\ pr.procs[j.p].status \in {"alive", "dying"}

\* Every zombie has a living parent who may still ask for it.
ZombiesAwaited ==
    \A p \in DOMAIN pr.procs : pr.procs[p].status = "zombie" =>
      \E q \in DOMAIN pr.procs : pr.procs[q].status = "alive" /\ pr.procs[q].pid = pr.procs[p].ppid

\* A thread that can run has a process with this pid, an address space that has not been
\* freed, and the dumper the one of the process it reads, whose threads are frozen.
RunsInOwnSpace ==
    \A t \in ThreadsIn(pr, {"running", "blocked", "stopped"}) :
      LET p == pr.ths[t].p
          d == pr.procs[p].dumps
      IN /\ pr.procs[p].space /\ pr.procs[p].pid # 0
         /\ d # 0 => /\ pr.procs[d].space
                     /\ \A k \in foreach_thread(pr, d) : pr.ths[k].st \in {"blocked", "dying"}

-----------------------------------------------------------------------------
(* exec checks and copies the strings for a new program (tasking.c, umem.c)  *)
(* and thread_fill_up_stack (thread.c) lays them out below the top of its    *)
(* stack.  A string is its length; what matters is where each byte lands     *)
(* and what each pointer points at.                                          *)

CONSTANTS
    ArgLens,        \* lengths of the strings, without the final 0
    MaxArgs,        \* bound: strings in an array
    USER_STR_MAXLEN, USER_PTRARRAY_MAXLEN,
    MaxData,        \* 128 in the code: bytes of strings in one array
    StackTop        \* vaddr + USER_STACK_SIZE of the stack's zone

ASSUME ExecArgsAssumption == ArgLens \subseteq Nat /\ MaxArgs \in Nat /\ StackTop % 16 = 0

VARIABLE xa     \* the call of exec, and what _start finds

Machines32 == {"i386", "arm"}
WordSize(arch) == IF arch \in Machines32 THEN 4 ELSE 8

-----------------------------------------------------------------------------
umem_validate_str(len) == len <= USER_STR_MAXLEN
umem_validate_ptrarray(arr) == Len(arr) <= USER_PTRARRAY_MAXLEN
DataLen(arr) == FoldLeft(LAMBDA n, len : n + len + 1, 0, arr)

\* An array that is a null pointer is the empty one.
_tasking_validate_exec_params(arr) ==
    /\ umem_validate_ptrarray(arr)
    /\ \A i \in DOMAIN arr : umem_validate_str(arr[i])
    /\ DataLen(arr) <= MaxData

-----------------------------------------------------------------------------
RoundUp(n, w) == IF n % w = 0 THEN n ELSE n + w - (n % w)
DataSize(arr, w) == RoundUp(DataLen(arr), w)
ArraySize(arr, w) == (Len(arr) + 1) * w

EndOfString == <<0, 0>>
\* Strings are put from the top of their area downwards, the last one first.
StringAt(arr, i, top) == top - DataLen(SubSeq(arr, i, Len(arr)))
\* The bytes of the strings, each with its final 0, and the words of the array.
StringBytes(arr, top) ==
    UNION {{[at |-> StringAt(arr, i, top) + k, byte |-> IF k = arr[i] THEN EndOfString ELSE <<i, k>>]
               : k \in 0 .. arr[i]} : i \in DOMAIN arr}
ArrayWords(arr, base, top, w) ==
    {[at |-> base + (i - 1) * w, word |-> StringAt(arr, i, top)] : i \in DOMAIN arr}
        \cup {[at |-> base + Len(arr) * w, word |-> 0]}

\* The areas from sp downwards: strings and array of envp, strings and array of argv, and on
\* i386 the arguments of main; elsewhere those are in registers and the stack is aligned to
\* two words.
thread_fill_up_stack(arch, sp, argv, envp) ==
    LET w == WordSize(arch)
        envp_data_sp == sp - DataSize(envp, w)
        envp_array_sp == envp_data_sp - ArraySize(envp, w)
        argv_data_sp == envp_array_sp - DataSize(argv, w)
        argv_array_sp == argv_data_sp - ArraySize(argv, w)
        end == IF arch = "i386" THEN argv_array_sp - 3 * w
               ELSE argv_array_sp - (argv_array_sp % (2 * w))
        main == <<Len(argv), argv_array_sp, envp_array_sp>>
    IN [sp |-> end,
        regs |-> IF arch = "i386" THEN <<>> ELSE main,
        bytes |-> StringBytes(argv, envp_array_sp) \cup StringBytes(envp, sp),
        words |-> ArrayWords(argv, argv_array_sp, envp_array_sp, w)
                    \cup ArrayWords(envp, envp_array_sp, sp, w)
                    \cup (IF arch # "i386" THEN {}
                          ELSE {[at |-> end + (i - 1) * w, word |-> main[i]] : i \in 1 .. 3})]

Arrays == UNION {[1 .. n -> ArgLens] : n \in 0 .. MaxArgs}
XaInit ==
    \E arch \in {"i386", "x86_64", "arm", "arm64", "riscv64"}, a, e \in Arrays :
      xa = [arch |-> arch, argv |-> a, envp |-> e, res |-> "none", got |-> <<>>]

tasking_exec_args ==
    /\ xa.res = "none"
    /\ xa' = IF _tasking_validate_exec_params(xa.argv) /\ _tasking_validate_exec_params(xa.envp)
             THEN [xa EXCEPT !.res = "OK",
                             !.got = thread_fill_up_stack(xa.arch, StackTop, xa.argv, xa.envp)]
             ELSE [xa EXCEPT !.res = "EINVAL"]
XaNext == tasking_exec_args

-----------------------------------------------------------------------------
WordAt(g, a) == {c.word : c \in {d \in g.words : d.at = a}}
ByteAt(g, a) == {c.byte : c \in {d \in g.bytes : d.at = a}}
\* arr is what the program reads through the array at base.
FindsArray(g, base, arr, w) ==
    /\ \A i \in DOMAIN arr :
         \E p \in Nat \cap WordAt(g, base + (i - 1) * w) :
           /\ WordAt(g, base + (i - 1) * w) = {p}
           /\ \A k \in 0 .. arr[i] :
                ByteAt(g, p + k) = {IF k = arr[i] THEN EndOfString ELSE <<i, k>>}
    /\ WordAt(g, base + Len(arr) * w) = {0}

\* The new program finds its arguments and its environment: argc, argv and envp are where
\* its machine's _start takes them from, every pointer leads to its string and the string
\* to its end, no word of an array shares a byte with a string, and all of it lies between
\* the stack pointer, aligned as the machine wants it, and the top of the stack.
ArgumentsArrive ==
    xa.res = "OK" =>
      LET g == xa.got
          w == WordSize(xa.arch)
          main == IF xa.arch # "i386" THEN g.regs
                  ELSE [i \in 1 .. 3 |-> CHOOSE x \in WordAt(g, g.sp + (i - 1) * w) : TRUE]
      IN /\ main[1] = Len(xa.argv)
         /\ FindsArray(g, main[2], xa.argv, w) /\ FindsArray(g, main[3], xa.envp, w)
         /\ \A c \in g.words : /\ c.at % w = 0 /\ g.sp <= c.at /\ c.at + w <= StackTop
                               /\ \A k \in 0 .. w - 1 : ByteAt(g, c.at + k) = {}
         /\ \A c \in g.bytes : c.at < StackTop
         /\ g.sp % (IF xa.arch = "i386" THEN w ELSE 2 * w) = 0
=============================================================================
