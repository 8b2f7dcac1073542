------------------------------- MODULE Sched -------------------------------
(***************************************************************************)
(* The scheduler of the kernel: kernel/kernel/tasking/sched.c over the run  *)
(* queues of RunQueue, with everything that changes the status of a thread: *)
(* blockers (blocker.c), stopping and dying (thread.c), the creation and    *)
(* death of threads and processes (proc.c, tasking.c), the signals that act *)
(* on scheduling (signal.c) and nice (syscalls/tasking.c).                  *)
(*                                                                          *)
(* The granularity is that of a kernel without PREEMPT_KERNEL: a system     *)
(* call runs with interrupts off until it returns or calls resched().  The  *)
(* loops of the code (the search for the next thread, the walks over the    *)
(* thread storage) take one step per iteration, so with several CPUs they   *)
(* interleave with what the other CPUs do.                                  *)
(*                                                                          *)
(* pc[c] says where CPU c is:                                               *)
(*   "run"      the thread running[c] executes                              *)
(*   "resched"  the thread running[c] is in the kernel and calls resched()  *)
(*   "sched"    the loop of sched()                                         *)
(*   "unblock"  sched_unblock_threads, at the thread scan[c]                *)
(*   "die"      proc_die(victim[c]), at the thread scan[c]                  *)
(* running[c] is the thread that executes on CPU c, and NULL inside         *)
(* sched(), where RUNNING_THREAD still points to the thread that was left.  *)
(***************************************************************************)
EXTENDS RunQueue, FiniteSets

CONSTANTS
  NProcs,        \* number of entries of proc[] the model may use
  DEFAULT_PRIO,  \* the priority of a new process
  Calls,         \* the system calls the threads make
  Targets,       \* the processes whose pid is given to kill()
  MinLoad        \* bound: no SIGSTOP once enqueued_tasks is below MinLoad

ASSUME SchedAssumption ==
  /\ NProcs \in Nat
  /\ DEFAULT_PRIO \in MAX_PRIO..MIN_PRIO
  /\ MinLoad \in Int
  /\ Calls \subseteq {"block", "sigreturn", "exit", "create_thread", "fork",
                      "stop", "cont", "term", "raise", "nice"}
  /\ Targets \subseteq 1..NProcs
  /\ \E n \in 0..NThreads : CPUs = 0..n /\ n + 2 <= NThreads /\ n + 2 <= NProcs

VARIABLES
  status,          \* thread_t::status
  reason,          \* blocker.reason # BLOCKER_INVALID, for every thread
  ready,           \* what blocker.should_unblock would answer now
  pending,         \* a terminating signal is pending, for every thread
  process,         \* thread_t::process, 0 for a slot that was never used
  last_cpu,        \* thread_t::last_cpu
  pstat,           \* proc_t::status
  prio,            \* proc_t::prio
  enqueued_tasks,  \* sched_data_t::enqueued_tasks, for every CPU
  next_read_prio,  \* sched_data_t::next_read_prio, for every CPU
  running,         \* the thread that executes on every CPU
  pc, scan, victim, after

thVars   == <<status, reason, ready, pending, process, last_cpu>>
procVars == <<pstat, prio>>
loopVars == <<scan, victim, after>>
vars == <<rqVars, thVars, procVars, enqueued_tasks, next_read_prio, running,
          pc, loopVars>>

Procs   == 1..NProcs
NOT_SET == -1                       \* LAST_CPU_NOT_SET
Idle(c) == c + 1                    \* the idle thread of CPU c, and its process
IdleThreads == {Idle(c) : c \in CPUs}
FirstUser   == Cardinality(CPUs) + 1  \* the init process and its thread

SchedTypeOK ==
  /\ RunQueueTypeOK
  /\ status \in [Threads -> {"INVALID", "RUNNING", "STOPPED", "BLOCKED", "DYING"}]
  /\ reason \in [Threads -> BOOLEAN]
  /\ ready \in [Threads -> BOOLEAN]
  /\ pending \in [Threads -> BOOLEAN]
  /\ process \in [Threads -> Procs \cup {NULL}]
  /\ last_cpu \in [Threads -> CPUs \cup {NOT_SET}]
  /\ pstat \in [Procs -> {"INVALID", "ALIVE", "DYING", "DEAD"}]
  /\ prio \in [Procs -> Prios]
  /\ enqueued_tasks \in [CPUs -> Int]
  /\ next_read_prio \in [CPUs -> Prios]
  /\ running \in [CPUs -> Ptr]
  /\ pc \in [CPUs -> {"run", "resched", "sched", "unblock", "die"}]
  /\ scan \in [CPUs -> 1..(NThreads + 1)]
  /\ victim \in [CPUs -> Procs \cup {NULL}]
  /\ after \in [CPUs -> {"run", "resched", "sched"}]

(***************************************************************************)
(* The state in which the boot code calls resched() on every CPU: the idle  *)
(* threads were put into the slave arrays by _create_idle_thread, and the   *)
(* first process by sched_enqueue, on CPU 0.                                *)
(***************************************************************************)
Init ==
  /\ master = [c \in CPUs |-> 0]
  /\ head = [q \in Queues |->
               IF q = <<0, 1, DEFAULT_PRIO>> THEN FirstUser
               ELSE IF q[2] = 1 /\ q[3] = IDLE_PRIO THEN Idle(q[1]) ELSE NULL]
  /\ tail = head
  /\ sched_next = [t \in Threads |-> NULL]
  /\ sched_prev = [t \in Threads |-> NULL]
  /\ status = [t \in Threads |-> IF t <= FirstUser THEN "RUNNING" ELSE "INVALID"]
  /\ reason = [t \in Threads |-> FALSE]
  /\ ready = [t \in Threads |-> FALSE]
  /\ pending = [t \in Threads |-> FALSE]
  /\ process = [t \in Threads |-> IF t <= FirstUser THEN t ELSE NULL]
  /\ last_cpu = [t \in Threads |-> IF t = FirstUser THEN 0 ELSE NOT_SET]
  /\ pstat = [p \in Procs |-> IF p <= FirstUser THEN "ALIVE" ELSE "INVALID"]
  /\ prio = [p \in Procs |-> IF p \in IdleThreads THEN IDLE_PRIO ELSE DEFAULT_PRIO]
  /\ enqueued_tasks = [c \in CPUs |-> IF c = 0 THEN 2 ELSE 1]
  /\ next_read_prio = [c \in CPUs |-> 0]
  /\ running = [c \in CPUs |-> NULL]
  /\ pc = [c \in CPUs |-> "sched"]
  /\ scan = [c \in CPUs |-> 1]
  /\ victim = [c \in CPUs |-> NULL]
  /\ after = [c \in CPUs |-> "run"]

-----------------------------------------------------------------------------
\* _sched_find_cpu_with_less_load: the first CPU with the smallest counter.
IsLeastLoaded(c) ==
  \A d \in CPUs : /\ enqueued_tasks[c] <= enqueued_tasks[d]
                  /\ d < c => enqueued_tasks[c] < enqueued_tasks[d]

(***************************************************************************)
(* sched_enqueue for a thread of process p that last ran on CPU lc: the     *)
(* thread goes back to that CPU, and a thread that never ran to the least   *)
(* loaded one.                                                              *)
(***************************************************************************)
Enqueue(t, p, lc, pr) ==
  LET npr == IF pr > MIN_PRIO THEN MIN_PRIO ELSE pr IN
  \E cpu \in CPUs :
    /\ IF lc # NOT_SET THEN cpu = lc ELSE IsLeastLoaded(cpu)
    /\ AddToStart(cpu, npr, t)
    /\ status' = [status EXCEPT ![t] = "RUNNING"]
    /\ prio' = [prio EXCEPT ![p] = npr]
    /\ last_cpu' = [last_cpu EXCEPT ![t] = cpu]
    /\ enqueued_tasks' = [enqueued_tasks EXCEPT ![cpu] = @ + 1]

\* sched_dequeue: a thread that was never given to a CPU is left alone.
Dequeue(t) ==
  IF last_cpu[t] # NOT_SET
    THEN /\ DequeueImpl(last_cpu[t], prio[process[t]], t)
         /\ enqueued_tasks' = [enqueued_tasks EXCEPT ![last_cpu[t]] = @ - 1]
    ELSE UNCHANGED <<rqVars, enqueued_tasks>>

-----------------------------------------------------------------------------
\* A mutant of Resched: the thread is queued again whatever its status.
ReschedAlwaysQueues(c) ==
  LET t == running[c] IN
  /\ pc[c] \in {"run", "resched"}
  /\ AddToEnd(last_cpu[t], prio[process[t]], t)
  /\ pc' = [pc EXCEPT ![c] = "sched"]
  /\ running' = [running EXCEPT ![c] = NULL]
  /\ UNCHANGED <<thVars, procVars, enqueued_tasks, next_read_prio, loopVars>>

(***************************************************************************)
(* resched(): called by a system call that gives the CPU up, or by          *)
(* sched_tick when the time slice is over.  A thread that is still runnable *)
(* goes to the end of its list of the next round.                           *)
(***************************************************************************)
Resched(c) ==
  LET t == running[c] IN
  /\ pc[c] \in {"run", "resched"}
  /\ IF status[t] = "RUNNING"
       THEN AddToEnd(last_cpu[t], prio[process[t]], t)
       ELSE UNCHANGED rqVars
  /\ pc' = [pc EXCEPT ![c] = "sched"]
  /\ running' = [running EXCEPT ![c] = NULL]
  /\ UNCHANGED <<thVars, procVars, enqueued_tasks, next_read_prio, loopVars>>

\* sched(): the list of the current priority is empty, try the next one.
NextPrio(c) ==
  /\ pc[c] = "sched"
  /\ head[MasterQueue(c, next_read_prio[c])] = NULL
  /\ next_read_prio[c] < IDLE_PRIO
  /\ next_read_prio' = [next_read_prio EXCEPT ![c] = @ + 1]
  /\ UNCHANGED <<rqVars, thVars, procVars, enqueued_tasks, running, pc, loopVars>>

\* Mutants of KillDying: the threads, or the process itself, are forgotten.
KillDyingKeepsThreads ==
  /\ UNCHANGED status
  /\ pstat' = [p \in Procs |-> IF pstat[p] = "DYING" THEN "DEAD" ELSE pstat[p]]

KillDyingKeepsProcess ==
  /\ status' = [t \in Threads |-> IF status[t] = "DYING" THEN "INVALID" ELSE status[t]]
  /\ UNCHANGED pstat

(***************************************************************************)
(* tasking_kill_dying: the dying threads of every dying process are freed   *)
(* and the process leaves the table.                                        *)
(***************************************************************************)
KillDying ==
  /\ status' = [t \in Threads |->
                  IF /\ status[t] = "DYING"
                     /\ process[t] # NULL
                     /\ pstat[process[t]] = "DYING"
                    THEN "INVALID" ELSE status[t]]
  /\ pstat' = [p \in Procs |-> IF pstat[p] = "DYING" THEN "DEAD" ELSE pstat[p]]

\* sched(): no list is left.  CPU 0 frees the dead and looks for threads to
\* unblock before the next round, the other CPUs begin it at once.
RoundEnd(c) ==
  /\ pc[c] = "sched"
  /\ head[MasterQueue(c, next_read_prio[c])] = NULL
  /\ next_read_prio[c] = IDLE_PRIO
  /\ IF c = 0
       THEN /\ KillDying
            /\ pc' = [pc EXCEPT ![c] = "unblock"]
            /\ UNCHANGED <<rqVars, next_read_prio>>
       ELSE /\ SwapBuffers(c)
            /\ next_read_prio' = [next_read_prio EXCEPT ![c] = 0]
            /\ UNCHANGED <<status, pstat, pc>>
  /\ UNCHANGED <<reason, ready, pending, process, last_cpu, prio,
                 enqueued_tasks, running, loopVars>>

\* A mutant of UnblockThread: the blocker is reset, the thread is not enqueued.
UnblockThreadNoEnqueue(c) ==
  LET t == scan[c] IN
  /\ pc[c] = "unblock"
  /\ t <= NThreads
  /\ scan' = [scan EXCEPT ![c] = t + 1]
  /\ reason' = [reason EXCEPT ![t] = @ /\ ~(status[t] = "BLOCKED" /\ ready[t])]
  /\ UNCHANGED <<rqVars, status, ready, pending, process, last_cpu, procVars, enqueued_tasks,
                 next_read_prio, running, pc, victim, after>>

\* One thread of the walk of sched_unblock_threads.
UnblockThread(c) ==
  LET t == scan[c] IN
  /\ pc[c] = "unblock"
  /\ t <= NThreads
  /\ scan' = [scan EXCEPT ![c] = t + 1]
  /\ IF status[t] = "BLOCKED" /\ reason[t] /\ ready[t]
       THEN /\ Enqueue(t, process[t], last_cpu[t], prio[process[t]])
            /\ reason' = [reason EXCEPT ![t] = FALSE]
            /\ ready' = [ready EXCEPT ![t] = FALSE]
       ELSE UNCHANGED <<rqVars, status, reason, ready, last_cpu, prio, enqueued_tasks>>
  /\ UNCHANGED <<pending, process, pstat, next_read_prio, running, pc, victim, after>>

\* A mutant of NewRound: next_read_prio is not reset.
NewRoundKeepsPrio(c) ==
  /\ pc[c] = "unblock"
  /\ scan[c] = NThreads + 1
  /\ SwapBuffers(c)
  /\ pc' = [pc EXCEPT ![c] = "sched"]
  /\ scan' = [scan EXCEPT ![c] = 1]
  /\ UNCHANGED <<thVars, procVars, enqueued_tasks, next_read_prio, running, victim, after>>

\* The end of that walk, and _sched_swap_buffers.
NewRound(c) ==
  /\ pc[c] = "unblock"
  /\ scan[c] = NThreads + 1
  /\ SwapBuffers(c)
  /\ next_read_prio' = [next_read_prio EXCEPT ![c] = 0]
  /\ pc' = [pc EXCEPT ![c] = "sched"]
  /\ scan' = [scan EXCEPT ![c] = 1]
  /\ UNCHANGED <<thVars, procVars, enqueued_tasks, running, victim, after>>

(***************************************************************************)
(* sched(): the head of the list is taken out and switch_to_thread runs it. *)
(* If a terminating signal is pending, signal_dispatch_pending kills its    *)
(* process and the loop goes on.  A thread that is not runnable fails the   *)
(* assertion of sched() and the kernel stops.                               *)
(***************************************************************************)
Pick(c) ==
  LET t == head[MasterQueue(c, next_read_prio[c])] IN
  /\ pc[c] = "sched"
  /\ t # NULL
  /\ status[t] = "RUNNING"
  /\ PopHead(c, next_read_prio[c])
  /\ IF pending[t]
       THEN /\ pending' = [pending EXCEPT ![t] = FALSE]
            /\ pstat' = [pstat EXCEPT ![process[t]] = "DYING"]
            /\ pc' = [pc EXCEPT ![c] = "die"]
            /\ victim' = [victim EXCEPT ![c] = process[t]]
            /\ after' = [after EXCEPT ![c] = "sched"]
            /\ UNCHANGED <<last_cpu, running>>
       ELSE /\ last_cpu' = [last_cpu EXCEPT ![t] = c]
            /\ running' = [running EXCEPT ![c] = t]
            /\ pc' = [pc EXCEPT ![c] = "run"]
            /\ UNCHANGED <<pending, pstat, victim, after>>
  /\ UNCHANGED <<status, reason, ready, process, prio, enqueued_tasks,
                 next_read_prio, scan>>

\* A mutant of DieThread: the thread is freed at once.
DieThreadFrees(c) ==
  LET t == scan[c] IN
  /\ pc[c] = "die"
  /\ t <= NThreads
  /\ scan' = [scan EXCEPT ![c] = t + 1]
  /\ IF status[t] # "INVALID" /\ process[t] = victim[c]
       THEN /\ status' = [status EXCEPT ![t] = "INVALID"]
            /\ ready' = [ready EXCEPT ![t] = FALSE]
            /\ Dequeue(t)
       ELSE UNCHANGED <<rqVars, status, ready, enqueued_tasks>>
  /\ UNCHANGED <<reason, pending, process, last_cpu, procVars, next_read_prio,
                 running, pc, victim, after>>

\* One thread of the loop of proc_die: thread_die.
DieThread(c) ==
  LET t == scan[c] IN
  /\ pc[c] = "die"
  /\ t <= NThreads
  /\ scan' = [scan EXCEPT ![c] = t + 1]
  /\ IF status[t] # "INVALID" /\ process[t] = victim[c]
       THEN /\ status' = [status EXCEPT ![t] = "DYING"]
            /\ ready' = [ready EXCEPT ![t] = FALSE]
            /\ Dequeue(t)
       ELSE UNCHANGED <<rqVars, status, ready, enqueued_tasks>>
  /\ UNCHANGED <<reason, pending, process, last_cpu, procVars, next_read_prio,
                 running, pc, victim, after>>

\* proc_die returns to its caller.
DieEnd(c) ==
  /\ pc[c] = "die"
  /\ scan[c] = NThreads + 1
  /\ pc' = [pc EXCEPT ![c] = after[c]]
  /\ scan' = [scan EXCEPT ![c] = 1]
  /\ victim' = [victim EXCEPT ![c] = NULL]
  /\ after' = [after EXCEPT ![c] = "run"]
  /\ UNCHANGED <<rqVars, thVars, procVars, enqueued_tasks, next_read_prio, running>>

-----------------------------------------------------------------------------
(***************************************************************************)
(* What the running thread asks for.  The idle threads run _idle_thread,    *)
(* which makes no system call.                                              *)
(***************************************************************************)
CanCall(c, call) ==
  /\ pc[c] = "run"
  /\ call \in Calls
  /\ running[c] \notin IdleThreads

\* init_join_blocker, init_read_blocker, ... when the condition does not hold.
Block(c) ==
  LET t == running[c] IN
  /\ CanCall(c, "block")
  /\ status' = [status EXCEPT ![t] = "BLOCKED"]
  /\ reason' = [reason EXCEPT ![t] = TRUE]
  /\ Dequeue(t)
  /\ pc' = [pc EXCEPT ![c] = "resched"]
  /\ UNCHANGED <<ready, pending, process, last_cpu, procVars, next_read_prio,
                 running, loopVars>>

\* signal_restore_thread_after_handling_signal: a thread whose blocker is still
\* set is blocked again, whatever the condition is now.
Sigreturn(c) ==
  LET t == running[c] IN
  /\ CanCall(c, "sigreturn")
  /\ reason[t]
  /\ status' = [status EXCEPT ![t] = "BLOCKED"]
  /\ \E r \in BOOLEAN : ready' = [ready EXCEPT ![t] = r]
  /\ Dequeue(t)
  /\ pc' = [pc EXCEPT ![c] = "resched"]
  /\ UNCHANGED <<reason, pending, process, last_cpu, procVars, next_read_prio,
                 running, loopVars>>

\* tasking_exit and the beginning of proc_die.
Exit(c) ==
  LET p == process[running[c]] IN
  /\ CanCall(c, "exit")
  /\ pstat' = [pstat EXCEPT ![p] = "DYING"]
  /\ pc' = [pc EXCEPT ![c] = "die"]
  /\ victim' = [victim EXCEPT ![c] = p]
  /\ after' = [after EXCEPT ![c] = "resched"]
  /\ UNCHANGED <<rqVars, thVars, prio, enqueued_tasks, next_read_prio, running, scan>>

\* _proc_alloc_thread takes the first free slot.
IsFreeSlot(t) ==
  status[t] = "INVALID" /\ \A u \in Threads : u < t => status[u] # "INVALID"

\* sys_create_thread: proc_create_thread enqueues the new thread.
CreateThread(c) ==
  LET p == process[running[c]] IN
  /\ CanCall(c, "create_thread")
  /\ \E t \in Threads :
       /\ IsFreeSlot(t)
       /\ process' = [process EXCEPT ![t] = p]
       /\ pending' = [pending EXCEPT ![t] = FALSE]
       /\ Enqueue(t, p, NOT_SET, prio[p])
  /\ UNCHANGED <<reason, ready, pstat, next_read_prio, running, pc, loopVars>>

\* tasking_fork: the child is enqueued and the parent gives the CPU up.
Fork(c) ==
  /\ CanCall(c, "fork")
  /\ \E t \in Threads, p \in Procs :
       /\ IsFreeSlot(t)
       /\ pstat[p] = "INVALID" /\ \A o \in Procs : o < p => pstat[o] # "INVALID"
       /\ process' = [process EXCEPT ![t] = p]
       /\ pending' = [pending EXCEPT ![t] = FALSE]
       /\ pstat' = [pstat EXCEPT ![p] = "ALIVE"]
       /\ Enqueue(t, p, NOT_SET, DEFAULT_PRIO)
  /\ pc' = [pc EXCEPT ![c] = "resched"]
  /\ UNCHANGED <<reason, ready, next_read_prio, running, loopVars>>

(***************************************************************************)
(* sys_kill.  thread_by_pid finds the first thread of the process, and      *)
(* tasking_signal refuses a thread that is free or dying.                   *)
(***************************************************************************)
IsTarget(t, p) ==
  /\ p \in Targets
  /\ pstat[p] \in {"ALIVE", "DYING"}
  /\ process[t] = p /\ \A u \in Threads : u < t => process[u] # p
  /\ status[t] \notin {"INVALID", "DYING"}

\* SIGSTOP: thread_stop, or thread_stop_and_resched for the thread itself.
SendStop(c) ==
  /\ CanCall(c, "stop")
  /\ \E p \in Procs, t \in Threads :
       /\ IsTarget(t, p)
       /\ last_cpu[t] # NOT_SET => enqueued_tasks[last_cpu[t]] >= MinLoad
       /\ status' = [status EXCEPT ![t] = "STOPPED"]
       /\ ready' = [ready EXCEPT ![t] = FALSE]
       /\ Dequeue(t)
       /\ pc' = [pc EXCEPT ![c] = IF t = running[c] THEN "resched" ELSE @]
  /\ UNCHANGED <<reason, pending, process, last_cpu, procVars, next_read_prio,
                 running, loopVars>>

\* SIGCONT: a blocked or stopped thread is enqueued, its blocker stays set.
SendCont(c) ==
  /\ CanCall(c, "cont")
  /\ \E p \in Procs, t \in Threads :
       /\ IsTarget(t, p)
       /\ status[t] \in {"BLOCKED", "STOPPED"}
       /\ Enqueue(t, p, last_cpu[t], prio[p])
       /\ ready' = [ready EXCEPT ![t] = FALSE]
  /\ UNCHANGED <<reason, pending, process, pstat, next_read_prio, running, pc, loopVars>>

\* A terminating signal for another thread stays pending until it is picked.
SendTerm(c) ==
  /\ CanCall(c, "term")
  /\ \E p \in Procs, t \in Threads :
       /\ IsTarget(t, p)
       /\ t # running[c]
       /\ pending' = [pending EXCEPT ![t] = TRUE]
  /\ UNCHANGED <<rqVars, status, reason, ready, process, last_cpu, procVars,
                 enqueued_tasks, next_read_prio, running, pc, loopVars>>

\* A terminating signal for the thread itself is dispatched at once, and the
\* system call returns to the thread when proc_die is over.
Raise(c) ==
  /\ CanCall(c, "raise")
  /\ IsTarget(running[c], process[running[c]])
  /\ pstat' = [pstat EXCEPT ![process[running[c]]] = "DYING"]
  /\ pc' = [pc EXCEPT ![c] = "die"]
  /\ victim' = [victim EXCEPT ![c] = process[running[c]]]
  /\ after' = [after EXCEPT ![c] = "run"]
  /\ UNCHANGED <<rqVars, thVars, prio, enqueued_tasks, next_read_prio, running, scan>>

\* sys_nice: the priority of the process, whatever its threads are doing.
Nice(c) ==
  LET p == process[running[c]] IN
  /\ CanCall(c, "nice")
  /\ \E new \in MAX_PRIO..MIN_PRIO \ {prio[p]} : prio' = [prio EXCEPT ![p] = new]
  /\ UNCHANGED <<rqVars, thVars, pstat, enqueued_tasks, next_read_prio, running,
                 pc, loopVars>>

\* The condition a thread waits for changes: data arrives or is read by
\* another thread, a deadline passes.
Condition(t) ==
  /\ status[t] = "BLOCKED"
  /\ ready' = [ready EXCEPT ![t] = ~@]
  /\ UNCHANGED <<rqVars, status, reason, pending, process, last_cpu, procVars,
                 enqueued_tasks, next_read_prio, running, pc, loopVars>>

-----------------------------------------------------------------------------
KernelStep(c) ==
  \/ NextPrio(c) \/ RoundEnd(c) \/ UnblockThread(c) \/ NewRound(c) \/ Pick(c)
  \/ DieThread(c) \/ DieEnd(c)

SystemCall(c) ==
  \/ Block(c) \/ Sigreturn(c) \/ Exit(c) \/ CreateThread(c) \/ Fork(c)
  \/ SendStop(c) \/ SendCont(c) \/ SendTerm(c) \/ Raise(c) \/ Nice(c)

Next ==
  \/ \E c \in CPUs : Resched(c) \/ KernelStep(c) \/ SystemCall(c)
  \/ \E t \in Threads : Condition(t)

Spec == Init /\ [][Next]_vars

\* The kernel's own loops never wait, and the timer interrupt ends every slice.
FairSpec == Spec /\ \A c \in CPUs : WF_vars(KernelStep(c)) /\ WF_vars(Resched(c))

-----------------------------------------------------------------------------
\* ASSERT(thread->status == THREAD_STATUS_RUNNING) of sched().
PickedIsRunnable ==
  \A c \in CPUs :
    LET t == head[MasterQueue(c, next_read_prio[c])] IN
    pc[c] = "sched" /\ t # NULL => status[t] = "RUNNING"

\* Within a round the lists are used up in the order of priority: once sched()
\* has left a priority, no thread of that priority is left for this round.
RoundInPriorityOrder ==
  \A c \in CPUs, pr \in Prios :
    pr < next_read_prio[c] => head[MasterQueue(c, pr)] = NULL

\* A CPU never executes a thread whose kernel stack was freed.
NoFreedThreadRuns ==
  \A c \in CPUs, t \in Threads : running[c] = t => status[t] # "INVALID"

\* When a process has been freed, none of its threads can run any more.
NoThreadOfDeadProcess ==
  \A t \in Threads :
    process[t] # NULL /\ pstat[process[t]] = "DEAD" => status[t] = "INVALID"

=============================================================================
