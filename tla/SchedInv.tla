------------------------------ MODULE SchedInv ------------------------------
(***************************************************************************)
(* What the scheduler guarantees, and the inductive invariant of the        *)
(* scheduler on one CPU, conjunct by conjunct.  SchedProofs proves them;    *)
(* TLC checks them with the lists computed from the links.                  *)
(***************************************************************************)
EXTENDS Sched

(***************************************************************************)
(* What the theorems need: one CPU; no signal for the idle process; no      *)
(* process that kills itself with a signal; and processes either never      *)
(* change their priority or have one thread.                                *)
(***************************************************************************)
Uniprocessor ==
  /\ CPUs = {0}
  /\ 1 \notin Targets
  /\ "raise" \notin Calls
  /\ "nice" \notin Calls \/ "create_thread" \notin Calls

Allocated(t) == status[t] # "INVALID"

\* The loop of proc_die has yet to reach the thread t.
ToDie(t) == pc[0] = "die" /\ process[t] = victim[0] /\ scan[0] <= t

\* Where the CPU is, and which thread it executes there.
CurrentInv ==
  /\ pc[0] = "run" => running[0] # NULL /\ status[running[0]] = "RUNNING"
  /\ pc[0] = "resched" => running[0] # NULL
  /\ pc[0] \in {"sched", "unblock"} => running[0] = NULL
  /\ pc[0] = "die" => \/ after[0] = "sched" /\ running[0] = NULL
                      \/ after[0] = "resched" /\ running[0] # NULL
  /\ pc[0] = "die" => /\ victim[0] \in Procs \ {1}
                      /\ pstat[victim[0]] = "DYING"
  /\ pc[0] \notin {"die", "unblock"} => scan[0] = 1
  /\ running[0] # NULL => last_cpu[running[0]] = 0 /\ Allocated(running[0])

\* The idle thread is thread 1, of process 1; the others have better priorities.
IdleInv ==
  /\ status[1] = "RUNNING"
  /\ pstat[1] = "ALIVE"
  /\ prio[1] = IDLE_PRIO
  /\ ~pending[1]
  /\ \A t \in Threads : process[t] = 1 <=> t = 1
  /\ \A p \in Procs : p # 1 => prio[p] <= MIN_PRIO

\* Threads live and die with their processes.
LifeInv ==
  \A t \in Threads :
    /\ process[t] # NULL => pstat[process[t]] # "INVALID"
    /\ Allocated(t) =>
         /\ process[t] # NULL
         /\ pstat[process[t]] = "ALIVE" => status[t] # "DYING"
         /\ pstat[process[t]] = "DYING" => status[t] = "DYING" \/ ToDie(t)
         /\ pstat[process[t]] # "DEAD"

SingleInv ==
  "create_thread" \notin Calls =>
    \A t, u \in Threads :
      Allocated(t) /\ Allocated(u) /\ process[t] = process[u] => t = u

\* A queued thread is runnable, not executing, and in a list of its priority.
QueuedInv(on, at) ==
  \A t \in on :
    /\ status[t] = "RUNNING"
    /\ t # running[0]
    /\ \E b \in Buffers : at[t] = <<0, b, prio[process[t]]>>
    /\ t # 1 => last_cpu[t] = 0

\* A runnable thread is queued, or executes, or sched() took it out of its list and is
\* about to kill it.
RunnableInv(on) ==
  \A t \in Threads :
    status[t] = "RUNNING" => \/ t \in on
                             \/ t = running[0]
                             \/ ToDie(t) /\ after[0] = "sched"

\* What is left of the round has the current priority or a weaker one.
RoundInv(on, at) ==
  \A t \in on : at[t][2] = master[0] => next_read_prio[0] <= at[t][3]

QueueInv ==
  \E on, at, pos :
    /\ Lists(on, at, pos)
    /\ QueuedInv(on, at)
    /\ RunnableInv(on)
    /\ RoundInv(on, at)

Inv ==
  /\ SchedTypeOK
  /\ CurrentInv
  /\ IdleInv
  /\ LifeInv
  /\ SingleInv
  /\ QueueInv

-----------------------------------------------------------------------------
\* The threads met from h on along the links nx: the least set that holds h and is
\* closed under nx.
Walk(h, nx) ==
  LET Closed == {S \in SUBSET Threads :
                   h \in S /\ \A u \in S : nx[u] = NULL \/ nx[u] \in S}
  IN  {t \in Threads : h # NULL /\ \A S \in Closed : t \in S}

\* The threads of every list.
Members == [q \in Queues |-> Walk(head[q], sched_next)]

\* The threads found in the lists, the list of each, and its place in it: the number of
\* threads from which it is met.
Found(list) == UNION {list[q] : q \in Queues}
FoundAt(list) ==
  [t \in Threads |-> CHOOSE q \in Queues : t \in Found(list) => t \in list[q]]
FoundPos ==
  LET met == [u \in Threads |-> Walk(u, sched_next)]
  IN  [t \in Threads |-> Cardinality({u \in Threads : t \in met[u]})]

\* The inductive invariant, with the lists found by walking.
InductiveInv ==
  LET list == Members
      on == Found(list)
      at == FoundAt(list)
  IN  /\ CurrentInv /\ IdleInv /\ LifeInv /\ SingleInv
      /\ QueuedInv(on, at) /\ RunnableInv(on) /\ RoundInv(on, at)

-----------------------------------------------------------------------------
\* Taken out of its list by sched(), which now handles its pending signal.
Dispatched(c, t) == pc[c] = "die" /\ after[c] = "sched" /\ process[t] = victim[c]

(***************************************************************************)
(* Every list is exact: each link leads to the neighbour, heads and tails   *)
(* are the ends, and a thread in no list has null links, so the next        *)
(* enqueue of it starts clean.                                              *)
(***************************************************************************)
ListsWellLinked ==
  LET list == Members IN Lists(Found(list), FoundAt(list), FoundPos)

(***************************************************************************)
(* No runnable thread is lost and none is queued twice: a RUNNING thread is *)
(* in exactly one list, or executes on exactly one CPU.                     *)
(***************************************************************************)
RunnableInOnePlace ==
  LET list == Members IN
  \A t \in Threads :
    LET lists == {q \in Queues : t \in list[q]}
        cpus == {c \in CPUs : running[c] = t}
        held == Cardinality(lists) + Cardinality(cpus)
    IN  IF status[t] = "RUNNING"
          THEN held = 1 \/ (held = 0 /\ \E c \in CPUs : Dispatched(c, t))
          ELSE lists = {}

\* The idle thread of a CPU is always there to be run by that CPU, on which the end of
\* the loop of sched() depends.
IdleAvailable ==
  \A c \in CPUs :
    \/ running[c] = Idle(c)
    \/ \E b \in Buffers : Idle(c) \in Members[<<c, b, IDLE_PRIO>>]

(***************************************************************************)
(* The run queues of all CPUs together are exact: the lists are well linked, *)
(* they and the CPUs hold every runnable thread once, and each CPU has its   *)
(* idle thread.                                                              *)
(***************************************************************************)
QueuesExact == ListsWellLinked /\ RunnableInOnePlace /\ IdleAvailable

-----------------------------------------------------------------------------
\* The threads that wait in array b of CPU c, with the priority of the list of each.
WaitingIn(c, b) ==
  LET list == Members
  IN  {w \in Threads \X Prios : w[1] \in list[<<c, b, w[2]>>]}

Rounds == INSTANCE RoundSched WITH
  Thread <- Threads, CPU <- CPUs, Prio <- Prios, None <- NULL,
  now <- [c \in CPUs |-> WaitingIn(c, master[c])],
  later <- [c \in CPUs |-> WaitingIn(c, 1 - master[c])],
  cur <- running

\* The pointer-level scheduler implements the round scheduler: master_buf is the
\* current round, slave_buf the next one.
ImplementsRounds == Rounds!RoundSpec

\* A runnable thread gets a CPU, unless something stops or kills it first: the rounds
\* of sched() starve nobody.
RunnableRuns ==
  \A t \in Threads :
    status[t] = "RUNNING" ~>
      status[t] # "RUNNING" \/ \E c \in CPUs : running[c] = t

\* No thread stays blocked when the condition it waits for stays true:
\* sched_unblock_threads finds it.
ReadyThreadWakes ==
  \A t \in Threads : ~<>[](status[t] = "BLOCKED" /\ ready[t])

\* A process that dies is freed by tasking_kill_dying.
DyingProcessFreed ==
  \A p \in Procs : pstat[p] = "DYING" ~> pstat[p] = "DEAD"

=============================================================================
