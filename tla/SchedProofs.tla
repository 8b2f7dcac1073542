---------------------------- MODULE SchedProofs ----------------------------
(***************************************************************************)
(* The scheduler on one CPU, for any number of threads, processes and       *)
(* priorities.  First the inductive invariant: the assertion of sched()     *)
(* holds, rounds follow the priorities, no freed thread runs and nothing is *)
(* left of a freed process.  Then the lists found by walking along the      *)
(* links: the scheduler implements RoundSched and its queues are exact.     *)
(***************************************************************************)
EXTENDS SchedInv, RunQueueProofs, FiniteSetTheorems, WellFoundedInduction

\* What the assumptions say about the constants on one CPU.
LEMMA Constants ==
  ASSUME Uniprocessor
  PROVE  /\ 0 \in CPUs /\ CPUs \subseteq Nat /\ NULL \notin Threads
         /\ 1 \in Threads /\ 2 \in Threads /\ 1 \in Procs /\ 2 \in Procs
         /\ IdleThreads = {1} /\ FirstUser = 2 /\ Idle(0) = 1
         /\ IDLE_PRIO \in Prios /\ DEFAULT_PRIO \in Prios /\ DEFAULT_PRIO <= MIN_PRIO
         /\ MIN_PRIO \in Nat /\ Prios = 0..(MIN_PRIO + 1) /\ IDLE_PRIO = MIN_PRIO + 1
         /\ NThreads \in Nat /\ NProcs \in Nat
         /\ NOT_SET \notin CPUs /\ MAX_PRIO = 0
<1>1. Cardinality({0}) = 1
  BY FS_Singleton
<1>2. 2 <= NThreads /\ 2 <= NProcs
  BY SchedAssumption, RunQueueAssumption DEF Uniprocessor
<1> QED
  BY <1>1, <1>2, SchedAssumption, RunQueueAssumption
  DEF Uniprocessor, NULL, Threads, Procs, IdleThreads, Idle, FirstUser,
      IDLE_PRIO, Prios, MAX_PRIO, NOT_SET

\* sched_enqueue of a thread that is in no list.
LEMMA EnqueueStep ==
  ASSUME Uniprocessor, SchedTypeOK,
         NEW on, NEW at, NEW pos, Lists(on, at, pos),
         NEW t \in Threads, t \notin on,
         NEW p \in Procs, NEW lc \in {0, NOT_SET}, NEW pr \in 0..MIN_PRIO,
         Enqueue(t, p, lc, pr)
  PROVE  /\ \E at2, pos2 : /\ at2 = [at EXCEPT ![t] = SlaveQueue(0, pr)]
                           /\ Lists(on \cup {t}, at2, pos2)'
         /\ RunQueueTypeOK'
         /\ master' = master
         /\ status' = [status EXCEPT ![t] = "RUNNING"]
         /\ prio' = [prio EXCEPT ![p] = pr]
         /\ last_cpu' = [last_cpu EXCEPT ![t] = 0]
         /\ enqueued_tasks' \in [CPUs -> Int]
<1>1. /\ AddToStart(0, pr, t)
      /\ status' = [status EXCEPT ![t] = "RUNNING"]
      /\ prio' = [prio EXCEPT ![p] = pr]
      /\ last_cpu' = [last_cpu EXCEPT ![t] = 0]
      /\ enqueued_tasks' = [enqueued_tasks EXCEPT ![0] = @ + 1]
  <2>1. (IF pr > MIN_PRIO THEN MIN_PRIO ELSE pr) = pr
    BY Constants
  <2>2. \A cpu \in CPUs : cpu = 0
    BY DEF Uniprocessor
  <2> QED BY <2>1, <2>2, Zenon DEF Enqueue
<1>2. enqueued_tasks' \in [CPUs -> Int]
  BY SMTT(60), <1>1, Constants DEF SchedTypeOK
<1>3. pr \in Prios /\ RunQueueTypeOK
  BY Constants DEF SchedTypeOK
<1>4. PICK q : q = SlaveQueue(0, pr)
  OBVIOUS
<1>5. PICK at2 : at2 = [at EXCEPT ![t] = q]
  OBVIOUS
<1>6. PICK pos2 : pos2 = [pos EXCEPT ![t] = IF head[q] = NULL THEN 0 ELSE pos[head[q]] - 1]
  OBVIOUS
<1>7. PICK on2 : on2 = on \cup {t}
  OBVIOUS
<1>8. Lists(on2, at2, pos2)' /\ RunQueueTypeOK'
  BY <1>1, <1>3, <1>4, <1>5, <1>6, <1>7, Constants, AddToStartLists
<1>9. master' = master
  BY <1>1 DEF AddToStart
<1> QED BY <1>1, <1>2, <1>4, <1>5, <1>7, <1>8, <1>9

\* sched_dequeue of a thread that is in a list of its priority, or in none.
LEMMA DequeueStep ==
  ASSUME Uniprocessor, SchedTypeOK,
         NEW on, NEW at, NEW pos, Lists(on, at, pos),
         NEW t \in Threads, process[t] \in Procs,
         t \in on => /\ \E b \in Buffers : at[t] = <<0, b, prio[process[t]]>>
                     /\ last_cpu[t] = 0,
         Dequeue(t)
  PROVE  /\ Lists(on \ {t}, at, pos)'
         /\ RunQueueTypeOK'
         /\ master' = master
         /\ enqueued_tasks' \in [CPUs -> Int]
<1>1. /\ RunQueueTypeOK /\ prio[process[t]] \in Prios
      /\ last_cpu[t] \in {0, NOT_SET}
      /\ enqueued_tasks \in [CPUs -> Int]
  BY DEF SchedTypeOK, Uniprocessor
<1>2. CASE last_cpu[t] = NOT_SET
  <2>1. t \notin on /\ UNCHANGED <<rqVars, enqueued_tasks>>
    BY <1>2, Constants DEF Dequeue
  <2>2. on \ {t} = on
    BY <2>1
  <2> QED BY <1>1, <2>1, <2>2 DEF rqVars, Lists, OrderIs, NextIs, PrevIs, HeadIs,
                                  TailIs, OffIs, RunQueueTypeOK
<1>3. CASE last_cpu[t] = 0
  <2>1. DequeueImpl(0, prio[process[t]], t)
    BY <1>3, Constants DEF Dequeue
  <2>2. enqueued_tasks' \in [CPUs -> Int] /\ master' = master
    BY <1>1, <1>3, Constants, <2>1 DEF Dequeue, DequeueImpl
  <2>3. CASE t \in on
    <3>1. PICK on2 : on2 = on \ {t}
      OBVIOUS
    <3>2. Lists(on2, at, pos)' /\ RunQueueTypeOK'
      BY <1>1, <2>1, <2>3, <3>1, Constants, DequeueOn
    <3> QED BY <2>2, <3>1, <3>2
  <2>4. CASE t \notin on
    <3>1. UNCHANGED rqVars
      BY <1>1, <2>1, <2>4, Constants, DequeueOff
    <3>2. on \ {t} = on
      BY <2>4
    <3> QED BY <1>1, <2>2, <3>1, <3>2 DEF rqVars, Lists, OrderIs, NextIs, PrevIs,
                                          HeadIs, TailIs, OffIs, RunQueueTypeOK
  <2> QED BY <2>3, <2>4
<1> QED BY <1>1, <1>2, <1>3

\* Nothing happens to lists nobody touches.
LEMMA SameLists ==
  ASSUME NEW on, NEW at, NEW pos, Lists(on, at, pos), UNCHANGED rqVars
  PROVE  Lists(on, at, pos)'
BY DEF rqVars, Lists, OrderIs, NextIs, PrevIs, HeadIs, TailIs, OffIs

-----------------------------------------------------------------------------
\* The invariant holds when the boot code enters the scheduler.
LEMMA InitInv ==
  ASSUME Uniprocessor, Init
  PROVE  Inv
<1>1. SchedTypeOK
  BY Constants DEF Init, SchedTypeOK, RunQueueTypeOK, Queues, Buffers, Ptr, Procs, Threads,
                   Uniprocessor
<1>2. CurrentInv /\ IdleInv /\ LifeInv /\ SingleInv
  BY Constants DEF Init, CurrentInv, IdleInv, LifeInv, SingleInv, Allocated, ToDie,
                   Threads, Procs, NULL, Uniprocessor
<1>3. QueueInv
  <2> DEFINE on == {1, 2}
             qi == <<0, 1, IDLE_PRIO>>
             qd == <<0, 1, DEFAULT_PRIO>>
             at == [t \in Threads |-> IF t = 1 THEN qi ELSE qd]
             pos == [t \in Threads |-> 0]
  <2>1. qi \in Queues /\ qd \in Queues /\ qi # qd
    BY Constants DEF Queues, Buffers
  <2>2. /\ \A q \in Queues : head[q] = IF q = qd THEN 2 ELSE IF q = qi THEN 1 ELSE 0
        /\ tail = head
    BY Constants DEF Init, Queues, Idle, NULL, Uniprocessor
  <2>3. /\ qi[2] = 1 /\ qd[2] = 1
        /\ qi[3] = prio[process[1]] /\ qd[3] = prio[process[2]]
        /\ \E b \in Buffers : qi = <<0, b, prio[process[1]]>>
        /\ \E b \in Buffers : qd = <<0, b, prio[process[2]]>>
    BY Constants DEF Init, Buffers
  <2> HIDE DEF qi, qd
  <2>4. /\ on \subseteq Threads /\ at \in [Threads -> Queues] /\ pos \in [Threads -> Int]
        /\ at[1] = qi /\ at[2] = qd /\ pos[1] = 0 /\ pos[2] = 0
    BY <2>1, Constants
  <2> HIDE DEF at, pos
  <2>5. \A t \in Threads : sched_next[t] = 0 /\ sched_prev[t] = 0
    BY DEF Init, NULL
  <2>6. OrderIs(on, at, pos) /\ NextIs(on, at, pos) /\ PrevIs(on, at, pos) /\ OffIs(on)
    BY <2>1, <2>4, <2>5 DEF OrderIs, NextIs, PrevIs, OffIs, NULL
  <2>7. HeadIs(on, at, pos) /\ TailIs(on, at, pos)
    BY <2>1, <2>2, <2>4 DEF HeadIs, TailIs, NULL
  <2>8. Lists(on, at, pos)
    BY <2>4, <2>6, <2>7 DEF Lists
  <2>9. QueuedInv(on, at) /\ RoundInv(on, at)
    BY <2>3, <2>4, Constants DEF Init, QueuedInv, RoundInv, NULL
  <2>10. RunnableInv(on)
    BY <2>4, Constants DEF Init, RunnableInv, Threads, NULL
  <2> QED BY <2>8, <2>9, <2>10 DEF QueueInv
<1> QED BY <1>1, <1>2, <1>3 DEF Inv

\* resched() puts the thread it leaves at the end of the next round.
LEMMA ReschedInv ==
  ASSUME Uniprocessor, Inv, Resched(0)
  PROVE  Inv'
<1> DEFINE t == running[0]
<1>1. PICK on, at, pos : /\ Lists(on, at, pos) /\ QueuedInv(on, at)
                         /\ RunnableInv(on) /\ RoundInv(on, at)
  BY DEF Inv, QueueInv
<1>2. /\ t \in Threads /\ last_cpu[t] = 0 /\ process[t] \in Procs
      /\ prio[process[t]] \in Prios /\ t \notin on
  BY <1>1, Constants DEF Inv, SchedTypeOK, CurrentInv, LifeInv, Resched, Ptr,
                         RunQueueTypeOK, QueuedInv, Lists
<1>3. CASE status[t] = "RUNNING"
  <2>1. AddToEnd(0, prio[process[t]], t)
    BY <1>2, <1>3 DEF Resched
  <2>2. PICK q : q = SlaveQueue(0, prio[process[t]])
    OBVIOUS
  <2>3. PICK at2 : at2 = [at EXCEPT ![t] = q]
    OBVIOUS
  <2>4. PICK pos2 : pos2 = [pos EXCEPT ![t] = IF tail[q] = NULL THEN 0
                                               ELSE pos[tail[q]] + 1]
    OBVIOUS
  <2>5. PICK on2 : on2 = on \cup {t}
    OBVIOUS
  <2>6. RunQueueTypeOK
    BY DEF Inv, SchedTypeOK
  <2>7. Lists(on2, at2, pos2)' /\ RunQueueTypeOK'
    BY <1>1, <1>2, <2>1, <2>2, <2>3, <2>4, <2>5, <2>6, Constants, AddToEndLists, Zenon
  <2>8. SchedTypeOK'
    BY <2>7, Constants DEF Inv, SchedTypeOK, Resched, thVars, procVars, loopVars, Ptr
  <2>9. CurrentInv' /\ IdleInv' /\ LifeInv' /\ SingleInv'
    BY Constants DEF Inv, SchedTypeOK, Resched, thVars, procVars, loopVars, CurrentInv,
                     IdleInv, LifeInv, SingleInv, Allocated, ToDie
  <2>10. master' = master /\ at \in [Threads -> Queues] /\ master[0] \in Buffers
    BY <1>1, <2>1, <2>6, Constants DEF AddToEnd, Lists, RunQueueTypeOK
  <2>11. /\ \A u \in on : u \in Threads /\ u # t /\ u # NULL /\ at2[u] = at[u]
         /\ at2[t] = <<0, 1 - master[0], prio[process[t]]>>
    BY <1>1, <1>2, <2>2, <2>3, <2>10, Constants DEF Lists, SlaveQueue
  <2>12. /\ UNCHANGED <<thVars, procVars, next_read_prio, loopVars>>
         /\ running'[0] = NULL /\ pc'[0] = "sched"
    BY Constants DEF Resched, Inv, SchedTypeOK
  <2>13. QueuedInv(on2, at2)'
    BY <1>1, <1>2, <1>3, <2>5, <2>10, <2>11, <2>12, Constants
    DEF thVars, procVars, QueuedInv, Buffers
  <2>14. RunnableInv(on2)'
    BY <1>1, <2>5, <2>12 DEF Resched, thVars, RunnableInv, ToDie
  <2>15. RoundInv(on2, at2)'
    BY <1>1, <2>5, <2>10, <2>11, <2>12 DEF RoundInv, Buffers
  <2> QED BY <2>7, <2>8, <2>9, <2>13, <2>14, <2>15 DEF Inv, QueueInv
<1>4. CASE status[t] # "RUNNING"
  <2>1. UNCHANGED rqVars
    BY <1>4 DEF Resched
  <2>2. Lists(on, at, pos)'
    BY <1>1, <2>1, SameLists
  <2>3. SchedTypeOK'
    BY <2>1, Constants DEF Inv, SchedTypeOK, RunQueueTypeOK, Resched, rqVars, thVars,
                           procVars, loopVars, Ptr
  <2>4. CurrentInv' /\ IdleInv' /\ LifeInv' /\ SingleInv'
    BY Constants DEF Inv, SchedTypeOK, Resched, thVars, procVars, loopVars, CurrentInv,
                     IdleInv, LifeInv, SingleInv, Allocated, ToDie
  <2>5. /\ UNCHANGED <<thVars, procVars, next_read_prio, loopVars, master>>
        /\ running'[0] = NULL /\ pc'[0] = "sched"
    BY <2>1, Constants DEF Resched, Inv, SchedTypeOK, rqVars
  <2>6. QueuedInv(on, at)' /\ RoundInv(on, at)'
    BY <1>1, <2>5, Constants DEF thVars, procVars, QueuedInv, RoundInv, Lists
  <2>7. RunnableInv(on)'
    BY <1>1, <1>4, <2>5 DEF Resched, thVars, RunnableInv, ToDie
  <2> QED BY <2>2, <2>3, <2>4, <2>6, <2>7 DEF Inv, QueueInv
<1> QED BY <1>3, <1>4

\* proc_die is over: no thread of the process is runnable any more.
LEMMA DieEndInv ==
  ASSUME Uniprocessor, Inv, DieEnd(0)
  PROVE  Inv'
<1>1. PICK on, at, pos : /\ Lists(on, at, pos) /\ QueuedInv(on, at)
                         /\ RunnableInv(on) /\ RoundInv(on, at)
  BY DEF Inv, QueueInv
<1>3. SchedTypeOK'
  BY SMTT(60), Constants DEF Inv, SchedTypeOK, RunQueueTypeOK, rqVars, thVars, procVars, loopVars,
                   DieEnd
<1>4. CurrentInv' /\ IdleInv' /\ LifeInv' /\ SingleInv'
  BY SMTT(60), Constants DEF Inv, SchedTypeOK, CurrentInv, IdleInv, LifeInv, SingleInv, Allocated,
                   ToDie, thVars, procVars, loopVars, DieEnd, Threads
<1>5. Lists(on, at, pos)'
  <2>1. UNCHANGED rqVars
    BY Constants DEF DieEnd
  <2> QED BY <1>1, <2>1, SameLists
<1>6. QueuedInv(on, at)'
  BY <1>1 DEF QueuedInv, thVars, procVars, DieEnd
<1>7. RunnableInv(on)'
  BY SMTT(60), <1>1, Constants DEF Inv, SchedTypeOK, RunnableInv, ToDie, CurrentInv, thVars, procVars,
                   loopVars, DieEnd, Threads
<1>8. RoundInv(on, at)'
  BY <1>1 DEF RoundInv, rqVars, DieEnd
<1> QED BY <1>3, <1>4, <1>5, <1>6, <1>7, <1>8 DEF Inv, QueueInv

\* exit() starts to kill the process of the running thread.
LEMMA ExitInv ==
  ASSUME Uniprocessor, Inv, Exit(0)
  PROVE  Inv'
<1>1. PICK on, at, pos : /\ Lists(on, at, pos) /\ QueuedInv(on, at)
                         /\ RunnableInv(on) /\ RoundInv(on, at)
  BY DEF Inv, QueueInv
<1>2. /\ running[0] \in Threads \ {1} /\ process[running[0]] \in Procs \ {1}
      /\ pstat[process[running[0]]] = "ALIVE"
  BY Constants DEF Inv, SchedTypeOK, CurrentInv, IdleInv, LifeInv, Allocated, ToDie, Exit,
                   CanCall, Ptr
<1>3. SchedTypeOK'
  BY <1>2, Constants DEF Inv, SchedTypeOK, RunQueueTypeOK, rqVars, thVars, procVars, loopVars,
                   Exit, CanCall
<1>4. CurrentInv' /\ IdleInv' /\ LifeInv' /\ SingleInv'
  BY SMTT(60), <1>2, Constants DEF Inv, SchedTypeOK, CurrentInv, IdleInv, LifeInv, SingleInv, Allocated,
                   ToDie, thVars, procVars, loopVars, Exit, CanCall, Threads, Procs
<1>5. Lists(on, at, pos)'
  <2>1. UNCHANGED rqVars
    BY <1>2, Constants DEF Exit
  <2> QED BY <1>1, <2>1, SameLists
<1>6. QueuedInv(on, at)'
  BY <1>1, <1>2, Constants DEF Inv, SchedTypeOK, Lists, QueuedInv, thVars, procVars, Exit, CanCall, Threads, Procs
<1>7. RunnableInv(on)'
  BY <1>1, <1>2, Constants DEF Inv, SchedTypeOK, RunnableInv, ToDie, CurrentInv, thVars, procVars,
                   loopVars, Exit, CanCall, Threads, Procs
<1>8. RoundInv(on, at)'
  BY <1>1, <1>2, Constants DEF Inv, SchedTypeOK, RoundInv, rqVars, Exit, CanCall, Threads, Procs
<1> QED BY <1>3, <1>4, <1>5, <1>6, <1>7, <1>8 DEF Inv, QueueInv

\* A pending signal changes nothing in the scheduler.
LEMMA SendTermInv ==
  ASSUME Uniprocessor, Inv, SendTerm(0)
  PROVE  Inv'
<1>1. PICK on, at, pos : /\ Lists(on, at, pos) /\ QueuedInv(on, at)
                         /\ RunnableInv(on) /\ RoundInv(on, at)
  BY DEF Inv, QueueInv
<1>3. SchedTypeOK'
  BY Constants DEF Inv, SchedTypeOK, RunQueueTypeOK, rqVars, thVars, procVars, loopVars,
                   SendTerm
<1>4. CurrentInv' /\ IdleInv' /\ LifeInv' /\ SingleInv'
  BY Constants DEF Inv, SchedTypeOK, CurrentInv, IdleInv, LifeInv, SingleInv, Allocated,
                   ToDie, thVars, procVars, loopVars, SendTerm, IsTarget, Uniprocessor
<1>5. Lists(on, at, pos)'
  <2>1. UNCHANGED rqVars
    BY Constants DEF SendTerm
  <2> QED BY <1>1, <2>1, SameLists
<1>6. QueuedInv(on, at)'
  BY <1>1, Constants DEF Inv, SchedTypeOK, Lists, QueuedInv, thVars, procVars, SendTerm
<1>7. RunnableInv(on)'
  BY <1>1, Constants DEF Inv, SchedTypeOK, RunnableInv, ToDie, CurrentInv, thVars, procVars,
                   loopVars, SendTerm
<1>8. RoundInv(on, at)'
  BY <1>1, Constants DEF Inv, SchedTypeOK, RoundInv, rqVars, SendTerm
<1> QED BY <1>3, <1>4, <1>5, <1>6, <1>7, <1>8 DEF Inv, QueueInv

\* A condition that changes wakes nobody by itself.
LEMMA ConditionInv ==
  ASSUME Uniprocessor, Inv, NEW w \in Threads, Condition(w)
  PROVE  Inv'
<1>1. PICK on, at, pos : /\ Lists(on, at, pos) /\ QueuedInv(on, at)
                         /\ RunnableInv(on) /\ RoundInv(on, at)
  BY DEF Inv, QueueInv
<1>3. SchedTypeOK'
  BY Constants DEF Inv, SchedTypeOK, RunQueueTypeOK, rqVars, thVars, procVars, loopVars,
                   Condition
<1>4. CurrentInv' /\ IdleInv' /\ LifeInv' /\ SingleInv'
  BY Constants DEF Inv, SchedTypeOK, CurrentInv, IdleInv, LifeInv, SingleInv, Allocated,
                   ToDie, thVars, procVars, loopVars, Condition
<1>5. Lists(on, at, pos)'
  <2>1. UNCHANGED rqVars
    BY Constants DEF Condition
  <2> QED BY <1>1, <2>1, SameLists
<1>6. QueuedInv(on, at)'
  BY <1>1, Constants DEF Inv, SchedTypeOK, Lists, QueuedInv, thVars, procVars, Condition
<1>7. RunnableInv(on)'
  BY <1>1, Constants DEF Inv, SchedTypeOK, RunnableInv, ToDie, CurrentInv, thVars, procVars,
                   loopVars, Condition
<1>8. RoundInv(on, at)'
  BY <1>1, Constants DEF Inv, SchedTypeOK, RoundInv, rqVars, Condition
<1> QED BY <1>3, <1>4, <1>5, <1>6, <1>7, <1>8 DEF Inv, QueueInv

\* The search goes on to a weaker priority only when a list is empty.
LEMMA NextPrioInv ==
  ASSUME Uniprocessor, Inv, NextPrio(0)
  PROVE  Inv'
<1>1. PICK on, at, pos : /\ Lists(on, at, pos) /\ QueuedInv(on, at)
                         /\ RunnableInv(on) /\ RoundInv(on, at)
  BY DEF Inv, QueueInv
<1>2. UNCHANGED <<rqVars, thVars, procVars, enqueued_tasks, running, pc, loopVars>>
  BY DEF NextPrio
<1>3. SchedTypeOK'
  <2>1. next_read_prio[0] + 1 \in Prios
    BY Constants DEF Inv, SchedTypeOK, NextPrio
  <2>2. next_read_prio' \in [CPUs -> Prios]
    BY <2>1, Constants DEF Inv, SchedTypeOK, NextPrio
  <2> QED BY <1>2, <2>2 DEF Inv, SchedTypeOK, RunQueueTypeOK, rqVars, thVars, procVars,
                            loopVars
<1>4. CurrentInv' /\ IdleInv' /\ LifeInv' /\ SingleInv'
  BY <1>2 DEF Inv, CurrentInv, IdleInv, LifeInv, SingleInv, Allocated, ToDie, thVars,
              procVars, loopVars
<1>5. Lists(on, at, pos)'
  BY <1>1, <1>2, SameLists
<1>6. QueuedInv(on, at)' /\ RunnableInv(on)'
  BY <1>1, <1>2 DEF QueuedInv, RunnableInv, ToDie, thVars, procVars, loopVars
<1>7. RoundInv(on, at)'
  <2>1. SUFFICES ASSUME NEW t \in on, at[t][2] = master[0]
                 PROVE  next_read_prio'[0] <= at[t][3]
    BY <1>2 DEF RoundInv, rqVars
  <2>2. MasterQueue(0, next_read_prio[0]) \in Queues
    BY QueueType, Constants DEF Inv, SchedTypeOK
  <2>3. at[t] # MasterQueue(0, next_read_prio[0])
    BY <1>1, <2>2 DEF NextPrio, Lists, HeadIs
  <2>4. PICK b \in Buffers : at[t] = <<0, b, prio[process[t]]>>
    BY <1>1 DEF QueuedInv
  <2>5. at[t] = <<0, master[0], at[t][3]>> /\ at[t][3] = prio[process[t]]
    BY <2>1, <2>4
  <2>6. process[t] \in Procs
    BY <1>1, Constants DEF Inv, LifeInv, Allocated, QueuedInv, Lists, SchedTypeOK
  <2>7. at[t][3] \in Int /\ next_read_prio[0] \in Int /\ at[t][3] # next_read_prio[0]
    BY <2>3, <2>5, <2>6, Constants DEF Inv, SchedTypeOK, MasterQueue
  <2>8. next_read_prio[0] <= at[t][3]
    BY <1>1, <2>1 DEF RoundInv
  <2>9. next_read_prio'[0] = next_read_prio[0] + 1
    BY Constants DEF NextPrio, Inv, SchedTypeOK
  <2> QED BY <2>7, <2>8, <2>9
<1> QED BY <1>3, <1>4, <1>5, <1>6, <1>7 DEF Inv, QueueInv

\* The end of a round frees threads that nothing can run any more.
LEMMA RoundEndInv ==
  ASSUME Uniprocessor, Inv, RoundEnd(0)
  PROVE  Inv'
<1>1. PICK on, at, pos : /\ Lists(on, at, pos) /\ QueuedInv(on, at)
                         /\ RunnableInv(on) /\ RoundInv(on, at)
  BY DEF Inv, QueueInv
<1>2. /\ UNCHANGED <<rqVars, next_read_prio, reason, ready, pending, process, last_cpu,
                     prio, enqueued_tasks, running, scan, victim, after>>
      /\ pc[0] = "sched" /\ pc'[0] = "unblock" /\ KillDying
      /\ pc' \in [CPUs -> {"run", "resched", "sched", "unblock", "die"}]
      /\ running[0] = NULL
  <2>1. RoundEnd(0) /\ SchedTypeOK /\ CurrentInv /\ 0 \in CPUs
    BY Constants DEF Inv
  <2>2. /\ pc[0] = "sched" /\ KillDying /\ pc' = [pc EXCEPT ![0] = "unblock"]
        /\ UNCHANGED <<rqVars, next_read_prio>>
        /\ UNCHANGED <<reason, ready, pending, process, last_cpu, prio,
                       enqueued_tasks, running, loopVars>>
    BY <2>1 DEF RoundEnd
  <2>3. pc'[0] = "unblock" /\ pc' \in [CPUs -> {"run", "resched", "sched", "unblock", "die"}]
    BY <2>1, <2>2 DEF SchedTypeOK
  <2> QED BY <2>1, <2>2, <2>3 DEF CurrentInv, loopVars
<1>3. \A t \in Threads : /\ status'[t] # "INVALID" => status'[t] = status[t]
                         /\ status[t] # "DYING" => status'[t] = status[t]
  BY <1>2 DEF KillDying
<1>4. SchedTypeOK'
  BY <1>2, Constants DEF Inv, SchedTypeOK, RunQueueTypeOK, rqVars, KillDying
<1>5. CurrentInv'
  BY <1>2, Constants DEF Inv, CurrentInv
<1>6. IdleInv'
  BY <1>2, <1>3, Constants DEF Inv, SchedTypeOK, IdleInv, KillDying
<1>7. LifeInv'
  BY <1>2, Constants DEF Inv, SchedTypeOK, LifeInv, Allocated, ToDie, KillDying
<1>8. SingleInv'
  BY <1>2, <1>3 DEF Inv, SingleInv, Allocated
<1>9. Lists(on, at, pos)'
  BY <1>1, <1>2, SameLists
<1>10. QueuedInv(on, at)' /\ RoundInv(on, at)'
  BY <1>1, <1>2, <1>3 DEF QueuedInv, RoundInv, rqVars, Lists
<1>11. RunnableInv(on)'
  BY <1>1, <1>2, <1>3 DEF RunnableInv, ToDie
<1> QED BY <1>4, <1>5, <1>6, <1>7, <1>8, <1>9, <1>10, <1>11 DEF Inv, QueueInv

\* A new round begins with the best priority.
LEMMA NewRoundInv ==
  ASSUME Uniprocessor, Inv, NewRound(0)
  PROVE  Inv'
<1>1. PICK on, at, pos : /\ Lists(on, at, pos) /\ QueuedInv(on, at)
                         /\ RunnableInv(on) /\ RoundInv(on, at)
  BY DEF Inv, QueueInv
<1>2. /\ UNCHANGED <<thVars, procVars, enqueued_tasks, running, victim, after>>
      /\ pc[0] = "unblock" /\ pc'[0] = "sched" /\ SwapBuffers(0)
      /\ pc' \in [CPUs -> {"run", "resched", "sched", "unblock", "die"}]
      /\ scan' \in [CPUs -> 1..(NThreads + 1)] /\ scan'[0] = 1
      /\ next_read_prio' \in [CPUs -> Prios] /\ next_read_prio'[0] = 0
  BY Constants DEF NewRound, Inv, SchedTypeOK
<1>3. Lists(on, at, pos)' /\ RunQueueTypeOK'
  BY <1>1, <1>2, SwapLists, Constants DEF Inv, SchedTypeOK
<1>4. SchedTypeOK'
  BY <1>2, <1>3, Constants DEF Inv, SchedTypeOK, thVars, procVars
<1>5. CurrentInv' /\ IdleInv' /\ LifeInv' /\ SingleInv'
  BY <1>2 DEF Inv, CurrentInv, IdleInv, LifeInv, SingleInv, Allocated, ToDie, thVars, procVars
<1>6. QueuedInv(on, at)' /\ RunnableInv(on)'
  BY <1>1, <1>2 DEF QueuedInv, RunnableInv, ToDie, thVars, procVars
<1>7. RoundInv(on, at)'
  BY <1>1, <1>2, Constants DEF Inv, SchedTypeOK, RoundInv, Lists, Queues, Prios
<1> QED BY <1>3, <1>4, <1>5, <1>6, <1>7 DEF Inv, QueueInv

\* The head of a list is runnable, so the assertion of sched() holds and the
\* thread runs or, with a signal pending, its process dies.
LEMMA PickInv ==
  ASSUME Uniprocessor, Inv, Pick(0)
  PROVE  Inv'
<1>1. PICK on, at, pos : /\ Lists(on, at, pos) /\ QueuedInv(on, at)
                         /\ RunnableInv(on) /\ RoundInv(on, at)
  BY DEF Inv, QueueInv
<1>2. PICK t : t = head[MasterQueue(0, next_read_prio[0])]
  OBVIOUS
<1>3. PICK on2 : on2 = on \ {t}
  OBVIOUS
<1>4. /\ t \in Threads /\ status[t] = "RUNNING" /\ pc[0] = "sched" /\ running[0] = NULL
      /\ PopHead(0, next_read_prio[0]) /\ next_read_prio[0] \in Prios /\ RunQueueTypeOK
      /\ scan[0] = 1
  BY <1>2, QueueType, Constants
  DEF Pick, Inv, SchedTypeOK, CurrentInv, RunQueueTypeOK, Ptr
<1>5. /\ Lists(on2, at, pos)' /\ RunQueueTypeOK'
      /\ t \in on /\ master' = master
  <2>1. master' = master
    BY <1>4 DEF PopHead
  <2>2. 0 \in CPUs
    BY Constants
  <2>3. /\ Lists(on2, at, pos)' /\ RunQueueTypeOK'
        /\ t \in on /\ at[t] = MasterQueue(0, next_read_prio[0])
    BY <1>1, <1>2, <1>3, <1>4, <2>2, PopHeadLists
  <2> QED BY <2>1, <2>3
<1>6. /\ process[t] \in Procs /\ pstat[process[t]] = "ALIVE"
      /\ \A u \in on2 : u \in on /\ u \in Threads /\ u # t
  BY SMTT(60), <1>1, <1>3, <1>4, <1>5, Constants DEF Inv, SchedTypeOK, LifeInv, Allocated, ToDie, Lists
<1>7. UNCHANGED <<status, reason, ready, process, prio, enqueued_tasks, next_read_prio, scan>>
  BY DEF Pick
<1>8. RoundInv(on2, at)'
  BY <1>1, <1>5, <1>6, <1>7 DEF RoundInv
<1>9. CASE pending[t] /\ t # 1
  <2>1. /\ pending' = [pending EXCEPT ![t] = FALSE]
        /\ pstat' = [pstat EXCEPT ![process[t]] = "DYING"]
        /\ pc' = [pc EXCEPT ![0] = "die"]
        /\ victim' = [victim EXCEPT ![0] = process[t]]
        /\ after' = [after EXCEPT ![0] = "sched"]
        /\ UNCHANGED <<last_cpu, running>>
    BY <1>2, <1>9 DEF Pick
  <2>2. SchedTypeOK'
    BY <1>4, <1>5, <1>6, <1>7, <2>1, Constants DEF Inv, SchedTypeOK
  <2>3. process[t] # 1
    BY <1>4, <1>9 DEF Inv, IdleInv
  <2>4. CurrentInv'
    BY <1>4, <1>6, <1>7, <2>1, <2>3, Constants DEF Inv, SchedTypeOK, CurrentInv, Allocated
  <2>5. IdleInv' /\ SingleInv'
    BY <1>4, <1>6, <1>7, <2>1, <2>3, Constants
    DEF Inv, SchedTypeOK, IdleInv, SingleInv, Allocated
  <2>6. LifeInv'
    BY SMTT(60), <1>4, <1>6, <1>7, <2>1, Constants
    DEF Inv, SchedTypeOK, LifeInv, Allocated, ToDie, Threads
  <2>7. QueuedInv(on2, at)'
    BY <1>1, <1>6, <1>7, <2>1 DEF QueuedInv
  <2>8. RunnableInv(on2)'
    BY SMTT(60), <1>1, <1>3, <1>4, <1>6, <1>7, <2>1, Constants
    DEF Inv, SchedTypeOK, RunnableInv, ToDie, Threads
  <2> QED BY <1>5, <1>8, <2>2, <2>4, <2>5, <2>6, <2>7, <2>8 DEF Inv, QueueInv
<1>10. CASE ~pending[t]
  <2>1. /\ last_cpu' = [last_cpu EXCEPT ![t] = 0]
        /\ running' = [running EXCEPT ![0] = t]
        /\ pc' = [pc EXCEPT ![0] = "run"]
        /\ UNCHANGED <<pending, pstat, victim, after>>
    BY <1>2, <1>10 DEF Pick
  <2>2. SchedTypeOK'
    BY <1>4, <1>5, <1>6, <1>7, <2>1, Constants DEF Inv, SchedTypeOK, Ptr
  <2>3. CurrentInv' /\ IdleInv' /\ SingleInv' /\ LifeInv'
    BY <1>4, <1>6, <1>7, <2>1, Constants
    DEF Inv, SchedTypeOK, CurrentInv, IdleInv, SingleInv, LifeInv, Allocated, ToDie
  <2>4. QueuedInv(on2, at)'
    BY SMTT(60), <1>1, <1>4, <1>6, <1>7, <2>1, Constants DEF Inv, SchedTypeOK, QueuedInv
  <2>5. RunnableInv(on2)'
    BY <1>1, <1>3, <1>4, <1>7, <2>1, Constants DEF Inv, SchedTypeOK, RunnableInv, ToDie
  <2> QED BY <1>5, <1>8, <2>2, <2>3, <2>4, <2>5 DEF Inv, QueueInv
<1>11. t = 1 => ~pending[t]
  BY DEF Inv, IdleInv
<1> QED BY <1>9, <1>10, <1>11

\* One thread of sched_unblock_threads is enqueued, or nothing happens to it.
LEMMA UnblockThreadInv ==
  ASSUME Uniprocessor, Inv, UnblockThread(0)
  PROVE  Inv'
<1>1. PICK on, at, pos : /\ Lists(on, at, pos) /\ QueuedInv(on, at)
                         /\ RunnableInv(on) /\ RoundInv(on, at)
  BY DEF Inv, QueueInv
<1>2. PICK t : t = scan[0]
  OBVIOUS
<1>3. /\ t \in Threads /\ pc[0] = "unblock" /\ running[0] = NULL
      /\ scan' \in [CPUs -> 1..(NThreads + 1)]
      /\ UNCHANGED <<pending, process, pstat, next_read_prio, running, pc, victim, after>>
  BY SMTT(60), <1>2, Constants DEF UnblockThread, Inv, SchedTypeOK, CurrentInv, Threads
<1>4. CASE status[t] = "BLOCKED" /\ reason[t] /\ ready[t]
  <2>1. /\ Enqueue(t, process[t], last_cpu[t], prio[process[t]])
        /\ reason' = [reason EXCEPT ![t] = FALSE]
        /\ ready' = [ready EXCEPT ![t] = FALSE]
    BY <1>2, <1>4 DEF UnblockThread
  <2>2. /\ t \notin on /\ t # 1 /\ process[t] \in Procs \ {1}
        /\ last_cpu[t] \in {0, NOT_SET} /\ prio[process[t]] \in 0..MIN_PRIO
        /\ pstat[process[t]] = "ALIVE"
    BY <1>1, <1>3, <1>4, Constants
    DEF Inv, SchedTypeOK, QueuedInv, IdleInv, LifeInv, Allocated, ToDie, Uniprocessor
  <2>3. /\ \E at2, pos2 : /\ at2 = [at EXCEPT ![t] = SlaveQueue(0, prio[process[t]])]
                          /\ Lists(on \cup {t}, at2, pos2)'
        /\ RunQueueTypeOK'
        /\ master' = master
        /\ status' = [status EXCEPT ![t] = "RUNNING"]
        /\ prio' = [prio EXCEPT ![process[t]] = prio[process[t]]]
        /\ last_cpu' = [last_cpu EXCEPT ![t] = 0]
        /\ enqueued_tasks' \in [CPUs -> Int]
    <3>1. PICK p, lc, pr : p = process[t] /\ lc = last_cpu[t] /\ pr = prio[process[t]]
      OBVIOUS
    <3>2. /\ Enqueue(t, p, lc, pr) /\ p \in Procs /\ lc \in {0, NOT_SET}
          /\ pr \in 0..MIN_PRIO /\ SchedTypeOK /\ Uniprocessor
          /\ Lists(on, at, pos) /\ t \in Threads /\ t \notin on
      BY <1>1, <1>3, <2>1, <2>2, <3>1 DEF Inv
    <3>3. /\ \E at2, pos2 : /\ at2 = [at EXCEPT ![t] = SlaveQueue(0, pr)]
                            /\ Lists(on \cup {t}, at2, pos2)'
          /\ RunQueueTypeOK'
          /\ master' = master
          /\ status' = [status EXCEPT ![t] = "RUNNING"]
          /\ prio' = [prio EXCEPT ![p] = pr]
          /\ last_cpu' = [last_cpu EXCEPT ![t] = 0]
          /\ enqueued_tasks' \in [CPUs -> Int]
      BY ONLY <3>2, EnqueueStep
    <3> QED BY <3>1, <3>3
  <2>4. PICK at2, pos2 : /\ at2 = [at EXCEPT ![t] = SlaveQueue(0, prio[process[t]])]
                         /\ Lists(on \cup {t}, at2, pos2)'
    BY <2>3
  <2>5. prio' = prio
    BY <2>2, <2>3 DEF Inv, SchedTypeOK
  <2>6. SchedTypeOK'
    BY <1>3, <2>1, <2>3, <2>5, Constants DEF Inv, SchedTypeOK
  <2>7. CurrentInv' /\ IdleInv' /\ LifeInv' /\ SingleInv'
    BY SMTT(60), <1>3, <1>4, <2>2, <2>3, <2>5, Constants
    DEF Inv, SchedTypeOK, CurrentInv, IdleInv, LifeInv, SingleInv, Allocated, ToDie
  <2>8. /\ \A u \in on : u \in Threads /\ u # t /\ at2[u] = at[u]
        /\ at2[t] = <<0, 1 - master[0], prio[process[t]]>> /\ master[0] \in {0, 1}
    BY SMTT(60), <1>1, <1>3, <2>2, <2>4, Constants
    DEF Lists, SlaveQueue, Inv, SchedTypeOK, RunQueueTypeOK, Buffers
  <2>9. QueuedInv(on \cup {t}, at2)'
    <3>1. /\ status'[t] = "RUNNING" /\ t # running'[0] /\ last_cpu'[t] = 0
          /\ \E b \in Buffers : at2[t] = <<0, b, prio'[process'[t]]>>
      BY SMTT(60), <1>3, <2>2, <2>3, <2>5, <2>8, Constants DEF Buffers, Inv, SchedTypeOK
    <3>2. \A u \in on : /\ status'[u] = status[u] /\ running' = running
                        /\ last_cpu'[u] = last_cpu[u] /\ process' = process
      BY <1>3, <2>3, <2>8 DEF Inv, SchedTypeOK
    <3> QED BY <1>1, <2>5, <2>8, <3>1, <3>2 DEF QueuedInv
  <2>10. RunnableInv(on \cup {t})'
    BY <1>1, <1>3, <2>3, Constants DEF RunnableInv, ToDie, Inv, SchedTypeOK
  <2>11. RoundInv(on \cup {t}, at2)'
    BY <1>1, <1>3, <2>3, <2>8 DEF RoundInv
  <2> QED BY <2>4, <2>6, <2>7, <2>9, <2>10, <2>11 DEF Inv, QueueInv
<1>5. CASE ~(status[t] = "BLOCKED" /\ reason[t] /\ ready[t])
  <2>1. UNCHANGED <<rqVars, status, reason, ready, last_cpu, prio, enqueued_tasks>>
    BY <1>2, <1>5 DEF UnblockThread
  <2>2. SchedTypeOK'
    BY <1>3, <2>1 DEF Inv, SchedTypeOK, RunQueueTypeOK, rqVars
  <2>3. CurrentInv' /\ IdleInv' /\ LifeInv' /\ SingleInv'
    BY <1>3, <2>1 DEF Inv, CurrentInv, IdleInv, LifeInv, SingleInv, Allocated, ToDie
  <2>4. Lists(on, at, pos)'
    BY <1>1, <2>1, SameLists
  <2>5. QueuedInv(on, at)' /\ RunnableInv(on)' /\ RoundInv(on, at)'
    BY <1>1, <1>3, <2>1 DEF QueuedInv, RunnableInv, RoundInv, ToDie, rqVars
  <2> QED BY <2>2, <2>3, <2>4, <2>5 DEF Inv, QueueInv
<1> QED BY <1>4, <1>5

\* One thread of the loop of proc_die leaves its list, or is not concerned.
LEMMA DieThreadInv ==
  ASSUME Uniprocessor, Inv, DieThread(0)
  PROVE  Inv'
<1>1. PICK on, at, pos : /\ Lists(on, at, pos) /\ QueuedInv(on, at)
                         /\ RunnableInv(on) /\ RoundInv(on, at)
  BY DEF Inv, QueueInv
<1>2. PICK t : t = scan[0]
  OBVIOUS
<1>3. /\ t \in Threads /\ pc[0] = "die"
      /\ victim[0] \in Procs \ {1} /\ pstat[victim[0]] = "DYING"
      /\ scan' \in [CPUs -> 1..(NThreads + 1)] /\ scan'[0] = t + 1
      /\ UNCHANGED <<reason, pending, process, last_cpu, pstat, prio, next_read_prio,
                     running, pc, victim, after>>
  <2>1. t \in Threads /\ scan' = [scan EXCEPT ![0] = t + 1] /\ pc[0] = "die"
    BY <1>2, Constants DEF DieThread, Inv, SchedTypeOK, Threads
  <2>2. scan' \in [CPUs -> 1..(NThreads + 1)] /\ scan'[0] = t + 1
    BY SMTT(60), <2>1, Constants DEF Inv, SchedTypeOK, Threads
  <2>3. UNCHANGED <<reason, pending, process, last_cpu, pstat, prio, next_read_prio,
                    running, pc, victim, after>>
    BY DEF DieThread, procVars
  <2> QED BY <2>1, <2>2, <2>3 DEF Inv, CurrentInv
<1>4. \A u \in Threads : ToDie(u)' <=> ToDie(u) /\ u # t
  BY <1>2, <1>3 DEF ToDie, Threads
<1>5. CASE status[t] # "INVALID" /\ process[t] = victim[0]
  <2>1. /\ status' = [status EXCEPT ![t] = "DYING"]
        /\ ready' = [ready EXCEPT ![t] = FALSE]
        /\ Dequeue(t)
    BY <1>2, <1>5 DEF DieThread
  <2>2. /\ process[t] \in Procs /\ t # 1
        /\ t \in on => /\ \E b \in Buffers : at[t] = <<0, b, prio[process[t]]>>
                       /\ last_cpu[t] = 0
    BY <1>1, <1>3, <1>5 DEF Inv, IdleInv, QueuedInv
  <2>3. /\ Lists(on \ {t}, at, pos)' /\ RunQueueTypeOK' /\ master' = master
        /\ enqueued_tasks' \in [CPUs -> Int]
    BY <1>1, <1>3, <2>1, <2>2, DequeueStep DEF Inv
  <2>4. SchedTypeOK'
    BY <1>3, <2>1, <2>3 DEF Inv, SchedTypeOK
  <2>5. CurrentInv' /\ IdleInv' /\ SingleInv'
    BY <1>3, <1>5, <2>1, <2>2, Constants
    DEF Inv, SchedTypeOK, CurrentInv, IdleInv, SingleInv, Allocated
  <2>6. LifeInv'
    BY <1>3, <1>4, <1>5, <2>1 DEF Inv, SchedTypeOK, LifeInv, Allocated
  <2>7. QueuedInv(on \ {t}, at)' /\ RoundInv(on \ {t}, at)'
    BY <1>1, <1>3, <2>1, <2>3 DEF Inv, SchedTypeOK, Lists, QueuedInv, RoundInv
  <2>8. RunnableInv(on \ {t})'
    BY <1>1, <1>3, <1>4, <2>1 DEF Inv, SchedTypeOK, RunnableInv
  <2> QED BY <2>3, <2>4, <2>5, <2>6, <2>7, <2>8 DEF Inv, QueueInv
<1>6. CASE ~(status[t] # "INVALID" /\ process[t] = victim[0])
  <2>1. UNCHANGED <<rqVars, status, ready, enqueued_tasks>>
    BY <1>2, <1>6 DEF DieThread
  <2>2. SchedTypeOK'
    BY <1>3, <2>1 DEF Inv, SchedTypeOK, RunQueueTypeOK, rqVars
  <2>3. CurrentInv' /\ IdleInv' /\ SingleInv'
    BY <1>3, <2>1 DEF Inv, CurrentInv, IdleInv, SingleInv, Allocated
  <2>4. LifeInv'
    BY <1>3, <1>4, <1>6, <2>1 DEF Inv, LifeInv, Allocated, ToDie
  <2>5. Lists(on, at, pos)'
    BY <1>1, <2>1, SameLists
  <2>6. QueuedInv(on, at)' /\ RoundInv(on, at)'
    BY <1>1, <1>3, <2>1 DEF QueuedInv, RoundInv, rqVars
  <2>7. RunnableInv(on)'
    BY <1>1, <1>3, <1>4, <1>6, <2>1 DEF RunnableInv, ToDie
  <2> QED BY <2>2, <2>3, <2>4, <2>5, <2>6, <2>7 DEF Inv, QueueInv
<1> QED BY <1>5, <1>6

(***************************************************************************)
(* The running thread is blocked, by a blocker or by sigreturn, or some     *)
(* thread is stopped: it leaves its list and is no longer runnable.         *)
(***************************************************************************)
LEMMA SuspendInv ==
  ASSUME Uniprocessor, Inv, pc[0] = "run",
         NEW t \in Threads, Allocated(t), t # 1, status[t] # "DYING",
         NEW new \in {"BLOCKED", "STOPPED"},
         status' = [status EXCEPT ![t] = new],
         reason' \in [Threads -> BOOLEAN], ready' \in [Threads -> BOOLEAN],
         Dequeue(t),
         pc' = [pc EXCEPT ![0] = IF t = running[0] THEN "resched" ELSE @],
         UNCHANGED <<pending, process, last_cpu, procVars, next_read_prio,
                     running, loopVars>>
  PROVE  Inv'
<1>1. PICK on, at, pos : /\ Lists(on, at, pos) /\ QueuedInv(on, at)
                         /\ RunnableInv(on) /\ RoundInv(on, at)
  BY DEF Inv, QueueInv
<1>2. /\ process[t] \in Procs
      /\ pstat[process[t]] = "ALIVE"
      /\ t \in on => /\ \E b \in Buffers : at[t] = <<0, b, prio[process[t]]>>
                     /\ last_cpu[t] = 0
      /\ running[0] \in Threads /\ scan[0] = 1
  BY SMTT(60), <1>1, Constants DEF Inv, SchedTypeOK, LifeInv, Allocated, ToDie, QueuedInv, CurrentInv, Ptr
<1>3. /\ Lists(on \ {t}, at, pos)' /\ RunQueueTypeOK' /\ master' = master
      /\ enqueued_tasks' \in [CPUs -> Int]
  BY SMTT(60), <1>1, <1>2, DequeueStep DEF Inv
<1>4. SchedTypeOK'
  BY <1>2, <1>3, Constants DEF Inv, SchedTypeOK, procVars, loopVars
<1>5. CurrentInv' /\ IdleInv' /\ SingleInv' /\ LifeInv'
  BY SMTT(60), <1>2, Constants DEF Inv, SchedTypeOK, CurrentInv, IdleInv, SingleInv, LifeInv, Allocated,
                         ToDie, procVars, loopVars
<1>6. QueuedInv(on \ {t}, at)' /\ RoundInv(on \ {t}, at)'
  BY <1>1, <1>3 DEF Inv, SchedTypeOK, Lists, QueuedInv, RoundInv, procVars
<1>7. RunnableInv(on \ {t})'
  BY <1>1, Constants DEF Inv, SchedTypeOK, RunnableInv, ToDie, loopVars
<1> QED BY <1>3, <1>4, <1>5, <1>6, <1>7 DEF Inv, QueueInv

\* The calls that suspend a thread.
LEMMA SuspendCallsInv ==
  ASSUME Uniprocessor, Inv, Block(0) \/ Sigreturn(0) \/ SendStop(0)
  PROVE  Inv'
<1> DEFINE t == running[0]
<1>1. ASSUME pc[0] = "run", t \notin IdleThreads
      PROVE  t \in Threads /\ Allocated(t) /\ t # 1 /\ status[t] = "RUNNING"
  BY <1>1, Constants DEF Inv, SchedTypeOK, CurrentInv, Allocated, Ptr
<1>2. CASE Block(0)
  <2>1. pc[0] = "run" /\ t \notin IdleThreads
    BY <1>2 DEF Block, CanCall
  <2>2. /\ t \in Threads /\ Allocated(t) /\ t # 1 /\ status[t] = "RUNNING"
    BY <1>1, <2>1
  <2>3. /\ status' = [status EXCEPT ![t] = "BLOCKED"]
        /\ reason' \in [Threads -> BOOLEAN] /\ ready' \in [Threads -> BOOLEAN]
        /\ Dequeue(t)
        /\ pc' = [pc EXCEPT ![0] = IF t = running[0] THEN "resched" ELSE @]
        /\ UNCHANGED <<pending, process, last_cpu, procVars, next_read_prio,
                       running, loopVars>>
    BY <1>2 DEF Block, Inv, SchedTypeOK
  <2> QED BY <2>1, <2>2, <2>3, SuspendInv
<1>3. CASE Sigreturn(0)
  <2>1. pc[0] = "run" /\ t \notin IdleThreads
    BY <1>3 DEF Sigreturn, CanCall
  <2>2. /\ t \in Threads /\ Allocated(t) /\ t # 1 /\ status[t] = "RUNNING"
    BY <1>1, <2>1
  <2>3. /\ status' = [status EXCEPT ![t] = "BLOCKED"]
        /\ reason' \in [Threads -> BOOLEAN] /\ ready' \in [Threads -> BOOLEAN]
        /\ Dequeue(t)
        /\ pc' = [pc EXCEPT ![0] = IF t = running[0] THEN "resched" ELSE @]
        /\ UNCHANGED <<pending, process, last_cpu, procVars, next_read_prio,
                       running, loopVars>>
    BY <1>3 DEF Sigreturn, Inv, SchedTypeOK
  <2> QED BY <2>1, <2>2, <2>3, SuspendInv
<1>4. CASE SendStop(0)
  <2>1. PICK p \in Procs, u \in Threads :
          /\ IsTarget(u, p)
          /\ status' = [status EXCEPT ![u] = "STOPPED"]
          /\ ready' = [ready EXCEPT ![u] = FALSE]
          /\ Dequeue(u)
          /\ pc' = [pc EXCEPT ![0] = IF u = running[0] THEN "resched" ELSE @]
    BY <1>4 DEF SendStop
  <2>2. /\ pc[0] = "run"
        /\ UNCHANGED <<reason, pending, process, last_cpu, procVars, next_read_prio,
                       running, loopVars>>
    BY <1>4 DEF SendStop, CanCall
  <2>3. /\ Allocated(u) /\ u # 1 /\ status[u] # "DYING"
        /\ reason' \in [Threads -> BOOLEAN] /\ ready' \in [Threads -> BOOLEAN]
    BY <2>1, <2>2 DEF Inv, SchedTypeOK, IdleInv, IsTarget, Allocated, Uniprocessor
  <2> QED BY <2>1, <2>2, <2>3, SuspendInv
<1> QED BY <1>2, <1>3, <1>4

(***************************************************************************)
(* A thread that is in no list is enqueued while some thread runs: it is    *)
(* woken by SIGCONT, or it is a new thread of the process p, alive or new.  *)
(***************************************************************************)
LEMMA AdmitInv ==
  ASSUME Uniprocessor, Inv, pc[0] = "run",
         NEW t \in Threads, t # 1, status[t] # "RUNNING",
         NEW p \in Procs, p # 1, pstat[p] \in {"ALIVE", "INVALID"},
         NEW lc \in {0, NOT_SET}, NEW pr \in 0..MIN_PRIO,
         pstat[p] = "ALIVE" => pr = prio[p],
         "create_thread" \notin Calls =>
           \A u \in Threads : Allocated(u) /\ u # t => process[u] # p,
         Enqueue(t, p, lc, pr),
         process' = [process EXCEPT ![t] = p],
         pstat' = [pstat EXCEPT ![p] = "ALIVE"],
         reason' \in [Threads -> BOOLEAN], ready' \in [Threads -> BOOLEAN],
         pending' \in [Threads -> BOOLEAN], ~pending'[1],
         NEW next \in {"run", "resched"}, pc' = [pc EXCEPT ![0] = next],
         UNCHANGED <<next_read_prio, running, loopVars>>
  PROVE  Inv'
<1>1. PICK on, at, pos : /\ Lists(on, at, pos) /\ QueuedInv(on, at)
                         /\ RunnableInv(on) /\ RoundInv(on, at)
  BY DEF Inv, QueueInv
<1>2. /\ t \notin on /\ running[0] \in Threads /\ running[0] # t /\ SchedTypeOK
      /\ scan[0] = 1 /\ status[running[0]] = "RUNNING"
  <2>1. t \notin on /\ SchedTypeOK
    BY <1>1 DEF Inv, QueuedInv
  <2>2. running[0] # NULL /\ status[running[0]] = "RUNNING" /\ scan[0] = 1
    BY DEF Inv, CurrentInv
  <2>3. running[0] \in Ptr
    BY <2>1, Constants DEF SchedTypeOK
  <2> QED BY <2>1, <2>2, <2>3 DEF Ptr
<1>3. /\ \E at2, pos2 : /\ at2 = [at EXCEPT ![t] = SlaveQueue(0, pr)]
                        /\ Lists(on \cup {t}, at2, pos2)'
      /\ RunQueueTypeOK' /\ master' = master
      /\ status' = [status EXCEPT ![t] = "RUNNING"]
      /\ prio' = [prio EXCEPT ![p] = pr]
      /\ last_cpu' = [last_cpu EXCEPT ![t] = 0]
      /\ enqueued_tasks' \in [CPUs -> Int]
  <2>1. /\ Uniprocessor /\ SchedTypeOK /\ Lists(on, at, pos)
        /\ t \in Threads /\ t \notin on /\ p \in Procs /\ lc \in {0, NOT_SET}
        /\ pr \in 0..MIN_PRIO /\ Enqueue(t, p, lc, pr)
    BY <1>1, <1>2
  <2>2. PICK u, o, l, r : u = t /\ o = p /\ l = lc /\ r = pr
    OBVIOUS
  <2>3. /\ Uniprocessor /\ SchedTypeOK /\ Lists(on, at, pos)
        /\ u \in Threads /\ u \notin on /\ o \in Procs /\ l \in {0, NOT_SET}
        /\ r \in 0..MIN_PRIO /\ Enqueue(u, o, l, r)
    BY <2>1, <2>2
  <2>4. /\ \E at2, pos2 : /\ at2 = [at EXCEPT ![u] = SlaveQueue(0, r)]
                          /\ Lists(on \cup {u}, at2, pos2)'
        /\ RunQueueTypeOK'
        /\ master' = master
        /\ status' = [status EXCEPT ![u] = "RUNNING"]
        /\ prio' = [prio EXCEPT ![o] = r]
        /\ last_cpu' = [last_cpu EXCEPT ![u] = 0]
        /\ enqueued_tasks' \in [CPUs -> Int]
    BY ONLY <2>3, EnqueueStep
  <2> QED BY ONLY <2>2, <2>4
<1>4. PICK at2, pos2 : /\ at2 = [at EXCEPT ![t] = SlaveQueue(0, pr)]
                       /\ Lists(on \cup {t}, at2, pos2)'
  BY <1>3
<1>5. SchedTypeOK'
  <2>1. prio' \in [Procs -> Prios] /\ pstat' \in [Procs -> {"INVALID", "ALIVE", "DYING", "DEAD"}]
    <3>1. pr \in Prios
      BY Constants
    <3> QED BY <1>2, <1>3, <3>1 DEF SchedTypeOK
  <2>2. /\ status' \in [Threads -> {"INVALID", "RUNNING", "STOPPED", "BLOCKED", "DYING"}]
        /\ process' \in [Threads -> Procs \cup {NULL}]
        /\ last_cpu' \in [Threads -> CPUs \cup {NOT_SET}]
    BY <1>2, <1>3, Constants DEF SchedTypeOK
  <2>3. pc' \in [CPUs -> {"run", "resched", "sched", "unblock", "die"}]
    BY <1>2 DEF SchedTypeOK
  <2> QED BY <1>2, <1>3, <2>1, <2>2, <2>3 DEF SchedTypeOK, loopVars
<1>6. CurrentInv'
  BY <1>2, <1>3, Constants DEF Inv, SchedTypeOK, CurrentInv, Allocated, loopVars
<1>7. IdleInv'
  BY SMTT(60), <1>2, <1>3, Constants DEF Inv, SchedTypeOK, IdleInv
<1>8. \A u \in Threads : ~ToDie(u) /\ ~ToDie(u)'
  BY Constants DEF ToDie, Inv, SchedTypeOK
<1>9. LifeInv'
  <2> SUFFICES ASSUME NEW u \in Threads
               PROVE  /\ process'[u] # NULL => pstat'[process'[u]] # "INVALID"
                      /\ status'[u] # "INVALID" =>
                           /\ process'[u] # NULL
                           /\ pstat'[process'[u]] = "ALIVE" => status'[u] # "DYING"
                           /\ pstat'[process'[u]] = "DYING" => status'[u] = "DYING"
                           /\ pstat'[process'[u]] # "DEAD"
    BY DEF LifeInv, Allocated
  <2>1. CASE u = t
    BY <1>2, <1>3, <2>1, Constants DEF SchedTypeOK, NULL, Procs
  <2>2. CASE u # t
    <3>1. process'[u] = process[u] /\ status'[u] = status[u]
      BY <1>2, <1>3, <2>2 DEF SchedTypeOK
    <3>2. process[u] # NULL => process[u] \in Procs
      BY <1>2 DEF SchedTypeOK
    <3>3. /\ process[u] # NULL => pstat[process[u]] # "INVALID"
          /\ status[u] # "INVALID" =>
               /\ process[u] # NULL
               /\ pstat[process[u]] = "ALIVE" => status[u] # "DYING"
               /\ pstat[process[u]] = "DYING" => status[u] = "DYING"
               /\ pstat[process[u]] # "DEAD"
      BY <1>8 DEF Inv, LifeInv, Allocated
    <3> QED BY <1>2, <3>1, <3>2, <3>3 DEF SchedTypeOK
  <2> QED BY <2>1, <2>2
<1>10. SingleInv'
  BY <1>2, <1>3 DEF Inv, SchedTypeOK, SingleInv, Allocated
<1>11. /\ \A u \in on : u \in Threads /\ u # t /\ at2[u] = at[u]
       /\ at2[t] = <<0, 1 - master[0], pr>> /\ master[0] \in {0, 1}
  BY <1>1, <1>2, <1>4, Constants
  DEF Lists, SlaveQueue, SchedTypeOK, RunQueueTypeOK, Buffers
<1>12. QueuedInv(on \cup {t}, at2)'
  <2>1. /\ status'[t] = "RUNNING" /\ t # running'[0] /\ last_cpu'[t] = 0
        /\ \E b \in Buffers : at2[t] = <<0, b, prio'[process'[t]]>>
    <3>1. process'[t] = p /\ prio'[p] = pr
      BY <1>2, <1>3 DEF SchedTypeOK
    <3>2. \E b \in Buffers : at2[t] = <<0, b, prio'[process'[t]]>>
      BY <1>11, <3>1 DEF Buffers
    <3> QED BY <1>2, <1>3, <3>2, Constants DEF SchedTypeOK
  <2>2. ASSUME NEW u \in on
        PROVE  /\ status'[u] = status[u] /\ running' = running
               /\ last_cpu'[u] = last_cpu[u] /\ process'[u] = process[u]
               /\ prio'[process[u]] = prio[process[u]]
    <3>1. u \in Threads /\ u # t /\ status[u] = "RUNNING"
      BY <1>1, <1>11 DEF QueuedInv
    <3>2. process[u] \in Procs /\ (process[u] = p => pstat[p] = "ALIVE")
      BY <3>1 DEF Inv, LifeInv, Allocated, SchedTypeOK
    <3> QED BY <1>2, <1>3, <3>1, <3>2 DEF SchedTypeOK
  <2> QED BY <1>1, <1>11, <2>1, <2>2 DEF QueuedInv
<1>13. RunnableInv(on \cup {t})'
  BY <1>1, <1>2, <1>3, <1>8 DEF RunnableInv, SchedTypeOK
<1>14. RoundInv(on \cup {t}, at2)'
  BY <1>1, <1>3, <1>11 DEF RoundInv
<1> QED BY <1>4, <1>5, <1>6, <1>7, <1>9, <1>10, <1>12, <1>13, <1>14 DEF Inv, QueueInv

\* SIGCONT for a thread that is blocked or stopped.
LEMMA SendContInv ==
  ASSUME Uniprocessor, Inv, SendCont(0)
  PROVE  Inv'
<1>1. PICK p \in Procs, t \in Threads :
        /\ IsTarget(t, p)
        /\ status[t] \in {"BLOCKED", "STOPPED"}
        /\ Enqueue(t, p, last_cpu[t], prio[p])
        /\ ready' = [ready EXCEPT ![t] = FALSE]
  BY DEF SendCont
<1>2. /\ pc[0] = "run" /\ pc' = pc
      /\ UNCHANGED <<reason, pending, process, pstat, next_read_prio, running, loopVars>>
  BY DEF SendCont, CanCall
<1>3. /\ t # 1 /\ p # 1 /\ process[t] = p /\ status[t] # "RUNNING" /\ Allocated(t)
      /\ pstat[p] = "ALIVE"
  BY <1>1, <1>2 DEF Inv, IdleInv, LifeInv, ToDie, Allocated, IsTarget, Uniprocessor
<1>4. /\ last_cpu[t] \in {0, NOT_SET} /\ prio[p] \in 0..MIN_PRIO
      /\ pstat[p] \in {"ALIVE", "INVALID"} /\ reason' \in [Threads -> BOOLEAN] /\ ready' \in [Threads -> BOOLEAN]
      /\ pending' \in [Threads -> BOOLEAN] /\ ~pending'[1]
      /\ process' = [process EXCEPT ![t] = p] /\ pstat' = [pstat EXCEPT ![p] = "ALIVE"]
      /\ pc' = [pc EXCEPT ![0] = "run"]
  BY <1>1, <1>2, <1>3, Constants DEF Inv, SchedTypeOK, IdleInv, Uniprocessor
<1>5. "create_thread" \notin Calls =>
        \A u \in Threads : Allocated(u) /\ u # t => process[u] # p
  BY <1>3 DEF Inv, SingleInv
<1>6. PICK lc, pr, next : lc = last_cpu[t] /\ pr = prio[p] /\ next = "run"
  OBVIOUS
<1>7. /\ Enqueue(t, p, lc, pr) /\ lc \in {0, NOT_SET} /\ pr \in 0..MIN_PRIO
      /\ next \in {"run", "resched"} /\ pc' = [pc EXCEPT ![0] = next] /\ pr = prio[p]
      /\ UNCHANGED <<next_read_prio, running, loopVars>> /\ pstat[p] \in {"ALIVE", "INVALID"}
  BY <1>1, <1>2, <1>3, <1>4, <1>6
<1>8. Uniprocessor /\ Inv /\ pc[0] = "run" /\ t # 1 /\ p # 1 /\ status[t] # "RUNNING"
  BY <1>2, <1>3
<1> QED BY ONLY <1>4, <1>5, <1>7, <1>8, AdmitInv

\* A process creates a thread.
LEMMA CreateThreadInv ==
  ASSUME Uniprocessor, Inv, CreateThread(0)
  PROVE  Inv'
<1>1. PICK p : p = process[running[0]]
  OBVIOUS
<1>2. PICK t \in Threads :
        /\ IsFreeSlot(t)
        /\ process' = [process EXCEPT ![t] = p]
        /\ pending' = [pending EXCEPT ![t] = FALSE]
        /\ Enqueue(t, p, NOT_SET, prio[p])
  BY <1>1 DEF CreateThread
<1>3. /\ pc[0] = "run" /\ pc' = pc /\ running[0] \notin IdleThreads
      /\ "create_thread" \in Calls
      /\ UNCHANGED <<reason, ready, pstat, next_read_prio, running, loopVars>>
  BY DEF CreateThread, CanCall
<1>4. running[0] \in Threads /\ status[running[0]] = "RUNNING" /\ running[0] # 1
  BY <1>3, Constants DEF Inv, SchedTypeOK, CurrentInv, Ptr
<1>5. p \in Procs /\ p # 1 /\ pstat[p] = "ALIVE" /\ t # 1 /\ status[t] # "RUNNING"
  BY <1>1, <1>2, <1>3, <1>4
  DEF Inv, SchedTypeOK, IdleInv, LifeInv, ToDie, Allocated, IsFreeSlot
<1>6. /\ prio[p] \in 0..MIN_PRIO
      /\ reason' \in [Threads -> BOOLEAN] /\ ready' \in [Threads -> BOOLEAN]
      /\ pending' \in [Threads -> BOOLEAN] /\ ~pending'[1]
      /\ pstat' = [pstat EXCEPT ![p] = "ALIVE"]
      /\ pc' = [pc EXCEPT ![0] = "run"]
  BY <1>2, <1>3, <1>5, Constants DEF Inv, SchedTypeOK, IdleInv
<1>7. PICK lc, pr, next : lc = NOT_SET /\ pr = prio[p] /\ next = "run"
  OBVIOUS
<1>8. /\ Enqueue(t, p, lc, pr) /\ lc \in {0, NOT_SET} /\ pr \in 0..MIN_PRIO
      /\ next \in {"run", "resched"} /\ pc' = [pc EXCEPT ![0] = next] /\ pr = prio[p]
      /\ UNCHANGED <<next_read_prio, running, loopVars>> /\ pstat[p] \in {"ALIVE", "INVALID"}
  BY <1>2, <1>3, <1>5, <1>6, <1>7
<1> QED BY <1>2, <1>3, <1>5, <1>6, <1>8, AdmitInv

\* A process forks.
LEMMA ForkInv ==
  ASSUME Uniprocessor, Inv, Fork(0)
  PROVE  Inv'
<1>1. PICK t \in Threads, p \in Procs :
        /\ IsFreeSlot(t)
        /\ pstat[p] = "INVALID"
        /\ process' = [process EXCEPT ![t] = p]
        /\ pending' = [pending EXCEPT ![t] = FALSE]
        /\ pstat' = [pstat EXCEPT ![p] = "ALIVE"]
        /\ Enqueue(t, p, NOT_SET, DEFAULT_PRIO)
  BY DEF Fork
<1>2. /\ pc[0] = "run" /\ pc' = [pc EXCEPT ![0] = "resched"]
      /\ UNCHANGED <<reason, ready, next_read_prio, running, loopVars>>
  BY DEF Fork, CanCall
<1>3. /\ t # 1 /\ p # 1 /\ status[t] # "RUNNING"
      /\ \A u \in Threads : process[u] # p
      /\ reason' \in [Threads -> BOOLEAN] /\ ready' \in [Threads -> BOOLEAN]
      /\ pending' \in [Threads -> BOOLEAN] /\ ~pending'[1]
  BY <1>1, <1>2, Constants DEF Inv, SchedTypeOK, IdleInv, LifeInv, IsFreeSlot, NULL, Procs
<1>4. PICK lc, pr, next : lc = NOT_SET /\ pr = DEFAULT_PRIO /\ next = "resched"
  OBVIOUS
<1>5. /\ Enqueue(t, p, lc, pr) /\ lc \in {0, NOT_SET} /\ pr \in 0..MIN_PRIO
      /\ next \in {"run", "resched"} /\ pc' = [pc EXCEPT ![0] = next]
      /\ UNCHANGED <<next_read_prio, running, loopVars>>
      /\ pstat[p] \in {"ALIVE", "INVALID"} /\ (pstat[p] = "ALIVE" => pr = prio[p])
  BY <1>1, <1>2, <1>4, Constants, SchedAssumption
<1> QED BY <1>1, <1>2, <1>3, <1>5, AdmitInv

\* nice: the only thread of the process runs, so none of them is queued.
LEMMA NiceInv ==
  ASSUME Uniprocessor, Inv, Nice(0)
  PROVE  Inv'
<1>1. PICK on, at, pos : /\ Lists(on, at, pos) /\ QueuedInv(on, at)
                         /\ RunnableInv(on) /\ RoundInv(on, at)
  BY DEF Inv, QueueInv
<1>2. PICK t, p : t = running[0] /\ p = process[t]
  OBVIOUS
<1>3. /\ pc[0] = "run" /\ t \notin IdleThreads /\ "create_thread" \notin Calls
      /\ UNCHANGED <<rqVars, thVars, pstat, enqueued_tasks, next_read_prio, running,
                     pc, loopVars>>
      /\ \E new \in 0..MIN_PRIO : prio' = [prio EXCEPT ![p] = new]
  BY <1>2, Constants DEF Nice, CanCall, Uniprocessor
<1>4. t \in Threads /\ t # 1 /\ Allocated(t) /\ p \in Procs \ {1}
  BY <1>2, <1>3, Constants
  DEF Inv, SchedTypeOK, CurrentInv, IdleInv, LifeInv, Allocated, Ptr
<1>5. SchedTypeOK'
  <2>1. prio' \in [Procs -> Prios]
    BY <1>3, <1>4, Constants DEF Inv, SchedTypeOK
  <2> QED BY <1>3, <2>1 DEF Inv, SchedTypeOK, RunQueueTypeOK, rqVars, thVars, loopVars
<1>6. CurrentInv' /\ LifeInv' /\ SingleInv'
  BY <1>3 DEF Inv, CurrentInv, LifeInv, SingleInv, Allocated, ToDie, thVars, loopVars
<1>7. IdleInv'
  BY <1>3, <1>4, Constants DEF Inv, SchedTypeOK, IdleInv, thVars
<1>8. Lists(on, at, pos)'
  BY <1>1, <1>3, SameLists
<1>9. \A u \in on : prio'[process[u]] = prio[process[u]]
  <2>1. ASSUME NEW u \in on PROVE u \in Threads /\ u # t /\ Allocated(u) /\ process[u] \in Procs
    BY <1>1, <1>2 DEF Lists, QueuedInv, Allocated, Inv, LifeInv, SchedTypeOK
  <2>2. ASSUME NEW u \in on PROVE process[u] # p
    BY <1>2, <1>3, <1>4, <2>1 DEF Inv, SingleInv
  <2> QED BY <1>3, <2>1, <2>2 DEF Inv, SchedTypeOK
<1>10. QueuedInv(on, at)' /\ RunnableInv(on)' /\ RoundInv(on, at)'
  BY <1>1, <1>3, <1>9 DEF QueuedInv, RunnableInv, RoundInv, ToDie, rqVars, thVars, loopVars
<1> QED BY <1>5, <1>6, <1>7, <1>8, <1>10 DEF Inv, QueueInv

-----------------------------------------------------------------------------
\* Every step of the scheduler keeps the invariant.
LEMMA NextInv ==
  ASSUME Uniprocessor, Inv, [Next]_vars
  PROVE  Inv'
<1>1. CASE UNCHANGED vars
  <2>1. PICK on, at, pos : /\ Lists(on, at, pos) /\ QueuedInv(on, at)
                           /\ RunnableInv(on) /\ RoundInv(on, at)
    BY DEF Inv, QueueInv
  <2>2. UNCHANGED <<rqVars, thVars, procVars, enqueued_tasks, next_read_prio, running,
                    pc, loopVars>>
    BY <1>1 DEF vars
  <2>3. SchedTypeOK'
    BY <2>2 DEF Inv, SchedTypeOK, RunQueueTypeOK, rqVars, thVars, procVars, loopVars
  <2>4. CurrentInv' /\ IdleInv' /\ LifeInv' /\ SingleInv'
    BY <2>2 DEF Inv, CurrentInv, IdleInv, LifeInv, SingleInv, Allocated, ToDie,
                thVars, procVars, loopVars
  <2>5. Lists(on, at, pos)'
    BY <2>1, <2>2, SameLists
  <2>6. QueuedInv(on, at)' /\ RunnableInv(on)' /\ RoundInv(on, at)'
    BY <2>1, <2>2 DEF QueuedInv, RunnableInv, RoundInv, ToDie, rqVars, thVars,
                      procVars, loopVars
  <2> QED BY <2>3, <2>4, <2>5, <2>6 DEF Inv, QueueInv
<1>2. CASE \E t \in Threads : Condition(t)
  BY <1>2, ConditionInv
<1>3. CASE Resched(0)
  BY <1>3, ReschedInv
<1>4. CASE KernelStep(0)
  BY <1>4, NextPrioInv, RoundEndInv, UnblockThreadInv, NewRoundInv, PickInv,
     DieThreadInv, DieEndInv DEF KernelStep
<1>5. CASE SystemCall(0)
  <2>1. ~Raise(0)
    BY DEF Raise, CanCall, Uniprocessor
  <2> QED BY <1>5, <2>1, SuspendCallsInv, ExitInv, CreateThreadInv, ForkInv,
             SendContInv, SendTermInv, NiceInv DEF SystemCall
<1> QED BY <1>1, <1>2, <1>3, <1>4, <1>5 DEF Next, Uniprocessor

(***************************************************************************)
(* On one CPU the invariant holds in every reachable state, for any number  *)
(* of threads, processes and priorities.                                    *)
(***************************************************************************)
THEOREM SchedInvariant ==
  ASSUME Uniprocessor
  PROVE  Spec => []Inv
<1>1. Init => Inv
  BY InitInv
<1>2. Inv /\ [Next]_vars => Inv'
  BY NextInv
<1> QED BY <1>1, <1>2, PTL DEF Spec

\* The variables of the scheduler keep their types: no link leaves the thread
\* storage and next_read_prio never passes the last list.
THEOREM TypeCorrect ==
  ASSUME Uniprocessor
  PROVE  Spec => []SchedTypeOK
<1>1. Inv => SchedTypeOK
  BY DEF Inv
<1> QED BY <1>1, SchedInvariant, PTL

\* The thread sched() takes from a list is runnable: its assertion never fails.
THEOREM PickedThreadRunnable ==
  ASSUME Uniprocessor
  PROVE  Spec => []PickedIsRunnable
<1>1. Inv => PickedIsRunnable
  <2> SUFFICES ASSUME Inv, NEW c \in CPUs, head[MasterQueue(c, next_read_prio[c])] # NULL
               PROVE  status[head[MasterQueue(c, next_read_prio[c])]] = "RUNNING"
    BY DEF PickedIsRunnable
  <2>1. PICK on, at, pos : Lists(on, at, pos) /\ QueuedInv(on, at)
    BY DEF Inv, QueueInv
  <2>2. MasterQueue(c, next_read_prio[c]) \in Queues
    BY DEF Inv, SchedTypeOK, RunQueueTypeOK, MasterQueue, Queues
  <2> QED BY <2>1, <2>2 DEF Lists, HeadIs, QueuedInv
<1> QED BY <1>1, SchedInvariant, PTL

\* sched() leaves no thread behind at a priority it has passed in this round.
THEOREM RoundsFollowPriority ==
  ASSUME Uniprocessor
  PROVE  Spec => []RoundInPriorityOrder
<1>1. Inv => RoundInPriorityOrder
  <2> SUFFICES ASSUME Inv, NEW c \in CPUs, NEW pr \in Prios, pr < next_read_prio[c],
                      head[MasterQueue(c, pr)] # NULL
               PROVE  FALSE
    BY DEF RoundInPriorityOrder
  <2>1. PICK on, at, pos : Lists(on, at, pos) /\ RoundInv(on, at)
    BY DEF Inv, QueueInv
  <2>2. PICK q : q = MasterQueue(c, pr)
    OBVIOUS
  <2>3. q \in Queues /\ c = 0 /\ q = <<0, master[0], pr>> /\ q[2] = master[0] /\ q[3] = pr
    BY <2>2 DEF Inv, SchedTypeOK, RunQueueTypeOK, MasterQueue, Queues, Uniprocessor
  <2>4. head[q] \in on /\ at[head[q]] = q
    BY <2>1, <2>2, <2>3 DEF Lists, HeadIs
  <2>5. next_read_prio[0] <= pr
    BY <2>1, <2>3, <2>4 DEF RoundInv
  <2> QED BY <2>3, <2>5, Constants DEF Inv, SchedTypeOK
<1> QED BY <1>1, SchedInvariant, PTL

\* tasking_kill_dying never frees the thread that executes.
THEOREM FreedThreadNeverRuns ==
  ASSUME Uniprocessor
  PROVE  Spec => []NoFreedThreadRuns
<1>1. Inv => NoFreedThreadRuns
  BY Constants DEF Inv, CurrentInv, NoFreedThreadRuns, Allocated, Uniprocessor
<1> QED BY <1>1, SchedInvariant, PTL

\* When proc_free has run for a process that exited or was killed by another one, all of
\* its threads are free slots.  A process that kills itself with a signal is left out: its
\* thread goes on until the tick, and it may block or create a thread after proc_die.
THEOREM DeadProcessHasNoThread ==
  ASSUME "raise" \notin Calls,
         CPUs = {0}, 1 \notin Targets,
         "nice" \notin Calls \/ "create_thread" \notin Calls
  PROVE  Spec => []NoThreadOfDeadProcess
<1>1. Inv => NoThreadOfDeadProcess
  BY DEF Inv, LifeInv, Allocated, NoThreadOfDeadProcess
<1>2. Uniprocessor
  BY DEF Uniprocessor
<1> QED BY <1>1, <1>2, SchedInvariant, PTL

-----------------------------------------------------------------------------
(***************************************************************************)
(* The lists found by walking along sched_next are the ones the invariant   *)
(* speaks of.                                                               *)
(***************************************************************************)
\* A non-empty set of threads has a first one, in the order of the positions.
LEMMA FirstThread ==
  ASSUME NEW pos \in [Threads -> Int], NEW T \in SUBSET Threads, T # {}
  PROVE  \E t \in T : \A u \in T : pos[t] <= pos[u]
<1> DEFINE Before(t) == {u \in Threads : pos[u] < pos[t]}
           Rank(t) == Cardinality(Before(t))
           R == {ss \in Nat \X Nat : ss[1] < ss[2]}
           Ranks == {Rank(t) : t \in T}
<1>1. IsFiniteSet(Threads)
  BY FS_Interval, RunQueueAssumption DEF Threads
<1>2. \A t \in Threads : IsFiniteSet(Before(t))
  <2> TAKE t \in Threads
  <2>1. Before(t) \in SUBSET Threads
    OBVIOUS
  <2> HIDE DEF Before
  <2> QED BY <1>1, <2>1, FS_Subset
<1>3. ASSUME NEW t \in Threads PROVE Rank(t) \in Nat
  <2> HIDE DEF Before
  <2> QED BY <1>2, FS_CardinalityType
<1>4. ASSUME NEW t \in Threads, NEW u \in Threads, pos[u] < pos[t]
      PROVE  Rank(u) < Rank(t)
  <2>1. /\ Before(u) \in SUBSET Before(t) /\ u \in Before(t) /\ u \notin Before(u)
    BY <1>4
  <2> HIDE DEF Before
  <2>2. Rank(u) <= Rank(t) /\ Rank(u) # Rank(t)
    BY <1>2, <2>1, FS_Subset
  <2>3. Rank(u) \in Nat /\ Rank(t) \in Nat
    BY <1>3
  <2> HIDE DEF Rank
  <2> QED BY <2>2, <2>3
<1> HIDE DEF Rank
<1>5. Ranks \subseteq Nat /\ Ranks # {}
  BY <1>3
<1>6. IsWellFoundedOn(R, Nat)
  BY NatLessThanWellFounded DEF OpToRel
<1> HIDE DEF R
<1>7. PICK x \in Ranks : \A y \in Ranks : ~(<<y, x>> \in R)
  <2> HIDE DEF Ranks
  <2> QED BY <1>5, <1>6, WFMin
<1>8. PICK t \in T : x = Rank(t)
  BY <1>7
<1>9. \A u \in T : ~(Rank(u) < Rank(t))
  <2> TAKE u \in T
  <2>1. ~(<<Rank(u), Rank(t)>> \in R)
    BY <1>7, <1>8
  <2> QED BY <1>3, <2>1 DEF R
<1> QED BY <1>4, <1>9

\* Walking from a thread of a list meets the threads that follow it.
LEMMA WalkFrom ==
  ASSUME NEW nx, NEW pv, NEW on, NEW at, NEW pos, NEW h \in on,
         on \subseteq Threads, pos \in [Threads -> Int],
         \A t, u \in on : at[t] = at[u] /\ pos[t] = pos[u] => t = u,
         \A t \in on :
           IF nx[t] = NULL
             THEN \A u \in on : at[u] = at[t] => pos[u] <= pos[t]
             ELSE /\ nx[t] \in on /\ at[nx[t]] = at[t] /\ pos[t] < pos[nx[t]]
                  /\ \A u \in on : at[u] = at[t] /\ pos[t] < pos[u] => pos[nx[t]] <= pos[u],
         \A t \in on :
           IF pv[t] = NULL
             THEN \A u \in on : at[u] = at[t] => pos[t] <= pos[u]
             ELSE /\ pv[t] \in on /\ at[pv[t]] = at[t] /\ pos[pv[t]] < pos[t]
                  /\ \A u \in on : at[u] = at[t] /\ pos[u] < pos[t] => pos[u] <= pos[pv[t]]
  PROVE  Walk(h, nx) = {t \in on : at[t] = at[h] /\ pos[h] <= pos[t]}
<1> DEFINE M == {t \in on : at[t] = at[h] /\ pos[h] <= pos[t]}
           Closed(S) == h \in S /\ \A u \in S : nx[u] = NULL \/ nx[u] \in S
<1>0. \A t \in on : t \in Threads /\ pos[t] \in Int
  OBVIOUS
<1>1. h # NULL /\ NULL \notin Threads
  BY DEF NULL, Threads
<1>2. Walk(h, nx) = {t \in Threads : \A S \in SUBSET Threads : Closed(S) => t \in S}
  BY <1>1 DEF Walk
<1>3. M \in SUBSET Threads /\ Closed(M)
  BY <1>0
<1>4. ASSUME NEW S \in SUBSET Threads, Closed(S) PROVE M \subseteq S
  <2>1. SUFFICES ASSUME M \ S # {} PROVE FALSE
    OBVIOUS
  <2>2. PICK t \in M \ S : \A u \in M \ S : pos[t] <= pos[u]
    <3>1. M \ S \in SUBSET Threads
      OBVIOUS
    <3> HIDE DEF M
    <3> QED BY <2>1, <3>1, FirstThread
  <2>3. t # h /\ t \in on /\ at[t] = at[h] /\ pos[h] <= pos[t] /\ t \notin S
    BY <1>4, <2>2
  <2>4. pos[h] < pos[t]
    BY <1>0, <2>3
  <2>5. pv[t] # NULL
    BY <1>0, <2>3, <2>4
  <2>6. PICK p : p = pv[t]
    OBVIOUS
  <2>7. /\ p \in on /\ at[p] = at[t] /\ pos[p] < pos[t] /\ pos[h] <= pos[p]
        /\ \A u \in on : at[u] = at[t] /\ pos[u] < pos[t] => pos[u] <= pos[p]
    BY <2>3, <2>4, <2>5, <2>6
  <2>8. p \in S
    BY <1>0, <2>2, <2>3, <2>7
  <2>9. nx[p] # NULL /\ nx[p] \in on /\ at[nx[p]] = at[p] /\ pos[p] < pos[nx[p]]
        /\ pos[nx[p]] <= pos[t]
    BY <1>0, <2>3, <2>7
  <2>10. pos[nx[p]] = pos[t]
    BY <1>0, <2>3, <2>7, <2>9
  <2>11. nx[p] = t
    BY <2>3, <2>7, <2>9, <2>10
  <2> QED BY <1>4, <2>3, <2>8, <2>9, <2>11
<1> QED BY <1>2, <1>3, <1>4

\* The lists found by walking are the lists of the invariant.
LEMMA MembersAre ==
  ASSUME NEW on, NEW at, NEW pos, Lists(on, at, pos)
  PROVE  \A q \in Queues : Members[q] = {t \in on : at[t] = q}
<1> SUFFICES ASSUME NEW q \in Queues
             PROVE  Walk(head[q], sched_next) = {t \in on : at[t] = q}
  BY DEF Members
<1>1. CASE head[q] = NULL
  BY <1>1 DEF Walk, Lists, HeadIs
<1>2. CASE head[q] # NULL
  <2>1. PICK h : h = head[q]
    OBVIOUS
  <2>2. h \in on /\ at[h] = q /\ \A u \in on : at[u] = q => pos[h] <= pos[u]
    BY <1>2, <2>1 DEF Lists, HeadIs
  <2>3. Walk(h, sched_next) = {t \in on : at[t] = at[h] /\ pos[h] <= pos[t]}
    BY <2>2, WalkFrom DEF Lists, OrderIs, NextIs, PrevIs
  <2> QED BY <2>1, <2>2, <2>3
<1> QED BY <1>1, <1>2

\* The same in the next state.
LEMMA MembersAreNext ==
  ASSUME NEW on, NEW at, NEW pos, Lists(on, at, pos)'
  PROVE  \A q \in Queues : Members'[q] = {t \in on : at[t] = q}
<1> SUFFICES ASSUME NEW q \in Queues
             PROVE  Walk(head'[q], sched_next') = {t \in on : at[t] = q}
  BY DEF Members
<1>1. CASE head'[q] = NULL
  BY <1>1 DEF Walk, Lists, HeadIs
<1>2. CASE head'[q] # NULL
  <2>1. PICK h : h = head'[q]
    OBVIOUS
  <2>2. h \in on /\ at[h] = q /\ \A u \in on : at[u] = q => pos[h] <= pos[u]
    BY <1>2, <2>1 DEF Lists, HeadIs
  <2>3. PICK nx, pv : nx = sched_next' /\ pv = sched_prev'
    OBVIOUS
  <2>4. Walk(h, nx) = {t \in on : at[t] = at[h] /\ pos[h] <= pos[t]}
    BY <2>2, <2>3, WalkFrom DEF Lists, OrderIs, NextIs, PrevIs
  <2> QED BY <2>1, <2>2, <2>3, <2>4
<1> QED BY <1>1, <1>2

\* Who waits in the array b, in terms of the lists of the invariant.
Queued(on, at, b) == {w \in Threads \X Prios : w[1] \in on /\ at[w[1]] = <<0, b, w[2]>>}

\* The threads that wait in one array are the queued threads of the invariant.
LEMMA WaitingAre ==
  ASSUME Uniprocessor, NEW on, NEW at, NEW pos, NEW b \in Buffers
  PROVE  /\ Lists(on, at, pos) => WaitingIn(0, b) = Queued(on, at, b)
         /\ Lists(on, at, pos)' => WaitingIn(0, b)' = Queued(on, at, b)
<1>1. \A pr \in Prios : <<0, b, pr>> \in Queues
  BY DEF Uniprocessor, Queues
<1>2. ASSUME Lists(on, at, pos) PROVE WaitingIn(0, b) = Queued(on, at, b)
  <2>1. \A q \in Queues : Members[q] = {t \in on : at[t] = q}
    BY <1>2, MembersAre
  <2> QED BY <1>1, <2>1 DEF WaitingIn, Queued
<1>3. ASSUME Lists(on, at, pos)' PROVE WaitingIn(0, b)' = Queued(on, at, b)
  <2>1. \A q \in Queues : Members'[q] = {t \in on : at[t] = q}
    BY <1>3, MembersAreNext
  <2> QED BY <1>1, <2>1 DEF WaitingIn, Queued
<1> QED BY <1>2, <1>3

\* The rest of the round, and the next round.
Now == WaitingIn(0, master[0])
Later == WaitingIn(0, 1 - master[0])

\* In terms of the lists of the invariant, now and in the next state.
LEMMA RoundsAre ==
  ASSUME Uniprocessor, NEW on, NEW at, NEW pos
  PROVE  /\ RunQueueTypeOK /\ Lists(on, at, pos) =>
              /\ Now = Queued(on, at, master[0])
              /\ Later = Queued(on, at, 1 - master[0])
         /\ RunQueueTypeOK' /\ Lists(on, at, pos)' =>
              /\ Now' = Queued(on, at, master'[0])
              /\ Later' = Queued(on, at, 1 - master'[0])
<1>1. ASSUME RunQueueTypeOK, Lists(on, at, pos)
      PROVE  Now = Queued(on, at, master[0]) /\ Later = Queued(on, at, 1 - master[0])
  <2>1. PICK m, s : m = master[0] /\ s = 1 - m
    OBVIOUS
  <2>2. m \in Buffers /\ s \in Buffers
    BY <1>1, <2>1, Constants DEF RunQueueTypeOK, Buffers
  <2>3. WaitingIn(0, m) = Queued(on, at, m) /\ WaitingIn(0, s) = Queued(on, at, s)
    BY <1>1, <2>2, WaitingAre
  <2> QED BY <2>1, <2>3 DEF Now, Later
<1>2. ASSUME RunQueueTypeOK', Lists(on, at, pos)'
      PROVE  Now' = Queued(on, at, master'[0]) /\ Later' = Queued(on, at, 1 - master'[0])
  <2>1. PICK m, s : m = master'[0] /\ s = 1 - m
    OBVIOUS
  <2>2. m \in Buffers /\ s \in Buffers
    BY <1>2, <2>1, Constants DEF RunQueueTypeOK, Buffers
  <2>3. WaitingIn(0, m)' = Queued(on, at, m) /\ WaitingIn(0, s)' = Queued(on, at, s)
    BY <1>2, <2>2, WaitingAre
  <2>4. Now' = WaitingIn(0, m)' /\ Later' = WaitingIn(0, s)'
    BY <2>1 DEF Now, Later, WaitingIn, Members
  <2> QED BY <2>1, <2>3, <2>4
<1> QED BY <1>1, <1>2

\* A thread put into the slave array joins the next round.
LEMMA Inserted ==
  ASSUME Uniprocessor, RunQueueTypeOK, RunQueueTypeOK',
         NEW on, NEW at, NEW pos, Lists(on, at, pos),
         NEW t \in Threads, t \notin on, NEW pr \in Prios,
         NEW at2, at2 = [at EXCEPT ![t] = SlaveQueue(0, pr)],
         NEW pos2, Lists(on \cup {t}, at2, pos2)', master' = master
  PROVE  /\ Now' = Now
         /\ Later' = Later \cup {<<t, pr>>}
         /\ \A w \in Now \cup Later : w[1] # t
<1>1. PICK m : m = master[0]
  OBVIOUS
<1>2. m \in {0, 1}
  BY <1>1, Constants DEF RunQueueTypeOK, Buffers
<1>3. at \in [Threads -> Queues] /\ on \subseteq Threads
  BY DEF Lists
<1>4. at2[t] = <<0, 1 - m, pr>> /\ \A u \in on : at2[u] = at[u] /\ u # t
  BY <1>1, <1>3 DEF SlaveQueue
<1>5. /\ Now = Queued(on, at, m) /\ Later = Queued(on, at, 1 - m)
      /\ Now' = Queued(on \cup {t}, at2, m) /\ Later' = Queued(on \cup {t}, at2, 1 - m)
  <2>1. PICK on2 : on2 = on \cup {t}
    OBVIOUS
  <2> QED BY <1>1, <2>1, RoundsAre
<1>6. Queued(on \cup {t}, at2, m) = Queued(on, at, m)
  BY <1>2, <1>4 DEF Queued
<1>7. Queued(on \cup {t}, at2, 1 - m) = Queued(on, at, 1 - m) \cup {<<t, pr>>}
  BY <1>4 DEF Queued
<1>8. \A w \in Queued(on, at, m) \cup Queued(on, at, 1 - m) : w[1] # t
  BY <1>4 DEF Queued
<1> QED BY <1>5, <1>6, <1>7, <1>8

\* A thread taken out of its list leaves its round.
LEMMA Removed ==
  ASSUME Uniprocessor, RunQueueTypeOK, RunQueueTypeOK',
         NEW on, NEW at, NEW pos, Lists(on, at, pos),
         NEW t \in on, NEW b \in Buffers, NEW pr \in Prios, at[t] = <<0, b, pr>>,
         Lists(on \ {t}, at, pos)', master' = master
  PROVE  /\ <<t, pr>> \in Now \cup Later
         /\ b = master[0] => <<t, pr>> \in Now /\ <<t, pr>> \notin Later
         /\ Now' = Now \ {<<t, pr>>}
         /\ Later' = Later \ {<<t, pr>>}
<1>1. PICK m : m = master[0]
  OBVIOUS
<1>2. m \in {0, 1} /\ b \in {0, 1} /\ t \in Threads
  BY <1>1, Constants DEF RunQueueTypeOK, Buffers, Lists
<1>3. /\ Now = Queued(on, at, m) /\ Later = Queued(on, at, 1 - m)
      /\ Now' = Queued(on \ {t}, at, m) /\ Later' = Queued(on \ {t}, at, 1 - m)
  <2>1. PICK on2 : on2 = on \ {t}
    OBVIOUS
  <2> QED BY <1>1, <2>1, RoundsAre
<1>4. Queued(on \ {t}, at, m) = Queued(on, at, m) \ {<<t, pr>>}
  BY DEF Queued
<1>5. Queued(on \ {t}, at, 1 - m) = Queued(on, at, 1 - m) \ {<<t, pr>>}
  BY DEF Queued
<1>6. /\ <<t, pr>> \in Queued(on, at, b)
      /\ b = m => <<t, pr>> \notin Queued(on, at, 1 - m)
  BY <1>2 DEF Queued
<1>7. b = m \/ b = 1 - m
  BY <1>2
<1> QED BY <1>1, <1>3, <1>4, <1>5, <1>6, <1>7

\* The mapping, on one CPU.
LEMMA MappedRounds ==
  ASSUME Uniprocessor
  PROVE  /\ [c \in CPUs |-> WaitingIn(c, master[c])] = [c \in {0} |-> Now]
         /\ [c \in CPUs |-> WaitingIn(c, 1 - master[c])] = [c \in {0} |-> Later]
         /\ [c \in CPUs |-> WaitingIn(c, master[c])]' = [c \in {0} |-> Now']
         /\ [c \in CPUs |-> WaitingIn(c, 1 - master[c])]' = [c \in {0} |-> Later']
BY DEF Uniprocessor, Now, Later

\* What a step does to the rounds, as a formula of the round scheduler.
LEMMA RoundsSame ==
  ASSUME Uniprocessor, Now' = Now, Later' = Later, running' = running
  PROVE  UNCHANGED Rounds!roundVars
BY MappedRounds DEF Rounds!roundVars

\* A thread that joins the next round is admitted.
LEMMA RoundsAdmit ==
  ASSUME Uniprocessor, Now' = Now, running' = running,
         NEW t \in Threads, NEW pr \in Prios, Later' = Later \cup {<<t, pr>>},
         \A w \in Now \cup Later : w[1] # t, running[0] # t
  PROVE  Rounds!Admit(0)
<1>1. ~Rounds!Held(t)
  BY MappedRounds DEF Rounds!Held, Rounds!Waiting, Uniprocessor
<1>2. [c \in CPUs |-> WaitingIn(c, 1 - master[c])]'
        = [[c \in CPUs |-> WaitingIn(c, 1 - master[c])] EXCEPT ![0] = @ \cup {<<t, pr>>}]
  BY MappedRounds
<1>3. \E u \in Threads, r \in Prios :
        /\ ~Rounds!Held(u)
        /\ [c \in CPUs |-> WaitingIn(c, 1 - master[c])]'
             = [[c \in CPUs |-> WaitingIn(c, 1 - master[c])] EXCEPT ![0] = @ \cup {<<u, r>>}]
  BY <1>1, <1>2, Zenon
<1>4. UNCHANGED <<[c \in CPUs |-> WaitingIn(c, master[c])], running>>
  BY MappedRounds
<1> QED BY <1>3, <1>4, Zenon DEF Rounds!Admit

\* A thread that leaves the round it waits in is withdrawn.
LEMMA RoundsWithdraw ==
  ASSUME Uniprocessor, running' = running,
         NEW w \in Now \cup Later, Now' = Now \ {w}, Later' = Later \ {w}
  PROVE  Rounds!Withdraw(0)
<1>1. [c \in {0} |-> Now'] = [[c \in {0} |-> Now] EXCEPT ![0] = @ \ {w}]
  OBVIOUS
<1>2. [c \in {0} |-> Later'] = [[c \in {0} |-> Later] EXCEPT ![0] = @ \ {w}]
  OBVIOUS
<1>3. w \in [c \in {0} |-> Now][0] \cup [c \in {0} |-> Later][0]
  OBVIOUS
<1> QED BY <1>1, <1>2, <1>3, MappedRounds DEF Rounds!Withdraw

\* The best thread of the round becomes the running one.
LEMMA RoundsDispatch ==
  ASSUME Uniprocessor, SchedTypeOK, running[0] = NULL,
         NEW w \in Now, \A o \in Now : w[2] <= o[2],
         Now' = Now \ {w}, Later' = Later, running' = [running EXCEPT ![0] = w[1]]
  PROVE  Rounds!Dispatch(0)
BY MappedRounds DEF Rounds!Dispatch

\* The running thread goes back to the next round.
LEMMA RoundsYield ==
  ASSUME Uniprocessor, SchedTypeOK, running[0] # NULL,
         NEW pr \in Prios, Later' = Later \cup {<<running[0], pr>>},
         Now' = Now, running' = [running EXCEPT ![0] = NULL]
  PROVE  Rounds!Yield(0)
BY MappedRounds DEF Rounds!Yield

\* The running thread stops and waits for no round.
LEMMA RoundsLeave ==
  ASSUME Uniprocessor, SchedTypeOK, running[0] # NULL,
         Now' = Now, Later' = Later, running' = [running EXCEPT ![0] = NULL]
  PROVE  Rounds!Leave(0)
BY MappedRounds DEF Rounds!Leave

\* An empty round is replaced by the next one.
LEMMA RoundsNewRound ==
  ASSUME Uniprocessor, running[0] = NULL, running' = running,
         Now = {}, Now' = Later, Later' = {}
  PROVE  Rounds!NewRound(0)
BY MappedRounds DEF Rounds!NewRound

-----------------------------------------------------------------------------
\* A thread is dequeued: it leaves its round, or was in none.
LEMMA DequeueRound ==
  ASSUME Uniprocessor, Inv, NEW t \in Threads, Allocated(t), t # 1, Dequeue(t),
         running' = running
  PROVE  Rounds!Withdraw(0) \/ UNCHANGED Rounds!roundVars
<1>1. PICK on, at, pos : Lists(on, at, pos) /\ QueuedInv(on, at)
  BY DEF Inv, QueueInv
<1>2. /\ process[t] \in Procs /\ SchedTypeOK /\ RunQueueTypeOK
      /\ t \in on => /\ \E b \in Buffers : at[t] = <<0, b, prio[process[t]]>>
                     /\ last_cpu[t] = 0
  BY <1>1 DEF Inv, SchedTypeOK, LifeInv, Allocated, QueuedInv
<1>3. Lists(on \ {t}, at, pos)' /\ RunQueueTypeOK' /\ master' = master
  BY <1>1, <1>2, DequeueStep
<1>4. CASE t \in on
  <2>1. PICK pr : pr = prio[process[t]]
    OBVIOUS
  <2>2. PICK b \in Buffers : at[t] = <<0, b, pr>>
    BY <1>2, <1>4, <2>1
  <2>3. pr \in Prios
    BY <1>2, <2>1 DEF SchedTypeOK
  <2>4. <<t, pr>> \in Now \cup Later /\ Now' = Now \ {<<t, pr>>} /\ Later' = Later \ {<<t, pr>>}
    BY <1>1, <1>2, <1>3, <1>4, <2>2, <2>3, Removed
  <2>5. PICK w : w = <<t, pr>>
    OBVIOUS
  <2>6. w \in Now \cup Later /\ Now' = Now \ {w} /\ Later' = Later \ {w}
    BY <2>4, <2>5
  <2> QED BY <2>6, RoundsWithdraw
<1>5. CASE t \notin on
  <2>1. on \ {t} = on
    BY <1>5
  <2>2. /\ Now = Queued(on, at, master[0]) /\ Later = Queued(on, at, 1 - master[0])
        /\ Now' = Queued(on, at, master'[0]) /\ Later' = Queued(on, at, 1 - master'[0])
    BY <1>1, <1>2, <1>3, <2>1, RoundsAre
  <2>3. Now' = Now /\ Later' = Later
    BY <1>3, <2>2
  <2> QED BY <2>3, RoundsSame
<1> QED BY <1>4, <1>5

\* A thread that does not run and is in no list is enqueued: it joins the next round.
LEMMA EnqueueRound ==
  ASSUME Uniprocessor, Inv, NEW t \in Threads, status[t] # "RUNNING", running[0] # t,
         NEW p \in Procs, NEW lc \in {0, NOT_SET}, NEW pr \in 0..MIN_PRIO,
         Enqueue(t, p, lc, pr), running' = running
  PROVE  Rounds!Admit(0) /\ Now' = Now
<1>1. PICK on, at, pos : Lists(on, at, pos) /\ QueuedInv(on, at)
  BY DEF Inv, QueueInv
<1>2. t \notin on /\ SchedTypeOK /\ RunQueueTypeOK /\ pr \in Prios
  <2>1. pr \in Prios
    BY Constants
  <2>2. SchedTypeOK /\ RunQueueTypeOK
    BY DEF Inv, SchedTypeOK
  <2> QED BY <1>1, <2>1, <2>2 DEF QueuedInv
<1>3. /\ \E at2, pos2 : /\ at2 = [at EXCEPT ![t] = SlaveQueue(0, pr)]
                        /\ Lists(on \cup {t}, at2, pos2)'
      /\ RunQueueTypeOK' /\ master' = master
  <2>1. /\ Uniprocessor /\ SchedTypeOK /\ Lists(on, at, pos)
        /\ t \in Threads /\ t \notin on /\ p \in Procs /\ lc \in {0, NOT_SET}
        /\ pr \in 0..MIN_PRIO /\ Enqueue(t, p, lc, pr)
    BY <1>1, <1>2
  <2>2. PICK u, o, l, r : u = t /\ o = p /\ l = lc /\ r = pr
    OBVIOUS
  <2>3. /\ Uniprocessor /\ SchedTypeOK /\ Lists(on, at, pos)
        /\ u \in Threads /\ u \notin on /\ o \in Procs /\ l \in {0, NOT_SET}
        /\ r \in 0..MIN_PRIO /\ Enqueue(u, o, l, r)
    BY <2>1, <2>2
  <2>4. /\ \E at2, pos2 : /\ at2 = [at EXCEPT ![u] = SlaveQueue(0, r)]
                          /\ Lists(on \cup {u}, at2, pos2)'
        /\ RunQueueTypeOK'
        /\ master' = master
        /\ status' = [status EXCEPT ![u] = "RUNNING"]
        /\ prio' = [prio EXCEPT ![o] = r]
        /\ last_cpu' = [last_cpu EXCEPT ![u] = 0]
        /\ enqueued_tasks' \in [CPUs -> Int]
    BY ONLY <2>3, EnqueueStep
  <2> QED BY ONLY <2>2, <2>4
<1>4. PICK at2, pos2 : /\ at2 = [at EXCEPT ![t] = SlaveQueue(0, pr)]
                       /\ Lists(on \cup {t}, at2, pos2)'
  BY <1>3
<1>5. Now' = Now /\ Later' = Later \cup {<<t, pr>>} /\ \A w \in Now \cup Later : w[1] # t
  BY <1>1, <1>2, <1>3, <1>4, Inserted
<1> QED BY <1>2, <1>5, RoundsAdmit

\* The thread resched() leaves yields, or is no longer runnable.
LEMMA ReschedRound ==
  ASSUME Uniprocessor, Inv, Resched(0)
  PROVE  Rounds!Yield(0) \/ Rounds!Leave(0)
<1>1. PICK on, at, pos : Lists(on, at, pos) /\ QueuedInv(on, at)
  BY DEF Inv, QueueInv
<1>2. PICK t, pr : t = running[0] /\ pr = prio[process[t]]
  OBVIOUS
<1>3. /\ t \in Threads /\ last_cpu[t] = 0 /\ pr \in Prios /\ t \notin on
      /\ SchedTypeOK /\ RunQueueTypeOK /\ running[0] # NULL
      /\ running' = [running EXCEPT ![0] = NULL]
  <2>1. SchedTypeOK /\ RunQueueTypeOK /\ running[0] \in Ptr /\ 0 \in CPUs
    BY Constants DEF Inv, SchedTypeOK
  <2>2. running[0] # NULL /\ last_cpu[t] = 0 /\ Allocated(t)
    BY <1>2 DEF Inv, CurrentInv, Resched
  <2>3. t \in Threads /\ t \notin on
    BY <1>1, <1>2, <2>1, <2>2 DEF Ptr, QueuedInv
  <2>4. process[t] \in Procs
    BY <2>1, <2>2, <2>3 DEF Inv, LifeInv, SchedTypeOK
  <2>5. pr \in Prios /\ running' = [running EXCEPT ![0] = NULL]
    BY <1>2, <2>1, <2>4 DEF SchedTypeOK, Resched
  <2> QED BY <2>1, <2>2, <2>3, <2>5
<1>4. CASE status[t] = "RUNNING"
  <2>1. AddToEnd(0, pr, t)
    BY <1>2, <1>3, <1>4 DEF Resched
  <2>2. PICK q : q = SlaveQueue(0, pr)
    OBVIOUS
  <2>3. PICK at2 : at2 = [at EXCEPT ![t] = q]
    OBVIOUS
  <2>4. PICK pos2 : pos2 = [pos EXCEPT ![t] = IF tail[q] = NULL THEN 0
                                               ELSE pos[tail[q]] + 1]
    OBVIOUS
  <2>5. PICK on2 : on2 = on \cup {t}
    OBVIOUS
  <2>6. Lists(on2, at2, pos2)' /\ RunQueueTypeOK'
    <3>1. /\ 0 \in CPUs /\ pr \in Prios /\ t \in Threads /\ t \notin on
          /\ Lists(on, at, pos) /\ RunQueueTypeOK
      BY <1>1, <1>3, Constants
    <3> QED BY ONLY <2>1, <2>2, <2>3, <2>4, <2>5, <3>1, AddToEndLists, Zenon
  <2>7. master' = master
    BY <2>1 DEF AddToEnd
  <2>8. /\ Now' = Now
        /\ Later' = Later \cup {<<t, pr>>}
        /\ \A w \in Now \cup Later : w[1] # t
    <3>1. /\ Lists(on, at, pos) /\ Lists(on \cup {t}, at2, pos2)'
          /\ at2 = [at EXCEPT ![t] = SlaveQueue(0, pr)]
          /\ t \in Threads /\ t \notin on /\ pr \in Prios
          /\ RunQueueTypeOK /\ RunQueueTypeOK' /\ Uniprocessor
      BY <1>1, <1>3, <2>2, <2>3, <2>5, <2>6
    <3> QED BY ONLY <2>7, <3>1, Inserted
  <2> QED BY <1>2, <1>3, <2>8, RoundsYield
<1>5. CASE status[t] # "RUNNING"
  <2>1. UNCHANGED rqVars
    BY <1>2, <1>5 DEF Resched
  <2>2. Now' = Now /\ Later' = Later
    BY <2>1 DEF rqVars, Now, Later, WaitingIn, Members
  <2> QED BY <1>3, <2>2, RoundsLeave
<1> QED BY <1>4, <1>5

\* The thread that is picked is dispatched, the best of its round; one with a
\* terminating signal pending is withdrawn.
LEMMA PickRound ==
  ASSUME Uniprocessor, Inv, Pick(0)
  PROVE  Rounds!Dispatch(0) \/ Rounds!Withdraw(0)
<1>1. PICK on, at, pos : Lists(on, at, pos) /\ QueuedInv(on, at) /\ RoundInv(on, at)
  BY DEF Inv, QueueInv
<1>2. PICK pr, t, on2 : /\ pr = next_read_prio[0] /\ t = head[MasterQueue(0, pr)]
                        /\ on2 = on \ {t}
  OBVIOUS
<1>3. /\ t # NULL /\ PopHead(0, pr) /\ pr \in Prios /\ RunQueueTypeOK /\ SchedTypeOK
      /\ running[0] = NULL
      /\ IF pending[t] THEN running' = running ELSE running' = [running EXCEPT ![0] = t]
  BY <1>2, Constants DEF Pick, Inv, SchedTypeOK, CurrentInv
<1>4. /\ Lists(on2, at, pos)' /\ RunQueueTypeOK' /\ master' = master
      /\ t \in on /\ at[t] = MasterQueue(0, pr)
  <2>1. master' = master /\ 0 \in CPUs
    BY <1>3, Constants DEF PopHead
  <2>2. /\ Lists(on, at, pos) /\ RunQueueTypeOK /\ pr \in Prios /\ t \in Threads
        /\ PopHead(0, pr)
    BY <1>1, <1>2, <1>3, <2>1, QueueType DEF RunQueueTypeOK, Ptr
  <2>3. /\ Lists(on2, at, pos)' /\ RunQueueTypeOK'
        /\ t \in on /\ at[t] = MasterQueue(0, pr)
    BY ONLY <1>2, <2>1, <2>2, PopHeadLists
  <2> QED BY <2>1, <2>3
<1>5. PICK b : b = master[0]
  OBVIOUS
<1>6. b \in Buffers /\ at[t] = <<0, b, pr>>
  BY <1>3, <1>4, <1>5, Constants DEF RunQueueTypeOK, MasterQueue
<1>7. PICK w : w = <<t, pr>>
  OBVIOUS
<1>8. /\ w \in Now /\ w \notin Later /\ Now' = Now \ {w} /\ Later' = Later \ {w}
  BY <1>1, <1>2, <1>3, <1>4, <1>5, <1>6, <1>7, Removed
<1>9. \A o \in Now : w[2] <= o[2]
  <2>1. Now = Queued(on, at, b)
    BY <1>1, <1>3, <1>5, RoundsAre
  <2> QED BY <1>1, <1>2, <1>5, <1>7, <2>1 DEF Queued, RoundInv
<1>10. CASE pending[t]
  BY <1>3, <1>8, <1>10, RoundsWithdraw
<1>11. CASE ~pending[t]
  <2>1. Later' = Later /\ running' = [running EXCEPT ![0] = w[1]]
    BY <1>3, <1>7, <1>8, <1>11
  <2> QED BY <1>3, <1>8, <1>9, <2>1, RoundsDispatch
<1> QED BY <1>10, <1>11

\* Nobody is left in a round whose end sched() is working at.
RoundOver == pc[0] = "unblock" => Now = {}

\* A step that touches no list and leaves the running thread alone.
LEMMA QuietRound ==
  ASSUME Uniprocessor, UNCHANGED rqVars, running' = running
  PROVE  /\ UNCHANGED Rounds!roundVars
         /\ Now' = Now
<1>1. Now' = Now /\ Later' = Later
  BY DEF rqVars, Now, Later, WaitingIn, Members
<1> QED BY <1>1, RoundsSame

\* When all lists have been tried, the round is empty.
LEMMA RoundEndRound ==
  ASSUME Uniprocessor, Inv, RoundEnd(0)
  PROVE  UNCHANGED Rounds!roundVars /\ RoundOver'
<1>1. PICK on, at, pos : Lists(on, at, pos) /\ RoundInv(on, at)
  BY DEF Inv, QueueInv
<1>2. /\ UNCHANGED <<rqVars, running>> /\ next_read_prio[0] = IDLE_PRIO
      /\ head[MasterQueue(0, IDLE_PRIO)] = NULL
  BY DEF RoundEnd
<1>3. RunQueueTypeOK /\ MasterQueue(0, IDLE_PRIO) \in Queues
  BY QueueType, Constants DEF Inv, SchedTypeOK
<1>4. \A u \in on : at[u] # MasterQueue(0, IDLE_PRIO)
  BY <1>1, <1>2, <1>3 DEF Lists, HeadIs
<1>5. Now = Queued(on, at, master[0])
  BY <1>1, <1>3, RoundsAre
<1>6. ASSUME NEW w \in Now PROVE FALSE
  <2>1. w[1] \in on /\ at[w[1]] = <<0, master[0], w[2]>> /\ w[2] \in Prios
    BY <1>5, <1>6 DEF Queued
  <2>2. IDLE_PRIO <= w[2]
    BY <1>1, <1>2, <2>1 DEF RoundInv
  <2>3. w[2] = IDLE_PRIO
    BY <2>1, <2>2, Constants
  <2> QED BY <1>4, <2>1, <2>3 DEF MasterQueue
<1> QED BY <1>2, <1>6, QuietRound DEF RoundOver

\* The arrays are swapped: the next round begins.
LEMMA NewRoundRound ==
  ASSUME Uniprocessor, Inv, RoundOver, NewRound(0)
  PROVE  Rounds!NewRound(0) /\ RoundOver'
<1>1. /\ pc[0] = "unblock" /\ running' = running /\ running[0] = NULL /\ SwapBuffers(0)
      /\ pc' = [pc EXCEPT ![0] = "sched"]
  BY DEF NewRound, Inv, CurrentInv
<1>2. master[0] \in {0, 1} /\ master'[0] = 1 - master[0] /\ pc'[0] # "unblock"
      /\ Members' = Members
  BY <1>1, Constants
  DEF Inv, SchedTypeOK, RunQueueTypeOK, Buffers, SwapBuffers, Members
<1>3. 1 - master'[0] = master[0]
  BY <1>2
<1>4. Now' = Later /\ Later' = Now
  BY <1>2, <1>3 DEF Now, Later, WaitingIn
<1> QED BY <1>1, <1>2, <1>4, RoundsNewRound DEF RoundOver

\* sched_unblock_threads admits threads to the next round only.
LEMMA UnblockRound ==
  ASSUME Uniprocessor, Inv, RoundOver, UnblockThread(0)
  PROVE  (Rounds!Admit(0) \/ UNCHANGED Rounds!roundVars) /\ RoundOver'
<1>1. PICK t, p, lc, pr : /\ t = scan[0] /\ p = process[t] /\ lc = last_cpu[t]
                          /\ pr = prio[p]
  OBVIOUS
<1>2. t \in Threads /\ pc[0] = "unblock" /\ running[0] = NULL /\ UNCHANGED <<running, pc>>
  BY <1>1, Constants DEF UnblockThread, Inv, SchedTypeOK, CurrentInv, Threads
<1>3. CASE status[t] = "BLOCKED" /\ reason[t] /\ ready[t]
  <2>1. Enqueue(t, p, lc, pr)
    BY <1>1, <1>3 DEF UnblockThread
  <2>2. p \in Procs /\ t # 1 /\ running[0] # t
    BY <1>1, <1>2, <1>3, Constants DEF Inv, SchedTypeOK, IdleInv, LifeInv, Allocated
  <2>3. lc \in {0, NOT_SET} /\ pr \in 0..MIN_PRIO
    BY <1>1, <1>2, <2>2, Constants DEF Inv, SchedTypeOK, IdleInv, Uniprocessor
  <2>4. Rounds!Admit(0) /\ Now' = Now
    BY <1>2, <1>3, <2>1, <2>2, <2>3, EnqueueRound
  <2> QED BY <1>2, <2>4 DEF RoundOver
<1>4. CASE ~(status[t] = "BLOCKED" /\ reason[t] /\ ready[t])
  <2>1. UNCHANGED rqVars
    BY <1>1, <1>4 DEF UnblockThread
  <2> QED BY <1>2, <2>1, QuietRound DEF RoundOver
<1> QED BY <1>3, <1>4

\* One thread of proc_die leaves its round, or is not concerned.
LEMMA DieThreadRound ==
  ASSUME Uniprocessor, Inv, DieThread(0)
  PROVE  (Rounds!Withdraw(0) \/ UNCHANGED Rounds!roundVars) /\ RoundOver'
<1>1. PICK t : t = scan[0]
  OBVIOUS
<1>2. /\ t \in Threads /\ pc[0] = "die" /\ pc' = pc /\ running' = running
      /\ victim[0] # 1
  BY <1>1, Constants DEF DieThread, Inv, SchedTypeOK, CurrentInv, Threads
<1>3. CASE status[t] # "INVALID" /\ process[t] = victim[0]
  <2>1. Dequeue(t) /\ Allocated(t) /\ t # 1
    BY <1>1, <1>2, <1>3 DEF DieThread, Allocated, Inv, IdleInv
  <2> QED BY <1>2, <2>1, DequeueRound DEF RoundOver
<1>4. CASE ~(status[t] # "INVALID" /\ process[t] = victim[0])
  <2>1. UNCHANGED rqVars
    BY <1>1, <1>4 DEF DieThread
  <2> QED BY <1>2, <2>1, QuietRound DEF RoundOver
<1> QED BY <1>3, <1>4

\* The thread that makes a system call.
LEMMA CallerFacts ==
  ASSUME Uniprocessor, Inv, pc[0] = "run", running[0] \notin IdleThreads
  PROVE  /\ running[0] \in Threads /\ running[0] # 1 /\ Allocated(running[0])
         /\ status[running[0]] = "RUNNING" /\ process[running[0]] \in Procs
         /\ process[running[0]] # 1 /\ prio[process[running[0]]] \in 0..MIN_PRIO
<1>1. running[0] \in Ptr /\ running[0] # NULL /\ status[running[0]] = "RUNNING"
  BY Constants DEF Inv, SchedTypeOK, CurrentInv
<1>2. running[0] \in Threads /\ running[0] # 1 /\ Allocated(running[0])
  BY <1>1, Constants DEF Ptr, Allocated
<1>3. process[running[0]] \in Procs /\ process[running[0]] # 1
  BY <1>2 DEF Inv, SchedTypeOK, LifeInv, IdleInv
<1>4. prio[process[running[0]]] \in 0..MIN_PRIO
  BY <1>3, Constants DEF Inv, SchedTypeOK, IdleInv
<1> QED BY <1>1, <1>2, <1>3, <1>4

\* The calls that suspend a thread withdraw it.
LEMMA SuspendRound ==
  ASSUME Uniprocessor, Inv, Block(0) \/ Sigreturn(0) \/ SendStop(0)
  PROVE  (Rounds!Withdraw(0) \/ UNCHANGED Rounds!roundVars) /\ RoundOver'
<1>1. /\ pc[0] = "run" /\ running[0] \notin IdleThreads /\ running' = running
  BY DEF Block, Sigreturn, SendStop, CanCall
<1>2. pc'[0] # "unblock"
  BY <1>1, Constants DEF Block, Sigreturn, SendStop, Inv, SchedTypeOK
<1>3. \E t \in Threads : Allocated(t) /\ t # 1 /\ Dequeue(t)
  <2>1. CASE Block(0) \/ Sigreturn(0)
    BY <1>1, <2>1, CallerFacts DEF Block, Sigreturn
  <2>2. CASE SendStop(0)
    <3>1. PICK p \in Procs, t \in Threads : IsTarget(t, p) /\ Dequeue(t)
      BY <2>2 DEF SendStop
    <3>2. Allocated(t) /\ t # 1
      BY <3>1 DEF Inv, IdleInv, IsTarget, Allocated, Uniprocessor
    <3> QED BY <3>1, <3>2
  <2> QED BY <2>1, <2>2
<1> QED BY <1>1, <1>2, <1>3, DequeueRound DEF RoundOver

\* The calls that make a thread runnable admit it to the next round.
LEMMA ResumeRound ==
  ASSUME Uniprocessor, Inv, SendCont(0) \/ CreateThread(0) \/ Fork(0)
  PROVE  Rounds!Admit(0) /\ RoundOver'
<1>1. /\ pc[0] = "run" /\ running[0] \notin IdleThreads /\ running' = running
  BY DEF SendCont, CreateThread, Fork, CanCall
<1>2. pc'[0] # "unblock"
  BY <1>1, Constants DEF SendCont, CreateThread, Fork, Inv, SchedTypeOK
<1>3. \E t \in Threads, p \in Procs, lc \in {0, NOT_SET}, pr \in 0..MIN_PRIO :
        status[t] # "RUNNING" /\ Enqueue(t, p, lc, pr)
  <2>1. CASE SendCont(0)
    <3>1. PICK p \in Procs, t \in Threads :
            /\ IsTarget(t, p) /\ status[t] \in {"BLOCKED", "STOPPED"}
            /\ Enqueue(t, p, last_cpu[t], prio[p])
      BY <2>1 DEF SendCont
    <3>2. last_cpu[t] \in {0, NOT_SET} /\ prio[p] \in 0..MIN_PRIO
      BY <3>1, Constants DEF Inv, SchedTypeOK, IdleInv, IsTarget, Uniprocessor
    <3> QED BY <3>1, <3>2
  <2>2. CASE CreateThread(0)
    <3>1. PICK p : p = process[running[0]]
      OBVIOUS
    <3>2. PICK t \in Threads : IsFreeSlot(t) /\ Enqueue(t, p, NOT_SET, prio[p])
      BY <2>2, <3>1 DEF CreateThread
    <3>3. p \in Procs /\ prio[p] \in 0..MIN_PRIO /\ status[t] # "RUNNING"
      BY <1>1, <3>1, <3>2, CallerFacts DEF IsFreeSlot
    <3> QED BY <3>2, <3>3
  <2>3. CASE Fork(0)
    <3>1. PICK t \in Threads, p \in Procs :
            IsFreeSlot(t) /\ Enqueue(t, p, NOT_SET, DEFAULT_PRIO)
      BY <2>3 DEF Fork
    <3>2. DEFAULT_PRIO \in 0..MIN_PRIO /\ status[t] # "RUNNING"
      BY <3>1, SchedAssumption, Constants DEF IsFreeSlot
    <3> QED BY <3>1, <3>2
  <2> QED BY <2>1, <2>2, <2>3
<1>4. PICK t \in Threads, p \in Procs, lc \in {0, NOT_SET}, pr \in 0..MIN_PRIO :
        status[t] # "RUNNING" /\ Enqueue(t, p, lc, pr)
  BY <1>3
<1>5. running[0] # t
  BY <1>1, <1>4, CallerFacts
<1>6. Rounds!Admit(0)
  BY <1>1, <1>4, <1>5, EnqueueRound
<1> QED BY <1>2, <1>6 DEF RoundOver

\* The steps that only change who may be picked later, or the loops' places.
LEMMA StillRound ==
  ASSUME Uniprocessor, Inv, RoundOver,
         \/ NextPrio(0) \/ DieEnd(0) \/ Exit(0) \/ SendTerm(0) \/ Nice(0)
         \/ \E t \in Threads : Condition(t)
         \/ UNCHANGED vars
  PROVE  UNCHANGED Rounds!roundVars /\ RoundOver'
<1>1. UNCHANGED rqVars /\ running' = running
  BY DEF NextPrio, DieEnd, Exit, SendTerm, Nice, Condition, vars
<1>2. pc'[0] = "unblock" => pc[0] = "unblock"
  <2>1. CASE DieEnd(0)
    BY <2>1, Constants DEF DieEnd, Inv, SchedTypeOK
  <2>2. CASE Exit(0)
    BY <2>2, Constants DEF Exit, Inv, SchedTypeOK
  <2> QED BY <2>1, <2>2 DEF NextPrio, SendTerm, Nice, Condition, vars
<1> QED BY <1>1, <1>2, QuietRound DEF RoundOver

\* Every step of the scheduler is a step of the round scheduler, or none.
LEMMA NextRound ==
  ASSUME Uniprocessor, Inv, RoundOver, [Next]_vars
  PROVE  [Rounds!RoundNext]_(Rounds!roundVars) /\ RoundOver'
<1>1. CASE Resched(0) \/ Pick(0)
  <2>1. RoundOver'
    BY <1>1, Constants DEF Resched, Pick, Inv, SchedTypeOK, RoundOver
  <2>2. Rounds!RoundNext
    BY <1>1, ReschedRound, PickRound, Constants DEF Rounds!RoundNext
  <2> QED BY <2>1, <2>2
<1>2. CASE RoundEnd(0)
  BY <1>2, RoundEndRound
<1>3. CASE NewRound(0)
  BY <1>3, NewRoundRound, Constants DEF Rounds!RoundNext
<1>4. CASE UnblockThread(0) \/ DieThread(0)
  BY <1>4, UnblockRound, DieThreadRound, Constants DEF Rounds!RoundNext
<1>5. CASE Block(0) \/ Sigreturn(0) \/ SendStop(0)
  BY <1>5, SuspendRound, Constants DEF Rounds!RoundNext
<1>6. CASE SendCont(0) \/ CreateThread(0) \/ Fork(0)
  BY <1>6, ResumeRound, Constants DEF Rounds!RoundNext
<1>7. CASE \/ NextPrio(0) \/ DieEnd(0) \/ Exit(0) \/ SendTerm(0) \/ Nice(0)
           \/ \E t \in Threads : Condition(t)
           \/ UNCHANGED vars
  BY <1>7, StillRound
<1>8. ~Raise(0)
  BY DEF Raise, CanCall, Uniprocessor
<1> QED BY <1>1, <1>2, <1>3, <1>4, <1>5, <1>6, <1>7, <1>8
        DEF Next, KernelStep, SystemCall, Uniprocessor

\* At boot all threads wait for the first round.
LEMMA InitRound ==
  ASSUME Uniprocessor, Init
  PROVE  Rounds!RoundInit /\ RoundOver
<1>1. Inv
  BY InitInv
<1>2. /\ running = [c \in CPUs |-> NULL] /\ pc[0] = "sched" /\ master[0] = 0
      /\ \A q \in Queues : q[2] = 0 => head[q] = NULL
  BY Constants DEF Init
<1>3. Now = {}
  <2>1. \A pr \in Prios : <<0, 0, pr>> \in Queues /\ <<0, 0, pr>>[2] = 0
    BY Constants DEF Queues, Buffers
  <2>2. \A pr \in Prios : Members[<<0, 0, pr>>] = {}
    BY <1>2, <2>1 DEF Members, Walk
  <2> QED BY <1>2, <2>2 DEF Now, WaitingIn
<1>4. Later \in SUBSET (Threads \X Prios)
  BY DEF Later, WaitingIn
<1>5. Rounds!RoundInit
  BY <1>2, <1>3, <1>4, MappedRounds DEF Rounds!RoundInit, Uniprocessor
<1> QED BY <1>2, <1>5 DEF RoundOver

(***************************************************************************)
(* The pointer-level scheduler implements the round scheduler.              *)
(***************************************************************************)
THEOREM SchedulerImplementsRounds ==
  ASSUME Uniprocessor
  PROVE  Spec => ImplementsRounds
<1>1. Init => Rounds!RoundInit /\ RoundOver
  BY InitRound
<1>2. Inv /\ RoundOver /\ [Next]_vars => [Rounds!RoundNext]_(Rounds!roundVars) /\ RoundOver'
  BY NextRound
<1> QED BY <1>1, <1>2, SchedInvariant, PTL DEF Spec, ImplementsRounds, Rounds!RoundSpec

\* The threads found in the lists, and the list found for each.
LEMMA FoundAre ==
  ASSUME Uniprocessor, NEW on, NEW at, NEW pos, Lists(on, at, pos)
  PROVE  /\ Found(Members) = on
         /\ FoundAt(Members) \in [Threads -> Queues]
         /\ \A t \in on : FoundAt(Members)[t] = at[t]
<1>1. PICK list : list = Members
  OBVIOUS
<1>2. \A q \in Queues : list[q] = {t \in on : at[t] = q}
  BY <1>1, MembersAre
<1>3. on \subseteq Threads /\ \A t \in on : at[t] \in Queues
  BY DEF Lists
<1>4. Found(list) = on
  BY <1>2, <1>3 DEF Found
<1>5. PICK r : r = <<0, 0, IDLE_PRIO>> /\ r \in Queues
  <2>1. <<0, 0, IDLE_PRIO>> \in Queues
    BY Constants DEF Queues, Buffers
  <2> QED BY <2>1
<1>6. ASSUME NEW t \in Threads
      PROVE  /\ FoundAt(list)[t] \in Queues
             /\ t \in on => FoundAt(list)[t] = at[t]
  <2>1. \E q \in Queues : t \in on => t \in list[q]
    BY <1>2, <1>3, <1>5
  <2>2. FoundAt(list)[t] = CHOOSE q \in Queues : t \in on => t \in list[q]
    BY <1>4 DEF FoundAt
  <2>3. /\ FoundAt(list)[t] \in Queues
        /\ t \in on => t \in list[FoundAt(list)[t]]
    BY <2>1, <2>2
  <2> QED BY <1>2, <2>3
<1>7. FoundAt(list) = [t \in Threads |-> FoundAt(list)[t]]
  BY DEF FoundAt
<1>8. FoundAt(list) \in [Threads -> Queues]
  BY <1>6, <1>7
<1> QED BY <1>1, <1>3, <1>4, <1>6, <1>8

\* The place found for a thread orders its list as the positions do.
LEMMA FoundPosOrders ==
  ASSUME NEW on, NEW at, NEW pos, Lists(on, at, pos)
  PROVE  /\ FoundPos \in [Threads -> Int]
         /\ \A t, u \in on : at[t] = at[u] /\ pos[t] < pos[u] => FoundPos[t] < FoundPos[u]
<1> DEFINE met == [u \in Threads |-> Walk(u, sched_next)]
           To(t) == {u \in Threads : t \in met[u]}
           UpTo(t) == {u \in on : at[u] = at[t] /\ pos[u] <= pos[t]}
<1>1. FoundPos = [t \in Threads |-> Cardinality(To(t))]
  BY DEF FoundPos
<1>2. IsFiniteSet(Threads)
  BY FS_Interval, RunQueueAssumption DEF Threads
<1>3. on \subseteq Threads /\ pos \in [Threads -> Int] /\ NULL \notin Threads
  BY DEF Lists, NULL, Threads
<1>4. ASSUME NEW u \in on
      PROVE  met[u] = {t \in on : at[t] = at[u] /\ pos[u] <= pos[t]}
  <2>1. Walk(u, sched_next) = {t \in on : at[t] = at[u] /\ pos[u] <= pos[t]}
    BY WalkFrom DEF Lists, OrderIs, NextIs, PrevIs
  <2> QED BY <1>3, <2>1
<1>5. ASSUME NEW u \in Threads \ on, NEW t \in met[u]
      PROVE  t = u
  <2>1. t \in Walk(u, sched_next)
    BY <1>5
  <2>2. sched_next[u] = NULL
    BY DEF Lists, OffIs
  <2>3. {u} \in SUBSET Threads /\ u \in {u}
        /\ \A v \in {u} : sched_next[v] = NULL \/ sched_next[v] \in {u}
    BY <2>2
  <2> QED BY <2>1, <2>3 DEF Walk
<1>6. \A t \in on : To(t) = UpTo(t)
  <2> HIDE DEF met
  <2> QED BY <1>3, <1>4, <1>5
<1>7. \A t \in Threads : IsFiniteSet(To(t)) /\ Cardinality(To(t)) \in Nat
  <2> TAKE t \in Threads
  <2>1. To(t) \in SUBSET Threads
    OBVIOUS
  <2> HIDE DEF To
  <2>2. IsFiniteSet(To(t))
    BY <1>2, <2>1, FS_Subset
  <2> QED BY <2>2, FS_CardinalityType
<1>8. ASSUME NEW t \in on, NEW u \in on, at[t] = at[u], pos[t] < pos[u]
      PROVE  FoundPos[t] < FoundPos[u]
  <2>1. UpTo(t) \in SUBSET UpTo(u) /\ u \in UpTo(u) /\ u \notin UpTo(t)
    BY <1>3, <1>8
  <2>2. To(t) \in SUBSET To(u) /\ To(t) # To(u)
    BY <1>6, <2>1
  <2> HIDE DEF To
  <2>3. /\ Cardinality(To(t)) <= Cardinality(To(u))
        /\ Cardinality(To(u)) = Cardinality(To(t)) => To(u) = To(t)
    BY <1>3, <1>7, <2>2, FS_Subset
  <2>4. Cardinality(To(t)) \in Nat /\ Cardinality(To(u)) \in Nat
    BY <1>3, <1>7
  <2>5. Cardinality(To(t)) < Cardinality(To(u))
    BY <2>2, <2>3, <2>4
  <2> QED BY <1>1, <1>3, <2>5
<1>9. FoundPos \in [Threads -> Int]
  <2> HIDE DEF To
  <2> QED BY <1>1, <1>7
<1> QED BY <1>8, <1>9

\* Positions that order the lists in the same way describe the same lists.
LEMMA SameOrder ==
  ASSUME NEW on, NEW at, NEW pos, Lists(on, at, pos),
         NEW at2 \in [Threads -> Queues], \A t \in on : at2[t] = at[t],
         NEW pos2 \in [Threads -> Int],
         \A t, u \in on : at[t] = at[u] /\ pos[t] < pos[u] => pos2[t] < pos2[u]
  PROVE  Lists(on, at2, pos2)
<1>1. on \subseteq Threads /\ at \in [Threads -> Queues] /\ pos \in [Threads -> Int]
  BY DEF Lists
<1>2. \A t, u \in on : at[t] = at[u] =>
        /\ pos[t] < pos[u] <=> pos2[t] < pos2[u]
        /\ pos[t] <= pos[u] <=> pos2[t] <= pos2[u]
        /\ pos[t] = pos[u] <=> pos2[t] = pos2[u]
  <2> TAKE t, u \in on
  <2> HAVE at[t] = at[u]
  <2>1. /\ pos[t] \in Int /\ pos[u] \in Int /\ pos2[t] \in Int /\ pos2[u] \in Int
    BY <1>1
  <2>2. /\ pos[t] < pos[u] => pos2[t] < pos2[u]
        /\ pos[u] < pos[t] => pos2[u] < pos2[t]
    OBVIOUS
  <2>3. pos[t] = pos[u] => t = u
    BY DEF Lists, OrderIs
  <2> QED BY <2>1, <2>2, <2>3
<1>3. OrderIs(on, at2, pos2)
  BY <1>2 DEF Lists, OrderIs
<1>4. NextIs(on, at2, pos2)
  BY <1>2 DEF Lists, NextIs
<1>5. PrevIs(on, at2, pos2)
  BY <1>2 DEF Lists, PrevIs
<1>6. HeadIs(on, at2, pos2)
  BY <1>2 DEF Lists, HeadIs
<1>7. TailIs(on, at2, pos2)
  BY <1>2 DEF Lists, TailIs
<1> QED BY <1>1, <1>3, <1>4, <1>5, <1>6, <1>7 DEF Lists

(***************************************************************************)
(* The run queues are exact: no link is wrong, no runnable thread is lost   *)
(* or queued twice, and the idle thread can always be picked.               *)
(***************************************************************************)
THEOREM RunQueuesExact ==
  ASSUME Uniprocessor
  PROVE  Spec => []QueuesExact
<1>1. Inv => QueuesExact
  <2> SUFFICES ASSUME Inv PROVE QueuesExact
    OBVIOUS
  <2>1. PICK on, at, pos : Lists(on, at, pos) /\ QueuedInv(on, at) /\ RunnableInv(on)
    BY DEF Inv, QueueInv
  <2>2. ListsWellLinked
    <3>1. /\ Found(Members) = on /\ FoundAt(Members) \in [Threads -> Queues]
          /\ \A t \in on : FoundAt(Members)[t] = at[t]
      BY <2>1, FoundAre
    <3>2. /\ FoundPos \in [Threads -> Int]
          /\ \A t, u \in on : at[t] = at[u] /\ pos[t] < pos[u] => FoundPos[t] < FoundPos[u]
      BY <2>1, FoundPosOrders
    <3>3. PICK at2, pos2 : at2 = FoundAt(Members) /\ pos2 = FoundPos
      OBVIOUS
    <3>4. Lists(on, at2, pos2)
      BY <2>1, <3>1, <3>2, <3>3, SameOrder
    <3> QED BY <3>1, <3>3, <3>4 DEF ListsWellLinked
  <2>3. \A q \in Queues : Members[q] = {t \in on : at[t] = q}
    BY <2>1, MembersAre
  <2>4. RunnableInOnePlace
    <3> SUFFICES ASSUME NEW t \in Threads
                 PROVE  LET lists == {q \in Queues : t \in Members[q]}
                            cpus == {c \in CPUs : running[c] = t}
                            held == Cardinality(lists) + Cardinality(cpus)
                        IN  IF status[t] = "RUNNING"
                              THEN held = 1 \/ (held = 0 /\ \E c \in CPUs : Dispatched(c, t))
                              ELSE lists = {}
      BY DEF RunnableInOnePlace
    <3>1. PICK lists, cpus : /\ lists = {q \in Queues : t \in Members[q]}
                             /\ cpus = {c \in CPUs : running[c] = t}
      OBVIOUS
    <3>2. lists = IF t \in on THEN {at[t]} ELSE {}
      BY <2>1, <2>3, <3>1 DEF Lists
    <3>3. cpus = IF running[0] = t THEN {0} ELSE {}
      BY <3>1 DEF Uniprocessor
    <3>4. /\ Cardinality(lists) = IF t \in on THEN 1 ELSE 0
          /\ Cardinality(cpus) = IF running[0] = t THEN 1 ELSE 0
      BY <3>2, <3>3, FS_EmptySet, FS_Singleton
    <3>5. t \in on => status[t] = "RUNNING" /\ t # running[0]
      BY <2>1 DEF QueuedInv
    <3>6. status[t] = "RUNNING" => t \in on \/ t = running[0] \/ Dispatched(0, t)
      BY <2>1 DEF RunnableInv, ToDie, Dispatched
    <3> QED BY <3>1, <3>2, <3>4, <3>5, <3>6, Constants
  <2>5. IdleAvailable
    <3>1. status[1] = "RUNNING" /\ process[1] = 1 /\ prio[1] = IDLE_PRIO /\ 1 \in Threads
      BY Constants DEF Inv, IdleInv
    <3>2. ~ToDie(1)
      BY <3>1 DEF Inv, CurrentInv, ToDie
    <3>3. 1 \in on \/ 1 = running[0]
      BY <2>1, <3>1, <3>2 DEF RunnableInv
    <3>4. 1 \in on => \E b \in Buffers : at[1] = <<0, b, IDLE_PRIO>>
      BY <2>1, <3>1 DEF QueuedInv
    <3>5. 1 \in on => \E b \in Buffers : 1 \in Members[<<0, b, IDLE_PRIO>>]
      BY <2>1, <2>3, <3>1, <3>4 DEF Lists
    <3> QED BY <3>3, <3>5, Constants DEF IdleAvailable, Uniprocessor
  <2> QED BY <2>2, <2>4, <2>5 DEF QueuesExact
<1> QED BY <1>1, SchedInvariant, PTL

\* The invariant, with the lists found by walking, holds in every reachable state.
THEOREM WalkedInvariant ==
  ASSUME Uniprocessor
  PROVE  Spec => []InductiveInv
<1>1. Inv => InductiveInv
  <2> SUFFICES ASSUME Inv PROVE InductiveInv
    OBVIOUS
  <2>1. PICK on, at, pos : /\ Lists(on, at, pos) /\ QueuedInv(on, at)
                           /\ RunnableInv(on) /\ RoundInv(on, at)
    BY DEF Inv, QueueInv
  <2>2. /\ Found(Members) = on /\ \A t \in on : FoundAt(Members)[t] = at[t]
    BY <2>1, FoundAre
  <2>3. PICK at2 : at2 = FoundAt(Members)
    OBVIOUS
  <2>4. QueuedInv(on, at2) /\ RoundInv(on, at2)
    BY <2>1, <2>2, <2>3 DEF QueuedInv, RoundInv
  <2> QED BY <2>1, <2>2, <2>3, <2>4 DEF Inv, InductiveInv
<1> QED BY <1>1, SchedInvariant, PTL
=============================================================================
