------------------------------ MODULE RunQueue ------------------------------
(***************************************************************************)
(* The run queues of kernel/kernel/tasking/sched.c at the level of their    *)
(* pointers.  Every CPU owns two arrays of queues, master_buf and           *)
(* slave_buf, with one doubly linked list per priority.  The lists are      *)
(* intrusive: their links are the fields sched_prev and sched_next of       *)
(* thread_t, so a thread can be in one list only, and each operation below  *)
(* relies on what an earlier one left in these two fields.                  *)
(*                                                                          *)
(* A thread is a positive number, its place in the thread storage, and the  *)
(* null pointer is 0.  The two arrays of a CPU are numbered 0 and 1 and     *)
(* master[c] says which of them master_buf points to.                       *)
(***************************************************************************)
EXTENDS Integers

CONSTANTS
  NThreads,   \* number of slots in the thread storage
  CPUs,       \* identifiers of the active CPUs
  MIN_PRIO    \* the weakest priority of an ordinary process (MAX_PRIO is 0)

ASSUME RunQueueAssumption ==
  /\ NThreads \in Nat \ {0}
  /\ CPUs \subseteq Nat
  /\ 0 \in CPUs
  /\ MIN_PRIO \in Nat

VARIABLES
  head, tail,               \* runqueue_t::head and ::tail, for every queue
  sched_next, sched_prev,   \* the links, for every thread
  master                    \* the array master_buf points to, for every CPU

rqVars == <<head, tail, sched_next, sched_prev, master>>

NULL      == 0
Threads   == 1..NThreads
Ptr       == Threads \cup {NULL}
MAX_PRIO  == 0
IDLE_PRIO == MIN_PRIO + 1
Prios     == MAX_PRIO..IDLE_PRIO
Buffers   == {0, 1}
Queues    == CPUs \X Buffers \X Prios

MasterQueue(c, pr) == <<c, master[c], pr>>
SlaveQueue(c, pr)  == <<c, 1 - master[c], pr>>

RunQueueTypeOK ==
  /\ head \in [Queues -> Ptr]
  /\ tail \in [Queues -> Ptr]
  /\ sched_next \in [Threads -> Ptr]
  /\ sched_prev \in [Threads -> Ptr]
  /\ master \in [CPUs -> Buffers]

\* A mutant of AddToStart: the thread joins the round that is being run.
AddToStartMaster(c, pr, t) ==
  LET q == MasterQueue(c, pr) IN
  /\ sched_next' = [sched_next EXCEPT ![t] = head[q]]
  /\ IF head[q] # NULL
       THEN sched_prev' = [sched_prev EXCEPT ![head[q]] = t] /\ tail' = tail
       ELSE sched_prev' = sched_prev /\ tail' = [tail EXCEPT ![q] = t]
  /\ head' = [head EXCEPT ![q] = t]
  /\ UNCHANGED master

(***************************************************************************)
(* _sched_add_to_start_of_runqueue: the thread becomes the head of a list   *)
(* of the slave array.  sched_prev of the thread is not written.            *)
(***************************************************************************)
AddToStart(c, pr, t) ==
  LET q == SlaveQueue(c, pr) IN
  /\ sched_next' = [sched_next EXCEPT ![t] = head[q]]
  /\ IF head[q] # NULL
       THEN /\ sched_prev' = [sched_prev EXCEPT ![head[q]] = t]
            /\ tail' = tail
       ELSE /\ sched_prev' = sched_prev
            /\ tail' = [tail EXCEPT ![q] = t]
  /\ head' = [head EXCEPT ![q] = t]
  /\ UNCHANGED master

(***************************************************************************)
(* _sched_add_to_end_of_runqueue: the thread becomes the tail of a list of  *)
(* the slave array.  sched_next of the thread is not written.               *)
(***************************************************************************)
AddToEnd(c, pr, t) ==
  LET q == SlaveQueue(c, pr) IN
  /\ sched_prev' = [sched_prev EXCEPT ![t] = tail[q]]
  /\ IF tail[q] # NULL
       THEN /\ sched_next' = [sched_next EXCEPT ![tail[q]] = t]
            /\ head' = head
       ELSE /\ sched_next' = sched_next
            /\ head' = [head EXCEPT ![q] = t]
  /\ tail' = [tail EXCEPT ![q] = t]
  /\ UNCHANGED master

(***************************************************************************)
(* _sched_dequeue_impl: unlinks the thread wherever it is.  The ends of the *)
(* two lists of priority pr are corrected, of no other list: pr is the      *)
(* priority the process has now.  A thread that is in no list has null      *)
(* links and nothing changes.                                               *)
(***************************************************************************)
DequeueImpl(c, pr, t) ==
  LET nx == sched_next[t]
      pv == sched_prev[t]
      mine == {<<c, b, pr>> : b \in Buffers}
  IN
  /\ tail' = [q \in Queues |-> IF q \in mine /\ tail[q] = t THEN pv ELSE tail[q]]
  /\ head' = [q \in Queues |-> IF q \in mine /\ head[q] = t THEN nx ELSE head[q]]
  /\ sched_next' = [u \in Threads |-> IF u = t THEN NULL
                                      ELSE IF u = pv THEN nx ELSE sched_next[u]]
  /\ sched_prev' = [u \in Threads |-> IF u = t THEN NULL
                                      ELSE IF u = nx THEN pv ELSE sched_prev[u]]
  /\ UNCHANGED master

\* A mutant of PopHead: the tail of a list that becomes empty stays.
PopHeadKeepsTail(c, pr) ==
  LET q == MasterQueue(c, pr)
      t == head[q]
      nx == sched_next[t]
  IN
  /\ head' = [head EXCEPT ![q] = nx]
  /\ sched_prev' = [u \in Threads |-> IF u = t \/ u = nx THEN NULL ELSE sched_prev[u]]
  /\ sched_next' = [sched_next EXCEPT ![t] = NULL]
  /\ UNCHANGED <<tail, master>>

(***************************************************************************)
(* The part of sched() that takes the head of a list of the master array.   *)
(***************************************************************************)
PopHead(c, pr) ==
  LET q == MasterQueue(c, pr)
      t == head[q]
      nx == sched_next[t]
  IN
  /\ head' = [head EXCEPT ![q] = nx]
  /\ tail' = [tail EXCEPT ![q] = IF @ = t THEN NULL ELSE @]
  /\ sched_prev' = [u \in Threads |-> IF u = t \/ u = nx THEN NULL ELSE sched_prev[u]]
  /\ sched_next' = [sched_next EXCEPT ![t] = NULL]
  /\ UNCHANGED master

\* _sched_swap_buffers, without the reset of next_read_prio.
SwapBuffers(c) ==
  /\ master' = [master EXCEPT ![c] = 1 - @]
  /\ UNCHANGED <<head, tail, sched_next, sched_prev>>

-----------------------------------------------------------------------------
(***************************************************************************)
(* What it means that the lists hold the threads of the set on, thread t in *)
(* the list at[t], in the order of the numbers pos[t]: every link leads to  *)
(* the nearest thread of the same list, head and tail are its extremes, and *)
(* a thread in no list has null links.                                      *)
(***************************************************************************)
OrderIs(on, at, pos) ==
  \A t, u \in on : at[t] = at[u] /\ pos[t] = pos[u] => t = u

NextIs(on, at, pos) ==
  \A t \in on :
    IF sched_next[t] = NULL
      THEN \A u \in on : at[u] = at[t] => pos[u] <= pos[t]
      ELSE /\ sched_next[t] \in on
           /\ at[sched_next[t]] = at[t]
           /\ pos[t] < pos[sched_next[t]]
           /\ \A u \in on : at[u] = at[t] /\ pos[t] < pos[u]
                             => pos[sched_next[t]] <= pos[u]

PrevIs(on, at, pos) ==
  \A t \in on :
    IF sched_prev[t] = NULL
      THEN \A u \in on : at[u] = at[t] => pos[t] <= pos[u]
      ELSE /\ sched_prev[t] \in on
           /\ at[sched_prev[t]] = at[t]
           /\ pos[sched_prev[t]] < pos[t]
           /\ \A u \in on : at[u] = at[t] /\ pos[u] < pos[t]
                             => pos[u] <= pos[sched_prev[t]]

HeadIs(on, at, pos) ==
  \A q \in Queues :
    IF head[q] = NULL
      THEN \A u \in on : at[u] # q
      ELSE /\ head[q] \in on
           /\ at[head[q]] = q
           /\ \A u \in on : at[u] = q => pos[head[q]] <= pos[u]

TailIs(on, at, pos) ==
  \A q \in Queues :
    IF tail[q] = NULL
      THEN \A u \in on : at[u] # q
      ELSE /\ tail[q] \in on
           /\ at[tail[q]] = q
           /\ \A u \in on : at[u] = q => pos[u] <= pos[tail[q]]

OffIs(on) ==
  \A t \in Threads \ on : sched_next[t] = NULL /\ sched_prev[t] = NULL

Lists(on, at, pos) ==
  /\ on \subseteq Threads
  /\ at \in [Threads -> Queues]
  /\ pos \in [Threads -> Int]
  /\ OrderIs(on, at, pos)
  /\ NextIs(on, at, pos)
  /\ PrevIs(on, at, pos)
  /\ HeadIs(on, at, pos)
  /\ TailIs(on, at, pos)
  /\ OffIs(on)

=============================================================================
