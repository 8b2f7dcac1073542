--------------------------- MODULE RunQueueProofs ---------------------------
(***************************************************************************)
(* Each operation of RunQueue keeps the lists exact: if they hold the       *)
(* threads of the set on, in the order pos, they hold afterwards the set,   *)
(* with the thread added or removed, in the order it should have.  The      *)
(* order is an explicit parameter, so no induction along a list is needed.  *)
(***************************************************************************)
EXTENDS RunQueue, TLAPS

\* The two arrays of a CPU have a list for every priority.
LEMMA QueueType ==
  ASSUME RunQueueTypeOK, NEW c \in CPUs, NEW pr \in Prios
  PROVE  /\ MasterQueue(c, pr) \in Queues
         /\ SlaveQueue(c, pr) \in Queues
         /\ MasterQueue(c, pr) # SlaveQueue(c, pr)
BY DEF RunQueueTypeOK, MasterQueue, SlaveQueue, Queues, Buffers

\* A thread put at the start of a list comes before all others of that list.
LEMMA AddToStartLists ==
  ASSUME RunQueueTypeOK, NEW c \in CPUs, NEW pr \in Prios, NEW t \in Threads,
         NEW on, NEW at, NEW pos, Lists(on, at, pos), t \notin on,
         NEW q, q = SlaveQueue(c, pr),
         NEW on2, on2 = on \cup {t},
         NEW at2, at2 = [at EXCEPT ![t] = q],
         NEW pos2, pos2 = [pos EXCEPT ![t] = IF head[q] = NULL THEN 0
                                             ELSE pos[head[q]] - 1],
         AddToStart(c, pr, t)
  PROVE  Lists(on2, at2, pos2)' /\ RunQueueTypeOK'
<1>1. q \in Queues
  BY QueueType
<1>2. RunQueueTypeOK'
  BY <1>1 DEF RunQueueTypeOK, AddToStart, Ptr
<1>3. /\ on \subseteq Threads /\ at \in [Threads -> Queues] /\ pos \in [Threads -> Int]
      /\ NULL \notin Threads
  BY DEF Lists, Threads, NULL
<1>4. /\ on2 \subseteq Threads /\ at2 \in [Threads -> Queues] /\ pos2 \in [Threads -> Int]
  BY <1>1, <1>3 DEF Lists, HeadIs
<1>5. /\ at2[t] = q
      /\ \A u \in on : at2[u] = at[u] /\ pos2[u] = pos[u] /\ u # t
      /\ \A u \in on : at[u] = q => pos2[t] < pos[u]
  BY <1>1, <1>3, <1>4 DEF Lists, HeadIs
<1>6. OrderIs(on2, at2, pos2)
  BY <1>3, <1>4, <1>5 DEF Lists, OrderIs
<1>7. /\ sched_next'[t] = head[q]
      /\ \A u \in on : sched_next'[u] = sched_next[u]
      /\ head' = [head EXCEPT ![q] = t]
      /\ sched_prev'[t] = NULL
      /\ \A u \in on : sched_prev'[u] = IF u = head[q] THEN t ELSE sched_prev[u]
      /\ tail' = IF head[q] = NULL THEN [tail EXCEPT ![q] = t] ELSE tail
  BY <1>1, <1>3 DEF AddToStart, RunQueueTypeOK, Ptr, Lists, OffIs, HeadIs
<1>8. NextIs(on2, at2, pos2)'
  <2>1. CASE head[q] = NULL
    BY <2>1, <1>1, <1>3, <1>4, <1>5, <1>7 DEF Lists, NextIs, HeadIs
  <2>2. CASE head[q] # NULL
    BY <2>2, <1>1, <1>3, <1>4, <1>5, <1>7 DEF Lists, NextIs, HeadIs
  <2> QED BY <2>1, <2>2
<1>9. PrevIs(on2, at2, pos2)'
  <2>1. CASE head[q] = NULL
    BY <2>1, <1>1, <1>3, <1>4, <1>5, <1>7 DEF Lists, PrevIs, HeadIs
  <2>2. CASE head[q] # NULL
    BY <2>2, <1>1, <1>3, <1>4, <1>5, <1>7 DEF Lists, PrevIs, HeadIs, OrderIs
  <2> QED BY <2>1, <2>2
<1>10. HeadIs(on2, at2, pos2)'
  BY <1>1, <1>3, <1>4, <1>5, <1>7 DEF Lists, HeadIs, RunQueueTypeOK
<1>11. TailIs(on2, at2, pos2)'
  <2>1. CASE head[q] = NULL
    BY <2>1, <1>1, <1>3, <1>4, <1>5, <1>7 DEF Lists, TailIs, HeadIs, RunQueueTypeOK
  <2>2. CASE head[q] # NULL
    BY <2>2, <1>1, <1>3, <1>4, <1>5, <1>7 DEF Lists, TailIs, HeadIs, RunQueueTypeOK
  <2> QED BY <2>1, <2>2
<1>12. OffIs(on2)'
  BY <1>1, <1>3 DEF Lists, OffIs, AddToStart, RunQueueTypeOK, HeadIs
<1> QED BY <1>2, <1>4, <1>6, <1>8, <1>9, <1>10, <1>11, <1>12
        DEF Lists, OrderIs

\* A thread put at the end of a list comes after all others of that list.
LEMMA AddToEndLists ==
  ASSUME RunQueueTypeOK, NEW c \in CPUs, NEW pr \in Prios, NEW t \in Threads,
         NEW on, NEW at, NEW pos, Lists(on, at, pos), t \notin on,
         NEW q, q = SlaveQueue(c, pr),
         NEW on2, on2 = on \cup {t},
         NEW at2, at2 = [at EXCEPT ![t] = q],
         NEW pos2, pos2 = [pos EXCEPT ![t] = IF tail[q] = NULL THEN 0
                                             ELSE pos[tail[q]] + 1],
         AddToEnd(c, pr, t)
  PROVE  Lists(on2, at2, pos2)' /\ RunQueueTypeOK'
<1>1. q \in Queues
  BY QueueType
<1>2. RunQueueTypeOK'
  BY <1>1 DEF RunQueueTypeOK, AddToEnd, Ptr
<1>3. /\ on \subseteq Threads /\ at \in [Threads -> Queues] /\ pos \in [Threads -> Int]
      /\ NULL \notin Threads
  BY DEF Lists, Threads, NULL
<1>4. /\ on2 \subseteq Threads /\ at2 \in [Threads -> Queues] /\ pos2 \in [Threads -> Int]
  BY <1>1, <1>3 DEF Lists, TailIs
<1>5. /\ at2[t] = q
      /\ \A u \in on : at2[u] = at[u] /\ pos2[u] = pos[u] /\ u # t
      /\ \A u \in on : at[u] = q => pos[u] < pos2[t]
  BY <1>1, <1>3, <1>4 DEF Lists, TailIs
<1>6. OrderIs(on2, at2, pos2)
  BY <1>3, <1>4, <1>5 DEF Lists, OrderIs
<1>7. /\ sched_prev'[t] = tail[q]
      /\ \A u \in on : sched_prev'[u] = sched_prev[u]
      /\ tail' = [tail EXCEPT ![q] = t]
      /\ sched_next'[t] = NULL
      /\ \A u \in on : sched_next'[u] = IF u = tail[q] THEN t ELSE sched_next[u]
      /\ head' = IF tail[q] = NULL THEN [head EXCEPT ![q] = t] ELSE head
  BY <1>1, <1>3 DEF AddToEnd, RunQueueTypeOK, Ptr, Lists, OffIs, TailIs
<1>8. PrevIs(on2, at2, pos2)'
  <2>1. CASE tail[q] = NULL
    BY <2>1, <1>1, <1>3, <1>4, <1>5, <1>7 DEF Lists, PrevIs, TailIs
  <2>2. CASE tail[q] # NULL
    BY <2>2, <1>1, <1>3, <1>4, <1>5, <1>7 DEF Lists, PrevIs, TailIs
  <2> QED BY <2>1, <2>2
<1>9. NextIs(on2, at2, pos2)'
  <2>1. CASE tail[q] = NULL
    BY <2>1, <1>1, <1>3, <1>4, <1>5, <1>7 DEF Lists, NextIs, TailIs
  <2>2. CASE tail[q] # NULL
    BY <2>2, <1>1, <1>3, <1>4, <1>5, <1>7 DEF Lists, NextIs, TailIs, OrderIs
  <2> QED BY <2>1, <2>2
<1>10. TailIs(on2, at2, pos2)'
  BY <1>1, <1>3, <1>4, <1>5, <1>7 DEF Lists, TailIs, RunQueueTypeOK
<1>11. HeadIs(on2, at2, pos2)'
  <2>1. CASE tail[q] = NULL
    BY <2>1, <1>1, <1>3, <1>4, <1>5, <1>7 DEF Lists, TailIs, HeadIs, RunQueueTypeOK
  <2>2. CASE tail[q] # NULL
    BY <2>2, <1>1, <1>3, <1>4, <1>5, <1>7 DEF Lists, TailIs, HeadIs, RunQueueTypeOK
  <2> QED BY <2>1, <2>2
<1>12. OffIs(on2)'
  BY <1>1, <1>3 DEF Lists, OffIs, AddToEnd, RunQueueTypeOK, TailIs
<1> QED BY <1>2, <1>4, <1>6, <1>8, <1>9, <1>10, <1>11, <1>12 DEF Lists, OrderIs

\* Dequeueing a thread that is in no list changes nothing.
LEMMA DequeueOff ==
  ASSUME RunQueueTypeOK, NEW c \in CPUs, NEW pr \in Prios, NEW t \in Threads,
         NEW on, NEW at, NEW pos, Lists(on, at, pos), t \notin on,
         DequeueImpl(c, pr, t)
  PROVE  UNCHANGED rqVars
<1>1. sched_next[t] = NULL /\ sched_prev[t] = NULL /\ NULL \notin Threads
  BY DEF Lists, OffIs, Threads, NULL
<1>2. \A q \in Queues : head[q] # t /\ tail[q] # t
  BY <1>1 DEF Lists, HeadIs, TailIs
<1> QED
  BY <1>1, <1>2 DEF DequeueImpl, RunQueueTypeOK, rqVars

(***************************************************************************)
(* Dequeueing takes a thread out of its list and leaves the order of the    *)
(* others, provided it is in a list of the CPU and the priority given: the  *)
(* code corrects the ends of these lists only.                              *)
(***************************************************************************)
LEMMA DequeueOn ==
  ASSUME RunQueueTypeOK, NEW c \in CPUs, NEW pr \in Prios, NEW t \in Threads,
         NEW on, NEW at, NEW pos, Lists(on, at, pos), t \in on,
         \E b \in Buffers : at[t] = <<c, b, pr>>,
         NEW on2, on2 = on \ {t},
         DequeueImpl(c, pr, t)
  PROVE  Lists(on2, at, pos)' /\ RunQueueTypeOK'
<1> DEFINE nx == sched_next[t]
           pv == sched_prev[t]
<1>1. /\ on \subseteq Threads /\ at \in [Threads -> Queues] /\ pos \in [Threads -> Int]
      /\ NULL \notin Threads
      /\ nx \in Ptr /\ pv \in Ptr
  BY DEF Lists, Threads, NULL, RunQueueTypeOK
<1>2. RunQueueTypeOK'
  BY <1>1 DEF RunQueueTypeOK, DequeueImpl, Ptr
<1>3. \A q \in Queues : q # at[t] => head[q] # t /\ tail[q] # t
  BY <1>1 DEF Lists, HeadIs, TailIs
<1>4. /\ \A q \in Queues : head'[q] = IF head[q] = t THEN nx ELSE head[q]
      /\ \A q \in Queues : tail'[q] = IF tail[q] = t THEN pv ELSE tail[q]
      /\ \A u \in on2 : sched_next'[u] = IF u = pv THEN nx ELSE sched_next[u]
      /\ \A u \in on2 : sched_prev'[u] = IF u = nx THEN pv ELSE sched_prev[u]
  BY <1>1, <1>3 DEF DequeueImpl, RunQueueTypeOK
<1> HIDE DEF nx, pv
<1>5. IF nx = NULL THEN \A u \in on : at[u] = at[t] => pos[u] <= pos[t]
      ELSE /\ nx \in on2 /\ at[nx] = at[t] /\ pos[t] < pos[nx]
           /\ \A u \in on : at[u] = at[t] /\ pos[t] < pos[u] => pos[nx] <= pos[u]
  BY <1>1 DEF Lists, NextIs, nx
<1>6. IF pv = NULL THEN \A u \in on : at[u] = at[t] => pos[t] <= pos[u]
      ELSE /\ pv \in on2 /\ at[pv] = at[t] /\ pos[pv] < pos[t]
           /\ \A u \in on : at[u] = at[t] /\ pos[u] < pos[t] => pos[u] <= pos[pv]
  BY <1>1 DEF Lists, PrevIs, pv
<1>7. \A u \in on2 : at[u] = at[t] => pos[u] < pos[t] \/ pos[t] < pos[u]
  BY <1>1 DEF Lists, OrderIs
<1>8. NextIs(on2, at, pos)'
  <2>1. SUFFICES ASSUME NEW u \in on2
        PROVE IF sched_next'[u] = NULL
                THEN \A v \in on2 : at[v] = at[u] => pos[v] <= pos[u]
                ELSE /\ sched_next'[u] \in on2
                     /\ at[sched_next'[u]] = at[u]
                     /\ pos[u] < pos[sched_next'[u]]
                     /\ \A v \in on2 : at[v] = at[u] /\ pos[u] < pos[v]
                                       => pos[sched_next'[u]] <= pos[v]
    BY DEF NextIs
  <2>2. CASE u = pv
    BY <2>2, <1>1, <1>4, <1>5, <1>6, <1>7 DEF Lists, NextIs
  <2>3. CASE u # pv
    <3>1. sched_next'[u] = sched_next[u] /\ sched_next[u] # t
      BY <2>3, <1>1, <1>4, <1>6, <1>7 DEF Lists, NextIs, OrderIs
    <3> QED BY <3>1, <1>1 DEF Lists, NextIs
  <2> QED BY <2>2, <2>3
<1>9. PrevIs(on2, at, pos)'
  <2>1. SUFFICES ASSUME NEW u \in on2
        PROVE IF sched_prev'[u] = NULL
                THEN \A v \in on2 : at[v] = at[u] => pos[u] <= pos[v]
                ELSE /\ sched_prev'[u] \in on2
                     /\ at[sched_prev'[u]] = at[u]
                     /\ pos[sched_prev'[u]] < pos[u]
                     /\ \A v \in on2 : at[v] = at[u] /\ pos[v] < pos[u]
                                       => pos[v] <= pos[sched_prev'[u]]
    BY DEF PrevIs
  <2>2. CASE u = nx
    BY <2>2, <1>1, <1>4, <1>5, <1>6, <1>7 DEF Lists, PrevIs
  <2>3. CASE u # nx
    <3>1. sched_prev'[u] = sched_prev[u] /\ sched_prev[u] # t
      BY <2>3, <1>1, <1>4, <1>5, <1>7 DEF Lists, PrevIs, OrderIs
    <3> QED BY <3>1, <1>1 DEF Lists, PrevIs
  <2> QED BY <2>2, <2>3
<1>10. HeadIs(on2, at, pos)'
  BY <1>1, <1>3, <1>4, <1>5, <1>7 DEF Lists, HeadIs
<1>11. TailIs(on2, at, pos)'
  BY <1>1, <1>3, <1>4, <1>6, <1>7 DEF Lists, TailIs
<1>12. OffIs(on2)'
  BY <1>1, <1>5, <1>6 DEF Lists, OffIs, DequeueImpl, RunQueueTypeOK, nx, pv
<1>13. OrderIs(on2, at, pos)
  BY DEF Lists, OrderIs
<1> QED BY <1>1, <1>2, <1>8, <1>9, <1>10, <1>11, <1>12, <1>13 DEF Lists, OrderIs

\* Taking the head of a list out leaves the order of the others.
LEMMA PopHeadLists ==
  ASSUME RunQueueTypeOK, NEW c \in CPUs, NEW pr \in Prios,
         NEW on, NEW at, NEW pos, Lists(on, at, pos),
         NEW t \in Threads, t = head[MasterQueue(c, pr)],
         NEW on2, on2 = on \ {t},
         PopHead(c, pr)
  PROVE  /\ Lists(on2, at, pos)' /\ RunQueueTypeOK'
         /\ t \in on /\ at[t] = MasterQueue(c, pr)
<1> DEFINE q == MasterQueue(c, pr)
           nx == sched_next[t]
<1>1. /\ on \subseteq Threads /\ at \in [Threads -> Queues] /\ pos \in [Threads -> Int]
      /\ NULL \notin Threads
      /\ nx \in Ptr /\ q \in Queues
  BY QueueType DEF Lists, Threads, NULL, RunQueueTypeOK
<1>2. RunQueueTypeOK'
  BY <1>1 DEF RunQueueTypeOK, PopHead, Ptr
<1>3. t \in on /\ at[t] = q /\ sched_prev[t] = NULL
  <2>1. t \in on /\ at[t] = q /\ \A u \in on : at[u] = q => pos[t] <= pos[u]
    BY <1>1 DEF Lists, HeadIs
  <2> QED BY <2>1, <1>1 DEF Lists, PrevIs
<1>4. /\ \A r \in Queues : head'[r] = IF head[r] = t THEN nx ELSE head[r]
      /\ \A r \in Queues : tail'[r] = IF tail[r] = t THEN NULL ELSE tail[r]
      /\ \A u \in on2 : sched_next'[u] = sched_next[u]
      /\ \A u \in on2 : sched_prev'[u] = IF u = nx THEN NULL ELSE sched_prev[u]
  BY <1>1, <1>3 DEF PopHead, RunQueueTypeOK, Lists, HeadIs, TailIs
<1> HIDE DEF nx, q
<1>5. IF nx = NULL THEN \A u \in on : at[u] = at[t] => pos[u] <= pos[t]
      ELSE /\ nx \in on2 /\ at[nx] = at[t] /\ pos[t] < pos[nx]
           /\ \A u \in on : at[u] = at[t] /\ pos[t] < pos[u] => pos[nx] <= pos[u]
  BY <1>1, <1>3 DEF Lists, NextIs, nx
<1>6. \A u \in on2 : at[u] = at[t] => pos[t] < pos[u]
  BY <1>1, <1>3 DEF Lists, OrderIs, PrevIs
<1>7. NextIs(on2, at, pos)'
  <2>1. \A u \in on2 : sched_next[u] # t
    BY <1>1, <1>6 DEF Lists, NextIs
  <2> QED BY <2>1, <1>1, <1>4 DEF Lists, NextIs
<1>8. PrevIs(on2, at, pos)'
  <2>1. SUFFICES ASSUME NEW u \in on2
        PROVE IF sched_prev'[u] = NULL
                THEN \A v \in on2 : at[v] = at[u] => pos[u] <= pos[v]
                ELSE /\ sched_prev'[u] \in on2
                     /\ at[sched_prev'[u]] = at[u]
                     /\ pos[sched_prev'[u]] < pos[u]
                     /\ \A v \in on2 : at[v] = at[u] /\ pos[v] < pos[u]
                                       => pos[v] <= pos[sched_prev'[u]]
    BY DEF PrevIs
  <2>2. CASE u = nx
    BY <2>2, <1>1, <1>4, <1>5, <1>6 DEF Lists, PrevIs
  <2>3. CASE u # nx
    <3>1. sched_prev'[u] = sched_prev[u] /\ sched_prev[u] # t
      BY <2>3, <1>1, <1>4, <1>5, <1>6 DEF Lists, PrevIs, OrderIs
    <3> QED BY <3>1, <1>1 DEF Lists, PrevIs
  <2> QED BY <2>2, <2>3
<1>9. HeadIs(on2, at, pos)'
  BY <1>1, <1>3, <1>4, <1>5, <1>6 DEF Lists, HeadIs
<1>10. TailIs(on2, at, pos)'
  BY <1>1, <1>3, <1>4, <1>6 DEF Lists, TailIs
<1>11. OffIs(on2)'
  BY <1>1, <1>3, <1>5 DEF Lists, OffIs, PopHead, RunQueueTypeOK, nx, q
<1>12. OrderIs(on2, at, pos)
  BY DEF Lists, OrderIs
<1> QED BY <1>1, <1>2, <1>3, <1>7, <1>8, <1>9, <1>10, <1>11, <1>12
        DEF Lists, OrderIs, q

\* Exchanging the two arrays moves no thread.
LEMMA SwapLists ==
  ASSUME RunQueueTypeOK, NEW c \in CPUs,
         NEW on, NEW at, NEW pos, Lists(on, at, pos), SwapBuffers(c)
  PROVE  Lists(on, at, pos)' /\ RunQueueTypeOK'
BY DEF SwapBuffers, Lists, OrderIs, NextIs, PrevIs, HeadIs, TailIs, OffIs,
       RunQueueTypeOK, Buffers

=============================================================================
