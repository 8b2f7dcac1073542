----------------------------- MODULE RoundSched -----------------------------
(***************************************************************************)
(* What the scheduler promises, without queues, links or loops.  Each CPU   *)
(* works in rounds.  now[c] holds the threads that still run in this round, *)
(* each with the priority it was given; later[c] those of the next round.   *)
(* A thread runs at most once in a round, in the order of priority; whoever *)
(* becomes runnable or gives the CPU up waits for the next round; a round   *)
(* ends when nobody is left in it.                                          *)
(***************************************************************************)
EXTENDS Integers

CONSTANTS Thread, CPU, Prio, None

VARIABLES now, later, cur

roundVars == <<now, later, cur>>

Waiting == UNION {now[c] \cup later[c] : c \in CPU}

\* The thread t waits in some round or executes on some CPU.
Held(t) == (\E w \in Waiting : w[1] = t) \/ (\E c \in CPU : cur[c] = t)

RoundInit ==
  /\ now = [c \in CPU |-> {}]
  /\ later \in [CPU -> SUBSET (Thread \X Prio)]
  /\ cur = [c \in CPU |-> None]

\* The best thread of the round gets the CPU.
Dispatch(c) ==
  /\ cur[c] = None
  /\ \E w \in now[c] :
       /\ \A o \in now[c] : w[2] <= o[2]
       /\ now' = [now EXCEPT ![c] = @ \ {w}]
       /\ cur' = [cur EXCEPT ![c] = w[1]]
  /\ UNCHANGED later

\* The executing thread gives the CPU up and stays runnable.
Yield(c) ==
  /\ cur[c] # None
  /\ \E pr \in Prio : later' = [later EXCEPT ![c] = @ \cup {<<cur[c], pr>>}]
  /\ cur' = [cur EXCEPT ![c] = None]
  /\ UNCHANGED now

\* The executing thread gives the CPU up and is no longer runnable.
Leave(c) ==
  /\ cur[c] # None
  /\ cur' = [cur EXCEPT ![c] = None]
  /\ UNCHANGED <<now, later>>

\* A thread that is nowhere becomes runnable.
Admit(c) ==
  /\ \E t \in Thread, pr \in Prio :
       ~Held(t) /\ later' = [later EXCEPT ![c] = @ \cup {<<t, pr>>}]
  /\ UNCHANGED <<now, cur>>

\* A waiting thread is stopped or killed.
Withdraw(c) ==
  /\ \E w \in now[c] \cup later[c] :
       /\ now' = [now EXCEPT ![c] = @ \ {w}]
       /\ later' = [later EXCEPT ![c] = @ \ {w}]
  /\ UNCHANGED cur

NewRound(c) ==
  /\ now[c] = {}
  /\ cur[c] = None
  /\ now' = [now EXCEPT ![c] = later[c]]
  /\ later' = [later EXCEPT ![c] = {}]
  /\ UNCHANGED cur

RoundNext ==
  \E c \in CPU : \/ Dispatch(c) \/ Yield(c) \/ Leave(c)
                 \/ Admit(c) \/ Withdraw(c) \/ NewRound(c)

RoundSpec == RoundInit /\ [][RoundNext]_roundVars

=============================================================================
