--------------------------- MODULE PrivateMemory ---------------------------
(* What the virtual memory promises to the processes, without frames, page   *)
(* tables, copy on write or swap: every process has memory of its own, fork  *)
(* gives the child a copy of it, exec gives a fresh one, and only the pages  *)
(* of a device are common to all.  Vmm implements this specification.        *)
EXTENDS Integers

CONSTANTS Procs, Pages, DevPages, Values,
          Fresh       \* [Pages -> Values]: what a page holds before any store

VARIABLES alive,      \* the processes that have an address space
          content,    \* content[p][pg]: what process p reads at page pg
          dev         \* what everybody reads on the device pages

avars == <<alive, content, dev>>

AInit ==
    /\ alive = {1}
    /\ content = [p \in Procs |-> Fresh]
    /\ dev \in Values

AStore(p, pg, v) ==
    /\ p \in alive
    /\ IF pg \in DevPages
       THEN dev' = v /\ UNCHANGED content
       ELSE content' = [content EXCEPT ![p][pg] = v] /\ UNCHANGED dev
    /\ UNCHANGED alive

AFork(p, c) ==
    /\ p \in alive /\ c \notin alive
    /\ alive' = alive \cup {c}
    /\ content' = [content EXCEPT ![c] = content[p]]
    /\ UNCHANGED dev

AExec(p) ==
    /\ p \in alive
    /\ content' = [content EXCEPT ![p] = Fresh]
    /\ UNCHANGED <<alive, dev>>

\* The memory of a dead process is nobody's business: Fresh stands for it.
AExit(p) ==
    /\ p \in alive
    /\ alive' = alive \ {p}
    /\ content' = [content EXCEPT ![p] = Fresh]
    /\ UNCHANGED dev

ANext == \E p \in Procs :
    \/ \E pg \in Pages, v \in Values : AStore(p, pg, v)
    \/ \E c \in Procs : AFork(p, c)
    \/ AExec(p)
    \/ AExit(p)

ASpec == AInit /\ [][ANext]_avars
=============================================================================
