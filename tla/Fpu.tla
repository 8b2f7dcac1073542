-------------------------------- MODULE Fpu --------------------------------
(* The floating point unit of one processor.  Its registers are switched     *)
(* lazily: a switch of threads only makes the unit unavailable, and the      *)
(* first instruction that uses it traps.  Thread slots are used again, with  *)
(* new thread ids.                                                           *)
EXTENDS Integers

CONSTANTS
  FpuSlots,   \* thread_t entries
  MaxTid,     \* bound: thread ids
  MaxSkew     \* bound: int_depth_counter is counted up to here

VARIABLE fpu
\* arch: x86, arm32 or arm64          alive[s], tid[s], state[s]: thread_t
\* running: RUNNING_THREAD            owner, pid: fpu_for_thread, fpu_for_pid
\* avail: fpu_is_avail()              live: the registers
\* depth: int_depth_counter           next: the next thread id
\* own[s]: what the thread left in the registers last
\* spoiled: threads whose registers the code is known to lose

NoSlot == 0
Init0 == 0      \* what fpu_init_state stores

alive(f, s) == f.alive[s]
Owned(f) == f.owner # NoSlot /\ alive(f, f.owner) /\ f.tid[f.owner] = f.pid

\* The body of the trap handler, which saves and restores the registers.
fpu_handler(f) ==
    IF f.tid[f.running] = f.pid THEN [f EXCEPT !.avail = TRUE]
    ELSE LET g == IF Owned(f) THEN [f EXCEPT !.state[f.owner] = f.live] ELSE f
         IN  [g EXCEPT !.avail = TRUE, !.live = g.state[g.running],
                       !.owner = g.running, !.pid = g.tid[g.running]]

\* undefined_handler of 32-bit ARM returns early, without counting down.
undefined_handler(f) ==
    [fpu_handler(f) EXCEPT !.depth =
       IF f.tid[f.running] = f.pid /\ @ < MaxSkew THEN @ + 1 ELSE @]
\* sync_handler of 64-bit ARM counts down on both paths.
sync_handler(f) == fpu_handler(f)

FpuTrap(f) == CASE f.arch = "x86" -> fpu_handler(f) [] f.arch = "arm32" -> undefined_handler(f)
                [] f.arch = "arm64" -> sync_handler(f)

\* The kernel may use the unit on ARM while it is unavailable to programs; on
\* x86 its own fxsave traps first, and then stores what the trap loaded.
fpu_save(f, s) ==
    LET g == IF f.arch = "x86" /\ ~f.avail THEN FpuTrap(f) ELSE f
    IN  [g EXCEPT !.state[s] = g.live]

-----------------------------------------------------------------------------
\* switch_uthreads.
fpu_make_unavail(f) == [f EXCEPT !.avail = FALSE]
FpuSwitch(s) ==
    /\ alive(fpu, s)
    /\ fpu' = [fpu_make_unavail(fpu) EXCEPT !.running = s]

\* The running program uses the unit: it traps, or finds its registers and
\* leaves a new value there.
FpuFault ==
    /\ ~fpu.avail
    /\ fpu' = FpuTrap(fpu)
FpuUse ==
    /\ fpu.avail
    /\ LET r == fpu.running
           v == IF fpu.live = 2 * fpu.tid[r] THEN 2 * fpu.tid[r] + 1 ELSE 2 * fpu.tid[r]
       IN  fpu' = [fpu EXCEPT !.live = v, !.own[r] = v, !.spoiled = @ \ {r}]

\* thread_setup: a new thread in a free slot.
NewThread(f, s) ==
    [f EXCEPT !.alive[s] = TRUE, !.tid[s] = f.next, !.next = @ + 1, !.state[s] = Init0,
              !.own[s] = Init0, !.spoiled = @ \ {s}]
FpuCreate(s) ==
    /\ ~alive(fpu, s) /\ fpu.next <= MaxTid
    /\ fpu' = NewThread(fpu, s)

\* fork: the new thread gets the registers of the running one.  Somebody
\* else's registers are stored first, if they are in the unit.
thread_copy_of(f, s) ==
    LET g == IF Owned(f) THEN fpu_save(f, f.owner) ELSE f
    IN  [g EXCEPT !.state[s] = g.state[g.running], !.own[s] = g.own[g.running],
                  !.spoiled = (@ \cup IF Owned(f) /\ f.owner # f.running /\ f.arch = "x86"
                                         /\ ~f.avail THEN {f.owner} ELSE {})
                              \cup IF f.running \in f.spoiled THEN {s} ELSE {}]
FpuFork(s) ==
    /\ ~alive(fpu, s) /\ fpu.next <= MaxTid
    /\ fpu' = thread_copy_of(NewThread(fpu, s), s)

\* A thread other than the running one dies and its slot may be used again;
\* what its fpu_state holds is not read before thread_setup fills it.
FpuDie(s) ==
    /\ alive(fpu, s) /\ s # fpu.running
    /\ fpu' = [fpu EXCEPT !.alive[s] = FALSE, !.own[s] = Init0, !.state[s] = Init0, !.spoiled = @ \ {s}]

\* exec resets the stored registers; the ones in the unit, if they are the
\* thread's, stay and are what the new program finds.
FpuExec ==
    LET r == fpu.running
    IN  fpu' = [fpu EXCEPT !.state[r] = Init0,
                           !.own[r] = IF fpu.pid = fpu.tid[r] THEN fpu.live ELSE Init0]

FpuInit ==
    \E a \in {"x86", "arm32", "arm64"} : LET s == CHOOSE x \in FpuSlots : TRUE IN
      fpu = [arch |-> a, alive |-> [t \in FpuSlots |-> t = s], tid |-> [t \in FpuSlots |-> 1],
             state |-> [t \in FpuSlots |-> Init0], running |-> s, owner |-> NoSlot, pid |-> 0,
             avail |-> FALSE, live |-> -1, depth |-> 0, next |-> 2,
             own |-> [t \in FpuSlots |-> Init0], spoiled |-> {}]
FpuNext ==
    \/ FpuFault \/ FpuUse \/ FpuExec
    \/ \E s \in FpuSlots : FpuSwitch(s) \/ FpuCreate(s) \/ FpuFork(s) \/ FpuDie(s)

-----------------------------------------------------------------------------
\* A program finds in the unit what it left there, or what its parent had at
\* the fork, whoever used the unit in between, died, or got a dead thread's
\* slot.  One loss is known and excepted: on x86 a fork by a thread that has
\* not used the unit since it was switched to overwrites the stored registers
\* of the thread that had it.
OwnRegisters ==
    fpu.avail => fpu.live = fpu.own[fpu.running] \/ fpu.running \in fpu.spoiled

\* int_depth_counter is back at 0 after every trap, except on 32-bit ARM.
FpuTrapsBalanced == fpu.arch # "arm32" => fpu.depth = 0
=============================================================================
