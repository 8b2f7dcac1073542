------------------------------- MODULE Traps -------------------------------
(* The way into the kernel and back on the five architectures, for one user *)
(* thread: what the entry stubs store and trap_return loads, the frame as C  *)
(* sees it, the call of a handler of the system call table, interrupts, the  *)
(* switch to the scheduler and back, and signal handlers, which run on a     *)
(* frame of their own and may nest.                                          *)
(* Registers hold small numbers that tell them apart; the user's stack is an *)
(* array of words, and stack pointers and instruction pointers count words.  *)
EXTENDS SysCalls, SequencesExt, Bitwise

CONSTANTS
  Signals,     \* the signals that may arrive; each has a handler
  MaxNest,     \* bound: traps that are not returned from; one less for those
               \* that return at once
  MaxSignals,  \* bound: signals that are sent
  MaxEarly,    \* bound: early returns of undefined_handler
  StackWords,  \* words of the user's stack
  Sp0          \* the program's stack pointer

VARIABLES
  arch,     \* the architecture of the build
  regs,     \* the registers while the thread runs user code
  ustack,   \* the user's stack
  kstack,   \* kernel stack: a trap frame and a suspended kernel call a level
  th,       \* mode, tf, context, pending signals and blocker of the thread
  cpu,      \* int_depth_counter, current_state, the unfinished interrupt, and the
            \* stacks of the processor's own for its abort and undefined modes
  calls,    \* the user states that have to be returned to, innermost last
  seen      \* what the last step showed to a handler or to the user

trapvars == <<arch, regs, ustack, kstack, th, cpu, calls, seen>>

-----------------------------------------------------------------------------
(* trapframe_t, from the lowest address on.                                  *)
TfI386 == <<"edi", "esi", "ebp", "oesp", "ebx", "edx", "ecx", "eax", "gs", "fs",
            "es", "ds", "int_no", "err", "eip", "cs", "eflags", "esp", "ss">>
TfX64 == <<"r15", "r14", "r13", "r12", "r11", "r10", "r9", "r8", "rbp", "rdi",
           "rsi", "rdx", "rcx", "rbx", "rax", "gs", "fs", "int_no", "err", "rip",
           "cs", "rflags", "rsp", "ss">>
TfArm32 == <<"user_flags", "user_sp", "user_lr", "r0", "r1", "r2", "r3", "r4",
             "r5", "r6", "r7", "r8", "r9", "r10", "r11", "r12", "user_ip">>
X64Regs == <<"x0", "x1", "x2", "x3", "x4", "x5", "x6", "x7", "x8", "x9", "x10",
             "x11", "x12", "x13", "x14", "x15", "x16", "x17", "x18", "x19", "x20",
             "x21", "x22", "x23", "x24", "x25", "x26", "x27", "x28", "x29", "x30">>
TfArm64 == X64Regs \o <<"esr", "elr", "far", "spsr", "sp">>
TfRiscv == <<"ra", "sp", "gp", "tp", "t0", "t1", "t2", "s0", "s1", "a0", "a1",
             "a2", "a3", "a4", "a5", "a6", "a7", "s2", "s3", "s4", "s5", "s6",
             "s7", "s8", "s9", "s10", "s11", "t3", "t4", "t5", "t6", "sstatus", "epc">>
trapframe(a) ==
    CASE a = "i386" -> TfI386 [] a = "x86_64" -> TfX64 [] a = "arm32" -> TfArm32
      [] a = "arm64" -> TfArm64 [] a = "riscv64" -> TfRiscv

\* The fields that set_stack_pointer, set_instruction_pointer are about.
sp(a) == CASE a = "i386" -> "esp" [] a = "x86_64" -> "rsp" [] a = "arm32" -> "user_sp"
           [] OTHER -> "sp"
ip(a) == CASE a = "i386" -> "eip" [] a = "x86_64" -> "rip" [] a = "arm32" -> "user_ip"
           [] a = "arm64" -> "elr" [] a = "riscv64" -> "epc"

-----------------------------------------------------------------------------
(* What the stubs put on the kernel stack.                                   *)

\* The processor's part of an entry from user space on x86, in push order.
HwX86(names, v) == names \o (IF v \in {8, 10, 11, 12, 13, 14, 17} THEN <<"err">> ELSE <<>>)
\* isr0 to isr31, irq0 to irq15 and syscall: a 0 in place of the error code,
\* except where they know that the processor pushes one, and the number.
IsrI386(v) == (IF v \in {13, 14} THEN <<>> ELSE <<"zero">>) \o <<"int_no">>
IrqI386 == <<"zero", "int_no">>
IsrX64(v) == (IF v \in {13, 14} THEN <<>> ELSE <<"zero">>) \o <<"int_no">>
IrqX64 == <<"zero", "int_no">>
CommonI386 == <<"ds", "es", "fs", "gs",
                "eax", "ecx", "edx", "ebx", "oesp", "ebp", "esi", "edi">>
CommonX64 == <<"fs", "gs", "rax", "rbx", "rcx", "rdx", "rsi", "rdi", "rbp",
               "r8", "r9", "r10", "r11", "r12", "r13", "r14", "r15">>
EntryI386(v) == Reverse(HwX86(<<"ss", "esp", "eflags", "cs", "eip">>, v) \o (IF v < 32 THEN IsrI386(v) ELSE IrqI386) \o CommonI386)
EntryX64(v) == Reverse(HwX86(<<"ss", "rsp", "rflags", "cs", "rip">>, v) \o (IF v < 32 THEN IsrX64(v) ELSE IrqX64) \o CommonX64)

R0toR12 == SubSeq(TfArm32, 4, 16)
\* svc_isp stores r0-r12, lr and then three more below, and the stubs of the
\* undefined instruction and of both aborts do the same.
abort_isp == <<"user_flags", "user_sp", "user_lr">> \o R0toR12 \o <<"user_ip">>
svc_isp == <<"user_flags", "user_sp", "user_lr">> \o R0toR12 \o <<"user_ip">>
\* irq_isp brings r1-r5 over from the stack of the interrupt mode.
irq_isp == <<"user_flags", "user_sp", "user_lr">>
           \o <<"r0">> \o SubSeq(R0toR12, 2, 6) \o SubSeq(R0toR12, 7, 13) \o <<"user_ip">>

\* x0 and x1 are stored by the vector, the others by exc_handler.
exc_handler == SubSeq(X64Regs, 1, 2) \o SubSeq(X64Regs, 3, 30) \o <<"x30", "esr">>
               \o <<"elr", "far">> \o <<"spsr">> \o <<"sp">>

\* sp comes from sscratch.
vector_table == <<"ra", "sp">> \o SubSeq(TfRiscv, 3, 31) \o <<"sstatus", "epc">>

\* k is the kind of the trap, "sys", "irq", "page", "fpu" or "crash", and v
\* its number: the vector on x86, for interrupts the line.
Entry(a, k, v) ==
    CASE a = "i386" -> EntryI386(v)
      [] a = "x86_64" -> EntryX64(v)
      [] a = "arm32" -> (CASE k = "irq" -> irq_isp [] k = "sys" -> svc_isp [] OTHER -> abort_isp)
      [] a = "arm64" -> exc_handler
      [] a = "riscv64" -> vector_table

\* What trap_return takes from the stack, "-" for a word that it skips.
ReturnI386 == <<"edi", "esi", "ebp", "-", "ebx", "edx", "ecx", "eax", "gs", "fs",
                "es", "ds", "-", "-", "eip", "cs", "eflags", "esp", "ss">>
ReturnX64 == SubSeq(TfX64, 1, 17) \o <<"-", "-", "rip", "cs", "rflags", "rsp", "ss">>
ReturnArm32 == <<"user_flags", "user_sp", "user_lr">> \o R0toR12 \o <<"user_ip">>
ReturnArm64 == X64Regs \o <<"-", "elr", "-", "spsr", "sp">>
\* not tp (contains hartid), in case we moved CPUs
ReturnRiscv == <<"ra", "sp", "gp", "-">> \o SubSeq(TfRiscv, 5, 33)
trap_return(a) ==
    CASE a = "i386" -> ReturnI386 [] a = "x86_64" -> ReturnX64 [] a = "arm32" -> ReturnArm32
      [] a = "arm64" -> ReturnArm64 [] a = "riscv64" -> ReturnRiscv

-----------------------------------------------------------------------------
(* context_t, from the lowest address on; "-" for a word that is not used.   *)
CtxI386 == <<"edi", "esi", "ebx", "ebp", "eip">>
CtxX64 == <<"r15", "r14", "r13", "r12", "r11", "r10", "rbx", "rbp", "rip">>
CtxArm32 == SubSeq(R0toR12, 5, 13) \o <<"lr">>
CtxArm64 == SubSeq(X64Regs, 9, 30) \o <<"lr">>
CtxRiscv == <<"ra", "-", "s0", "s1", "s2", "s3", "s4", "s5", "s6", "s7", "s8", "s9",
              "s10", "s11">>

\* What switch_contexts stores for the caller.  On x86 the call itself pushes
\* the return address.
SaveI386 == Reverse(<<"eip">> \o <<"ebp", "ebx", "esi", "edi">>)
SaveX64 == Reverse(<<"rip">> \o <<"rbp", "rbx", "r10", "r11", "r12", "r13", "r14", "r15">>)
SaveArm32 == CtxArm32
SaveArm64 == <<"x8", "x9", "x10", "x11", "x12", "x13", "x14", "x15", "x16", "x17", "x18",
               "x19", "x20", "x21", "x22", "x23", "x24", "x25", "x26", "x27", "x28", "x29", "lr">>
SaveRiscv == <<"ra", "-">> \o <<"s0", "s1", "s2", "s3", "s4", "s5", "s6", "s7", "s8", "s9",
                               "s10", "s11">>
Saves(a) == CASE a = "i386" -> SaveI386 [] a = "x86_64" -> SaveX64 [] a = "arm32" -> SaveArm32
              [] a = "arm64" -> SaveArm64 [] a = "riscv64" -> SaveRiscv
\* What it loads for the one that is switched to, as switch_to_context does.
Loads(a) == CASE a = "i386" -> CtxI386 [] a = "x86_64" -> CtxX64 [] a = "arm32" -> CtxArm32
              [] a = "arm64" -> CtxArm64 [] a = "riscv64" -> CtxRiscv
\* The registers that a function keeps for its caller, and the return address.
CalleeSaved(a) ==
    CASE a = "i386" -> {"ebx", "esi", "edi", "ebp", "eip"}
      [] a = "x86_64" -> {"rbx", "rbp", "r12", "r13", "r14", "r15", "rip"}
      [] a = "arm32" -> {"r4", "r5", "r6", "r7", "r8", "r9", "r10", "r11", "lr"}
      [] a = "arm64" -> {X64Regs[i] : i \in 20 .. 30} \cup {"lr"}
      [] a = "riscv64" -> {TfRiscv[i] : i \in {8, 9} \cup 18 .. 27} \cup {"ra"}

\* switch_contexts suspends a kernel function whose registers are r, and later
\* the words that it stored are loaded again.
Suspended(a, r) == [i \in DOMAIN Saves(a) |-> IF Saves(a)[i] = "-" THEN 0 ELSE r[Saves(a)[i]]]
Continued(a, ws) ==
    [r \in Range(Loads(a)) \ {"-"} |-> ws[CHOOSE i \in DOMAIN ws : Loads(a)[i] = r]]
\* The registers of the kernel function suspended on level k, 0 for sched().
KernelRegs(a, k) == [r \in Range(Saves(a)) |-> 100 * k + CHOOSE i \in DOMAIN Saves(a) : Saves(a)[i] = r]
Switch(a, k, ws) == [what |-> "switched", got |-> Continued(a, ws), want |-> KernelRegs(a, k)]

\* What the program can tell: the registers without those of the trap itself,
\* and without tp, which the kernel does not keep for a program.
Hidden == {"oesp", "int_no", "err", "esr", "far", "tp"}
SegmentRegs == {"cs", "ss", "ds", "es", "fs", "gs"}
UserRegs(a) == Range(trapframe(a)) \ Hidden

-----------------------------------------------------------------------------
(* Frames are sequences of words; C names them by trapframe_t.               *)
Get(a, f, r) == f[CHOOSE i \in DOMAIN f : trapframe(a)[i] = r]
Set(a, f, r, v) == [f EXCEPT ![CHOOSE i \in DOMAIN f : trapframe(a)[i] = r] = v]

\* The return address: after the call instruction, the interrupted or the
\* faulting instruction.  On riscv64 handle_interrupt steps over the ecall.
HwIp(a, k, i) == IF k = "sys" /\ a # "riscv64" THEN i + 4 ELSE i
Stored(a, k, v, r) ==
    LET q == [r EXCEPT ![ip(a)] = HwIp(a, k, @)]
        word(n) == CASE n = "zero" -> 0 [] n = "int_no" -> v [] n = "err" -> 77
                     [] OTHER -> q[n]
    IN  [i \in DOMAIN trapframe(a) |-> word(Entry(a, k, v)[i])]

Loaded(a, f, old) ==
    [r \in DOMAIN old |->
       IF \E i \in DOMAIN f : trap_return(a)[i] = r
       THEN f[CHOOSE i \in DOMAIN f : trap_return(a)[i] = r] ELSE old[r]]

-----------------------------------------------------------------------------
(* Signal frames on the user's stack.                                        *)

JUST_TF == 61
NEW_STACK == 62
FAKE_RET == 63
SIGCALLER == 2000            \* _signal_jumper_zone.start
IN_HANDLER == 3000           \* an address inside of a handler
SigHandler(s) == 1500 + s    \* thread->signal_handlers[s]
TfAddr(k) == 1024 + 8 * k    \* the address of a level's trap frame
CtxAddr(k) == 1028 + 8 * k   \* and of its context

\* tf_push_to_stack and tf_pop_to_stack on a frame f and the stack st.
Push(a, x, v) ==
    LET s == Get(a, x.f, sp(a)) - 1
    IN  [f |-> Set(a, x.f, sp(a), s), st |-> [x.st EXCEPT ![s] = v]]
Pushes(a, x, vs) == FoldLeft(LAMBDA y, v : Push(a, y, v), x, vs)
Move(a, x, n) == [x EXCEPT !.f = Set(a, @, sp(a), Get(a, @, sp(a)) + n)]
Top(a, x) == x.st[Get(a, x.f, sp(a))]
\* Pops one word a name; the name says where it goes, "-" nowhere.
Pops(a, x, names) ==
    FoldLeft(LAMBDA y, r :
        LET v == Top(a, y)
            z == Move(a, y, 1)
        IN  CASE r = "-" -> z
              [] r = "old_sp" -> [z EXCEPT !.old_sp = v]
              [] r = "magic" -> [z EXCEPT !.magic = v]
              [] r = "checksum" -> [z EXCEPT !.checksum = v]
              [] r = "old_ctx" -> [z EXCEPT !.old_ctx = v]
              [] r = "old_tf" -> [z EXCEPT !.old_tf = v]
              [] OTHER -> [z EXCEPT !.f = Set(a, @, r, v)],
        x, names)

\* The order of the pushes of signal_impl_prepare_stack; "old_sp", "magic" are
\* its parameters.  A name that is sp's pushes what sp is at that moment.
PrepI386 == <<"eflags", "eip", "eax", "ebx", "ecx", "edx", "old_sp", "ebp", "esi",
              "edi", "magic">>
PrepX64 == <<"rflags", "rip", "rax", "rbx", "rcx", "rdx", "r8", "r9", "r10", "r11",
             "r12", "r13", "r14", "r15", "old_sp", "rbp", "rsi", "rdi", "magic">>
PrepArm32 == R0toR12 \o <<"old_sp", "user_sp", "user_ip", "user_flags", "magic">>
PrepArm64 == X64Regs \o <<"old_sp", "esr", "elr", "far", "spsr", "sp", "magic">>
PrepRiscv == TfRiscv \o <<"old_sp", "magic">>
RED_ZONE_SIZE == 16

PushNamed(a, x, names, old_sp, magic) ==
    FoldLeft(LAMBDA y, r :
        Push(a, y, CASE r = "old_sp" -> old_sp [] r = "magic" -> magic
                     [] OTHER -> Get(a, y.f, r)), x, names)

signal_impl_prepare_stack(a, x, s, old_sp, magic) ==
    CASE a = "i386" ->
           Pushes(a, PushNamed(a, x, PrepI386, old_sp, magic), <<SigHandler(s), s, FAKE_RET>>)
      [] a = "x86_64" ->
           LET y == Push(a, PushNamed(a, Move(a, x, -RED_ZONE_SIZE), PrepX64, old_sp, magic), FAKE_RET)
           IN  [y EXCEPT !.f = Set(a, Set(a, @, "rdi", s), "rsi", SigHandler(s))]
      [] a = "arm32" ->
           [PushNamed(a, x, PrepArm32, old_sp, magic)
              EXCEPT !.f = Set(a, Set(a, @, "r0", s), "r1", SigHandler(s))]
      [] a = "arm64" ->
           [PushNamed(a, x, PrepArm64, old_sp, magic)
              EXCEPT !.f = Set(a, Set(a, @, "x0", s), "x1", SigHandler(s))]
      [] a = "riscv64" ->
           [PushNamed(a, x, PrepRiscv, old_sp, magic)
              EXCEPT !.f = Set(a, Set(a, @, "a0", s), "a1", SigHandler(s))]

\* The order of its pops.
RestI386 == <<"magic", "edi", "esi", "ebp", "old_sp", "edx", "ecx", "ebx", "eax",
              "eip", "eflags">>
RestX64 == <<"magic", "rdi", "rsi", "rbp", "old_sp", "r15", "r14", "r13", "r12", "r11",
             "r10", "r9", "r8", "rdx", "rcx", "rbx", "rax", "rip", "rflags">>
RestArm32 == <<"magic", "user_flags", "user_ip", "user_sp", "old_sp">> \o Reverse(R0toR12)
RestArm64 == <<"magic", "sp", "spsr", "far", "elr", "esr", "old_sp">> \o Reverse(X64Regs)
RestRiscv == <<"magic", "old_sp">> \o Reverse(TfRiscv)

signal_impl_restore_stack(a, x) ==
    CASE a = "i386" -> Pops(a, Move(a, x, 3), RestI386)
      [] a = "x86_64" -> Move(a, Pops(a, Move(a, x, 1), RestX64), RED_ZONE_SIZE)
      [] a = "arm32" -> Pops(a, x, RestArm32)
      [] a = "arm64" -> Pops(a, x, RestArm64)
      [] a = "riscv64" -> Pops(a, x, RestRiscv)

-----------------------------------------------------------------------------
(* Entering and leaving.                                                     *)

NO_IRQ == 0
TIMER == 32
DEVICE == 47     \* some other line

\* How often the entry of a kind of trap counts int_depth_counter up, which
\* its exit takes back: on riscv64 handle_interrupt and sys_handler both do.
Depth(a, k) == IF a = "riscv64" /\ k = "sys" THEN 2 ELSE 1

Words(st, s) == [i \in s .. StackWords |-> st[i]]
\* The words that belong to the program: x86_64 code may use its red zone.
Live(a, st, s) == Words(st, IF a = "x86_64" THEN s - RED_ZONE_SIZE ELSE s)
UserState(k, r) == [kind |-> k, sig |-> 0, self |-> FALSE, regs |-> [x \in UserRegs(arch) |-> r[x]],
                    words |-> Live(arch, ustack, r[sp(arch)])]

Nothing == [what |-> "nothing"]
\* The program is back behind a trap instruction of libc.
AtWrapper == seen.what = "resumed" /\ seen.want.kind = "sys"

\* On 32-bit ARM aborts and undefined instructions stay on the stacks that the
\* processor has for these modes; only irq_isp goes over to the thread's.
Banked(a, k) == a = "arm32" /\ k \in {"page", "fpu", "crash"}
\* undefined_handler does not call cpu_enter_kernel_space before it knows that
\* the fault is not the first use of the floating point unit.
StateIn(a, k, old) == IF a = "arm32" /\ k = "fpu" THEN old ELSE "kernel"

\* A trap of kind k with the registers r: the stub stores them in a frame, on
\* the processor's stack or at the top of the kernel stack, where thread->tf
\* points to.
Trap(k, v, r, goal) ==
    /\ th.mode = "user" /\ ~AtWrapper
    /\ LET f == Stored(arch, k, v, r)
           g == IF arch = "riscv64" /\ k = "sys"
                THEN Set(arch, f, "epc", Get(arch, f, "epc") + 4) ELSE f
           level == [tf |-> g, cont |-> k, prev |-> cpu.state, ctx |-> <<>>]
           in == [cpu EXCEPT !.depth = @ + Depth(arch, k), !.state = StateIn(arch, k, @),
                             !.irq = IF k = "irq" THEN v ELSE @]
       IN  IF Banked(arch, k)
             THEN cpu' = [in EXCEPT !.bank = <<level>>] /\ UNCHANGED kstack
             ELSE cpu' = in /\ kstack' = [kstack EXCEPT ![th.tf] = level]
    /\ th' = [th EXCEPT !.mode = k]
    /\ calls' = Append(calls, goal)
    /\ regs' = r
    /\ UNCHANGED <<arch, ustack>>

\* What the program sees when a frame is loaded: a handler that was set up on
\* it (enters), or else the innermost state of the user.
Resume(f, st, cs, enters) ==
    LET new == Loaded(arch, f, regs)
    IN  /\ regs' = new
        /\ ustack' = st
        /\ IF enters
             THEN calls' = cs /\ seen' = Nothing
             ELSE /\ calls' = Front(cs)
                  /\ seen' = [what |-> "resumed", want |-> Last(cs),
                              got |-> [regs |-> [x \in UserRegs(arch) |-> new[x]],
                                       words |-> Live(arch, st, new[sp(arch)])]]

\* A level whose frame was popped: nobody reads it before the next trap.
Popped(prev) == [tf |-> [i \in DOMAIN trapframe(arch) |-> 0], cont |-> "none", prev |-> prev,
                 ctx |-> <<>>]

\* The end of the handlers in C and trap_return, at level k, with the frame f.
Leave(k, f, st, cs, enters) ==
    /\ kstack' = [SubSeq(kstack, 1, k) EXCEPT ![k] = Popped(@.prev)]
    /\ cpu' = [cpu EXCEPT !.depth = @ - Depth(arch, kstack[k].cont), !.state = kstack[k].prev,
                          !.irq = NO_IRQ]
    /\ Resume(f, st, cs, enters)

-----------------------------------------------------------------------------
(* System calls.                                                             *)

\* A wrapper of libc loads the registers and traps.  Its parameters are told
\* apart; kill gets the thread's own id (1) and a signal.
Args(w, s) == IF w = "kill" THEN <<1, s>> ELSE [i \in 1 .. Wrappers[w].args |-> 20 + i]
CallWrapper(w, s) ==
    /\ Len(calls) < MaxNest /\ regs[ip(arch)] # SIGCALLER
    /\ w = "kill" => th.sent < MaxSignals
    /\ LET r == LoadCall(arch, regs, LibcSysid(arch)[Wrappers[w].id], Args(w, s))
           q == [r EXCEPT ![ip(arch)] = @ + 4]
       IN  /\ Trap("sys", 128, r, UserState("sys", q) @@ [w |-> w, before |-> regs])
           /\ seen' = [what |-> "call", w |-> w, args |-> Args(w, s)]

\* Back behind the trap instruction the wrapper makes its value of the result;
\* the compiler keeps what the instruction's operands overwrote.
WrapperDone ==
    /\ AtWrapper
    /\ regs' = seen.want.before
    /\ seen' = [what |-> "value", w |-> seen.want.w, res |-> th.res,
                got |-> RETURN_WITH_ERRNO(seen.want.w, regs[return_val(arch)], 21)]
    /\ th' = [th EXCEPT !.res = 0]
    /\ UNCHANGED <<arch, ustack, kstack, cpu, calls>>

\* sys_handler and the parameters that the handler it calls reads.
SYSCALL_VAR(f, i) == Get(arch, f, Params(arch)[i + 1])
callee == TableAt(arch, Get(arch, kstack[th.tf].tf, Params(arch)[1]))
read == [i \in 1 .. ParamsRead[callee] |-> SYSCALL_VAR(kstack[th.tf].tf, i)]
return_with_val(f, v) == Set(arch, f, return_val(arch), v)

Results == {-3, 7}    \* a failure and a success
Blocking == {"sys_sleep", "sys_sched_yield"}
\* A handler that neither switches nor touches signals.
SysReturn(v) ==
    /\ th.mode = "sys"
    /\ callee \in DOMAIN ParamsRead \ (Blocking \cup {"sys_sigreturn"})
    \* kill without a target, exec that fails; sigaction never reports success.
    /\ callee \in {"sys_kill", "sys_exec", "sys_sigaction"} => v < 0
    /\ th' = [th EXCEPT !.mode = "user", !.res = v]
    /\ Leave(th.tf, return_with_val(kstack[th.tf].tf, v), ustack, calls, FALSE)
    /\ UNCHANGED arch

\* resched: the kernel function is suspended and sched() goes on.
SwitchOut ==
    /\ kstack' = [kstack EXCEPT ![th.tf].ctx = Suspended(arch, KernelRegs(arch, th.tf))]
    /\ seen' = Switch(arch, 0, Suspended(arch, KernelRegs(arch, 0)))

\* sched_yield and nanosleep give up the processor inside of the handler.
SysSwitch ==
    /\ th.mode = "sys" /\ callee \in Blocking
    /\ th' = [th EXCEPT !.mode = "out", !.context = th.tf,
                        !.blocked = callee = "sys_sleep", !.reason = callee = "sys_sleep"]
    /\ SwitchOut
    /\ UNCHANGED <<arch, regs, ustack, cpu, calls>>

\* resched() returned: the handler's result and the way out.
SysResumed ==
    /\ th.mode = "back" /\ kstack[th.tf].cont = "sys"
    /\ th' = [th EXCEPT !.mode = "user"]
    /\ Leave(th.tf, return_with_val(kstack[th.tf].tf, 0), ustack, calls, FALSE)
    /\ UNCHANGED arch

-----------------------------------------------------------------------------
(* Interrupts and faults.                                                    *)

Irq(line) ==
    /\ Len(calls) < IF line = TIMER THEN MaxNest ELSE MaxNest - 1
    /\ Trap("irq", line, regs, UserState("irq", regs))
    /\ seen' = Nothing

\* On x86 the frame says which line it is, else the interrupt controller.
int_no == IF arch \in {"i386", "x86_64"} THEN Get(arch, kstack[th.tf].tf, "int_no") ELSE cpu.irq

\* A line other than the timer's.  x86 ends the interrupt after the handler.
IrqDevice ==
    /\ th.mode = "irq" /\ int_no # TIMER
    /\ th' = [th EXCEPT !.mode = "user"]
    /\ Leave(th.tf, kstack[th.tf].tf, ustack, calls, FALSE)
    /\ UNCHANGED arch

\* The timer: the interrupt is ended, then sched_tick may give up the
\* processor and the handler returns only when the thread runs again.
irq_handlerEndsLate(c) == c                                      \* Mutant
irq_handler(c) == [c EXCEPT !.irq = NO_IRQ]
IrqTimer ==
    /\ th.mode = "irq" /\ int_no = TIMER
    /\ cpu' = irq_handler(cpu)
    /\ th' = [th EXCEPT !.mode = "out", !.context = th.tf]
    /\ SwitchOut
    /\ UNCHANGED <<arch, regs, ustack, calls>>

IrqResumed ==
    /\ th.mode = "back" /\ kstack[th.tf].cont = "irq"
    /\ th' = [th EXCEPT !.mode = "user"]
    /\ Leave(th.tf, kstack[th.tf].tf, ustack, calls, FALSE)
    /\ UNCHANGED arch

\* A page fault that vmm_page_fault_handler resolves, and the first use of
\* the floating point unit after a switch.
Fault(k) ==
    /\ Len(calls) < MaxNest - 1
    /\ k = "fpu" => arch # "riscv64"
    /\ Trap(k, IF k = "page" THEN 14 ELSE 7, regs, UserState(k, regs))
    /\ seen' = Nothing
FaultResolved ==
    /\ th.mode \in {"page", "fpu"} /\ ~Banked(arch, th.mode)
    /\ th' = [th EXCEPT !.mode = "user"]
    /\ Leave(th.tf, kstack[th.tf].tf, ustack, calls, FALSE)
    /\ UNCHANGED arch
\* The same from a stack of the processor.  undefined_handler returns early,
\* and does not count down, when the unit still holds the thread's registers.
FaultResolvedBanked ==
    /\ th.mode \in {"page", "fpu"} /\ Banked(arch, th.mode)
    /\ \E early \in IF th.mode = "fpu" /\ th.early < MaxEarly THEN {0, 1} ELSE {0} :
         /\ th' = [th EXCEPT !.mode = "user", !.early = @ + early]
         /\ cpu' = [cpu EXCEPT !.depth = @ + early - 1, !.state = cpu.bank[1].prev, !.bank = <<>>]
    /\ Resume(cpu.bank[1].tf, ustack, calls, FALSE)
    /\ UNCHANGED <<arch, kstack>>

\* Without a free frame the handlers of the 32-bit targets give up the
\* processor (_vmm_sleep_locked) and try again when they run next.
FaultSleeps ==
    /\ th.mode = "page" /\ arch = "i386"
    /\ th' = [th EXCEPT !.mode = "out", !.context = th.tf]
    /\ SwitchOut
    /\ UNCHANGED <<arch, regs, ustack, cpu, calls>>
FaultAgain ==
    /\ th.mode = "back" /\ kstack[th.tf].cont = "page"
    /\ th' = [th EXCEPT !.mode = "page"]
    /\ seen' = Nothing
    /\ UNCHANGED <<arch, regs, ustack, kstack, cpu, calls>>
\* From a stack of the processor: sched() goes on in the abort mode, whose stack
\* pointer it takes along, and who runs next and on what is undefined.
FaultSleepsBanked ==
    /\ th.mode = "page" /\ Banked(arch, "page")
    /\ th' = [th EXCEPT !.mode = "lost"]
    /\ UNCHANGED <<arch, regs, ustack, kstack, cpu, calls, seen>>

\* Faults that nothing resolves.  The numbers are those of x86, and elsewhere
\* 6 is an undefined instruction, 14 a page fault and 3 a breakpoint.
Crashes == IF arch \in {"i386", "x86_64"} THEN 0 .. 31 \ {7} ELSE {3, 6, 14}
isr_handler(v) == IF v \in {0, 6} \cup 8 .. 14 THEN "kill" ELSE "stop"
Outcome(v) ==
    CASE arch \in {"i386", "x86_64"} -> isr_handler(v)
      [] Banked(arch, "crash") -> "lost"
      [] arch = "arm64" -> IF v = 14 THEN "kill" ELSE "stop"
      [] arch = "riscv64" -> "kill"
\* dump_and_kill calls resched() and does not come back; on a stack of the
\* processor it leaves whoever runs next in the abort or the undefined mode.
Crash(v) ==
    /\ th.mode = "user" /\ ~AtWrapper /\ calls = <<>>
    /\ LET f == Stored(arch, "crash", v, regs)
       IN  seen' = [what |-> "crash", v |-> v, outcome |-> Outcome(v),
                    int_no |-> IF "int_no" \in Range(trapframe(arch)) THEN Get(arch, f, "int_no") ELSE v,
                    at |-> Get(arch, f, ip(arch)), ip |-> regs[ip(arch)]]
    /\ th' = [th EXCEPT !.mode = Outcome(v)]
    /\ UNCHANGED <<arch, regs, ustack, kstack, cpu, calls>>

-----------------------------------------------------------------------------
(* Signals.                                                                  *)

Lowest(S) == CHOOSE s \in S : \A t \in S : s <= t
Expect(cs, s, self) == [cs EXCEPT ![Len(cs)].sig = s, ![Len(cs)].self = self]

\* kill with the caller's own id: the lowest pending signal is dispatched at
\* once, on the frame of the call itself, and then the result is stored in it.
SysKill ==
    /\ th.mode = "sys" /\ callee = "sys_kill" /\ read[1] = 1
    /\ LET pend == th.pending \cup {read[2]}
           s == Lowest(pend)
           f == kstack[th.tf].tf
           x == signal_impl_prepare_stack(arch, [f |-> f, st |-> ustack], s,
                                          Get(arch, f, sp(arch)), JUST_TF)
       IN  /\ th' = [th EXCEPT !.mode = "user", !.pending = pend \ {s}, !.res = 0,
                               !.sent = @ + 1]
           /\ Leave(th.tf, return_with_val(Set(arch, x.f, ip(arch), SIGCALLER), 0), x.st,
                    Expect(calls, s, TRUE), TRUE)
    /\ UNCHANGED arch

\* tasking_signal for a thread that does not run.  The signal stays pending;
\* one whose default is to continue makes a blocked thread runnable, and the
\* blocker keeps its reason.
Send(s, continues) ==
    /\ th.mode = "out" /\ s \notin th.pending /\ th.sent < MaxSignals
    /\ th' = [th EXCEPT !.pending = @ \cup {s}, !.sent = @ + 1, !.blocked = @ /\ ~continues]
    /\ UNCHANGED <<arch, regs, ustack, kstack, cpu, calls, seen>>

\* sched_unblock_threads.
Wake ==
    /\ th.mode = "out" /\ th.blocked /\ th.reason
    /\ th' = [th EXCEPT !.blocked = FALSE, !.reason = FALSE]
    /\ UNCHANGED <<arch, regs, ustack, kstack, cpu, calls, seen>>

\* switch_to_thread without a signal: the suspended kernel call goes on.
SwitchIn ==
    /\ th.mode = "out" /\ ~th.blocked /\ th.pending = {}
    /\ th' = [th EXCEPT !.mode = "back"]
    /\ seen' = Switch(arch, th.context, kstack[th.context].ctx)
    /\ UNCHANGED <<arch, regs, ustack, kstack, cpu, calls>>

\* switch_to_thread with one: a new frame above the suspended call, whose
\* context leads through _tasking_jumper to trap_return.
signal_setup_stack(old, s) ==
    LET x == Pushes(arch, [f |-> kstack[old.tf].tf, st |-> ustack],
                    <<TfAddr(old.tf), CtxAddr(old.context),
                      TfAddr(old.tf) ^^ CtxAddr(old.context)>>)
    IN  signal_impl_prepare_stack(arch, x, s, Get(arch, kstack[old.tf].tf, sp(arch)), NEW_STACK)
SwitchInSignal ==
    /\ th.mode = "out" /\ ~th.blocked /\ th.pending # {}
    /\ Len(calls) < MaxNest
    /\ LET s == Lowest(th.pending)
           x == signal_setup_stack(th, s)
           f == Set(arch, x.f, ip(arch), SIGCALLER)
           k == th.context + 1
       IN  /\ kstack' = Append(SubSeq(kstack, 1, th.context),
                               Popped("user"))
           /\ th' = [th EXCEPT !.mode = "user", !.tf = k, !.context = k, !.pending = @ \ {s}]
           /\ cpu' = [cpu EXCEPT !.depth = @ - 1, !.state = "user"]
           /\ Resume(f, x.st, Expect(calls, s, FALSE), TRUE)
    /\ UNCHANGED arch

\* signal_caller: the function and the signal it takes from the frame, and how
\* many words it pushes before the call.
CallerTakes(a) ==
    CASE a = "i386" -> [fn |-> ustack[regs.esp + 2], signo |-> ustack[regs.esp + 1]]
      [] a = "x86_64" -> [fn |-> regs.rsi, signo |-> regs.rdi]
      [] a = "arm32" -> [fn |-> regs.r1, signo |-> regs.r0]
      [] a = "arm64" -> [fn |-> regs.x1, signo |-> regs.x0]
      [] a = "riscv64" -> [fn |-> regs.a1, signo |-> regs.a0]
CallerPushes(a) == CASE a = "i386" -> 3 [] a = "x86_64" -> 1 [] OTHER -> 0

\* The handler runs: it may overwrite every register but the segments, and the words below sp.
RunHandler ==
    /\ th.mode = "user" /\ regs[ip(arch)] = SIGCALLER
    /\ LET s == regs[sp(arch)] - CallerPushes(arch)
       IN  /\ regs' = [r \in DOMAIN regs |->
                 CASE r = sp(arch) -> s [] r = ip(arch) -> IN_HANDLER
                   [] r \in Hidden \cup SegmentRegs -> regs[r]
                   [] OTHER -> 900 + CHOOSE i \in DOMAIN trapframe(arch) : trapframe(arch)[i] = r]
           /\ ustack' = [i \in DOMAIN ustack |-> IF i < s THEN 0 ELSE ustack[i]]
    /\ seen' = [what |-> "handler", fn |-> CallerTakes(arch).fn,
                signo |-> CallerTakes(arch).signo, goal |-> Last(calls)]
    /\ UNCHANGED <<arch, kstack, th, cpu, calls>>

\* It returns into signal_caller, which calls sigreturn, number 119.
HandlerReturn ==
    /\ th.mode = "user" /\ regs[ip(arch)] = IN_HANDLER
    /\ LET r == [regs EXCEPT ![sp(arch)] = @ + CallerPushes(arch), ![Params(arch)[1]] = 119]
       IN  Trap("sys", 128, r, UserState("sigreturn", r))
    /\ seen' = Nothing

\* signal_restore_thread_after_handling_signal.
SysSigreturn ==
    /\ th.mode = "sys" /\ callee = "sys_sigreturn"
    /\ LET none == [f |-> kstack[th.tf].tf, st |-> ustack, old_sp |-> 0, magic |-> 0,
                    checksum |-> 0, old_ctx |-> 0, old_tf |-> 0]
           x == signal_impl_restore_stack(arch, none)
           y == IF x.magic = NEW_STACK
                THEN Pops(arch, x, <<"checksum", "old_ctx", "old_tf">>) ELSE x
           k == (y.old_tf - 1024) \div 8
           broken == \/ x.magic = NEW_STACK /\ y.checksum # (y.old_tf ^^ y.old_ctx)
                     \/ y.old_sp # Get(arch, IF x.magic = NEW_STACK THEN kstack[k].tf ELSE x.f,
                                       sp(arch))
       IN  CASE broken ->
                  /\ th' = [th EXCEPT !.mode = "dead"]
                  /\ UNCHANGED <<regs, ustack, kstack, cpu, calls, seen>>
             [] ~broken /\ x.magic = NEW_STACK ->
                  /\ th' = [th EXCEPT !.mode = "out", !.tf = k,
                                      !.context = (y.old_ctx - 1028) \div 8,
                                      !.blocked = th.reason, !.left = @ + 1]
                  /\ calls' = Front(calls)
                  /\ seen' = Switch(arch, 0, Suspended(arch, KernelRegs(arch, 0)))
                  /\ UNCHANGED <<regs, ustack, kstack, cpu>>
             \* Blocked with no context saved: what runs later is undefined.
             [] ~broken /\ x.magic # NEW_STACK /\ th.reason ->
                  /\ th' = [th EXCEPT !.mode = "lost"]
                  /\ UNCHANGED <<regs, ustack, kstack, cpu, calls, seen>>
             [] OTHER ->
                  /\ th' = [th EXCEPT !.mode = "user"]
                  /\ Leave(th.tf, x.f, ustack, Front(calls), FALSE)
    /\ UNCHANGED arch

-----------------------------------------------------------------------------
TrapInit ==
    /\ arch \in Arches
    /\ regs = [r \in Range(trapframe(arch)) |->
                 CASE r = sp(arch) -> Sp0 [] r = ip(arch) -> 50
                   [] r \in Hidden -> 0
                   [] OTHER -> 100 + CHOOSE i \in DOMAIN trapframe(arch) : trapframe(arch)[i] = r]
    /\ ustack = [i \in 0 .. StackWords |-> IF i >= Sp0 - RED_ZONE_SIZE THEN 300 + i ELSE 0]
    /\ kstack = <<Popped("user")>>
    /\ th = [mode |-> "user", tf |-> 1, context |-> 1, pending |-> {}, blocked |-> FALSE,
             reason |-> FALSE, res |-> 0, left |-> 0, early |-> 0, sent |-> 0]
    /\ cpu = [depth |-> 0, state |-> "user", irq |-> NO_IRQ, bank |-> <<>>]
    /\ calls = <<>>
    /\ seen = Nothing

\* Bound: every wrapper before the first signal, then those that switch.
CallsFrom == IF calls = <<>> /\ th.sent = 0 THEN DOMAIN Wrappers ELSE {"kill", "nanosleep", "sched_yield"}
TrapNext ==
    \/ \E w \in CallsFrom, s \in Signals : (w = "kill" \/ s = Lowest(Signals)) /\ CallWrapper(w, s)
    \/ WrapperDone \/ SysSwitch \/ SysResumed \/ SysKill \/ SysSigreturn
    \/ \E v \in Results : SysReturn(v)
    \/ \E line \in {TIMER, DEVICE} : Irq(line)
    \/ IrqDevice \/ IrqTimer \/ IrqResumed
    \/ \E k \in {"page", "fpu"} : Fault(k)
    \/ FaultResolved \/ FaultResolvedBanked \/ FaultSleeps \/ FaultAgain \/ FaultSleepsBanked
    \/ \E v \in Crashes : Crash(v)
    \/ \E s \in Signals, c \in BOOLEAN : Send(s, c)
    \/ Wake \/ SwitchIn \/ SwitchInSignal \/ RunHandler \/ HandlerReturn

-----------------------------------------------------------------------------
\* A program that is interrupted, faults or calls the kernel finds all of its
\* registers and its stack as they were, whatever handlers ran in between;
\* only a call's result differs, and, on 32-bit ARM, the link register after
\* a signal that the program sent to itself, which no frame keeps.  On x86_64
\* a signal from elsewhere takes the three topmost words of the red zone.
Restored ==
    seen.what = "resumed" =>
      LET differ == (IF seen.want.kind = "sys" THEN {return_val(arch)} ELSE {})
                    \cup (IF seen.want.self /\ arch = "arm32" THEN {"user_lr"} ELSE {})
      IN  /\ \A r \in UserRegs(arch) \ differ : seen.got.regs[r] = seen.want.regs[r]
          /\ \A i \in DOMAIN seen.want.words :
               \/ seen.got.words[i] = seen.want.words[i]
               \/ /\ arch = "x86_64" /\ seen.want.sig # 0 /\ ~seen.want.self
                  /\ i \in seen.want.regs["rsp"] - 3 .. seen.want.regs["rsp"] - 1

\* A kernel function that gave up the processor, and the scheduler, find the
\* registers that the calling convention promises them when they go on.
KernelRegsKept ==
    seen.what = "switched" => \A r \in CalleeSaved(arch) : seen.got[r] = seen.want[r]

\* A handler is called with the signal it is for, except that the result of
\* kill takes the place of the signal on the architectures that pass both in
\* one register.
HandlersEntered ==
    seen.what = "handler" =>
      /\ seen.fn = SigHandler(seen.goal.sig)
      /\ seen.signo = seen.goal.sig \/ (seen.goal.self /\ arch \notin {"i386", "x86_64"})

\* The checks of sigreturn never kill a thread whose handlers behave, user
\* code never runs while the processor counts as in the kernel, and a thread
\* that is switched out has ended its interrupt.
\* int_depth_counter is 0 in user code; on riscv64 every system call that is
\* suspended below a handler, and every sigreturn, leaves it one higher, and on
\* 32-bit ARM every early return of undefined_handler.
TrapsBalanced ==
    /\ th.mode # "dead"
    /\ th.mode = "out" => cpu.irq = NO_IRQ
    /\ th.mode = "user" =>
         /\ cpu.state = "user"
         /\ cpu.depth = IF arch # "riscv64" THEN th.early
                        ELSE th.left + Cardinality({k \in 1 .. th.tf - 1 : kstack[k].cont = "sys"})

\* A fault that nothing resolves ends the program that made it and no more,
\* and the report names the fault and the instruction.  The exceptions: x86
\* stops for the vectors 1 to 5 and from 15 on, arm64 for all but page faults,
\* and the stubs of the vectors 8, 10, 11, 12 and 17 push a word too many.
\* On 32-bit ARM the process is killed, but the others do not go on as before.
CrashesContained ==
    seen.what = "crash" =>
      /\ seen.int_no = seen.v
      /\ \/ seen.at = seen.ip
         \/ arch \in {"i386", "x86_64"} /\ seen.v \in {8, 10, 11, 12, 17}
      /\ \/ seen.outcome = "kill"
         \/ arch \in {"i386", "x86_64"} /\ seen.v \in 1 .. 5 \cup 15 .. 31
         \/ arch = "arm64" /\ seen.v # 14
         \/ arch = "arm32" /\ seen.outcome = "lost"

\* Every wrapper of libc reaches the handler of the call that it names, which
\* finds the wrapper's arguments in order and 0 for those that it was not
\* given, and the program sees a failure exactly when the handler failed.
CallsServed ==
    /\ seen.what = "call" /\ th.mode = "sys" =>
         /\ callee = syscalls[Wrappers[seen.w].id]
         /\ \A i \in DOMAIN read : read[i] = IF i <= Len(seen.args) THEN seen.args[i] ELSE 0
    /\ seen.what = "value" => ((seen.got.value < 0) <=> (seen.res < 0))
=============================================================================
