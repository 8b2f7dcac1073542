------------------------------ MODULE SysCalls ------------------------------
(* The system call interface on the five architectures: the numbers both     *)
(* copies of bits/syscalls.h give the calls, the kernel's table of handlers, *)
(* the parameters each handler takes out of the trap frame, and the wrappers *)
(* of libc with the registers they load.                                     *)
EXTENDS Integers, Sequences, TLC

Arches == {"i386", "x86_64", "arm32", "arm64", "riscv64"}

-----------------------------------------------------------------------------
(* enum __sysid, in the parts of the header it is written in.  Only calls    *)
(* the kernel's table has an entry for are told apart: every other number    *)
(* that the header names has no entry.                                       *)

SysidX86Low ==
    [RESTART_SYSCALL |-> 0, EXIT |-> 1, FORK |-> 2, READ |-> 3, WRITE |-> 4,
     OPEN |-> 5, CLOSE |-> 6, WAITPID |-> 7, CREAT |-> 8, LINK |-> 9,
     UNLINK |-> 10, EXECVE |-> 11, CHDIR |-> 12, CHMOD |-> 15, LSEEK |-> 19,
     GETPID |-> 20, SETUID |-> 23, GETUID |-> 24, PTRACE |-> 26, NICE |-> 34,
     KILL |-> 37, MKDIR |-> 39, RMDIR |-> 40, DUP |-> 41, SETGID |-> 46,
     IOCTL |-> 54, SETPGID |-> 57, DUP2 |-> 63, SIGACTION |-> 67,
     SETREUID |-> 70, SETREGID |-> 71, GETTIMEOFDAY |-> 78, SELECT |-> 82,
     MMAP |-> 90, MUNMAP |-> 91, FCHMOD |-> 94, FSTAT |-> 108, FSYNC |-> 118,
     SIGRETURN |-> 119, UNAME |-> 122, GETPGID |-> 132, GETDENTS |-> 141]

SysidX86Mid ==
    [SCHED_YIELD |-> 158, NANOSLEEP |-> 162, GETCWD |-> 183,
     CLOCK_SETTIME |-> 264, CLOCK_GETTIME |-> 265, CLOCK_GETRES |-> 266]

SysidX86High ==
    [SOCKET |-> 359, BIND |-> 361, CONNECT |-> 362, SHBUF_CREATE |-> 385,
     SHBUF_GET |-> 386, SHBUF_FREE |-> 387, PTHREAD_CREATE |-> 388]

SysidArmLow ==
    [RESTART_SYSCALL |-> 0, EXIT |-> 1, FORK |-> 2, READ |-> 3, WRITE |-> 4,
     OPEN |-> 5, CLOSE |-> 6, CREAT |-> 8, LINK |-> 9, UNLINK |-> 10,
     EXECVE |-> 11, CHDIR |-> 12, CHMOD |-> 15, LSEEK |-> 19, GETPID |-> 20,
     SETUID |-> 23, GETUID |-> 24, PTRACE |-> 26, NICE |-> 34, KILL |-> 37,
     MKDIR |-> 39, RMDIR |-> 40, DUP |-> 41, SETGID |-> 46, IOCTL |-> 54,
     SETPGID |-> 57, DUP2 |-> 63, SIGACTION |-> 67, SETREUID |-> 70,
     SETREGID |-> 71, GETTIMEOFDAY |-> 78, MUNMAP |-> 91, FCHMOD |-> 94,
     FSTAT |-> 108, FSYNC |-> 118, SIGRETURN |-> 119, UNAME |-> 122,
     GETPGID |-> 132, GETDENTS |-> 141, SCHED_YIELD |-> 158,
     NANOSLEEP |-> 162, GETCWD |-> 183]

SysidArmMid ==
    [CLOCK_SETTIME |-> 262, CLOCK_GETTIME |-> 263, CLOCK_GETRES |-> 264,
     SOCKET |-> 281, BIND |-> 282, CONNECT |-> 283, SELECT |-> 341]

SysidArmHigh ==
    [SHBUF_CREATE |-> 398, SHBUF_GET |-> 399, SHBUF_FREE |-> 400,
     PTHREAD_CREATE |-> 401, MMAP |-> 402, WAITPID |-> 403]

\* The third enumeration, for 64-bit ARM, repeats the second.
SysidArm64Low == SysidArmLow
SysidArm64Mid == SysidArmMid
SysidArm64High == SysidArmHigh

Sysid(a) ==
    CASE a \in {"i386", "x86_64", "riscv64"} -> SysidX86Low @@ SysidX86Mid @@ SysidX86High
      [] a = "arm32" -> SysidArmLow @@ SysidArmMid @@ SysidArmHigh
      [] a = "arm64" -> SysidArm64Low @@ SysidArm64Mid @@ SysidArm64High

(* libc's copy of the header, which names the calls for its wrappers.        *)
LibcX86Low == SysidX86Low
LibcX86Mid == SysidX86Mid
LibcX86High == SysidX86High
LibcArmLow == SysidArmLow
LibcArmMid == SysidArmMid
LibcArmHighSwapped == [SysidArmHigh EXCEPT !.MMAP = 403, !.WAITPID = 402]   \* Mutant
LibcArmHigh == SysidArmHigh
LibcArm64Low == SysidArm64Low
LibcArm64Mid == SysidArm64Mid
LibcArm64High == SysidArm64High

LibcSysid(a) ==
    CASE a \in {"i386", "x86_64", "riscv64"} -> LibcX86Low @@ LibcX86Mid @@ LibcX86High
      [] a = "arm32" -> LibcArmLow @@ LibcArmMid @@ LibcArmHigh
      [] a = "arm64" -> LibcArm64Low @@ LibcArm64Mid @@ LibcArm64High

-----------------------------------------------------------------------------
(* The kernel's side.                                                        *)

\* The table of handlers, by the name of the number its entries are put at.
syscalls ==
    [RESTART_SYSCALL |-> "sys_restart_syscall", EXIT |-> "sys_exit",
     FORK |-> "sys_fork", READ |-> "sys_read", WRITE |-> "sys_write",
     OPEN |-> "sys_open", CLOSE |-> "sys_close", WAITPID |-> "sys_waitpid",
     CREAT |-> "sys_creat", LINK |-> "sys_none", UNLINK |-> "sys_unlink",
     EXECVE |-> "sys_exec", CHDIR |-> "sys_chdir", CHMOD |-> "sys_chmod",
     FCHMOD |-> "sys_fchmod", GETCWD |-> "sys_getcwd",
     SIGACTION |-> "sys_sigaction", SIGRETURN |-> "sys_sigreturn",
     GETTIMEOFDAY |-> "sys_gettimeofday", LSEEK |-> "sys_lseek",
     GETPID |-> "sys_getpid", GETUID |-> "sys_getuid", SETUID |-> "sys_setuid",
     SETGID |-> "sys_setgid", SETREUID |-> "sys_setreuid",
     SETREGID |-> "sys_setregid", KILL |-> "sys_kill", MKDIR |-> "sys_mkdir",
     RMDIR |-> "sys_rmdir", MMAP |-> "sys_mmap", MUNMAP |-> "sys_munmap",
     DUP |-> "sys_dup", DUP2 |-> "sys_dup2", SOCKET |-> "sys_socket",
     BIND |-> "sys_bind", CONNECT |-> "sys_connect",
     GETDENTS |-> "sys_getdents", IOCTL |-> "sys_ioctl",
     SETPGID |-> "sys_setpgid", GETPGID |-> "sys_getpgid",
     PTHREAD_CREATE |-> "sys_create_thread", NANOSLEEP |-> "sys_sleep",
     PTRACE |-> "sys_ptrace", SELECT |-> "sys_select", FSTAT |-> "sys_fstat",
     FSYNC |-> "sys_fsync", SCHED_YIELD |-> "sys_sched_yield",
     UNAME |-> "sys_uname", CLOCK_GETTIME |-> "sys_clock_gettime",
     CLOCK_SETTIME |-> "sys_none", CLOCK_GETRES |-> "sys_none",
     NICE |-> "sys_nice", SHBUF_CREATE |-> "sys_shbuf_create",
     SHBUF_GET |-> "sys_shbuf_get", SHBUF_FREE |-> "sys_shbuf_free"]

\* The table's entry at a number; one without initializer is null.
TableAt(a, n) ==
    LET at == {x \in DOMAIN syscalls : Sysid(a)[x] = n}
    IN  IF at = {} THEN "null" ELSE syscalls[CHOOSE x \in at : TRUE]

\* How many of SYSCALL_VAR1.. each handler reads.
FsReads ==
    [sys_open |-> 3, sys_close |-> 1, sys_read |-> 3, sys_write |-> 3,
     sys_lseek |-> 3, sys_unlink |-> 1, sys_creat |-> 2, sys_fstat |-> 2,
     sys_fsync |-> 1, sys_mkdir |-> 1, sys_rmdir |-> 1, sys_chdir |-> 1,
     sys_getcwd |-> 2, sys_getdents |-> 3, sys_select |-> 5, sys_mmap |-> 1,
     sys_munmap |-> 2, sys_dup |-> 1, sys_dup2 |-> 2]
TaskReads ==
    [sys_exit |-> 1, sys_fork |-> 0, sys_waitpid |-> 3, sys_exec |-> 3,
     sys_sigaction |-> 2, sys_sigreturn |-> 0, sys_kill |-> 2,
     sys_setpgid |-> 2, sys_getpgid |-> 1, sys_create_thread |-> 1,
     sys_sched_yield |-> 0, sys_nice |-> 1]
IoReads ==
    [sys_socket |-> 3, sys_bind |-> 3, sys_connect |-> 3, sys_ioctl |-> 3,
     sys_shbuf_create |-> 2, sys_shbuf_get |-> 2, sys_shbuf_free |-> 1]
TimeReads == [sys_clock_gettime |-> 2, sys_gettimeofday |-> 2, sys_sleep |-> 2]
IdReads ==
    [sys_getpid |-> 0, sys_getuid |-> 0, sys_setuid |-> 1, sys_setgid |-> 1,
     sys_setreuid |-> 2, sys_setregid |-> 2]
OtherReads == [sys_ptrace |-> 2, sys_uname |-> 1]
ParamsRead == FsReads @@ TaskReads @@ IoReads @@ TimeReads @@ IdReads @@ OtherReads

\* SYSCALL_ID, then SYSCALL_VAR1 to SYSCALL_VAR5, and return_val.
ParamsX86 ==
    [i386 |-> <<"eax", "ebx", "ecx", "edx", "esi", "edi">>,
     x86_64 |-> <<"rax", "rdi", "rsi", "rdx", "r10", "r8">>]
ParamsArm32 == <<"r7", "r0", "r1", "r2", "r3", "r4">>
ParamsArm64 == <<"x8", "x0", "x1", "x2", "x3", "x4">>
ParamsRiscv == <<"a7", "a0", "a1", "a2", "a3", "a4">>
Params(a) == CASE a \in {"i386", "x86_64"} -> ParamsX86[a]
               [] a = "arm32" -> ParamsArm32
               [] a = "arm64" -> ParamsArm64
               [] a = "riscv64" -> ParamsRiscv
return_val(a) == IF a \in {"i386", "x86_64"} THEN Params(a)[1] ELSE Params(a)[2]

-----------------------------------------------------------------------------
(* libc's side.  A wrapper names its call, the number of arguments that it   *)
(* passes, and what it returns: the result itself (raw), or, with the errno  *)
(* convention, one value when the result is not negative and -1 otherwise.   *)
Call(id, args, onSuc) == [id |-> id, args |-> args, onSuc |-> onSuc]

FsWrappers ==
    [open |-> Call("OPEN", 3, "res"), creat |-> Call("CREAT", 2, "res"),
     close |-> Call("CLOSE", 1, "0"), read |-> Call("READ", 3, "raw"),
     write |-> Call("WRITE", 3, "raw"), dup |-> Call("DUP", 1, "res"),
     dup2 |-> Call("DUP2", 2, "res"), lseek |-> Call("LSEEK", 3, "raw"),
     mkdir |-> Call("MKDIR", 1, "0"), rmdir |-> Call("RMDIR", 1, "0"),
     chdir |-> Call("CHDIR", 1, "0"), getcwd |-> Call("GETCWD", 2, "0"),
     unlink |-> Call("UNLINK", 1, "0"), fstat |-> Call("FSTAT", 2, "0"),
     select |-> Call("SELECT", 5, "res"), mmap |-> Call("MMAP", 1, "raw"),
     munmap |-> Call("MUNMAP", 2, "0")]
TaskWrappers ==
    [fork |-> Call("FORK", 0, "res"), execve |-> Call("EXECVE", 3, "fail"),
     waitpid |-> Call("WAITPID", 3, "pid"), getpid |-> Call("GETPID", 0, "res"),
     setpgid |-> Call("SETPGID", 2, "0"), getpgid |-> Call("GETPGID", 1, "res")]
SignalWrappers == [sigaction |-> Call("SIGACTION", 2, "0"), kill |-> Call("KILL", 2, "0")]
IdWrappers ==
    [getuid |-> Call("GETUID", 0, "raw"), setuid |-> Call("SETUID", 1, "raw"),
     setgid |-> Call("SETGID", 1, "raw"), setreuid |-> Call("SETREUID", 2, "raw"),
     setregid |-> Call("SETREGID", 2, "raw")]
TimeWrappers == [nanosleep |-> Call("NANOSLEEP", 2, "0"),
                 gettimeofday |-> Call("GETTIMEOFDAY", 2, "res")]
ClockWrappers == [clock_gettime |-> Call("CLOCK_GETTIME", 2, "res")]
SchedWrappers == [sched_yield |-> Call("SCHED_YIELD", 0, "raw"), nice |-> Call("NICE", 1, "0")]
SocketWrappers == [socket |-> Call("SOCKET", 3, "res"), bind |-> Call("BIND", 3, "0"),
                   connect |-> Call("CONNECT", 3, "0")]
ShbufWrappers ==
    [shared_buffer_create |-> Call("SHBUF_CREATE", 2, "both"),
     shared_buffer_get |-> Call("SHBUF_GET", 2, "both"),
     shared_buffer_free |-> Call("SHBUF_FREE", 1, "both")]
pthread_create == Call("PTHREAD_CREATE", 1, "0")
ioctl == Call("IOCTL", 3, "res")
ptrace == Call("PTRACE", 4, "0")
uname == Call("UNAME", 1, "0")
getdents == Call("GETDENTS", 3, "raw")

Wrappers ==
    FsWrappers @@ TaskWrappers @@ SignalWrappers @@ IdWrappers @@ TimeWrappers
    @@ ClockWrappers @@ SchedWrappers @@ SocketWrappers @@ ShbufWrappers
    @@ [pthread_create |-> pthread_create, ioctl |-> ioctl, ptrace |-> ptrace,
        uname |-> uname, getdents |-> getdents]

\* _syscall_impl: the registers the number and the five parameters go to; the
\* macros fill the parameters that a call does not have with 0.
_syscall_impl(a) ==
    CASE a = "i386"    -> <<"eax", "ebx", "ecx", "edx", "esi", "edi">>
      [] a = "x86_64"  -> <<"rax", "rdi", "rsi", "rdx", "r10", "r8">>
      [] a = "arm32"   -> <<"r7", "r0", "r1", "r2", "r3", "r4">>
      [] a = "arm64"   -> <<"x8", "x0", "x1", "x2", "x3", "x4">>
      [] a = "riscv64" -> <<"a7", "a0", "a1", "a2", "a3", "a4">>

LoadCall(a, regs, id, args) ==
    LET r == _syscall_impl(a)
        vals == <<id>> \o args \o [i \in 1 .. 5 - Len(args) |-> 0]
    IN  [x \in DOMAIN regs |->
           IF \E i \in 1 .. 6 : r[i] = x THEN vals[CHOOSE i \in 1 .. 6 : r[i] = x]
           ELSE regs[x]]

\* What the wrapper gives to the program and to errno for a handler's result.
RETURN_WITH_ERRNO(w, res, pid) ==
    LET c == Wrappers[w]
    IN  [value |-> CASE c.onSuc \in {"raw", "both"} -> res
                     [] c.onSuc \notin {"raw", "both"} /\ (res < 0 \/ c.onSuc = "fail") -> -1
                     [] c.onSuc = "res" /\ res >= 0 -> res
                     [] c.onSuc = "pid" /\ res >= 0 -> pid
                     [] c.onSuc = "0" /\ res >= 0 -> 0,
         errno |-> CASE c.onSuc = "raw" -> "kept" [] res < 0 -> "set" [] OTHER -> "clear"]
=============================================================================
