-------------------------------- MODULE Mmu --------------------------------
(* Page table entries of the five architectures: how the kernel's flags are  *)
(* encoded in an entry and read back (platform/*/vmm/mmu.c), and, external,  *)
(* what the hardware grants for an entry and reports of a fault.             *)
(*                                                                           *)
(* An entry is the set of its flag bits and its frame.  Flags: "R" and "W"   *)
(* and "X" permissions, "U" NONPRIV, "UC" UNCACHED, "COW", "HUGE".           *)
EXTENDS Integers, FiniteSets

Archs64 == {"x86_64", "arm64", "riscv64"}
Archs   == Archs64 \cup {"i386", "arm32"}

\* PTABLE_LV_TOP, and whether the kernel's half has a table of its own.
LvTop(a)  == CASE a \in {"i386", "arm32"} -> 1 [] a = "arm64" -> 2 [] OTHER -> 3
Double(a) == a = "arm64"

Entities(frames) == [bits : SUBSET (0 .. 11), frame : frames]
ZeroWord == [bits |-> {}, frame |-> 0]

LOCAL On(c, bits) == IF c THEN bits ELSE {}

-----------------------------------------------------------------------------
(* Flags to bits.  The default bits of arm32: a small page (1), ap1 = 0b01,  *)
(* c, b, s and tex = 0b001; of its tables: domain 0b0011.                    *)

DefaultArm64(lv) == On(lv = 0, {8, 9, 10})
DefaultArm32(lv) == IF lv = 0 THEN {1, 2, 3, 4, 6, 10} ELSE {5, 6}

DefaultBits(a, lv) ==
    CASE a = "arm64" -> DefaultArm64(lv)
      [] a = "arm32" -> DefaultArm32(lv)
      [] OTHER -> {}

Terminal(fl, lv) == lv = 0 \/ (lv \in {1, 2} /\ "HUGE" \in fl)

ToArchX64(fl, lv) ==
    IF Terminal(fl, lv)
    THEN On("R" \in fl, {0}) \cup On(lv > 0, {7}) \cup On("W" \in fl, {1})
           \cup On("U" \in fl, {2}) \cup On("UC" \in fl, {4})
    ELSE On("R" \in fl, {0, 1, 2})

ToArchArm64(fl, lv) ==
    IF Terminal(fl, lv)
    THEN On("R" \in fl, IF lv = 0 THEN {0, 1} ELSE {0}) \cup On("UC" \in fl, {2})
           \cup On("U" \in fl, {6}) \cup On("W" \notin fl, {7}) \cup {8, 9, 10}
    ELSE On("R" \in fl, {0, 1})

\* PERM_READ alone sets the read, the write and the execute bit.
ToArchRiscv(fl, lv) ==
    On("R" \in fl, {0}) \cup
    (IF Terminal(fl, lv)
     THEN On("R" \in fl, {1, 2, 3}) \cup On("W" \in fl, {2})
            \cup On("X" \in fl, {3}) \cup On("U" \in fl, {4})
     ELSE {})

ToArchI386(fl, lv) ==
    On("R" \in fl, {0}) \cup On("W" \in fl, {1}) \cup On("U" \in fl, {2})
      \cup On(lv = 0 /\ "UC" \in fl, {4}) \cup On(lv = 1 /\ "COW" \in fl, {10})

\* ap1 is bits 4 and 5: NONPRIV assigns 0b10, PERM_WRITE then adds 0b01.
ToArchArm32(fl, lv) ==
    IF lv = 0
    THEN ((DefaultArm32(0) \ (On("UC" \in fl, {3}) \cup On("U" \in fl, {4})))
            \cup On("U" \in fl, {5}) \cup On("W" \in fl, {4}) \cup On("R" \in fl, {1}))
    ELSE On("R" \in fl, {0}) \cup On("COW" \in fl, {9}) \cup DefaultArm32(1)

vm_mmu_to_arch_flags(a, fl, lv) ==
    CASE a = "x86_64"  -> ToArchX64(fl, lv)
      [] a = "arm64"   -> DefaultBits(a, lv) \cup ToArchArm64(fl, lv)
      [] a = "riscv64" -> ToArchRiscv(fl, lv)
      [] a = "i386"    -> ToArchI386(fl, lv)
      [] a = "arm32"   -> ToArchArm32(fl, lv)

-----------------------------------------------------------------------------
(* Bits to flags.                                                            *)

\* An entry of an upper level that maps no page reads back as writable by all.
ToMmuX64(b, lv) ==
    IF lv = 0 \/ (lv < 3 /\ 7 \in b)
    THEN On(lv > 0, {"HUGE"}) \cup On(0 \in b, {"R"}) \cup On(1 \in b, {"W"})
           \cup On(2 \in b, {"U"}) \cup On(4 \in b, {"UC"})
    ELSE On(0 \in b, {"R"}) \cup {"W", "U"}

ToMmuArm64(b, lv) ==
    LET common == On(b \cap {2, 3, 4} = {2}, {"UC"}) \cup On(7 \notin b, {"W"})
                    \cup On(6 \in b, {"U"})
    IN CASE lv = 0 -> On({0, 1} \subseteq b, {"R"}) \cup common
         [] lv \in {1, 2} /\ b \cap {0, 1} = {0} -> {"HUGE"} \cup common
         [] OTHER -> On({0, 1} \subseteq b, {"R"}) \cup {"W", "U"}

ToMmuRiscv(b, lv) ==
    IF lv = 0 \/ (lv < 3 /\ 1 \in b)
    THEN On(lv > 0, {"HUGE"}) \cup On(0 \in b, {"R"}) \cup On(2 \in b, {"W"})
           \cup On(3 \in b, {"X"}) \cup On(4 \in b, {"U"})
    ELSE On(0 \in b, {"R"}) \cup {"W", "U"}

ToMmuI386(b, lv) ==
    On(0 \in b, {"R"}) \cup On(1 \in b, {"W"}) \cup On(2 \in b, {"U"})
      \cup On(lv = 0 /\ 4 \in b, {"UC"}) \cup On(lv = 1 /\ 10 \in b, {"COW"})

ToMmuArm32(b, lv) ==
    IF lv = 0
    THEN On(1 \in b, {"R"}) \cup On(3 \notin b, {"UC"})
           \cup On(5 \in b, {"U"}) \cup On(b \cap {4, 5} # {5}, {"W"})
    ELSE {"R", "W", "U"} \cup On(9 \in b, {"COW"})

vm_arch_to_mmu_flags(a, b, lv) ==
    CASE a = "x86_64"  -> ToMmuX64(b, lv)
      [] a = "arm64"   -> ToMmuArm64(b, lv)
      [] a = "riscv64" -> ToMmuRiscv(b, lv)
      [] a = "i386"    -> ToMmuI386(b, lv)
      [] a = "arm32"   -> ToMmuArm32(b, lv)

-----------------------------------------------------------------------------
(* Operations on an entry.                                                   *)

Presence(p) == IF p THEN "present" ELSE "invalid"
StateX64(e)   == Presence(0 \in e.bits)
StateI386(e)  == Presence(0 \in e.bits)
StateRiscv(e) == Presence(0 \in e.bits)
StateArm64(e) == Presence({0, 1} \subseteq e.bits)

\* PTABLE_ENTITY_ALLOC: a table with ns and zero3 and not valid.
StateArm32(e, lv) ==
    CASE lv = 0 -> Presence(1 \in e.bits)
      [] lv = 1 /\ e.bits \cap (0 .. 8) = {3, 4, 5, 6} -> "alloc"
      [] OTHER -> Presence(0 \in e.bits)

vm_ptable_entity_state(a, e, lv) ==
    CASE a = "x86_64"  -> StateX64(e)
      [] a = "arm64"   -> StateArm64(e)
      [] a = "riscv64" -> StateRiscv(e)
      [] a = "i386"    -> StateI386(e)
      [] a = "arm32"   -> StateArm32(e, lv)

vm_ptable_entity_is_present(a, e, lv) == vm_ptable_entity_state(a, e, lv) = "present"
vm_ptable_entity_is_only_allocated(a, e, lv) ==
    a \in {"i386", "arm32"} /\ vm_ptable_entity_state(a, e, lv) = "alloc"

vm_ptable_entity_set_default_flags(a, lv) == [bits |-> DefaultBits(a, lv), frame |-> 0]

AllocatedArm32 == [bits |-> {3, 4, 5, 6}, frame |-> 0]

vm_ptable_entity_allocated(a, e) ==
    CASE a = "arm32" -> AllocatedArm32
      [] a = "arm64" -> e
      [] OTHER       -> ZeroWord

\* The flags are decoded, joined and encoded again; the frame stays.
vm_ptable_entity_set_mmu_flags(a, e, lv, fl) ==
    [e EXCEPT !.bits = vm_mmu_to_arch_flags(a, vm_arch_to_mmu_flags(a, e.bits, lv) \cup fl, lv)]

vm_ptable_entity_rm_mmu_flags(a, e, lv, fl) ==
    [e EXCEPT !.bits = vm_mmu_to_arch_flags(a, vm_arch_to_mmu_flags(a, e.bits, lv) \ fl, lv)]

vm_ptable_entity_set_frame(e, f) == [e EXCEPT !.frame = f]

\* The three calls every mapping is made of.
Entity(a, lv, fl, f) ==
    vm_ptable_entity_set_frame(
        vm_ptable_entity_set_mmu_flags(a, vm_ptable_entity_set_default_flags(a, lv), lv, fl), f)

-----------------------------------------------------------------------------
(* The hardware.                                                             *)

\* How the walk goes on at an entry: "page" for one that maps memory.
HwKind(a, e, lv) ==
    LET b == e.bits IN
    CASE a \in {"x86_64", "i386"} ->
            IF 0 \notin b THEN "fault"
            ELSE IF lv = 0 \/ (a = "x86_64" /\ lv < 3 /\ 7 \in b) THEN "page" ELSE "table"
      [] a = "arm64" ->
            CASE 0 \notin b -> "fault"
              [] lv = 0 -> IF {1, 10} \subseteq b THEN "page" ELSE "fault"
              [] OTHER -> IF 1 \in b THEN "table" ELSE IF 10 \in b THEN "page" ELSE "fault"
      [] a = "riscv64" ->
            CASE 0 \notin b \/ (2 \in b /\ 1 \notin b) -> "fault"
              [] b \cap {1, 3} # {} -> "page"
              [] OTHER -> IF lv = 0 THEN "fault" ELSE "table"
      [] a = "arm32" ->
            IF lv = 0 THEN (IF 1 \in b THEN "page" ELSE "fault")
            ELSE IF b \cap {0, 1} = {0} THEN "table" ELSE "fault"

\* What user code may do according to one entry.  On x86 the entries of the
\* upper levels restrict as well.
HwUser(a, e, lv) ==
    CASE a \in {"x86_64", "i386"} -> 2 \in e.bits
      [] a = "arm64"   -> HwKind(a, e, lv) = "table" \/ 6 \in e.bits
      [] a = "riscv64" -> HwKind(a, e, lv) = "table" \/ 4 \in e.bits
      [] a = "arm32"   -> lv = 1 \/ 5 \in e.bits

HwWritable(a, e, lv) ==
    CASE a \in {"x86_64", "i386"} -> 1 \in e.bits
      [] a = "arm64"   -> HwKind(a, e, lv) = "table" \/ 7 \notin e.bits
      [] a = "riscv64" -> HwKind(a, e, lv) = "table" \/ 2 \in e.bits
      [] a = "arm32"   -> lv = 1 \/ {4, 5} \subseteq e.bits \/ 5 \notin e.bits

\* The fault information for an access of user code: error code, ESR (class
\* and ISS), DFSR, or scause, as the set of its bits; on riscv64 the number.
HwPfInfo(a, absent, write) ==
    CASE a \in {"x86_64", "i386"} -> {2} \cup On(write, {1}) \cup On(~absent, {0})
      [] a = "arm64" -> {31, 28} \cup On(write, {6})
                          \cup (IF absent THEN {2, 0} ELSE {3, 2, 0})
      [] a = "riscv64" -> IF write THEN {15} ELSE {13}
      [] a = "arm32" -> On(write, {11}) \cup (IF absent THEN {2, 1, 0} ELSE {3, 2, 1, 0})

-----------------------------------------------------------------------------
(* What the handler makes of it.                                             *)

ParseX64(info) ==
    On(2 \in info, {"nonpriv"}) \cup On(1 \in info, {"write"}) \cup On(0 \notin info, {"absent"})

ParseI386(info) == ParseX64(info)

ParseArm64(info) ==
    On(26 \notin info, {"nonpriv"}) \cup On(6 \in info, {"write"})
      \cup On(info \cap (2 .. 5) = {2}, {"absent"})
      \cup On(info \cap (3 .. 5) = {3}, {"security"})

\* An absent page and a refused access have the same numbers.
ParseRiscv(info) ==
    CASE info \in {{1}, {5}} -> {"absent", "security"}
      [] info = {7}  -> {"absent", "write", "security"}
      [] info \in {{12}, {13}} -> {"absent"}
      [] info = {15} -> {"absent", "write"}
      [] OTHER -> {"security"}

ParseArm32(info) ==
    On(31 \notin info, {"nonpriv"}) \cup On(11 \in info, {"write"})
      \cup On(info \cap {0, 2, 3} = {0, 2}, {"absent"})
      \cup On(info \cap (0 .. 3) = 0 .. 3, {"security"})

vm_arch_parse_pf_info(a, info) ==
    CASE a = "x86_64"  -> ParseX64(info)
      [] a = "arm64"   -> ParseArm64(info)
      [] a = "riscv64" -> ParseRiscv(info)
      [] a = "i386"    -> ParseI386(info)
      [] a = "arm32"   -> ParseArm32(info)
=============================================================================
