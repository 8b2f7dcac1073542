----------------------------- MODULE VmmProofs -----------------------------
(* HoldingInv is inductive, one lemma per action, so frames are private.     *)
EXTENDS VmmFrames

\* The entries of a cleared table.
LEMMA EmptyIsTyped == None \in Entries /\ Empty \in [Idx -> Entries]
<1>1. None \in Entries
  BY DEF None, Entries
<1> QED  BY <1>1 DEF Empty

\* A process that runs user code has no job.
LEMMA UserHasNoJob ==
    ASSUME HoldingInv, NEW p \in Procs, InUser(p)
    PROVE  /\ p \in live /\ halted = "" /\ cpu \in {0, p} /\ k[p] = Idle
           /\ ~Busy(p) /\ ~Copying(p) /\ Spare(p) = 0
BY DEF InUser, Busy, Copying, Spare

\* A fault, or a copy function of the kernel, begins.
LEMMA JobStarts ==
    ASSUME HoldingInv, NEW p \in Procs, InUser(p), NEW a \in live, k[a] = Idle,
           NEW pg \in Pages, NEW at \in {"src", "absent", "check", "fail"},
           NEW then \in {"absent", "return", "check"}, NEW last \in {"return", "store"},
           NEW v \in Values, Goto(p, Job(p, a, pg, at, then, last, v)),
           at = "src" => vmm_is_copy_on_write(a, pg),
           at \in {"absent", "check"} => ~vmm_is_copy_on_write(a, pg),
           at = "fail" => a = p, a # p => ZoneKind[pg] = "anon",
           at \in {"absent", "check"} \/ then \in {"absent", "check"} =>
              ~(ZoneKind[pg] = "dev" /\ a \in devz),
           UNCHANGED <<boot, spaces, devz, live, pdir, base, table, mem, free, swap, ksw, halted>>
    PROVE  HoldingInv'
<1> DEFINE j == Job(p, a, pg, at, then, last, v)
<1>1. a \in Procs /\ spaces \in Nat
  BY DEF HoldingInv, TypeOK
<1>2. /\ j \in Jobs /\ j.at = at /\ j.as = a /\ j.pg = pg /\ j.then = then
      /\ j.idx = 1 /\ j.spare = 0
  <2>1. at \in Stages /\ then \in {"absent", "return", "check", "fork", "exec"}
    BY DEF Stages
  <2>2. 0 \in 0 .. NFrames
    BY VmmAssumption
  <2> QED  BY <1>1, <2>1, <2>2, EmptyIsTyped DEF Job, Jobs
<1> HIDE DEF j
<1>3. p \in live /\ halted = "" /\ cpu \in {0, p} /\ ~Copying(p) /\ Spare(p) = 0
  BY UserHasNoJob
<1>4. InStep(p, j)'
  BY <1>2 DEF InStep, vmm_is_copy_on_write
<1>5. LoadsNoDevice(j)
  <2>1. pg = <<pg[1], pg[2]>>
    BY DEF Pages
  <2> QED  BY <1>2, <2>1 DEF LoadsNoDevice, ToLoad, IsDev
<1>6. ~Forking(p, j.idx)'
  <2>1. k'[p] = j
    BY <1>2, GotoIsTyped DEF HoldingInv, j
  <2> QED  BY <1>2, <2>1 DEF Forking
<1>7. Goto(p, j)
  BY DEF j
<1>8. \A i \in Idx : OnFile(j.src[i])
  BY DEF j, Job, Empty, None, OnFile
<1> QED  BY <1>1, <1>2, <1>3, <1>4, <1>5, <1>6, <1>7, <1>8, QuietJob

\* A page of the device that a process with its zone misses does not exist.
LEMMA AbsentIsNoDevice ==
    ASSUME HoldingInv, NEW p \in Procs, InUser(p), NEW pg \in Pages,
           ~vmm_is_page_present(p, pg)
    PROVE  ~(ZoneKind[pg] = "dev" /\ p \in devz)
<1> SUFFICES ASSUME ZoneKind[pg] = "dev", p \in devz PROVE FALSE
  OBVIOUS
<1>1. pg = <<pg[1], pg[2]>> /\ pg[1] \in Tables /\ pg[2] \in Idx
  BY DEF Pages
<1>2. IsDev(pg[1], pg[2])
  BY <1>1 DEF IsDev
<1>3. Maps(p, pg[1], pg[2])
  BY <1>1, <1>2, UserHasNoJob, DeviceIsMapped
<1> QED  BY <1>3 DEF Maps, Tab, vmm_is_page_present, Entry

\* The page fault of an absent page keeps the invariant.
LEMMA FaultNotPresentStep ==
    ASSUME HoldingInv, NEW p \in Procs, NEW pg \in Pages, FaultNotPresent(p, pg)
    PROVE  HoldingInv'
<1>1. InUser(p) /\ p \in live /\ k[p] = Idle /\ Zero \in Values
  BY VmmAssumption DEF FaultNotPresent, InUser
<1>2. ~(ZoneKind[pg] = "dev" /\ p \in devz)
  BY <1>1, AbsentIsNoDevice DEF FaultNotPresent
<1>3. CASE vmm_is_copy_on_write(p, pg)
  <2>1. Goto(p, Job(p, p, pg, "src", "absent", "return", Zero))
    BY <1>3 DEF FaultNotPresent
  <2> QED  BY <1>1, <1>2, <1>3, <2>1, JobStarts DEF FaultNotPresent
<1>4. CASE ~vmm_is_copy_on_write(p, pg)
  <2>1. Goto(p, Job(p, p, pg, "absent", "absent", "return", Zero))
    BY <1>4 DEF FaultNotPresent
  <2> QED  BY <1>1, <1>2, <1>4, <2>1, JobStarts DEF FaultNotPresent
<1> QED  BY <1>3, <1>4

\* The page fault of a store to a read-only page keeps the invariant.
LEMMA FaultOnWritingStep ==
    ASSUME HoldingInv, NEW p \in Procs, NEW pg \in Pages, FaultOnWriting(p, pg)
    PROVE  HoldingInv'
<1>1. InUser(p) /\ p \in live /\ k[p] = Idle /\ Zero \in Values
  BY VmmAssumption DEF FaultOnWriting, InUser
<1>2. CASE vmm_is_copy_on_write(p, pg)
  <2>1. Goto(p, Job(p, p, pg, "src", "return", "return", Zero))
    BY <1>2 DEF FaultOnWriting
  <2> QED  BY <1>1, <1>2, <2>1, JobStarts DEF FaultOnWriting
<1>3. CASE ~vmm_is_copy_on_write(p, pg)
  <2>1. Goto(p, Job(p, p, pg, "fail", "return", "return", Zero))
    BY <1>3 DEF FaultOnWriting
  <2> QED  BY <1>1, <1>3, <2>1, JobStarts DEF FaultOnWriting
<1> QED  BY <1>2, <1>3

\* The copy of the kernel to user memory begins.
LEMMA KernelStoreStep ==
    ASSUME HoldingInv, NEW p \in Procs, NEW q \in Procs, NEW pg \in Pages, NEW v \in Values,
           KernelStore(p, q, pg, v)
    PROVE  HoldingInv'
<1>1. InUser(p) /\ q \in live /\ k[q] = Idle /\ ZoneKind[pg] = "anon"
  BY DEF KernelStore
<1>2. CASE vmm_is_copy_on_write(q, pg)
  <2>1. Goto(p, Job(p, q, pg, "src", "check", "store", v))
    BY <1>2 DEF KernelStore
  <2> QED  BY <1>1, <1>2, <2>1, JobStarts DEF KernelStore
<1>3. CASE ~vmm_is_copy_on_write(q, pg)
  <2>1. Goto(p, Job(p, q, pg, "check", "check", "store", v))
    BY <1>3 DEF KernelStore
  <2> QED  BY <1>1, <1>3, <2>1, JobStarts DEF KernelStore
<1> QED  BY <1>2, <1>3

\* The machine stops: nothing moves.
LEMMA StopStep ==
    ASSUME HoldingInv, halted' \in {"cow", "pspace", "space"}, cpu' \in {cpu, 0},
           UNCHANGED <<boot, spaces, devz, live, pdir, base, table, mem, free, swap, k, ksw>>
    PROVE  HoldingInv'
<1>1. TypeOK'
  <2>1. cpu \in 0 .. NProcs
    BY DEF HoldingInv, TypeOK
  <2>2. cpu' \in 0 .. NProcs
    BY <2>1, VmmAssumption
  <2> QED  BY <2>2 DEF HoldingInv, TypeOK
<1>2. JobInv'
  <2>1. OneJobPerSpace'
    BY DEF HoldingInv, JobInv, OneJobPerSpace, Busy
  <2> QED  BY <2>1, JobsUnmoved DEF JobInv
<1>3. DeviceInv'
  BY DEF HoldingInv, DeviceInv, DeviceFrame, DeviceMapped, DeviceNotLoaded, Maps, Ref, Tab,
         SourceHasDevice, LoadsNoDevice, ToLoad, Pending, Copying, Busy
<1>4. RoleInv' /\ ShareInv'
  <2>1. \A q \in Procs : Spare(q)' = Spare(q)
    BY DEF Spare, Busy
  <2> QED  BY <2>1, FramesUntouched
<1>5. SwapInv'
  BY DEF HoldingInv, SwapInv, OnFile, Busy
<1> QED  BY <1>1, <1>2, <1>3, <1>4, <1>5 DEF HoldingInv

\* The copy of the kernel from user memory begins.
LEMMA KernelLoadStep ==
    ASSUME HoldingInv, NEW p \in Procs, NEW pg \in Pages, KernelLoad(p, pg)
    PROVE  HoldingInv'
<1>1. InUser(p) /\ p \in live /\ k[p] = Idle /\ Zero \in Values
  BY VmmAssumption DEF KernelLoad, InUser
<1>2. ~(ZoneKind[pg] = "dev" /\ p \in devz)
  BY <1>1, AbsentIsNoDevice DEF KernelLoad
<1>3. CASE vmm_is_copy_on_write(p, pg)
  BY <1>3, StopStep DEF KernelLoad
<1>4. CASE ~vmm_is_copy_on_write(p, pg)
  <2>1. Goto(p, Job(p, p, pg, "absent", "return", "return", Zero))
    BY <1>4 DEF KernelLoad
  <2> QED  BY <1>1, <1>2, <1>4, <2>1, JobStarts DEF KernelLoad
<1> QED  BY <1>3, <1>4

\* What holds of a process that runs kernel code.
LEMMA RunningJob ==
    ASSUME HoldingInv, NEW p \in Procs, Runs(p), k[p].at \in Stages
    PROVE  /\ halted = "" /\ cpu \in {0, p} /\ Busy(p) /\ k[p] \in Jobs /\ p \in live
           /\ InStep(p, k[p]) /\ k[p].as \in live /\ (k[p].as # p => k[k[p].as] = Idle)
           /\ LoadsNoDevice(k[p]) /\ SourceHasDevice(k[p])
           /\ Spare(p) = k[p].spare /\ \A i \in Idx : OnFile(k[p].src[i])
<1>1. halted = "" /\ cpu \in {0, p}
  BY DEF Runs
<1>2. Busy(p) /\ k[p] \in Jobs /\ Spare(p) = k[p].spare
  BY JobIsTyped DEF HoldingInv, Spare
<1>3. p \in live
  BY <1>2 DEF HoldingInv, JobInv, DeadHoldNothing, Busy
<1>4. InStep(p, k[p]) /\ k[p].as \in live /\ (k[p].as # p => k[k[p].as] = Idle)
  BY <1>2 DEF HoldingInv, JobInv, JobsInStep, OneJobPerSpace
<1>5. LoadsNoDevice(k[p]) /\ SourceHasDevice(k[p])
  BY <1>2 DEF HoldingInv, DeviceInv, DeviceNotLoaded, DeviceFrame
<1>6. \A i \in Idx : OnFile(k[p].src[i])
  BY <1>2 DEF HoldingInv, SwapInv
<1> QED  BY <1>1, <1>2, <1>3, <1>4, <1>5, <1>6

\* _vmm_ensure_present keeps the invariant.
LEMMA EnsurePresentStep ==
    ASSUME HoldingInv, NEW p \in Procs, EnsurePresent(p)
    PROVE  HoldingInv'
<1>0. PICK j : j = k[p]
  OBVIOUS
<1> DEFINE at == IF vmm_is_page_present(j.as, j.pg) THEN j.last ELSE "absent"
<1>1. Runs(p) /\ j.at = "check" /\ j.at \in Stages /\ Goto(p, [j EXCEPT !.at = at])
  BY <1>0 DEF EnsurePresent, Stages
<1>2. /\ halted = "" /\ cpu \in {0, p} /\ j \in Jobs /\ p \in live /\ Busy(p)
      /\ InStep(p, j) /\ j.as \in live /\ (j.as # p => k[j.as] = Idle)
      /\ LoadsNoDevice(j) /\ Spare(p) = j.spare /\ \A i \in Idx : OnFile(j.src[i])
  BY <1>0, <1>1, RunningJob
<1>3. at \in {"return", "store", "absent"} /\ at \in Stages
  BY <1>2 DEF Jobs, Stages
<1> HIDE DEF at
<1>A. PICK new : new = [j EXCEPT !.at = at]
  OBVIOUS
<1>4. /\ new \in Jobs /\ Goto(p, new) /\ new.at = at /\ new.as = j.as /\ new.pg = j.pg
      /\ new.then = j.then /\ new.idx = j.idx /\ new.spare = j.spare
      /\ new.src = j.src
  BY <1>1, <1>2, <1>3, <1>A DEF Jobs
<1>5. j.spare = 0 /\ ~Copying(p) /\ Spare(p) = 0
  BY <1>0, <1>1, <1>2 DEF InStep, Copying
<1>6. UNCHANGED <<boot, live, pdir, base, table, mem, free, swap, ksw, devz, halted, spaces>>
  BY DEF EnsurePresent
<1>7. InStep(p, new)'
  BY <1>1, <1>2, <1>3, <1>4, <1>5, <1>6 DEF InStep
<1>8. LoadsNoDevice(new)
  BY <1>1, <1>2, <1>3, <1>4 DEF LoadsNoDevice, ToLoad
<1>9. ~Forking(p, new.idx)'
  <2>1. k'[p] = new
    BY <1>1, <1>4, GotoIsTyped DEF HoldingInv
  <2> QED  BY <1>3, <1>4, <2>1 DEF Forking
<1>10. spaces' \in Nat
  BY <1>6 DEF HoldingInv, TypeOK
<1> QED  BY <1>1, <1>2, <1>3, <1>4, <1>5, <1>6, <1>7, <1>8, <1>9, <1>10, QuietJob

\* The look for the zone of an absent page keeps the invariant.
LEMMA FindZoneStep ==
    ASSUME HoldingInv, NEW p \in Procs, FindZone(p)
    PROVE  HoldingInv'
<1>0. PICK j : j = k[p]
  OBVIOUS
<1> DEFINE at == IF Zone(j.as, j.pg) = "none" THEN "fail" ELSE "page"
<1>1. Runs(p) /\ j.at = "absent" /\ j.at \in Stages /\ Goto(p, [j EXCEPT !.at = at])
  BY <1>0 DEF FindZone, Stages
<1>2. /\ halted = "" /\ cpu \in {0, p} /\ j \in Jobs /\ p \in live /\ Busy(p)
      /\ InStep(p, j) /\ j.as \in live /\ (j.as # p => k[j.as] = Idle)
      /\ LoadsNoDevice(j) /\ Spare(p) = j.spare /\ \A i \in Idx : OnFile(j.src[i])
  BY <1>0, <1>1, RunningJob
<1>3. /\ at \in {"fail", "page"} /\ at \in Stages
      /\ j.as # p => at = "page"
      /\ at = "page" => ~IsDev(j.pg[1], j.pg[2])
  <2>1. j.pg = <<j.pg[1], j.pg[2]>>
    <3>1. j.pg \in Pages
      BY <1>2 DEF Jobs
    <3> QED  BY <3>1 DEF Pages
  <2>2. j.as # p => at = "page"
    BY <1>1, <1>2 DEF InStep, Zone
  <2>3. at = "page" => ~IsDev(j.pg[1], j.pg[2])
    BY <1>1, <1>2, <2>1 DEF LoadsNoDevice, ToLoad, IsDev, Zone
  <2> QED  BY <2>2, <2>3 DEF Stages
<1> HIDE DEF at
<1>A. PICK new : new = [j EXCEPT !.at = at]
  OBVIOUS
<1>4. /\ new \in Jobs /\ Goto(p, new) /\ new.at = at /\ new.as = j.as /\ new.pg = j.pg
      /\ new.then = j.then /\ new.idx = j.idx /\ new.spare = j.spare
      /\ new.src = j.src
  BY <1>1, <1>2, <1>3, <1>A DEF Jobs
<1>5. j.spare = 0 /\ ~Copying(p) /\ Spare(p) = 0
  BY <1>0, <1>1, <1>2 DEF InStep, Copying
<1>6. UNCHANGED <<boot, live, pdir, base, table, mem, free, swap, ksw, devz, halted, spaces>>
  BY DEF FindZone
<1>7. InStep(p, new)'
  BY <1>1, <1>2, <1>3, <1>4, <1>5, <1>6 DEF InStep
<1>8. LoadsNoDevice(new)
  BY <1>3, <1>4 DEF LoadsNoDevice, ToLoad
<1>9. ~Forking(p, new.idx)'
  <2>1. k'[p] = new
    BY <1>1, <1>4, GotoIsTyped DEF HoldingInv
  <2> QED  BY <1>3, <1>4, <2>1 DEF Forking
<1>10. spaces' \in Nat
  BY <1>6 DEF HoldingInv, TypeOK
<1> QED  BY <1>1, <1>2, <1>3, <1>4, <1>5, <1>6, <1>7, <1>8, <1>9, <1>10, QuietJob

\* fork and exec, before the new address space is allocated.
LEMMA StartSpaceStep ==
    ASSUME HoldingInv, NEW p \in Procs, NEW c \in Procs, NEW what \in {"fork", "exec"},
           StartSpace(p, what, c)
    PROVE  HoldingInv'
<1> DEFINE j == [Job(p, p, <<1, 1>>, "pdir", what, "return", Zero) EXCEPT !.idx = c]
<1>1. InUser(p) /\ Goto(p, j)
  BY DEF StartSpace
<1>2. p \in live /\ halted = "" /\ cpu \in {0, p} /\ ~Copying(p) /\ Spare(p) = 0
  BY <1>1, UserHasNoJob
<1>3. /\ j \in Jobs /\ j.at = "pdir" /\ j.as = p /\ j.then = what /\ j.idx = c /\ j.spare = 0
  <2>1. <<1, 1>> \in Pages
    BY VmmAssumption DEF Pages, Tables, Idx
  <2>2. 0 \in 0 .. NFrames /\ c \in Nat /\ Zero \in Values
    BY VmmAssumption, ProcFacts
  <2> QED  BY <2>1, <2>2, EmptyIsTyped DEF Job, Jobs, Stages
<1>4. UNCHANGED <<boot, live, pdir, base, table, mem, free, swap, ksw, devz, halted>>
  BY DEF StartSpace
<1>5. spaces' \in Nat
  <2>1. spaces \in Nat
    BY DEF HoldingInv, TypeOK
  <2> QED  BY <2>1 DEF StartSpace
<1> HIDE DEF j
<1>6. InStep(p, j)'
  BY <1>3, <1>4 DEF InStep, StartSpace
<1>7. LoadsNoDevice(j)
  BY <1>3 DEF LoadsNoDevice, ToLoad
<1>8. \A q \in Procs : Forking(p, j.idx)' /\ q # p => ~Forking(q, j.idx)
  <2>1. k'[p] = j
    BY <1>1, <1>3, GotoIsTyped DEF HoldingInv
  <2>2. Forking(p, j.idx)' => what = "fork"
    BY <1>3, <2>1 DEF Forking
  <2> QED  BY <1>3, <2>2 DEF StartSpace
<1>9. \A i \in Idx : OnFile(j.src[i])
  BY DEF j, Job, Empty, None, OnFile
<1> QED  BY <1>1, <1>2, <1>3, <1>4, <1>5, <1>6, <1>7, <1>8, <1>9, QuietJob

\* The end of a job that copies no table and holds no frame.
LEMMA QuietEnd ==
    ASSUME HoldingInv, NEW p \in Procs, Leave(p), halted = "", cpu \in {0, p},
           ~Copying(p), Spare(p) = 0,
           UNCHANGED <<boot, spaces, devz, live, pdir, base, table, free, swap, ksw, halted>>,
           mem' \in [Frames \cup {DevFrame} -> Values]
    PROVE  HoldingInv'
<1>1. /\ k' \in [Procs -> {Idle} \cup Jobs] /\ cpu' \in 0 .. NProcs
      /\ k'[p] = Idle /\ \A q \in Procs \ {p} : k'[q] = k[q]
  BY LeaveIsTyped DEF HoldingInv
<1>2. TypeOK'
  BY <1>1 DEF HoldingInv, TypeOK
<1>3. JobInv'
  <2>1. DeadHoldNothing'
    BY <1>1 DEF HoldingInv, JobInv, DeadHoldNothing
  <2>2. \A r \in Procs : r # p /\ Busy(r) =>
              /\ r \in live' /\ \A t \in Tables : pdir'[r][t] = pdir[r][t]
              /\ k[r].at = "pdir" /\ k[r].then = "fork" => k[r].idx \notin live'
    BY OthersWorkAtHome DEF HoldingInv, JobInv, JobsInStep, InStep
  <2> QED  BY <2>1, <2>2, JobEnds
<1>4. \A q \in Procs : Spare(q)' = Spare(q)
  BY <1>1 DEF Spare, Busy
<1>5. RoleInv' /\ ShareInv'
  BY <1>4, FramesUntouched
<1>6. ~Busy(p)' /\ ~Copying(p)'
  BY <1>1 DEF Busy, Copying
<1>7. DeviceInv'
  BY <1>1, <1>6, DeviceUntouched
<1>8. SwapInv'
  BY <1>1, <1>6, SwapUntouched
<1> QED  BY <1>2, <1>3, <1>5, <1>7, <1>8 DEF HoldingInv

\* The return to user mode.
LEMMA ReturnStep ==
    ASSUME HoldingInv, NEW p \in Procs, Return(p)
    PROVE  HoldingInv'
<1>1. Runs(p) /\ k[p].at = "return" /\ k[p].at \in Stages
  BY DEF Return, Stages
<1>2. halted = "" /\ cpu \in {0, p} /\ InStep(p, k[p]) /\ Spare(p) = k[p].spare
  BY <1>1, RunningJob
<1>3. ~Copying(p) /\ Spare(p) = 0
  BY <1>1, <1>2 DEF Copying, InStep
<1>4. mem' \in [Frames \cup {DevFrame} -> Values]
  BY DEF Return, HoldingInv, TypeOK
<1> QED  BY <1>2, <1>3, <1>4, QuietEnd DEF Return

\* The copy to user memory, once the page is there.
LEMMA CopyToUserStep ==
    ASSUME HoldingInv, NEW p \in Procs, CopyToUser(p)
    PROVE  HoldingInv'
<1>1. Runs(p) /\ k[p].at = "store" /\ k[p].at \in Stages
  BY DEF CopyToUser, Stages
<1>2. /\ halted = "" /\ cpu \in {0, p} /\ InStep(p, k[p]) /\ Spare(p) = k[p].spare
      /\ k[p] \in Jobs
  BY <1>1, RunningJob
<1>3. ~Copying(p) /\ Spare(p) = 0
  BY <1>1, <1>2 DEF Copying, InStep
<1>4. mem' \in [Frames \cup {DevFrame} -> Values]
  <2>1. mem \in [Frames \cup {DevFrame} -> Values]
    BY DEF HoldingInv, TypeOK
  <2>2. k[p].val \in Values
    BY <1>2 DEF Jobs
  <2> QED  BY <2>1, <2>2 DEF CopyToUser
<1> QED  BY <1>2, <1>3, <1>4, QuietEnd DEF CopyToUser

\* Steps that move neither jobs nor frames.
LEMMA NothingMoves ==
    ASSUME HoldingInv, halted' = halted,
           UNCHANGED <<boot, spaces, devz, live, pdir, base, table, free, swap, k>>,
           cpu' \in {cpu, 0},
           cpu' # cpu => \A p \in Procs : Busy(p) => k[p].as = p,
           mem' \in [Frames \cup {DevFrame} -> Values],
           ksw' \in [awake : BOOLEAN, pid : Procs, perpid : Nat, run : Nat]
    PROVE  HoldingInv'
<1>1. TypeOK'
  <2>1. cpu \in 0 .. NProcs
    BY DEF HoldingInv, TypeOK
  <2>2. cpu' \in 0 .. NProcs
    BY <2>1, VmmAssumption
  <2> QED  BY <2>2 DEF HoldingInv, TypeOK
<1>2. JobInv'
  <2>1. DeadHoldNothing' /\ JobsInStep' /\ ForksApart'
    BY JobsUnmoved
  <2>2. OneJobPerSpace'
    <3>1. CASE cpu' = cpu
      BY <3>1 DEF HoldingInv, JobInv, OneJobPerSpace, Busy
    <3>2. CASE cpu' # cpu
      BY <3>2 DEF HoldingInv, JobInv, OneJobPerSpace, Busy
    <3> QED  BY <3>1, <3>2
  <2> QED  BY <2>1, <2>2 DEF JobInv
<1>3. DeviceInv'
  BY DEF HoldingInv, DeviceInv, DeviceFrame, DeviceMapped, DeviceNotLoaded, Maps, Ref, Tab,
         SourceHasDevice, LoadsNoDevice, ToLoad, Pending, Copying, Busy
<1>4. RoleInv' /\ ShareInv'
  <2>1. \A q \in Procs : Spare(q)' = Spare(q)
    BY DEF Spare, Busy
  <2> QED  BY <2>1, FramesUntouched
<1>5. SwapInv'
  BY DEF HoldingInv, SwapInv, OnFile, Busy
<1> QED  BY <1>1, <1>2, <1>3, <1>4, <1>5 DEF HoldingInv

\* A store of a user program.
LEMMA UserStoreStep ==
    ASSUME HoldingInv, NEW p \in Procs, NEW pg \in Pages, NEW v \in Values, UserStore(p, pg, v)
    PROVE  HoldingInv'
<1>1. mem' \in [Frames \cup {DevFrame} -> Values]
  <2>1. mem \in [Frames \cup {DevFrame} -> Values]
    BY DEF HoldingInv, TypeOK
  <2> QED  BY <2>1 DEF UserStore
<1>2. ksw' \in [awake : BOOLEAN, pid : Procs, perpid : Nat, run : Nat]
  BY DEF UserStore, HoldingInv, TypeOK
<1> QED  BY <1>1, <1>2, NothingMoves DEF UserStore

\* A process sleeps until a frame is free.
LEMMA SleepStep ==
    ASSUME HoldingInv, NEW p \in Procs, Sleep(p)
    PROVE  HoldingInv'
<1>1. /\ mem' \in [Frames \cup {DevFrame} -> Values]
      /\ ksw' \in [awake : BOOLEAN, pid : Procs, perpid : Nat, run : Nat]
  BY DEF Sleep, HoldingInv, TypeOK
<1>2. CASE k[p].as = p
  <2>1. \A q \in Procs : Busy(q) => k[q].as = q
    BY <1>2, OthersWorkAtHome DEF Sleep
  <2>2. halted' = halted
    BY <1>2 DEF Sleep
  <2> QED  BY <1>1, <2>1, <2>2, NothingMoves DEF Sleep
<1>3. CASE k[p].as # p
  BY <1>3, StopStep DEF Sleep
<1> QED  BY <1>2, <1>3

\* kswapd passes on to another process or sleeps.
LEMMA KswapdQuietStep ==
    ASSUME HoldingInv, KswapdWake \/ KswapdNext
    PROVE  HoldingInv'
<1>1. /\ mem \in [Frames \cup {DevFrame} -> Values]
      /\ ksw \in [awake : BOOLEAN, pid : Procs, perpid : Nat, run : Nat]
  BY DEF HoldingInv, TypeOK
<1>2. CASE KswapdWake
  <2>1. ksw' \in [awake : BOOLEAN, pid : Procs, perpid : Nat, run : Nat]
    BY <1>1, <1>2 DEF KswapdWake
  <2> QED  BY <1>1, <1>2, <2>1, NothingMoves DEF KswapdWake
<1>3. CASE KswapdNext
  <2>1. Asleep \in [awake : BOOLEAN, pid : Procs, perpid : Nat, run : Nat]
    BY VmmAssumption DEF Asleep, Procs
  <2>2. ksw.pid \in Procs /\ (ksw.pid # NProcs => ksw.pid + 1 \in Procs)
    BY <1>1, VmmAssumption DEF Procs
  <2>3. ksw' \in [awake : BOOLEAN, pid : Procs, perpid : Nat, run : Nat]
    BY <1>1, <1>3, <2>1, <2>2 DEF KswapdNext
  <2> QED  BY <1>1, <1>3, <2>3, NothingMoves DEF KswapdNext
<1> QED  BY <1>2, <1>3

\* A job, field by field.
LEMMA JobIsFields ==
    ASSUME NEW j \in Jobs
    PROVE  /\ j.at \in Stages /\ j.as \in Procs /\ j.pg \in Pages
           /\ j.pg[1] \in Tables /\ j.pg[2] \in Idx /\ j.pg = <<j.pg[1], j.pg[2]>>
           /\ j.then \in {"absent", "return", "check", "fork", "exec"}
           /\ j.last \in {"return", "store"} /\ j.val \in Values
           /\ j.src \in [Idx -> Entries] /\ j.idx \in Nat /\ j.spare \in 0 .. NFrames
<1>1. /\ j.at \in Stages /\ j.as \in Procs /\ j.pg \in Pages
      /\ j.then \in {"absent", "return", "check", "fork", "exec"}
      /\ j.last \in {"return", "store"} /\ j.val \in Values
      /\ j.src \in [Idx -> Entries] /\ j.idx \in Nat /\ j.spare \in 0 .. NFrames
  BY DEF Jobs
<1>2. j.pg[1] \in Tables /\ j.pg[2] \in Idx /\ j.pg = <<j.pg[1], j.pg[2]>>
  BY <1>1 DEF Pages
<1> QED  BY <1>1, <1>2

\* A free frame f becomes table t0 of space a.
LEMMA DirectoryExtended ==
    ASSUME HoldingInv, NEW a \in Procs, NEW t0 \in Tables, NEW f \in Frames,
           pdir' = [pdir EXCEPT ![a][t0] = [tab |-> f, cow |-> FALSE]]
    PROVE  /\ pdir' \in [Procs -> [Tables -> [tab : 0 .. NFrames, cow : BOOLEAN]]]
           /\ pdir'[a][t0].tab = f /\ ~pdir'[a][t0].cow /\ Tab(a, t0)' = f
           /\ \A q \in Procs, t \in Tables : ~(q = a /\ t = t0) =>
                 pdir'[q][t] = pdir[q][t] /\ Tab(q, t)' = Tab(q, t)
           /\ \A q \in Procs \ {a}, t \in Tables : pdir'[q][t] = pdir[q][t]
<1>1. pdir \in [Procs -> [Tables -> [tab : 0 .. NFrames, cow : BOOLEAN]]]
  BY DEF HoldingInv, TypeOK
<1>2. f \in 0 .. NFrames
  BY FrameFacts DEF Frames
<1>3. [tab |-> f, cow |-> FALSE] \in [tab : 0 .. NFrames, cow : BOOLEAN]
  BY <1>2
<1>4. pdir' \in [Procs -> [Tables -> [tab : 0 .. NFrames, cow : BOOLEAN]]]
  BY <1>1, <1>3
<1>5. /\ pdir'[a][t0] = [tab |-> f, cow |-> FALSE]
      /\ \A q \in Procs, t \in Tables : ~(q = a /\ t = t0) => pdir'[q][t] = pdir[q][t]
  BY <1>1
<1> QED  BY <1>4, <1>5 DEF Tab

\* Abbreviates a step's effect on the tables, so that it is expanded only where needed.
SetsEntry(f, i, e) == table' = [table EXCEPT ![f][i] = e]

\* Entry i0 of table t0, which is process a's alone, is set to e.
LEMMA EntryEffect ==
    ASSUME HoldingInv, NEW a \in Procs, NEW t0 \in Tables, NEW i0 \in Idx, NEW e \in Entries,
           Tab(a, t0) # 0, ~pdir[a][t0].cow, UNCHANGED pdir,
           SetsEntry(Tab(a, t0), i0, e)
    PROVE  /\ table' \in [Frames -> [Idx -> Entries]]
           /\ Maps(a, t0, i0)' <=> e.st = "present"
           /\ Ref(a, t0, i0)' = e.ref
           /\ \A q \in Procs, t \in Tables, i \in Idx : ~(q = a /\ t = t0 /\ i = i0) =>
                /\ Maps(q, t, i)' <=> Maps(q, t, i)
                /\ Maps(q, t, i) => Ref(q, t, i)' = Ref(q, t, i)
           /\ \A f \in Frames, i \in Idx :
                table'[f][i] = table[f][i] \/ table'[f][i] = e
<1>1. table \in [Frames -> [Idx -> Entries]] /\ Tab(a, t0) \in Frames
  BY FramesAreTyped
<1>2. \A q \in Procs, t \in Tables : Tab(q, t)' = Tab(q, t)
  BY DEF Tab
<1>3. \A q \in Procs, t \in Tables : Tab(q, t) = Tab(a, t0) => q = a /\ t = t0
  BY DEF HoldingInv, ShareInv, SharedMarked
<1>4. \A q \in Procs, t \in Tables, i \in Idx : Tab(q, t) # 0 =>
        table'[Tab(q, t)][i] =
          IF q = a /\ t = t0 /\ i = i0 THEN e ELSE table[Tab(q, t)][i]
  BY <1>1, <1>3, FramesAreTyped DEF SetsEntry
<1>5. table' \in [Frames -> [Idx -> Entries]]
  BY <1>1 DEF SetsEntry
<1>6. \A f \in Frames, i \in Idx : table'[f][i] = table[f][i] \/ table'[f][i] = e
  BY <1>1 DEF SetsEntry
<1>7. (Maps(a, t0, i0)' <=> e.st = "present") /\ Ref(a, t0, i0)' = e.ref
  BY <1>1, <1>2, <1>4 DEF Maps, Ref
<1>8. \A q \in Procs, t \in Tables, i \in Idx : ~(q = a /\ t = t0 /\ i = i0) =>
        (Maps(q, t, i)' <=> Maps(q, t, i)) /\ (Maps(q, t, i) => Ref(q, t, i)' = Ref(q, t, i))
  BY <1>2, <1>4 DEF Maps, Ref
<1> QED  BY <1>5, <1>6, <1>7, <1>8

\* The entry after the one a job has copied.
LEMMA NextIndex ==
    ASSUME NEW j \in Jobs, NEW new, new = [j EXCEPT !.idx = @ + 1]
    PROVE  /\ new \in Jobs /\ new.at = j.at /\ new.spare = j.spare /\ new.src = j.src
           /\ new.as = j.as /\ new.pg = j.pg /\ new.idx = j.idx + 1 /\ new.then = j.then
BY DEF Jobs

\* The entries other jobs still have to copy stay to be copied.
LEMMA OthersStillPending ==
    ASSUME NEW p \in Procs, \A q \in Procs \ {p} : k'[q] = k[q],
           NEW r \in Procs \ {p}, NEW q, NEW t, NEW i, Pending(r, q, t, i)
    PROVE  Pending(r, q, t, i)'
BY DEF Pending, Copying, Busy

\* Copy on write: the table is taken out of the directory.
LEMMA ResolveSourceStep ==
    ASSUME HoldingInv, NEW p \in Procs, ResolveSource(p)
    PROVE  HoldingInv'
<1>1. PICK j : j = k[p]
  OBVIOUS
<1>2. Runs(p) /\ j.at = "src" /\ j.at \in Stages /\ free # {}
  BY <1>1 DEF ResolveSource, Stages
<1>3. /\ halted = "" /\ cpu \in {0, p} /\ j \in Jobs /\ p \in live /\ Busy(p)
      /\ InStep(p, j) /\ j.as \in live /\ (j.as # p => k[j.as] = Idle)
      /\ LoadsNoDevice(j) /\ Spare(p) = j.spare /\ \A i \in Idx : OnFile(j.src[i])
  BY <1>1, <1>2, RunningJob
<1>4. PICK a \in Procs, t0 \in Tables : a = j.as /\ t0 = j.pg[1]
  BY <1>3, JobIsFields
<1>5. PICK f : f = NextFrame
  OBVIOUS
<1>6. f \in free /\ f \in Frames /\ f # 0
  BY <1>2, <1>5, NextFrameFree, FrameFacts DEF HoldingInv
<1>7. PICK src : src = table[Tab(a, t0)]
  OBVIOUS
<1>8. pdir[a][t0].cow /\ Tab(a, t0) # 0 /\ Tab(a, t0) \in Frames /\ j.idx = 1
  <2>1. pdir[a][t0].cow /\ j.idx = 1
    BY <1>2, <1>3, <1>4 DEF InStep
  <2> QED  BY <2>1, FramesAreTyped DEF HoldingInv, ShareInv, MarkedReadOnly
<1>9. src \in [Idx -> Entries]
  BY <1>7, <1>8, FramesAreTyped
<1>10. PICK new : new = [j EXCEPT !.at = "tab", !.spare = f, !.src = src]
  OBVIOUS
<1>11. /\ new \in Jobs /\ new.at = "tab" /\ new.spare = f /\ new.src = src /\ new.as = a
       /\ new.pg = j.pg /\ new.idx = 1 /\ new.then = j.then
  <2>1. f \in 0 .. NFrames
    BY <1>6, FrameFacts DEF Frames
  <2> QED  BY <1>3, <1>4, <1>8, <1>9, <1>10, <2>1 DEF Jobs, Stages
<1>12. /\ Goto(p, new) /\ pdir' = [pdir EXCEPT ![a][t0] = NoTable] /\ free' = free \ {f}
       /\ UNCHANGED <<boot, spaces, devz, live, base, table, mem, swap, ksw, halted>>
  BY <1>1, <1>4, <1>5, <1>7, <1>10 DEF ResolveSource, Tab
<1>13. /\ k' \in [Procs -> {Idle} \cup Jobs] /\ cpu' \in 0 .. NProcs /\ k'[p] = new
       /\ \A q \in Procs \ {p} : k'[q] = k[q]
  BY <1>11, <1>12, GotoIsTyped DEF HoldingInv
<1>14. /\ pdir' \in [Procs -> [Tables -> [tab : 0 .. NFrames, cow : BOOLEAN]]]
       /\ pdir'[a][t0] = NoTable /\ Tab(a, t0)' = 0
       /\ \A q \in Procs, t \in Tables : ~(q = a /\ t = t0) =>
             pdir'[q][t] = pdir[q][t] /\ Tab(q, t)' = Tab(q, t)
       /\ \A q \in Procs \ {a}, t \in Tables : pdir'[q][t] = pdir[q][t]
  <2>1. NoTable \in [tab : 0 .. NFrames, cow : BOOLEAN] /\ NoTable.tab = 0
    BY FrameFacts DEF NoTable
  <2>2. pdir \in [Procs -> [Tables -> [tab : 0 .. NFrames, cow : BOOLEAN]]]
    BY DEF HoldingInv, TypeOK
  <2>3. pdir' \in [Procs -> [Tables -> [tab : 0 .. NFrames, cow : BOOLEAN]]]
    BY <1>12, <2>1, <2>2
  <2>4. pdir'[a][t0] = NoTable /\ \A q \in Procs, t \in Tables : ~(q = a /\ t = t0) =>
          pdir'[q][t] = pdir[q][t]
    BY <1>12, <2>2
  <2> QED  BY <2>1, <2>3, <2>4 DEF Tab
<1>15. TypeOK'
  BY <1>12, <1>13, <1>14 DEF HoldingInv, TypeOK
<1>16. JobInv'
  <2>1. InStep(p, new)'
    <3>1. pdir'[new.as][new.pg[1]] = NoTable
      BY <1>4, <1>11, <1>14
    <3>2. j.then \in {"absent", "return", "check"} /\ (j.as # p => ZoneKind[j.pg] = "anon")
      BY <1>2, <1>3 DEF InStep
    <3> QED  BY <1>4, <1>6, <1>11, <3>1, <3>2 DEF InStep
  <2>2. ~Forking(p, new.idx)'
    BY <1>11, <1>13 DEF Forking
  <2>3. halted' = "" /\ UNCHANGED <<live, base, devz>> /\ new.as \in live
        /\ (new.as # p => k[new.as] = Idle)
    BY <1>3, <1>4, <1>11, <1>12
  <2>4. \A q \in Procs \ {new.as}, t \in Tables : pdir'[q][t] = pdir[q][t]
    BY <1>11, <1>14
  <2> QED  BY <1>3, <1>11, <1>12, <2>1, <2>2, <2>3, <2>4, JobGoesOn
<1>17. RoleInv' /\ ShareInv'
  <2>1. \A q \in Procs, t \in Tables : pdir'[q][t] \in {pdir[q][t], NoTable}
    BY <1>14
  <2>2. Spare(p)' = f /\ \A q \in Procs \ {p} : Spare(q)' = Spare(q)
    BY <1>11, <1>13, JobsAreBusy DEF Spare, Busy
  <2> QED  BY <1>6, <1>12, <2>1, <2>2, SpareMoved
<1>18. DeviceInv'
  <2>1. \A q \in Procs, t \in Tables, i \in Idx :
          /\ Maps(q, t, i)' => Maps(q, t, i) /\ Ref(q, t, i)' = Ref(q, t, i)
          /\ ~(q = a /\ t = t0) => (Maps(q, t, i) => Maps(q, t, i)')
    BY <1>12, <1>14 DEF Maps, Ref
  <2>2. SourceHasDevice(new)
    <3>1. \A i \in Idx : src[i].st = "present" => Maps(a, t0, i) /\ src[i].ref = Ref(a, t0, i)
      BY <1>7, <1>8 DEF Maps, Ref
    <3> QED  BY <1>4, <1>11, <3>1, PagesAreFrames DEF SourceHasDevice
  <2>3. LoadsNoDevice(new) /\ devz \subseteq Procs
    BY <1>2, <1>3, <1>4, <1>11 DEF LoadsNoDevice, ToLoad, HoldingInv, TypeOK
  <2>4. ASSUME NEW q \in devz, NEW t \in Tables, NEW i \in Idx, IsDev(t, i)
        PROVE  Maps(q, t, i)' \/ \E r \in Procs : Pending(r, q, t, i)'
    <3>1. CASE q = a /\ t = t0
      <4>1. Pending(p, q, t, i)'
        BY <1>4, <1>11, <1>13, <3>1, JobsAreBusy DEF Pending, Copying, Busy, Idx
      <4> QED  BY <4>1
    <3>2. CASE ~(q = a /\ t = t0)
      <4>1. Maps(q, t, i) \/ \E r \in Procs : Pending(r, q, t, i)
        BY <2>4 DEF HoldingInv, DeviceInv, DeviceMapped
      <4>2. \A r \in Procs : Pending(r, q, t, i) => r # p
        BY <1>1, <1>2 DEF Pending, Copying
      <4> QED  BY <1>13, <2>1, <2>3, <3>2, <4>1, <4>2, OthersStillPending
    <3> QED  BY <3>1, <3>2
  <2>5. ASSUME NEW q \in devz, NEW t \in Tables, NEW i \in Idx,
               Pending(p, q, t, i)', IsDev(t, i)
        PROVE  k'[p].src[i].st = "present"
    <3>1. q = a /\ t = t0
      BY <1>4, <1>11, <1>13, <2>5 DEF Pending
    <3>2. Maps(q, t, i)
      <4>1. ~Copying(p)
        BY <1>1, <1>2 DEF Copying
      <4> QED  BY <1>1, <1>3, <1>4, <2>5, <3>1, <4>1, DeviceIsMapped
    <3> QED  BY <1>7, <1>11, <1>13, <3>1, <3>2 DEF Maps
  <2>6. SourceHasDevice(k[p])' /\ LoadsNoDevice(k[p])'
    BY <1>12, <1>13, <2>2, <2>3 DEF SourceHasDevice, LoadsNoDevice, ToLoad
  <2>7. \A q \in Procs, t \in Tables, i \in Idx : Maps(q, t, i)' =>
          IF IsDev(t, i) THEN Ref(q, t, i)' = DevFrame ELSE Ref(q, t, i)' \in Frames
    BY <2>1, PagesAreFrames
  <2> QED  BY <1>12, <1>13, <2>3, <2>4, <2>5, <2>6, <2>7, DeviceKept
<1>19. SwapInv'
  <2>1. \A i \in Idx : OnFile(k'[p].src[i])
    BY <1>7, <1>8, <1>11, <1>13 DEF HoldingInv, SwapInv
  <2> QED  BY <1>12, <1>13, <2>1, SwapUntouched
<1> QED  BY <1>15, <1>16, <1>17, <1>18, <1>19 DEF HoldingInv

\* Copy on write: the new table is put in the directory.
LEMMA ResolveTableStep ==
    ASSUME HoldingInv, NEW p \in Procs, ResolveTable(p)
    PROVE  HoldingInv'
<1>1. PICK j : j = k[p]
  OBVIOUS
<1>2. Runs(p) /\ j.at = "tab" /\ j.at \in Stages /\ free # {}
  BY <1>1 DEF ResolveTable, Stages
<1>3. /\ halted = "" /\ cpu \in {0, p} /\ j \in Jobs /\ p \in live /\ Busy(p)
      /\ InStep(p, j) /\ j.as \in live /\ (j.as # p => k[j.as] = Idle)
      /\ LoadsNoDevice(j) /\ SourceHasDevice(j) /\ Spare(p) = j.spare
      /\ \A i \in Idx : OnFile(j.src[i])
  BY <1>1, <1>2, RunningJob
<1>4. PICK a \in Procs, t0 \in Tables : a = j.as /\ t0 = j.pg[1]
  BY <1>3, JobIsFields
<1>5. PICK f : f = NextFrame
  OBVIOUS
<1>6. f \in free /\ f \in Frames /\ f # 0
  BY <1>2, <1>5, NextFrameFree, FrameFacts DEF HoldingInv
<1>7. j.idx = 1 /\ j.spare # 0 /\ j.then \in {"absent", "return", "check"}
      /\ (j.as # p => ZoneKind[j.pg] = "anon")
  BY <1>2, <1>3 DEF InStep
<1>8. PICK new : new = [j EXCEPT !.at = "copy"]
  OBVIOUS
<1>9. /\ new \in Jobs /\ new.at = "copy" /\ new.spare = j.spare /\ new.src = j.src
      /\ new.as = a /\ new.pg = j.pg /\ new.idx = 1 /\ new.then = j.then
  BY <1>3, <1>4, <1>7, <1>8 DEF Jobs, Stages
<1>10. /\ Goto(p, new) /\ pdir' = [pdir EXCEPT ![a][t0] = [tab |-> f, cow |-> FALSE]]
       /\ free' = free \ {f} /\ table' = [table EXCEPT ![f] = Empty]
       /\ UNCHANGED <<boot, spaces, devz, live, base, mem, swap, ksw, halted>>
  BY <1>1, <1>4, <1>5, <1>8 DEF ResolveTable
<1>11. /\ k' \in [Procs -> {Idle} \cup Jobs] /\ cpu' \in 0 .. NProcs /\ k'[p] = new
       /\ \A q \in Procs \ {p} : k'[q] = k[q]
  BY <1>9, <1>10, GotoIsTyped DEF HoldingInv
<1>12. /\ pdir' \in [Procs -> [Tables -> [tab : 0 .. NFrames, cow : BOOLEAN]]]
       /\ pdir'[a][t0].tab = f /\ ~pdir'[a][t0].cow /\ Tab(a, t0)' = f
       /\ \A q \in Procs, t \in Tables : ~(q = a /\ t = t0) =>
             pdir'[q][t] = pdir[q][t] /\ Tab(q, t)' = Tab(q, t)
       /\ \A q \in Procs \ {a}, t \in Tables : pdir'[q][t] = pdir[q][t]
  BY <1>6, <1>10, DirectoryExtended
<1>13. /\ table' \in [Frames -> [Idx -> Entries]]
       /\ \A i \in Idx : table'[f][i] = None
       /\ \A g \in Frames \ {f} : table'[g] = table[g]
  <2>1. table \in [Frames -> [Idx -> Entries]]
    BY DEF HoldingInv, TypeOK
  <2> QED  BY <1>6, <1>10, <2>1, EmptyIsTyped DEF Empty
<1>14. TypeOK'
  BY <1>10, <1>11, <1>12, <1>13 DEF HoldingInv, TypeOK
<1>15. JobInv'
  <2>1. InStep(p, new)'
    <3>1. pdir'[new.as][new.pg[1]].tab = f /\ ~pdir'[new.as][new.pg[1]].cow
      BY <1>4, <1>9, <1>12
    <3>2. new.idx \in 1 .. NIdx + 1
      BY <1>9, VmmAssumption
    <3> QED  BY <1>4, <1>6, <1>7, <1>9, <3>1, <3>2 DEF InStep
  <2>2. ~Forking(p, new.idx)'
    BY <1>9, <1>11 DEF Forking
  <2>3. halted' = "" /\ UNCHANGED <<live, base, devz>> /\ new.as \in live
        /\ (new.as # p => k[new.as] = Idle)
    BY <1>3, <1>4, <1>9, <1>10
  <2>4. \A q \in Procs \ {new.as}, t \in Tables : pdir'[q][t] = pdir[q][t]
    BY <1>9, <1>12
  <2> QED  BY <1>3, <1>9, <1>10, <2>1, <2>2, <2>3, <2>4, JobGoesOn
<1>16. RoleInv' /\ ShareInv'
  <2>1. \A q \in Procs : Spare(q)' = Spare(q)
    BY <1>3, <1>9, <1>11, JobsAreBusy DEF Spare, Busy
  <2> QED  BY <1>6, <1>10, <2>1, TableAdded
<1>17. DeviceInv'
  <2>1. ASSUME NEW q \in Procs, NEW t \in Tables, NEW i \in Idx
        PROVE  /\ Maps(q, t, i)' => Maps(q, t, i) /\ Ref(q, t, i)' = Ref(q, t, i)
               /\ ~(q = a /\ t = t0) => (Maps(q, t, i) => Maps(q, t, i)')
    <3>1. CASE q = a /\ t = t0
      BY <1>12, <1>13, <3>1 DEF Maps, None
    <3>2. CASE ~(q = a /\ t = t0)
      <4>1. Tab(q, t)' = Tab(q, t) /\ Tab(q, t) # f
        BY <1>6, <1>12, <3>2 DEF HoldingInv, RoleInv, TablesApart
      <4>2. Tab(q, t) # 0 => table'[Tab(q, t)] = table[Tab(q, t)]
        BY <1>13, <4>1, FramesAreTyped
      <4> QED  BY <3>2, <4>1, <4>2 DEF Maps, Ref
    <3> QED  BY <3>1, <3>2
  <2>2. \A q \in Procs, t \in Tables, i \in Idx : Pending(p, q, t, i)' <=> Pending(p, q, t, i)
    BY <1>1, <1>2, <1>3, <1>4, <1>7, <1>9, <1>11, JobsAreBusy DEF Pending, Copying, Busy
  <2>3. devz \subseteq Procs
    BY DEF HoldingInv, TypeOK
  <2>4. ASSUME NEW q \in devz, NEW t \in Tables, NEW i \in Idx, IsDev(t, i)
        PROVE  Maps(q, t, i)' \/ \E r \in Procs : Pending(r, q, t, i)'
    <3>1. CASE q = a /\ t = t0
      <4>1. Pending(p, q, t, i)'
        BY <1>4, <1>9, <1>11, <3>1, JobsAreBusy DEF Pending, Copying, Busy, Idx
      <4> QED  BY <4>1
    <3>2. CASE ~(q = a /\ t = t0)
      <4>1. Maps(q, t, i) \/ \E r \in Procs : Pending(r, q, t, i)
        BY <2>4 DEF HoldingInv, DeviceInv, DeviceMapped
      <4> QED  BY <1>11, <2>1, <2>2, <2>3, <3>2, <4>1, OthersStillPending
    <3> QED  BY <3>1, <3>2
  <2>5. ASSUME NEW q \in devz, NEW t \in Tables, NEW i \in Idx,
               Pending(p, q, t, i)', IsDev(t, i)
        PROVE  k'[p].src[i].st = "present"
    <3>1. Pending(p, q, t, i)
      BY <2>2, <2>3, <2>5
    <3> QED  BY <1>1, <1>9, <1>11, <2>3, <2>5, <3>1 DEF HoldingInv, DeviceInv, DeviceMapped
  <2>6. SourceHasDevice(k[p])' /\ LoadsNoDevice(k[p])'
    BY <1>2, <1>3, <1>4, <1>9, <1>10, <1>11 DEF SourceHasDevice, LoadsNoDevice, ToLoad
  <2>7. \A q \in Procs, t \in Tables, i \in Idx : Maps(q, t, i)' =>
          IF IsDev(t, i) THEN Ref(q, t, i)' = DevFrame ELSE Ref(q, t, i)' \in Frames
    BY <2>1, PagesAreFrames
  <2> QED  BY <1>10, <1>11, <2>3, <2>4, <2>5, <2>6, <2>7, DeviceKept
<1>18. SwapInv'
  <2>1. \A i \in Idx : OnFile(k[p].src[i])'
    BY <1>3, <1>9, <1>10, <1>11 DEF OnFile
  <2>2. \A g \in Frames, i \in Idx : table'[g][i] = table[g][i] \/ OnFile(table[g][i])'
    BY <1>6, <1>13 DEF OnFile, None
  <2>3. Len(swap) \in Nat /\ swap' = swap
    BY <1>10, SwapIsTyped DEF HoldingInv
  <2> QED  BY <1>11, <2>1, <2>2, <2>3, SwapKept
<1> QED  BY <1>14, <1>15, <1>16, <1>17, <1>18 DEF HoldingInv

\* The job of p, which copies a table, fills the next entry of the new one.
LEMMA EntryCopied ==
    ASSUME HoldingInv, NEW p \in Procs, NEW j, j = k[p], Runs(p), j.at = "copy", j.idx <= NIdx,
           NEW a \in Procs, a = j.as, NEW t0 \in Tables, t0 = j.pg[1],
           NEW i0 \in Idx, i0 = j.idx, NEW e \in Entries,
           Goto(p, [j EXCEPT !.idx = @ + 1]),
           SetsEntry(Tab(a, t0), i0, e),
           free' \in SUBSET free, mem' \in [Frames \cup {DevFrame} -> Values], OnFile(e),
           UNCHANGED <<boot, spaces, devz, live, pdir, base, swap, ksw, halted>>,
           e.st = "present" =>
              IF IsDev(t0, i0) THEN e.ref = DevFrame ELSE e.ref \in free \ free',
           a \in devz /\ IsDev(t0, i0) => e.st = "present"
    PROVE  HoldingInv'
<1>1. /\ halted = "" /\ cpu \in {0, p} /\ j \in Jobs /\ p \in live /\ Busy(p)
      /\ InStep(p, j) /\ j.as \in live /\ (j.as # p => k[j.as] = Idle)
      /\ LoadsNoDevice(j) /\ SourceHasDevice(j) /\ Spare(p) = j.spare
      /\ \A i \in Idx : OnFile(j.src[i])
  <2>1. j.at \in Stages
    BY DEF Stages
  <2> QED  BY <2>1, RunningJob
<1>2. /\ Tab(a, t0) # 0 /\ ~pdir[a][t0].cow /\ j.idx \in 1 .. NIdx + 1 /\ j.spare # 0
      /\ j.then \in {"absent", "return", "check"} /\ (j.as # p => ZoneKind[j.pg] = "anon")
  BY <1>1 DEF InStep, Tab
<1>3. j.idx \in Idx /\ j.idx \in Nat /\ i0 + 1 \in 1 .. NIdx + 1 /\ NIdx \in Nat
  BY <1>2, VmmAssumption DEF Idx
<1>4. PICK new : new = [j EXCEPT !.idx = @ + 1]
  OBVIOUS
<1>5. /\ new \in Jobs /\ new.at = "copy" /\ new.spare = j.spare /\ new.src = j.src
      /\ new.as = a /\ new.pg = j.pg /\ new.idx = i0 + 1 /\ new.then = j.then
      /\ Goto(p, new)
  <2>1. Goto(p, new)
    BY <1>4
  <2>2. /\ new \in Jobs /\ new.at = j.at /\ new.spare = j.spare /\ new.src = j.src
        /\ new.as = j.as /\ new.pg = j.pg /\ new.idx = j.idx + 1 /\ new.then = j.then
    BY <1>1, <1>4, NextIndex, Zenon
  <2> QED  BY <2>1, <2>2
<1>6. /\ k' \in [Procs -> {Idle} \cup Jobs] /\ cpu' \in 0 .. NProcs /\ k'[p] = new
      /\ \A q \in Procs \ {p} : k'[q] = k[q]
  BY <1>5, GotoIsTyped DEF HoldingInv
<1>7. /\ table' \in [Frames -> [Idx -> Entries]]
      /\ Maps(a, t0, i0)' <=> e.st = "present"
      /\ Ref(a, t0, i0)' = e.ref
      /\ \A q \in Procs, t \in Tables, i \in Idx : ~(q = a /\ t = t0 /\ i = i0) =>
           (Maps(q, t, i)' <=> Maps(q, t, i)) /\ (Maps(q, t, i) => Ref(q, t, i)' = Ref(q, t, i))
      /\ \A f \in Frames, i \in Idx : table'[f][i] = table[f][i] \/ table'[f][i] = e
  BY <1>2, <1>3, EntryEffect
<1>8. TypeOK'
  BY <1>6, <1>7 DEF HoldingInv, TypeOK
<1>9. JobInv'
  <2>1. InStep(p, new)'
    <3>1. pdir'[new.as][new.pg[1]].tab # 0 /\ ~pdir'[new.as][new.pg[1]].cow
      BY <1>2, <1>5 DEF Tab
    <3> QED  BY <1>2, <1>3, <1>5, <3>1 DEF InStep
  <2>2. ~Forking(p, new.idx)'
    BY <1>5, <1>6 DEF Forking
  <2> QED  BY <1>1, <1>5, <2>1, <2>2, JobGoesOn
<1>10. RoleInv' /\ ShareInv'
  <2>1. \A q \in Procs : Spare(q)' = Spare(q)
    BY <1>1, <1>5, <1>6, JobsAreBusy DEF Spare, Busy
  <2> QED  BY <1>2, <1>3, <2>1, EntrySet DEF SetsEntry
<1>11. DeviceInv'
  <2>1. devz \subseteq Procs /\ free \subseteq Frames
    BY DEF HoldingInv, TypeOK
  <2>2. \A q \in Procs, t \in Tables, i \in Idx :
          Pending(p, q, t, i)' <=> Pending(p, q, t, i) /\ i # i0
    <3>1. \A i \in Idx : i0 + 1 <= i <=> i0 <= i /\ i # i0
      BY DEF Idx
    <3> QED  BY <1>1, <1>5, <1>6, <3>1, JobsAreBusy DEF Pending, Copying, Busy
  <2>3. ASSUME NEW q \in devz, NEW t \in Tables, NEW i \in Idx, IsDev(t, i)
        PROVE  Maps(q, t, i)' \/ \E r \in Procs : Pending(r, q, t, i)'
    <3>1. CASE q = a /\ t = t0 /\ i = i0
      BY <1>7, <2>3, <3>1
    <3>2. CASE ~(q = a /\ t = t0 /\ i = i0)
      <4>1. Maps(q, t, i) \/ \E r \in Procs : Pending(r, q, t, i)
        BY <2>3 DEF HoldingInv, DeviceInv, DeviceMapped
      <4>2. CASE Maps(q, t, i)
        BY <1>7, <2>1, <3>2, <4>2
      <4>3. ASSUME NEW r \in Procs, Pending(r, q, t, i)
            PROVE  Pending(r, q, t, i)'
        <5>1. CASE r = p
          <6>1. q = a /\ t = t0
            BY <4>3, <5>1 DEF Pending
          <6> QED  BY <2>1, <2>2, <3>2, <4>3, <5>1, <6>1
        <5>2. CASE r # p
          BY <1>6, <4>3, <5>2, OthersStillPending
        <5> QED  BY <5>1, <5>2
      <4> QED  BY <4>1, <4>2, <4>3
    <3> QED  BY <3>1, <3>2
  <2>4. ASSUME NEW q \in devz, NEW t \in Tables, NEW i \in Idx,
               Pending(p, q, t, i)', IsDev(t, i)
        PROVE  k'[p].src[i].st = "present"
    <3>1. Pending(p, q, t, i)
      BY <2>1, <2>2, <2>4
    <3> QED  BY <1>5, <1>6, <2>1, <2>4, <3>1 DEF HoldingInv, DeviceInv, DeviceMapped
  <2>5. SourceHasDevice(k[p])' /\ LoadsNoDevice(k[p])'
    BY <1>1, <1>5, <1>6 DEF SourceHasDevice, LoadsNoDevice, ToLoad
  <2>6. ASSUME NEW q \in Procs, NEW t \in Tables, NEW i \in Idx, Maps(q, t, i)'
        PROVE  IF IsDev(t, i) THEN Ref(q, t, i)' = DevFrame ELSE Ref(q, t, i)' \in Frames
    <3>1. CASE q = a /\ t = t0 /\ i = i0
      BY <1>7, <2>1, <2>6, <3>1
    <3>2. CASE ~(q = a /\ t = t0 /\ i = i0)
      BY <1>7, <2>6, <3>2, PagesAreFrames
    <3> QED  BY <3>1, <3>2
  <2> QED  BY <1>6, <2>1, <2>3, <2>4, <2>5, <2>6, DeviceKept
<1>12. SwapInv'
  <2>1. \A i \in Idx : OnFile(k[p].src[i])'
    BY <1>1, <1>5, <1>6 DEF OnFile
  <2>2. \A g \in Frames, i \in Idx : table'[g][i] = table[g][i] \/ OnFile(table[g][i])'
    BY <1>7 DEF OnFile
  <2>3. Len(swap) \in Nat /\ swap' = swap
    BY SwapIsTyped DEF HoldingInv
  <2> QED  BY <1>6, <2>1, <2>2, <2>3, SwapKept
<1> QED  BY <1>8, <1>9, <1>10, <1>11, <1>12 DEF HoldingInv

\* Copy on write: a page is copied.
LEMMA ResolvePageStep ==
    ASSUME HoldingInv, NEW p \in Procs, ResolvePage(p)
    PROVE  HoldingInv'
<1>1. PICK j : j = k[p]
  OBVIOUS
<1>2. /\ Runs(p) /\ j.at = "copy" /\ j.at \in Stages /\ free # {} /\ j.idx <= NIdx
      /\ j.src[j.idx].st = "present" /\ ~IsDev(j.pg[1], j.idx)
  BY <1>1 DEF ResolvePage, CopiesPage, Stages, IsDev
<1>3. j \in Jobs /\ InStep(p, j)
  BY <1>1, <1>2, RunningJob
<1>4. PICK a \in Procs, t0 \in Tables, i0 \in Idx : a = j.as /\ t0 = j.pg[1] /\ i0 = j.idx
  <2>1. j.idx \in Idx
    BY <1>2, <1>3, VmmAssumption DEF InStep, Idx
  <2> QED  BY <1>3, <2>1, JobIsFields
<1>5. PICK f : f = NextFrame
  OBVIOUS
<1>6. f \in free /\ f \in Frames /\ f # 0 /\ f \in Nat
  BY <1>2, <1>5, NextFrameFree, FrameFacts DEF HoldingInv
<1>7. PICK w : w = ZoneWrites(<<j.pg[1], j.idx>>)
  OBVIOUS
<1>8. PICK e : e = [j.src[j.idx] EXCEPT !.ref = f, !.w = w]
  OBVIOUS
<1>9. e \in Entries /\ e.st = "present" /\ e.ref = f
  <2>2. j.src[j.idx] \in Entries
    BY <1>3, <1>4, JobIsFields
  <2>3. w \in BOOLEAN
    BY <1>7 DEF ZoneWrites
  <2> QED  BY <1>2, <1>6, <1>8, <2>2, <2>3 DEF Entries
<1>10. /\ Goto(p, [j EXCEPT !.idx = @ + 1]) /\ free' = free \ {f}
       /\ SetsEntry(Tab(a, t0), i0, e)
       /\ UNCHANGED <<boot, spaces, devz, live, pdir, base, swap, ksw, halted>>
  BY <1>1, <1>4, <1>5, <1>7, <1>8 DEF ResolvePage, Tab, SetsEntry
<1>11. mem' \in [Frames \cup {DevFrame} -> Values]
  <2>1. mem \in [Frames \cup {DevFrame} -> Values]
    BY DEF HoldingInv, TypeOK
  <2>2. mem[j.src[j.idx].ref] \in Values
    <3>1. j.src[j.idx].ref \in Frames
      <4>1. SourceHasDevice(j)
        BY <1>1, <1>2, RunningJob
      <4> QED  BY <1>2, <1>4, <4>1 DEF SourceHasDevice
    <3> QED  BY <2>1, <3>1
  <2>3. mem' = [mem EXCEPT ![f] = mem[j.src[j.idx].ref]]
    BY <1>1, <1>5 DEF ResolvePage
  <2> QED  BY <2>1, <2>2, <2>3
<1>12. OnFile(e) /\ ~IsDev(t0, i0) /\ e.ref \in free \ free' /\ free' \in SUBSET free
  BY <1>2, <1>4, <1>6, <1>9, <1>10 DEF OnFile
<1> QED  BY <1>1, <1>2, <1>4, <1>9, <1>10, <1>11, <1>12, EntryCopied

\* Copy on write: an entry with no page is copied.
LEMMA ResolveEntryStep ==
    ASSUME HoldingInv, NEW p \in Procs, ResolveEntry(p)
    PROVE  HoldingInv'
<1>1. PICK j : j = k[p]
  OBVIOUS
<1>2. /\ Runs(p) /\ j.at = "copy" /\ j.at \in Stages /\ j.idx <= NIdx
      /\ j.src[j.idx].st = "present" => IsDev(j.pg[1], j.idx)
  BY <1>1 DEF ResolveEntry, CopiesPage, Stages, IsDev
<1>3. /\ j \in Jobs /\ InStep(p, j) /\ SourceHasDevice(j) /\ Busy(p)
      /\ \A i \in Idx : OnFile(j.src[i])
  BY <1>1, <1>2, RunningJob
<1>4. PICK a \in Procs, t0 \in Tables, i0 \in Idx : a = j.as /\ t0 = j.pg[1] /\ i0 = j.idx
  <2>1. j.idx \in Idx
    BY <1>2, <1>3, VmmAssumption DEF InStep, Idx
  <2> QED  BY <1>3, <2>1, JobIsFields
<1>5. j.src[i0] \in Entries
  BY <1>3, JobIsFields
<1>6. PICK e : e = IF j.src[j.idx].st = "present" THEN [j.src[j.idx] EXCEPT !.w = TRUE]
                   ELSE j.src[j.idx]
  OBVIOUS
<1>7. /\ e \in Entries /\ e.st = j.src[j.idx].st /\ e.ref = j.src[j.idx].ref
  BY <1>4, <1>5, <1>6 DEF Entries
<1>8. /\ Goto(p, [j EXCEPT !.idx = @ + 1])
      /\ SetsEntry(Tab(a, t0), i0, e)
      /\ UNCHANGED <<boot, spaces, devz, live, pdir, base, mem, free, swap, ksw, halted>>
  BY <1>1, <1>4, <1>6 DEF ResolveEntry, Tab, SetsEntry
<1>9. mem' \in [Frames \cup {DevFrame} -> Values] /\ free' \in SUBSET free
  BY <1>8 DEF HoldingInv, TypeOK
<1>10. OnFile(e) /\ (e.st = "present" => IsDev(t0, i0) /\ e.ref = DevFrame)
  BY <1>2, <1>3, <1>4, <1>5, <1>7 DEF OnFile, SourceHasDevice
<1>11. a \in devz /\ IsDev(t0, i0) => e.st = "present"
  <2>1. Pending(p, a, t0, i0)
    BY <1>1, <1>2, <1>3, <1>4, <1>5 DEF Pending, Copying, Idx
  <2> QED  BY <1>1, <1>4, <1>7, <2>1 DEF HoldingInv, DeviceInv, DeviceMapped
<1> QED  BY <1>1, <1>2, <1>4, <1>7, <1>8, <1>9, <1>10, <1>11, EntryCopied

\* Copy on write: the last entry is copied.
LEMMA ResolveDoneStep ==
    ASSUME HoldingInv, NEW p \in Procs, ResolveDone(p)
    PROVE  HoldingInv'
<1>1. PICK j : j = k[p]
  OBVIOUS
<1>2. Runs(p) /\ j.at = "copy" /\ j.at \in Stages /\ j.idx > NIdx
  BY <1>1 DEF ResolveDone, Stages
<1>3. /\ halted = "" /\ cpu \in {0, p} /\ j \in Jobs /\ p \in live /\ Busy(p)
      /\ InStep(p, j) /\ j.as \in live /\ (j.as # p => k[j.as] = Idle)
      /\ LoadsNoDevice(j) /\ Spare(p) = j.spare
  BY <1>1, <1>2, RunningJob
<1>4. PICK a \in Procs, t0 \in Tables : a = j.as /\ t0 = j.pg[1]
  BY <1>3, JobIsFields
<1>5. /\ ~pdir[a][t0].cow /\ j.spare # 0 /\ j.then \in {"absent", "return", "check"}
      /\ (j.as # p => ZoneKind[j.pg] = "anon")
  BY <1>2, <1>3, <1>4 DEF InStep
<1>6. PICK new : new = [j EXCEPT !.at = j.then, !.spare = 0, !.src = Empty, !.idx = 1]
  OBVIOUS
<1>7. /\ new \in Jobs /\ new.at = j.then /\ new.spare = 0 /\ new.src = Empty
      /\ new.as = a /\ new.pg = j.pg /\ new.idx = 1 /\ new.then = j.then
  <2>1. j.then \in Stages /\ 0 \in 0 .. NFrames
    BY <1>5, FrameFacts DEF Stages
  <2> QED  BY <1>3, <1>4, <1>6, <2>1, EmptyIsTyped DEF Jobs
<1>8. /\ Goto(p, new) /\ free' = free \cup {j.spare}
      /\ UNCHANGED <<boot, spaces, devz, live, pdir, base, table, mem, swap, ksw, halted>>
  BY <1>1, <1>6 DEF ResolveDone
<1>9. /\ k' \in [Procs -> {Idle} \cup Jobs] /\ cpu' \in 0 .. NProcs /\ k'[p] = new
      /\ \A q \in Procs \ {p} : k'[q] = k[q]
  BY <1>7, <1>8, GotoIsTyped DEF HoldingInv
<1>10. TypeOK'
  <2>1. j.spare \in Frames
    BY <1>3, <1>5, JobIsFields, FrameFacts
  <2>2. free' \in SUBSET Frames
    BY <1>8, <2>1, FramesAreTyped
  <2> QED  BY <1>8, <1>9, <2>2 DEF HoldingInv, TypeOK
<1>11. JobInv'
  <2>1. InStep(p, new)'
    <3>1. ~pdir'[new.as][new.pg[1]].cow
      BY <1>4, <1>5, <1>7, <1>8
    <3> QED  BY <1>4, <1>5, <1>7, <3>1 DEF InStep
  <2>2. ~Forking(p, new.idx)'
    BY <1>5, <1>7, <1>9 DEF Forking
  <2>3. /\ halted' = "" /\ UNCHANGED <<live, base, devz>> /\ new.as \in live
        /\ (new.as # p => k[new.as] = Idle)
        /\ \A q \in Procs \ {new.as}, t \in Tables : pdir'[q][t] = pdir[q][t]
    BY <1>3, <1>4, <1>7, <1>8
  <2> QED  BY <1>3, <1>7, <1>8, <2>1, <2>2, <2>3, JobGoesOn
<1>12. RoleInv' /\ ShareInv'
  <2>1. Spare(p)' = 0 /\ Spare(p) # 0 /\ \A q \in Procs \ {p} : Spare(q)' = Spare(q)
    BY <1>3, <1>5, <1>7, <1>9, JobsAreBusy DEF Spare, Busy
  <2>2. \A q \in Procs, t \in Tables : pdir'[q][t] \in {pdir[q][t], NoTable}
    BY <1>8
  <2> QED  BY <1>3, <1>8, <2>1, <2>2, SpareMoved
<1>13. DeviceInv'
  <2>1. devz \subseteq Procs
    BY DEF HoldingInv, TypeOK
  <2>2. \A q \in Procs, t \in Tables, i \in Idx :
          (Maps(q, t, i)' <=> Maps(q, t, i)) /\ Ref(q, t, i)' = Ref(q, t, i)
    BY <1>8 DEF Maps, Ref, Tab
  <2>3. \A q, t : \A i \in Idx : ~Pending(p, q, t, i)
    <3>1. \A i \in Idx : ~(j.idx <= i)
      <4>1. j.idx \in Nat /\ NIdx \in Nat
        BY <1>3, JobIsFields, VmmAssumption
      <4> QED  BY <1>2, <4>1 DEF Idx
    <3> QED  BY <1>1, <3>1 DEF Pending
  <2>4. \A q, t, i : ~Pending(p, q, t, i)'
    BY <1>5, <1>7, <1>9 DEF Pending, Copying
  <2>5. ASSUME NEW q \in devz, NEW t \in Tables, NEW i \in Idx, IsDev(t, i)
        PROVE  Maps(q, t, i)' \/ \E r \in Procs : Pending(r, q, t, i)'
    <3>1. Maps(q, t, i) \/ \E r \in Procs : Pending(r, q, t, i)
      BY <2>5 DEF HoldingInv, DeviceInv, DeviceMapped
    <3> QED  BY <1>9, <2>1, <2>2, <2>3, <3>1, OthersStillPending
  <2>6. SourceHasDevice(k[p])' /\ LoadsNoDevice(k[p])'
    BY <1>2, <1>3, <1>4, <1>5, <1>7, <1>8, <1>9 DEF SourceHasDevice, LoadsNoDevice, ToLoad
  <2>7. \A q \in Procs, t \in Tables, i \in Idx : Maps(q, t, i)' =>
          IF IsDev(t, i) THEN Ref(q, t, i)' = DevFrame ELSE Ref(q, t, i)' \in Frames
    BY <2>2, PagesAreFrames
  <2> QED  BY <1>8, <1>9, <2>1, <2>4, <2>5, <2>6, <2>7, DeviceKept
<1>14. SwapInv'
  <2>1. \A i \in Idx : OnFile(k'[p].src[i])
    BY <1>7, <1>9 DEF OnFile, Empty, None
  <2> QED  BY <1>8, <1>9, <2>1, SwapUntouched
<1> QED  BY <1>10, <1>11, <1>12, <1>13, <1>14 DEF HoldingInv

\* What MapAndFill puts in the frame of a page.
LEMMA FillIsTyped ==
    ASSUME HoldingInv, NEW e \in Entries, OnFile(e), NEW pg
    PROVE  (IF e.st = "swapped" THEN swap[e.ref] ELSE Loaded(pg)) \in Values
<1>1. Loaded(pg) \in Values
  BY VmmAssumption DEF Loaded
<1>2. e.st = "swapped" => swap[e.ref] \in Values
  BY SwapIsTyped DEF HoldingInv, OnFile
<1> QED  BY <1>1, <1>2

\* vmm_alloc_page_no_fill_locked where the table is missing: the frame is kept.
LEMMA AllocPageNoTableStep ==
    ASSUME HoldingInv, NEW p \in Procs, AllocPage(p), Tab(k[p].as, k[p].pg[1]) = 0
    PROVE  HoldingInv'
<1>1. PICK j : j = k[p]
  OBVIOUS
<1>2. Runs(p) /\ j.at = "page" /\ j.at \in Stages /\ free # {}
  BY <1>1 DEF AllocPage, Stages
<1>3. /\ halted = "" /\ cpu \in {0, p} /\ j \in Jobs /\ p \in live /\ Busy(p)
      /\ InStep(p, j) /\ j.as \in live /\ (j.as # p => k[j.as] = Idle)
      /\ LoadsNoDevice(j) /\ Spare(p) = j.spare /\ \A i \in Idx : OnFile(j.src[i])
  BY <1>1, <1>2, RunningJob
<1>4. PICK a \in Procs, t0 \in Tables : a = j.as /\ t0 = j.pg[1]
  BY <1>3, JobIsFields
<1>5. /\ ~pdir[a][t0].cow /\ pdir[a][t0].tab = 0
      /\ (j.as # p => ZoneKind[j.pg] = "anon")
  BY <1>1, <1>2, <1>3, <1>4 DEF InStep, Tab
<1>6. PICK f : f = NextFrame
  OBVIOUS
<1>7. f \in free /\ f \in Frames /\ f # 0 /\ f \in 0 .. NFrames
  <2>1. f \in free /\ f \in Frames
    BY <1>2, <1>6, NextFrameFree DEF HoldingInv
  <2> QED  BY <2>1, FrameFacts DEF Frames
<1>8. PICK new : new = [j EXCEPT !.at = "ptab", !.spare = f]
  OBVIOUS
<1>9. /\ new \in Jobs /\ new.at = "ptab" /\ new.spare = f /\ new.src = j.src
      /\ new.as = a /\ new.pg = j.pg /\ new.idx = j.idx /\ new.then = j.then
  BY <1>3, <1>4, <1>7, <1>8 DEF Jobs, Stages
<1>10. /\ Goto(p, new) /\ free' = free \ {f}
       /\ UNCHANGED <<boot, spaces, devz, live, pdir, base, table, mem, swap, ksw, halted>>
  BY <1>1, <1>4, <1>5, <1>6, <1>8 DEF AllocPage
<1>11. /\ k' \in [Procs -> {Idle} \cup Jobs] /\ cpu' \in 0 .. NProcs /\ k'[p] = new
       /\ \A q \in Procs \ {p} : k'[q] = k[q]
  BY <1>9, <1>10, GotoIsTyped DEF HoldingInv
<1>12. TypeOK'
  BY <1>10, <1>11 DEF HoldingInv, TypeOK
<1>13. JobInv'
  <2>1. InStep(p, new)'
    <3>1. ~pdir'[new.as][new.pg[1]].cow /\ pdir'[new.as][new.pg[1]].tab = 0
      BY <1>4, <1>5, <1>9, <1>10
    <3> QED  BY <1>4, <1>5, <1>7, <1>9, <3>1 DEF InStep
  <2>2. ~Forking(p, new.idx)'
    BY <1>9, <1>11 DEF Forking
  <2>3. /\ halted' = "" /\ UNCHANGED <<live, base, devz>> /\ new.as \in live
        /\ (new.as # p => k[new.as] = Idle)
        /\ \A q \in Procs \ {new.as}, t \in Tables : pdir'[q][t] = pdir[q][t]
    BY <1>3, <1>4, <1>9, <1>10
  <2> QED  BY <1>3, <1>9, <1>10, <2>1, <2>2, <2>3, JobGoesOn
<1>14. RoleInv' /\ ShareInv'
  <2>1. Spare(p)' = f /\ \A q \in Procs \ {p} : Spare(q)' = Spare(q)
    BY <1>9, <1>11, JobsAreBusy DEF Spare, Busy
  <2>2. \A q \in Procs, t \in Tables : pdir'[q][t] \in {pdir[q][t], NoTable}
    BY <1>10
  <2> QED  BY <1>7, <1>10, <2>1, <2>2, SpareMoved
<1>15. DeviceInv'
  <2>1. ~Copying(p) /\ ~Copying(p)'
    BY <1>1, <1>2, <1>9, <1>11 DEF Copying
  <2>2. LoadsNoDevice(k[p])'
    BY <1>2, <1>3, <1>9, <1>10, <1>11 DEF LoadsNoDevice, ToLoad
  <2> QED  BY <1>10, <1>11, <2>1, <2>2, DeviceUntouched
<1>16. SwapInv'
  BY <1>3, <1>9, <1>10, <1>11, SwapUntouched
<1> QED  BY <1>12, <1>13, <1>14, <1>15, <1>16 DEF HoldingInv

\* The same where the table is there: the page is mapped and filled.
LEMMA AllocPageMapStep ==
    ASSUME HoldingInv, NEW p \in Procs, AllocPage(p), Tab(k[p].as, k[p].pg[1]) # 0
    PROVE  HoldingInv'
<1>1. PICK j : j = k[p]
  OBVIOUS
<1>2. Runs(p) /\ j.at = "page" /\ j.at \in Stages /\ free # {}
  BY <1>1 DEF AllocPage, Stages
<1>3. /\ halted = "" /\ cpu \in {0, p} /\ j \in Jobs /\ p \in live /\ Busy(p)
      /\ InStep(p, j) /\ j.as \in live /\ (j.as # p => k[j.as] = Idle)
      /\ LoadsNoDevice(j) /\ Spare(p) = j.spare /\ \A i \in Idx : OnFile(j.src[i])
  BY <1>1, <1>2, RunningJob
<1>4. PICK a \in Procs, t0 \in Tables, i0 \in Idx :
        a = j.as /\ t0 = j.pg[1] /\ i0 = j.pg[2] /\ j.last \in {"return", "store"}
  BY <1>3, JobIsFields
<1>5. /\ ~pdir[a][t0].cow /\ Tab(a, t0) # 0 /\ Tab(a, t0) \in Frames /\ j.spare = 0
      /\ (j.as # p => ZoneKind[j.pg] = "anon") /\ ~IsDev(t0, i0)
  <2>1. /\ ~pdir[a][t0].cow /\ j.spare = 0 /\ (j.as # p => ZoneKind[j.pg] = "anon")
    BY <1>2, <1>3, <1>4 DEF InStep
  <2>2. ~IsDev(t0, i0)
    BY <1>2, <1>3, <1>4 DEF LoadsNoDevice
  <2> QED  BY <1>1, <1>4, <2>1, <2>2, FramesAreTyped
<1>6. PICK f : f = NextFrame
  OBVIOUS
<1>7. f \in free /\ f \in Frames /\ f \in Nat
  BY <1>2, <1>6, NextFrameFree, FrameFacts DEF HoldingInv
<1>8. PICK new : new = [j EXCEPT !.at = j.last]
  OBVIOUS
<1>9. /\ new \in Jobs /\ new.at = j.last /\ new.spare = 0 /\ new.src = j.src
      /\ new.as = a /\ new.pg = j.pg /\ new.idx = j.idx /\ new.then = j.then
  <2>1. j.last \in Stages
    BY <1>4 DEF Stages
  <2> QED  BY <1>3, <1>4, <1>5, <1>8, <2>1 DEF Jobs
<1>10. PICK e : e = [st |-> "present", ref |-> f, w |-> ZoneWrites(j.pg)]
  OBVIOUS
<1>11. e \in Entries /\ e.st = "present" /\ e.ref = f
  <2>1. ZoneWrites(j.pg) \in BOOLEAN
    BY DEF ZoneWrites
  <2> QED  BY <1>7, <1>10, <2>1 DEF Entries
<1>12. /\ Goto(p, new) /\ free' = free \ {f} /\ SetsEntry(Tab(a, t0), i0, e)
       /\ UNCHANGED <<boot, spaces, devz, live, pdir, base, swap, ksw, halted>>
  BY <1>1, <1>4, <1>5, <1>6, <1>8, <1>10 DEF AllocPage, MapAndFill, SetsEntry, Tab
<1>13. mem' \in [Frames \cup {DevFrame} -> Values]
  <2>1. PICK o : o = table[Tab(a, t0)][i0]
    OBVIOUS
  <2>2. o \in Entries /\ OnFile(o)
    BY <1>5, <2>1, FramesAreTyped DEF HoldingInv, SwapInv
  <2>3. PICK v : v = IF o.st = "swapped" THEN swap[o.ref] ELSE Loaded(j.pg)
    OBVIOUS
  <2>4. v \in Values
    BY <2>2, <2>3, FillIsTyped
  <2>5. mem' = [mem EXCEPT ![f] = v]
    BY <1>1, <1>4, <1>5, <1>6, <2>1, <2>3 DEF AllocPage, MapAndFill, Tab
  <2>6. mem \in [Frames \cup {DevFrame} -> Values]
    BY DEF HoldingInv, TypeOK
  <2> QED  BY <2>4, <2>5, <2>6
<1>14. /\ k' \in [Procs -> {Idle} \cup Jobs] /\ cpu' \in 0 .. NProcs /\ k'[p] = new
       /\ \A q \in Procs \ {p} : k'[q] = k[q]
  BY <1>9, <1>12, GotoIsTyped DEF HoldingInv
<1>15. /\ table' \in [Frames -> [Idx -> Entries]]
       /\ Maps(a, t0, i0)' <=> e.st = "present"
       /\ Ref(a, t0, i0)' = e.ref
       /\ \A q \in Procs, t \in Tables, i \in Idx : ~(q = a /\ t = t0 /\ i = i0) =>
            (Maps(q, t, i)' <=> Maps(q, t, i)) /\ (Maps(q, t, i) => Ref(q, t, i)' = Ref(q, t, i))
       /\ \A g \in Frames, i \in Idx : table'[g][i] = table[g][i] \/ table'[g][i] = e
  BY <1>5, <1>11, <1>12, EntryEffect
<1>16. TypeOK'
  BY <1>12, <1>13, <1>14, <1>15 DEF HoldingInv, TypeOK
<1>17. JobInv'
  <2>1. InStep(p, new)'
    <3>1. ~pdir'[new.as][new.pg[1]].cow
      BY <1>4, <1>5, <1>9, <1>12
    <3> QED  BY <1>4, <1>5, <1>9, <3>1 DEF InStep
  <2>2. ~Forking(p, new.idx)'
    BY <1>4, <1>9, <1>14 DEF Forking
  <2>3. /\ halted' = "" /\ UNCHANGED <<live, base, devz>> /\ new.as \in live
        /\ (new.as # p => k[new.as] = Idle)
        /\ \A q \in Procs \ {new.as}, t \in Tables : pdir'[q][t] = pdir[q][t]
    BY <1>3, <1>4, <1>9, <1>12
  <2> QED  BY <1>3, <1>9, <1>12, <2>1, <2>2, <2>3, JobGoesOn
<1>18. RoleInv' /\ ShareInv'
  <2>1. \A q \in Procs : Spare(q)' = Spare(q)
    BY <1>3, <1>5, <1>9, <1>14, JobsAreBusy DEF Spare, Busy
  <2> QED  BY <1>5, <1>7, <1>11, <1>12, <2>1, EntrySet DEF SetsEntry
<1>19. DeviceInv'
  <2>1. devz \subseteq Procs
    BY DEF HoldingInv, TypeOK
  <2>2. \A q, t, i : ~Pending(p, q, t, i)' /\ ~Pending(p, q, t, i)
    BY <1>1, <1>2, <1>4, <1>9, <1>14 DEF Pending, Copying
  <2>3. ASSUME NEW q \in devz, NEW t \in Tables, NEW i \in Idx, IsDev(t, i)
        PROVE  Maps(q, t, i)' \/ \E r \in Procs : Pending(r, q, t, i)'
    <3>1. Maps(q, t, i) \/ \E r \in Procs : Pending(r, q, t, i)
      BY <2>3 DEF HoldingInv, DeviceInv, DeviceMapped
    <3>2. ~(q = a /\ t = t0 /\ i = i0)
      BY <1>5, <2>3
    <3> QED  BY <1>14, <1>15, <2>1, <2>2, <3>1, <3>2, OthersStillPending
  <2>4. SourceHasDevice(k[p])' /\ LoadsNoDevice(k[p])'
    BY <1>4, <1>9, <1>14 DEF SourceHasDevice, LoadsNoDevice, ToLoad
  <2>5. ASSUME NEW q \in Procs, NEW t \in Tables, NEW i \in Idx, Maps(q, t, i)'
        PROVE  IF IsDev(t, i) THEN Ref(q, t, i)' = DevFrame ELSE Ref(q, t, i)' \in Frames
    <3>1. CASE q = a /\ t = t0 /\ i = i0
      BY <1>5, <1>7, <1>11, <1>15, <3>1
    <3>2. CASE ~(q = a /\ t = t0 /\ i = i0)
      BY <1>15, <2>5, <3>2, PagesAreFrames
    <3> QED  BY <3>1, <3>2
  <2> QED  BY <1>12, <1>14, <2>1, <2>2, <2>3, <2>4, <2>5, DeviceKept
<1>20. SwapInv'
  <2>1. \A i \in Idx : OnFile(k[p].src[i])'
    BY <1>3, <1>9, <1>12, <1>14 DEF OnFile
  <2>2. \A g \in Frames, i \in Idx : table'[g][i] = table[g][i] \/ OnFile(table[g][i])'
    BY <1>11, <1>15 DEF OnFile
  <2>3. Len(swap) \in Nat /\ swap' = swap
    BY <1>12, SwapIsTyped DEF HoldingInv
  <2> QED  BY <1>14, <2>1, <2>2, <2>3, SwapKept
<1> QED  BY <1>16, <1>17, <1>18, <1>19, <1>20 DEF HoldingInv

\* The missing table of a page that is allocated.
LEMMA AllocTableStep ==
    ASSUME HoldingInv, NEW p \in Procs, AllocTable(p)
    PROVE  HoldingInv'
<1>1. PICK j : j = k[p]
  OBVIOUS
<1>2. Runs(p) /\ j.at = "ptab" /\ j.at \in Stages /\ free # {}
  BY <1>1 DEF AllocTable, Stages
<1>3. /\ halted = "" /\ cpu \in {0, p} /\ j \in Jobs /\ p \in live /\ Busy(p)
      /\ InStep(p, j) /\ j.as \in live /\ (j.as # p => k[j.as] = Idle)
      /\ LoadsNoDevice(j) /\ Spare(p) = j.spare /\ \A i \in Idx : OnFile(j.src[i])
  BY <1>1, <1>2, RunningJob
<1>4. PICK a \in Procs, t0 \in Tables, i0 \in Idx :
        a = j.as /\ t0 = j.pg[1] /\ i0 = j.pg[2] /\ j.last \in {"return", "store"}
  BY <1>3, JobIsFields
<1>5. /\ Tab(a, t0) = 0 /\ j.spare # 0 /\ j.spare \in Frames /\ j.spare \in Nat
      /\ (j.as # p => ZoneKind[j.pg] = "anon") /\ ~IsDev(t0, i0)
  <2>1. Tab(a, t0) = 0 /\ j.spare # 0 /\ (j.as # p => ZoneKind[j.pg] = "anon")
    BY <1>2, <1>3, <1>4 DEF InStep, Tab
  <2>2. ~IsDev(t0, i0)
    BY <1>2, <1>3, <1>4 DEF LoadsNoDevice
  <2> QED  BY <1>3, <2>1, <2>2, JobIsFields, FrameFacts
<1>6. PICK f : f = NextFrame
  OBVIOUS
<1>7. f \in free /\ f \in Frames /\ f # 0
  BY <1>2, <1>6, NextFrameFree, FrameFacts DEF HoldingInv
<1>8. PICK new : new = [j EXCEPT !.at = j.last, !.spare = 0]
  OBVIOUS
<1>9. /\ new \in Jobs /\ new.at = j.last /\ new.spare = 0 /\ new.src = j.src
      /\ new.as = a /\ new.pg = j.pg /\ new.idx = j.idx /\ new.then = j.then
  <2>1. j.last \in Stages /\ 0 \in 0 .. NFrames
    BY <1>4, FrameFacts DEF Stages
  <2> QED  BY <1>3, <1>4, <1>8, <2>1 DEF Jobs
<1>10. PICK e : e = [st |-> "present", ref |-> j.spare, w |-> ZoneWrites(j.pg)]
  OBVIOUS
<1>11. e \in Entries /\ e.st = "present" /\ e.ref = j.spare
  <2>1. ZoneWrites(j.pg) \in BOOLEAN
    BY DEF ZoneWrites
  <2> QED  BY <1>5, <1>10, <2>1 DEF Entries
<1>12. /\ Goto(p, new) /\ free' = free \ {f}
       /\ pdir' = [pdir EXCEPT ![a][t0] = [tab |-> f, cow |-> FALSE]]
       /\ UNCHANGED <<boot, spaces, devz, live, base, swap, ksw, halted>>
  BY <1>1, <1>4, <1>6, <1>8 DEF AllocTable
<1>13. table' = [table EXCEPT ![f] = [Empty EXCEPT ![i0] = e]]
  <2>1. table' = [[table EXCEPT ![f] = Empty] EXCEPT ![f][i0] = e]
    BY <1>1, <1>4, <1>6, <1>10 DEF AllocTable, MapAndFill
  <2>2. table \in [Frames -> [Idx -> Entries]]
    BY FramesAreTyped
  <2>3. [[table EXCEPT ![f] = Empty] EXCEPT ![f][i0] = e] =
        [table EXCEPT ![f] = [Empty EXCEPT ![i0] = e]]
    BY <1>7, <2>2
  <2> QED  BY <2>1, <2>3
<1>14. mem' \in [Frames \cup {DevFrame} -> Values]
  <2>1. PICK o : o = [table EXCEPT ![f] = Empty][f][i0]
    OBVIOUS
  <2>2. PICK v : v = IF o.st = "swapped" THEN swap[o.ref] ELSE Loaded(j.pg)
    OBVIOUS
  <2>3. v \in Values
    <3>1. o = None
      BY <1>7, <2>1, FramesAreTyped DEF Empty
    <3>2. o \in Entries /\ OnFile(o)
      BY <3>1, EmptyIsTyped DEF None, OnFile
    <3> QED  BY <2>2, <3>2, FillIsTyped
  <2>4. mem' = [mem EXCEPT ![j.spare] = v]
    <3>1. MapAndFill([table EXCEPT ![f] = Empty], f, j.spare, j.pg)
      BY <1>1, <1>4, <1>6 DEF AllocTable
    <3> QED  BY <1>1, <1>4, <1>6, <2>1, <2>2, <3>1 DEF MapAndFill
  <2>5. mem \in [Frames \cup {DevFrame} -> Values]
    BY DEF HoldingInv, TypeOK
  <2> QED  BY <2>3, <2>4, <2>5
<1>15. /\ k' \in [Procs -> {Idle} \cup Jobs] /\ cpu' \in 0 .. NProcs /\ k'[p] = new
       /\ \A q \in Procs \ {p} : k'[q] = k[q]
  BY <1>9, <1>12, GotoIsTyped DEF HoldingInv
<1>16. /\ pdir' \in [Procs -> [Tables -> [tab : 0 .. NFrames, cow : BOOLEAN]]]
       /\ pdir'[a][t0].tab = f /\ ~pdir'[a][t0].cow /\ Tab(a, t0)' = f
       /\ \A q \in Procs, t \in Tables : ~(q = a /\ t = t0) =>
             pdir'[q][t] = pdir[q][t] /\ Tab(q, t)' = Tab(q, t)
       /\ \A q \in Procs \ {a}, t \in Tables : pdir'[q][t] = pdir[q][t]
  BY <1>7, <1>12, DirectoryExtended
<1>17. /\ table' \in [Frames -> [Idx -> Entries]]
       /\ table'[f][i0] = e /\ \A i \in Idx \ {i0} : table'[f][i] = None
       /\ \A g \in Frames \ {f} : table'[g] = table[g]
  <2>1. table \in [Frames -> [Idx -> Entries]]
    BY FramesAreTyped
  <2>2. [Empty EXCEPT ![i0] = e] \in [Idx -> Entries]
    BY <1>11, EmptyIsTyped
  <2>3. [Empty EXCEPT ![i0] = e][i0] = e /\ \A i \in Idx \ {i0} : [Empty EXCEPT ![i0] = e][i] = None
    BY DEF Empty
  <2> QED  BY <1>7, <1>13, <2>1, <2>2, <2>3
<1>18. TypeOK'
  BY <1>12, <1>14, <1>15, <1>16, <1>17 DEF HoldingInv, TypeOK
<1>19. JobInv'
  <2>1. InStep(p, new)'
    <3>1. ~pdir'[new.as][new.pg[1]].cow
      BY <1>4, <1>9, <1>16
    <3> QED  BY <1>4, <1>5, <1>9, <3>1 DEF InStep
  <2>2. ~Forking(p, new.idx)'
    BY <1>4, <1>9, <1>15 DEF Forking
  <2>3. /\ halted' = "" /\ UNCHANGED <<live, base, devz>> /\ new.as \in live
        /\ (new.as # p => k[new.as] = Idle)
        /\ \A q \in Procs \ {new.as}, t \in Tables : pdir'[q][t] = pdir[q][t]
    BY <1>3, <1>4, <1>9, <1>12, <1>16
  <2> QED  BY <1>3, <1>9, <1>12, <2>1, <2>2, <2>3, JobGoesOn
<1>20. RoleInv' /\ ShareInv'
  <2>1. Spare(p)' = 0 /\ \A q \in Procs \ {p} : Spare(q)' = Spare(q)
    BY <1>9, <1>15, JobsAreBusy DEF Spare, Busy
  <2>2. Spare(p) # 0 /\ e.ref = Spare(p)
    BY <1>3, <1>5, <1>11
  <2> QED  BY <1>7, <1>12, <1>13, <2>1, <2>2, TableAndPageAdded
<1>21. DeviceInv'
  <2>1. devz \subseteq Procs
    BY DEF HoldingInv, TypeOK
  <2>2. \A q, t, i : ~Pending(p, q, t, i)' /\ ~Pending(p, q, t, i)
    BY <1>1, <1>2, <1>4, <1>9, <1>15 DEF Pending, Copying
  <2>3. ASSUME NEW q \in Procs, NEW t \in Tables, NEW i \in Idx
        PROVE  /\ Maps(q, t, i) => Maps(q, t, i)'
               /\ Maps(q, t, i)' => IF q = a /\ t = t0 THEN i = i0 /\ Ref(q, t, i)' = j.spare
                                    ELSE Maps(q, t, i) /\ Ref(q, t, i)' = Ref(q, t, i)
    <3>1. CASE q = a /\ t = t0
      BY <1>5, <1>11, <1>16, <1>17, <3>1 DEF Maps, Ref, None
    <3>2. CASE ~(q = a /\ t = t0)
      <4>1. Tab(q, t)' = Tab(q, t) /\ Tab(q, t) # f
        BY <1>7, <1>16, <3>2 DEF HoldingInv, RoleInv, TablesApart
      <4>2. Tab(q, t) # 0 => table'[Tab(q, t)] = table[Tab(q, t)]
        BY <1>17, <4>1, FramesAreTyped
      <4> QED  BY <3>2, <4>1, <4>2 DEF Maps, Ref
    <3> QED  BY <3>1, <3>2
  <2>4. ASSUME NEW q \in devz, NEW t \in Tables, NEW i \in Idx, IsDev(t, i)
        PROVE  Maps(q, t, i)' \/ \E r \in Procs : Pending(r, q, t, i)'
    <3>1. Maps(q, t, i) \/ \E r \in Procs : Pending(r, q, t, i)
      BY <2>4 DEF HoldingInv, DeviceInv, DeviceMapped
    <3> QED  BY <1>15, <2>1, <2>2, <2>3, <3>1, OthersStillPending
  <2>5. SourceHasDevice(k[p])' /\ LoadsNoDevice(k[p])'
    BY <1>4, <1>9, <1>15 DEF SourceHasDevice, LoadsNoDevice, ToLoad
  <2>6. ASSUME NEW q \in Procs, NEW t \in Tables, NEW i \in Idx, Maps(q, t, i)'
        PROVE  IF IsDev(t, i) THEN Ref(q, t, i)' = DevFrame ELSE Ref(q, t, i)' \in Frames
    <3>1. CASE q = a /\ t = t0
      BY <1>5, <2>3, <2>6, <3>1
    <3>2. CASE ~(q = a /\ t = t0)
      BY <2>3, <2>6, <3>2, PagesAreFrames
    <3> QED  BY <3>1, <3>2
  <2> QED  BY <1>12, <1>15, <2>1, <2>2, <2>4, <2>5, <2>6, DeviceKept
<1>22. SwapInv'
  <2>1. \A i \in Idx : OnFile(k[p].src[i])'
    BY <1>3, <1>9, <1>12, <1>15 DEF OnFile
  <2>2. \A g \in Frames, i \in Idx : table'[g][i] = table[g][i] \/ OnFile(table[g][i])'
    BY <1>7, <1>11, <1>17 DEF OnFile, None
  <2>3. Len(swap) \in Nat /\ swap' = swap
    BY <1>12, SwapIsTyped DEF HoldingInv
  <2> QED  BY <1>15, <2>1, <2>2, <2>3, SwapKept
<1> QED  BY <1>18, <1>19, <1>20, <1>21, <1>22 DEF HoldingInv

\* What Forget leaves is still content.
LEMMA ForgetIsTyped ==
    ASSUME TypeOK, NEW S
    PROVE  Forget(mem, S) \in [Frames \cup {DevFrame} -> Values]
<1>1. mem \in [Frames \cup {DevFrame} -> Values] /\ Zero \in Values
  BY VmmAssumption DEF TypeOK
<1>2. DOMAIN mem = Frames \cup {DevFrame} /\ \A f \in DOMAIN mem : mem[f] \in Values
  BY <1>1
<1> QED  BY <1>1, <1>2 DEF Forget

\* kswapd writes a page to the swap file and frees its frame.
LEMMA KswapdSwapStep ==
    ASSUME HoldingInv, KswapdSwap
    PROVE  HoldingInv'
<1>1. PICK a \in Procs : a = ksw.pid
  BY DEF HoldingInv, TypeOK
<1>2. PICK pg \in Pages :
        /\ pg \in Victims(a)
        /\ swap' = Append(swap, mem[Entry(a, pg).ref])
        /\ free' = free \cup {Entry(a, pg).ref}
        /\ mem' = Forget(mem, {Entry(a, pg).ref})
        /\ table' = [table EXCEPT ![pdir[a][pg[1]].tab][pg[2]] =
                        [st |-> "swapped", ref |-> Len(swap) + 1, w |-> FALSE]]
  BY <1>1 DEF KswapdSwap, Victims
<1>3. PICK t0 \in Tables, i0 \in Idx : t0 = pg[1] /\ i0 = pg[2] /\ pg = <<t0, i0>>
  BY DEF Pages
<1>4. /\ Maps(a, t0, i0) /\ ~IsDev(t0, i0) /\ Ref(a, t0, i0) = Entry(a, pg).ref
      /\ Tab(a, t0) # 0 /\ Tab(a, t0) \in Frames
  <2>1. vmm_is_page_present(a, pg) /\ ZoneKind[pg] # "dev"
    BY <1>2 DEF Victims
  <2>2. Tab(a, t0) # 0
    BY <1>3, <2>1 DEF vmm_is_page_present, Entry, None, Tab
  <2>3. Entry(a, pg) = table[Tab(a, t0)][i0]
    BY <1>3, <2>2 DEF Entry, Tab
  <2> QED  BY <1>3, <2>1, <2>2, <2>3, FramesAreTyped
           DEF vmm_is_page_present, Maps, Ref, IsDev
<1>5. PICK e : e = [st |-> "swapped", ref |-> Len(swap) + 1, w |-> FALSE]
  OBVIOUS
<1>6. Len(swap) \in Nat /\ e \in Entries /\ e.st = "swapped" /\ e.ref = Len(swap) + 1
  <2>1. Len(swap) \in Nat
    BY SwapIsTyped DEF HoldingInv
  <2> QED  BY <1>5, <2>1 DEF Entries
<1>7. /\ SetsEntry(Tab(a, t0), i0, e) /\ free' = free \cup {Ref(a, t0, i0)}
      /\ UNCHANGED <<boot, spaces, devz, live, pdir, base, k, cpu, halted>>
  BY <1>2, <1>3, <1>4, <1>5 DEF SetsEntry, Tab, KswapdSwap
<1>8. Ref(a, t0, i0) \in Frames /\ mem[Ref(a, t0, i0)] \in Values
  <2>1. mem \in [Frames \cup {DevFrame} -> Values]
    BY DEF HoldingInv, TypeOK
  <2> QED  BY <1>4, <2>1, PagesAreFrames
<1>9. swap' \in Seq(Values) /\ Len(swap') = Len(swap) + 1
  <2>1. swap \in Seq(Values)
    BY DEF HoldingInv, TypeOK
  <2> QED  BY <1>2, <1>4, <1>8, <2>1
<1>10. table' \in [Frames -> [Idx -> Entries]]
       /\ \A g \in Frames, i \in Idx :
            table'[g][i] = IF g = Tab(a, t0) /\ i = i0 THEN e ELSE table[g][i]
  BY <1>4, <1>6, <1>7, FramesAreTyped DEF SetsEntry
<1>11. TypeOK'
  <2>1. ksw' \in [awake : BOOLEAN, pid : Procs, perpid : Nat, run : Nat]
    <3>1. ksw \in [awake : BOOLEAN, pid : Procs, perpid : Nat, run : Nat]
      BY DEF HoldingInv, TypeOK
    <3>2. ksw' = [ksw EXCEPT !.perpid = @ + 1, !.run = @ + 1]
      BY DEF KswapdSwap
    <3>3. PICK m \in Nat, n \in Nat : m = ksw.perpid + 1 /\ n = ksw.run + 1
      BY <3>1
    <3>4. ksw' = [ksw EXCEPT !.perpid = m, !.run = n]
      BY <3>2, <3>3
    <3> QED  BY <3>1, <3>4
  <2>2. mem' \in [Frames \cup {DevFrame} -> Values]
    BY <1>2, ForgetIsTyped DEF HoldingInv
  <2>3. free' \in SUBSET Frames
    BY <1>7, <1>8, FramesAreTyped
  <2> QED  BY <1>7, <1>9, <1>10, <2>1, <2>2, <2>3 DEF HoldingInv, TypeOK
<1>12. JobInv'
  <2>1. OneJobPerSpace'
    BY <1>7 DEF HoldingInv, JobInv, OneJobPerSpace, Busy
  <2> QED  BY <1>7, <2>1, JobsUnmoved DEF JobInv
<1>13. RoleInv' /\ ShareInv'
  <2>1. \A q \in Procs : Spare(q)' = Spare(q)
    BY <1>7 DEF Spare, Busy
  <2> QED  BY <1>4, <1>6, <1>7, <2>1, PageRemoved DEF SetsEntry
<1>14. \A q \in Procs, t \in Tables, i \in Idx :
         /\ Maps(q, t, i)' => Maps(q, t, i) /\ Ref(q, t, i)' = Ref(q, t, i)
         /\ Maps(q, t, i) /\ IsDev(t, i) => Maps(q, t, i)'
  <2> SUFFICES ASSUME NEW q \in Procs, NEW t \in Tables, NEW i \in Idx
               PROVE  /\ Maps(q, t, i)' => Maps(q, t, i) /\ Ref(q, t, i)' = Ref(q, t, i)
                      /\ Maps(q, t, i) /\ IsDev(t, i) => Maps(q, t, i)'
    OBVIOUS
  <2>1. Tab(q, t)' = Tab(q, t)
    BY <1>7 DEF Tab
  <2>2. CASE Tab(q, t) = Tab(a, t0) /\ i = i0
    <3>1. t = t0
      BY <1>4, <2>2 DEF HoldingInv, ShareInv, SharedMarked
    <3>2. ~Maps(q, t, i)'
      BY <1>4, <1>6, <1>10, <2>1, <2>2 DEF Maps
    <3> QED  BY <1>4, <2>2, <3>1, <3>2
  <2>3. CASE ~(Tab(q, t) = Tab(a, t0) /\ i = i0)
    <3>1. Tab(q, t) # 0 => table'[Tab(q, t)][i] = table[Tab(q, t)][i]
      BY <1>10, <2>3, FramesAreTyped
    <3> QED  BY <2>1, <3>1 DEF Maps, Ref
  <2> QED  BY <2>2, <2>3
<1>15. DeviceInv'
  <2>1. devz \subseteq Procs
    BY DEF HoldingInv, TypeOK
  <2>2. \A r, q, t, i : Pending(r, q, t, i)' <=> Pending(r, q, t, i)
    BY <1>7 DEF Pending, Copying, Busy
  <2>3. DeviceFrame'
    <3>1. \A q \in Procs, t \in Tables, i \in Idx : Maps(q, t, i)' =>
            IF IsDev(t, i) THEN Ref(q, t, i)' = DevFrame ELSE Ref(q, t, i)' \in Frames
      BY <1>14, PagesAreFrames
    <3>2. \A r \in Procs : Busy(r)' => SourceHasDevice(k[r])'
      BY <1>7 DEF HoldingInv, DeviceInv, DeviceFrame, SourceHasDevice, Busy
    <3> QED  BY <3>1, <3>2 DEF DeviceFrame
  <2>4. DeviceMapped'
    BY <1>7, <1>14, <2>1, <2>2 DEF HoldingInv, DeviceInv, DeviceMapped
  <2>5. DeviceNotLoaded'
    BY <1>7 DEF HoldingInv, DeviceInv, DeviceNotLoaded, LoadsNoDevice, ToLoad, Busy
  <2> QED  BY <2>3, <2>4, <2>5 DEF DeviceInv
<1>16. SwapInv'
  <2>1. \A i \in Idx : Busy(a)' => OnFile(k[a].src[i])'
    BY <1>6, <1>7, <1>9 DEF HoldingInv, SwapInv, OnFile, Busy
  <2>2. \A g \in Frames, i \in Idx : table'[g][i] = table[g][i] \/ OnFile(table[g][i])'
    BY <1>6, <1>9, <1>10 DEF OnFile
  <2> QED  BY <1>6, <1>7, <1>9, <2>1, <2>2, SwapKept
<1> QED  BY <1>11, <1>12, <1>13, <1>15, <1>16 DEF HoldingInv

\* No other process runs kernel code.
Alone(p) == halted = "" /\ cpu \in {0, p}

DropsSpace(p, B) ==
    /\ B \subseteq free
    /\ pdir' = [pdir EXCEPT ![p] = [t \in Tables |-> NoTable]]
    /\ base' = [base EXCEPT ![p] = B]
    /\ table' = [f \in Frames |-> IF f \in Owned(p) THEN Empty ELSE table[f]]
    /\ free' = (free \ B) \cup Owned(p)
    /\ mem' = Forget(mem, Owned(p))
    /\ devz' = devz \ {p}
    /\ live' = live \/ (live' = live \ {p} /\ B = {})

\* Process p leaves the kernel and its address space, for a new one or for none.
LEMMA SpaceGivenUp ==
    ASSUME HoldingInv, NEW p \in Procs, p \in live, Alone(p),
           ~Copying(p), Spare(p) = 0, Leave(p), NEW B, DropsSpace(p, B),
           UNCHANGED <<boot, spaces, swap, ksw, halted>>
    PROVE  HoldingInv'
<1>1. /\ k' \in [Procs -> {Idle} \cup Jobs] /\ cpu' \in 0 .. NProcs
      /\ k'[p] = Idle /\ \A q \in Procs \ {p} : k'[q] = k[q]
  BY LeaveIsTyped DEF HoldingInv
<1>2. \A f \in Owned(p) :
        /\ f \in Frames /\ f \notin free
        /\ \A q \in Procs \ {p}, t \in Tables : f # Tab(q, t)
  BY OwnedFrames
<1>3. /\ pdir' \in [Procs -> [Tables -> [tab : 0 .. NFrames, cow : BOOLEAN]]]
      /\ \A t \in Tables : pdir'[p][t] = NoTable /\ Tab(p, t)' = 0
      /\ \A q \in Procs \ {p}, t \in Tables : pdir'[q][t] = pdir[q][t] /\ Tab(q, t)' = Tab(q, t)
  <2>1. NoTable \in [tab : 0 .. NFrames, cow : BOOLEAN] /\ NoTable.tab = 0
    BY FrameFacts DEF NoTable
  <2>2. pdir \in [Procs -> [Tables -> [tab : 0 .. NFrames, cow : BOOLEAN]]]
    BY DEF HoldingInv, TypeOK
  <2>3. [t \in Tables |-> NoTable] \in [Tables -> [tab : 0 .. NFrames, cow : BOOLEAN]]
    BY <2>1
  <2>4. pdir' \in [Procs -> [Tables -> [tab : 0 .. NFrames, cow : BOOLEAN]]]
    BY <2>2, <2>3 DEF DropsSpace
  <2>5. /\ \A t \in Tables : pdir'[p][t] = NoTable
        /\ \A q \in Procs \ {p}, t \in Tables : pdir'[q][t] = pdir[q][t]
    BY <2>2 DEF DropsSpace
  <2> QED  BY <2>1, <2>4, <2>5 DEF Tab
<1>4. /\ base' \in [Procs -> SUBSET Frames] /\ base'[p] = B
      /\ \A q \in Procs \ {p} : base'[q] = base[q]
  <2>1. base \in [Procs -> SUBSET Frames] /\ free \in SUBSET Frames
    BY DEF HoldingInv, TypeOK
  <2> QED  BY <2>1 DEF DropsSpace
<1>5. /\ table' \in [Frames -> [Idx -> Entries]]
      /\ \A f \in Frames, i \in Idx : table'[f][i] = table[f][i] \/ table'[f][i] = None
      /\ \A f \in Frames : f \notin Owned(p) => table'[f] = table[f]
  <2>1. table \in [Frames -> [Idx -> Entries]]
    BY FramesAreTyped
  <2>2. \A i \in Idx : Empty[i] = None
    BY DEF Empty
  <2> QED  BY <2>1, <2>2, EmptyIsTyped DEF DropsSpace
<1>6. TypeOK'
  <2>1. live' \subseteq Procs /\ devz' \subseteq Procs
    BY DEF HoldingInv, TypeOK, DropsSpace
  <2>2. mem' \in [Frames \cup {DevFrame} -> Values]
    BY ForgetIsTyped DEF HoldingInv, DropsSpace
  <2>3. free' \in SUBSET Frames
    BY <1>2, FramesAreTyped DEF DropsSpace
  <2> QED  BY <1>1, <1>3, <1>4, <1>5, <2>1, <2>2, <2>3 DEF HoldingInv, TypeOK
<1>7. JobInv'
  <2>1. DeadHoldNothing'
    <3> SUFFICES ASSUME NEW q \in Procs \ live'
                 PROVE  /\ k'[q] = Idle /\ base'[q] = {} /\ q \notin devz'
                        /\ \A t \in Tables : pdir'[q][t] = NoTable
      BY DEF DeadHoldNothing
    <3>1. CASE q = p
      <4>1. q \notin devz' /\ B = {}
        BY <3>1 DEF DropsSpace
      <4> QED  BY <1>1, <1>3, <1>4, <3>1, <4>1
    <3>2. CASE q # p
      <4>1. q \notin live
        BY <3>2 DEF DropsSpace
      <4>2. /\ k[q] = Idle /\ base[q] = {} /\ q \notin devz
            /\ \A t \in Tables : pdir[q][t] = NoTable
        BY <4>1 DEF HoldingInv, JobInv, DeadHoldNothing
      <4>3. q \notin devz'
        BY <4>2 DEF DropsSpace
      <4> QED  BY <1>1, <1>3, <1>4, <3>2, <4>2, <4>3
    <3> QED  BY <3>1, <3>2
  <2>2. ASSUME NEW r \in Procs, r # p, Busy(r)
        PROVE  /\ r \in live' /\ \A t \in Tables : pdir'[r][t] = pdir[r][t]
               /\ k[r].at = "pdir" /\ k[r].then = "fork" => k[r].idx \notin live'
    <3>1. r \in live /\ InStep(r, k[r])
      BY <2>2, OthersWorkAtHome DEF Alone, HoldingInv, JobInv, JobsInStep
    <3>2. k[r].at = "pdir" /\ k[r].then = "fork" => k[r].idx \notin live
      BY <3>1 DEF InStep
    <3>3. r \in live' /\ live' \subseteq live
      BY <2>2, <3>1 DEF DropsSpace
    <3> QED  BY <1>3, <2>2, <3>2, <3>3
  <2> QED  BY <2>1, <2>2, JobEnds DEF Alone
<1>8. RoleInv' /\ ShareInv'
  <2>1. \A q \in Procs : Spare(q)' = Spare(q)
    BY <1>1 DEF Spare, Busy
  <2> QED  BY <2>1, SpaceDropped DEF DropsSpace
<1>9. DeviceInv'
  <2>1. devz' \subseteq Procs /\ devz' = devz \ {p}
    BY <1>6 DEF TypeOK, DropsSpace
  <2>2. ASSUME NEW q \in Procs, NEW t \in Tables, NEW i \in Idx
        PROVE  /\ Maps(q, t, i)' => Maps(q, t, i) /\ Ref(q, t, i)' = Ref(q, t, i)
               /\ q # p => (Maps(q, t, i) => Maps(q, t, i)')
    <3>1. CASE q = p
      BY <1>3, <3>1 DEF Maps
    <3>2. CASE q # p
      <4>1. Tab(q, t)' = Tab(q, t) /\ Tab(q, t) \notin Owned(p)
        BY <1>2, <1>3, <3>2
      <4>2. Tab(q, t) # 0 => table'[Tab(q, t)] = table[Tab(q, t)]
        BY <1>5, <4>1, FramesAreTyped
      <4> QED  BY <4>1, <4>2 DEF Maps, Ref
    <3> QED  BY <3>1, <3>2
  <2>3. ~Busy(p)' /\ \A q, t, i : ~Pending(p, q, t, i)' /\ ~Pending(p, q, t, i)
    BY <1>1 DEF Pending, Copying, Busy
  <2>4. ASSUME NEW q \in devz', NEW t \in Tables, NEW i \in Idx, IsDev(t, i)
        PROVE  Maps(q, t, i)' \/ \E r \in Procs : Pending(r, q, t, i)'
    <3>1. Maps(q, t, i) \/ \E r \in Procs : Pending(r, q, t, i)
      BY <2>1, <2>4 DEF HoldingInv, DeviceInv, DeviceMapped
    <3>2. q \in Procs /\ q # p
      BY <2>1
    <3> QED  BY <1>1, <2>2, <2>3, <3>1, <3>2, OthersStillPending
  <2>5. \A q \in Procs, t \in Tables, i \in Idx : Maps(q, t, i)' =>
          IF IsDev(t, i) THEN Ref(q, t, i)' = DevFrame ELSE Ref(q, t, i)' \in Frames
    BY <2>2, PagesAreFrames
  <2> QED  BY <1>1, <2>1, <2>3, <2>4, <2>5, DeviceKept
<1>10. SwapInv'
  <2>1. ~Busy(p)'
    BY <1>1 DEF Busy
  <2>2. \A g \in Frames, i \in Idx : table'[g][i] = table[g][i] \/ OnFile(table[g][i])'
    BY <1>5 DEF OnFile, None
  <2>3. Len(swap) \in Nat /\ swap' = swap
    BY SwapIsTyped DEF HoldingInv
  <2> QED  BY <1>1, <2>1, <2>2, <2>3, SwapKept
<1> QED  BY <1>6, <1>7, <1>8, <1>9, <1>10 DEF HoldingInv

\* exit: the address space is freed.
LEMMA ReleaseStep ==
    ASSUME HoldingInv, NEW p \in Procs, Exit(p) \/ Killed(p)
    PROVE  HoldingInv'
<1>1. p \in live /\ halted = "" /\ cpu \in {0, p} /\ ~Copying(p) /\ Spare(p) = 0
  <2>1. CASE Exit(p)
    BY <2>1, UserHasNoJob DEF Exit
  <2>2. CASE Killed(p)
    <3>1. Runs(p) /\ k[p].at = "fail" /\ k[p].at \in Stages
      BY <2>2 DEF Killed, Stages
    <3>2. p \in live /\ halted = "" /\ cpu \in {0, p} /\ InStep(p, k[p]) /\ Spare(p) = k[p].spare
      BY <3>1, RunningJob
    <3> QED  BY <3>1, <3>2 DEF InStep, Copying
  <2> QED  BY <2>1, <2>2
<1>2. Release(p)
  BY DEF Exit, Killed
<1>3. DropsSpace(p, {})
  <2>1. free \ {} = free
    OBVIOUS
  <2> QED  BY <1>2, <2>1 DEF Release, DropsSpace
<1>4. /\ Leave(p)
      /\ UNCHANGED <<boot, spaces, swap, ksw, halted>>
  BY <1>2 DEF Release
<1> QED  BY <1>1, <1>3, <1>4, SpaceGivenUp DEF Alone

\* exec: the address space is freed and a new one begins.
LEMMA ExecStep ==
    ASSUME HoldingInv, NEW p \in Procs, Exec(p)
    PROVE  HoldingInv'
<1>1. Runs(p) /\ k[p].at = "pdir" /\ k[p].at \in Stages /\ Cardinality(free) >= 2
  BY DEF Exec, Stages
<1>2. p \in live /\ halted = "" /\ cpu \in {0, p} /\ ~Copying(p) /\ Spare(p) = 0
  <2>1. p \in live /\ halted = "" /\ cpu \in {0, p} /\ InStep(p, k[p]) /\ Spare(p) = k[p].spare
    BY <1>1, RunningJob
  <2> QED  BY <1>1, <2>1 DEF InStep, Copying
<1>3. Leave(p) /\ UNCHANGED <<boot, spaces, live, swap, ksw, halted>>
  BY DEF Exec
<1>4. CASE UNCHANGED <<base, pdir, devz, table, free, mem>>
  <2>1. mem' \in [Frames \cup {DevFrame} -> Values]
    BY <1>4 DEF HoldingInv, TypeOK
  <2> QED  BY <1>2, <1>3, <1>4, <2>1, QuietEnd
<1>5. TwoFrames \subseteq free
  BY <1>1, TwoFramesFree DEF HoldingInv
<1>6. CASE DropsSpace(p, TwoFrames)
  BY <1>2, <1>3, <1>6, SpaceGivenUp DEF Alone
<1> QED  BY <1>3, <1>4, <1>5, <1>6 DEF Exec, DropsSpace

\* Fork makes the shared tables read-only and changes nothing else in them.
LEMMA TablesMadeReadOnly ==
    ASSUME HoldingInv, NEW p \in Procs,
           table' = [f \in Frames |->
                       IF \E t \in Tables : Tab(p, t) # 0 /\ Tab(p, t) = f
                       THEN [i \in Idx |-> ReadOnly(table[f][i])] ELSE table[f]]
    PROVE  /\ table' \in [Frames -> [Idx -> Entries]]
           /\ \A f \in Frames, i \in Idx :
                table'[f][i].st = table[f][i].st /\ table'[f][i].ref = table[f][i].ref
<1>1. table \in [Frames -> [Idx -> Entries]]
  BY FramesAreTyped
<1>2. ASSUME NEW e \in Entries
      PROVE  ReadOnly(e) \in Entries /\ ReadOnly(e).st = e.st /\ ReadOnly(e).ref = e.ref
  BY DEF ReadOnly, Entries
<1>3. \A f \in Frames, i \in Idx :
        table'[f][i] = table[f][i] \/ table'[f][i] = ReadOnly(table[f][i])
  OBVIOUS
<1>4. \A f \in Frames : [i \in Idx |-> ReadOnly(table[f][i])] \in [Idx -> Entries]
  BY <1>1, <1>2
<1>5. table' \in [Frames -> [Idx -> Entries]]
  BY <1>1, <1>4
<1> QED  BY <1>1, <1>2, <1>3, <1>5

ForksSpace(p, c, B) ==
    /\ pdir' \in [Procs -> [Tables -> [tab : 0 .. NFrames, cow : BOOLEAN]]]
    /\ \A q \in {p, c}, t \in Tables :
          pdir'[q][t].tab = Tab(p, t) /\ (pdir'[q][t].cow <=> Tab(p, t) # 0)
    /\ \A q \in Procs \ {p, c}, t \in Tables : pdir'[q][t] = pdir[q][t]
    /\ base' \in [Procs -> SUBSET Frames]
    /\ base'[c] = B /\ \A q \in Procs \ {c} : base'[q] = base[q]
    /\ B \subseteq free /\ free' = free \ B
    /\ table' = [f \in Frames |->
                   IF \E t \in Tables : Tab(p, t) # 0 /\ Tab(p, t) = f
                   THEN [i \in Idx |-> ReadOnly(table[f][i])] ELSE table[f]]
    /\ live' = live \cup {c}
    /\ devz' = IF p \in devz THEN devz \cup {c} ELSE devz

\* What fork does to the tables, the directories and the frames.
LEMMA ForkEffect ==
    ASSUME HoldingInv, NEW p \in Procs, Fork(p)
    PROVE  ForksSpace(p, k[p].idx, TwoFrames) /\ k[p].idx \in Procs \ live /\ p # k[p].idx
<1>1. PICK c : c = k[p].idx
  OBVIOUS
<1>2. /\ Runs(p) /\ k[p].at = "pdir" /\ k[p].at \in Stages /\ k[p].then = "fork"
      /\ Cardinality(free) >= 2
  BY DEF Fork, Stages
<1>3. c \in Procs \ live /\ p \in live /\ p # c
  <2>1. p \in live /\ InStep(p, k[p])
    BY <1>2, RunningJob
  <2> QED  BY <1>1, <1>2, <2>1 DEF InStep
<1> DEFINE shared == {t \in Tables : pdir[p][t].tab # 0}
           both == [t \in Tables |-> [tab |-> pdir[p][t].tab, cow |-> t \in shared]]
<1>4. /\ live' = live \cup {c}
      /\ devz' = IF p \in devz THEN devz \cup {c} ELSE devz
      /\ base' = [base EXCEPT ![c] = TwoFrames]
      /\ pdir' = [pdir EXCEPT ![p] = both, ![c] = both]
      /\ table' = [f \in Frames |->
                   IF \E t \in shared : pdir[p][t].tab = f
                   THEN [i \in Idx |-> ReadOnly(table[f][i])] ELSE table[f]]
      /\ free' = free \ TwoFrames
  BY <1>1 DEF Fork
<1>5. \A f : (\E t \in shared : pdir[p][t].tab = f)
             <=> (\E t \in Tables : Tab(p, t) # 0 /\ Tab(p, t) = f)
  BY DEF Tab
<1>6. table' = [f \in Frames |->
                  IF \E t \in Tables : Tab(p, t) # 0 /\ Tab(p, t) = f
                  THEN [i \in Idx |-> ReadOnly(table[f][i])] ELSE table[f]]
  BY <1>4, <1>5
<1>7. \A t \in Tables : /\ both[t] \in [tab : 0 .. NFrames, cow : BOOLEAN]
                        /\ both[t].tab = Tab(p, t)
                        /\ both[t].cow <=> Tab(p, t) # 0
  <2> SUFFICES ASSUME NEW t \in Tables
               PROVE  /\ both[t] \in [tab : 0 .. NFrames, cow : BOOLEAN]
                      /\ both[t].tab = Tab(p, t)
                      /\ both[t].cow <=> Tab(p, t) # 0
    OBVIOUS
  <2>1. PICK b \in BOOLEAN : b <=> t \in shared
    OBVIOUS
  <2>2. both[t] = [tab |-> Tab(p, t), cow |-> b]
    BY <2>1 DEF Tab
  <2>3. Tab(p, t) \in 0 .. NFrames
    BY FramesAreTyped
  <2>4. both[t] \in [tab : 0 .. NFrames, cow : BOOLEAN]
    BY <2>2, <2>3
  <2>5. both[t].tab = Tab(p, t) /\ both[t].cow = b
    BY <2>2
  <2>6. b <=> Tab(p, t) # 0
    BY <2>1 DEF Tab
  <2> QED  BY <2>4, <2>5, <2>6
<1>8. both \in [Tables -> [tab : 0 .. NFrames, cow : BOOLEAN]]
  BY <1>7
<1>9. pdir \in [Procs -> [Tables -> [tab : 0 .. NFrames, cow : BOOLEAN]]]
  BY DEF HoldingInv, TypeOK
<1>10. PICK new : new = both
  OBVIOUS
<1>11. /\ new \in [Tables -> [tab : 0 .. NFrames, cow : BOOLEAN]]
       /\ \A t \in Tables : new[t].tab = Tab(p, t) /\ (new[t].cow <=> Tab(p, t) # 0)
       /\ pdir' = [pdir EXCEPT ![p] = new, ![c] = new]
  BY <1>4, <1>7, <1>8, <1>10
<1> HIDE DEF both
<1>12. /\ pdir' \in [Procs -> [Tables -> [tab : 0 .. NFrames, cow : BOOLEAN]]]
       /\ pdir'[p] = new /\ pdir'[c] = new
       /\ \A q \in Procs \ {p, c}, t \in Tables : pdir'[q][t] = pdir[q][t]
  BY <1>3, <1>9, <1>11
<1>13. /\ base' \in [Procs -> SUBSET Frames]
       /\ base'[c] = TwoFrames /\ \A q \in Procs \ {c} : base'[q] = base[q]
       /\ TwoFrames \subseteq free
  <2>1. base \in [Procs -> SUBSET Frames] /\ free \subseteq Frames
    BY DEF HoldingInv, TypeOK
  <2>2. TwoFrames \subseteq free
    BY <1>2, TwoFramesFree DEF HoldingInv
  <2> QED  BY <1>3, <1>4, <2>1, <2>2
<1> QED  BY <1>1, <1>3, <1>4, <1>6, <1>11, <1>12, <1>13 DEF ForksSpace

\* fork keeps the invariant.
LEMMA ForkStep ==
    ASSUME HoldingInv, NEW p \in Procs, Fork(p)
    PROVE  HoldingInv'
<1>1. PICK c \in Procs : c = k[p].idx /\ c \notin live /\ p # c
  BY ForkEffect
<1>2. ForksSpace(p, c, TwoFrames)
  BY <1>1, ForkEffect
<1>3. Runs(p) /\ k[p].at = "pdir" /\ k[p].at \in Stages /\ k[p].then = "fork"
  BY DEF Fork, Stages
<1>4. /\ p \in live /\ Alone(p) /\ ~Copying(p) /\ Spare(p) = 0
  <2>1. /\ p \in live /\ halted = "" /\ cpu \in {0, p} /\ InStep(p, k[p])
        /\ Spare(p) = k[p].spare
    BY <1>3, RunningJob
  <2> QED  BY <1>3, <2>1 DEF InStep, Copying, Alone
<1>5. Leave(p) /\ UNCHANGED <<boot, spaces, mem, swap, ksw, halted>>
  BY DEF Fork
<1>6. /\ k' \in [Procs -> {Idle} \cup Jobs] /\ cpu' \in 0 .. NProcs
      /\ k'[p] = Idle /\ \A q \in Procs \ {p} : k'[q] = k[q]
  BY <1>5, LeaveIsTyped DEF HoldingInv
<1>7. /\ table' \in [Frames -> [Idx -> Entries]]
      /\ \A f \in Frames, i \in Idx :
           table'[f][i].st = table[f][i].st /\ table'[f][i].ref = table[f][i].ref
  BY <1>2, TablesMadeReadOnly DEF ForksSpace
<1>8. TypeOK'
  <2>1. free' \in SUBSET Frames /\ live' \subseteq Procs /\ devz' \subseteq Procs
    BY <1>2 DEF ForksSpace, HoldingInv, TypeOK
  <2> QED  BY <1>2, <1>5, <1>6, <1>7, <2>1 DEF ForksSpace, HoldingInv, TypeOK
<1>9. k[c] = Idle
  BY <1>1 DEF HoldingInv, JobInv, DeadHoldNothing
<1>10. ASSUME NEW r \in Procs, r # p, Busy(r)
       PROVE  /\ r \in live /\ r # c /\ k[r].as = r
              /\ \A t \in Tables : pdir'[r][t] = pdir[r][t]
              /\ k[r].at = "pdir" /\ k[r].then = "fork" => k[r].idx \notin live'
  <2>1. r \in live /\ InStep(r, k[r]) /\ k[r].as = r
    BY <1>4, <1>10, OthersWorkAtHome DEF Alone, HoldingInv, JobInv, JobsInStep
  <2>2. r # c
    BY <1>9, <1>10 DEF Busy
  <2>3. \A t \in Tables : pdir'[r][t] = pdir[r][t]
    BY <1>2, <1>10, <2>2 DEF ForksSpace
  <2>4. ASSUME k[r].at = "pdir", k[r].then = "fork"
        PROVE  k[r].idx \notin live'
    <3>1. k[r].idx \in Procs \ live
      BY <2>1, <2>4 DEF InStep
    <3>2. k[r].idx # c
      <4>1. Forking(p, c) /\ (k[r].idx = c => Forking(r, c))
        BY <1>1, <1>3, <2>4 DEF Forking
      <4> QED  BY <1>10, <4>1 DEF HoldingInv, JobInv, ForksApart
    <3> QED  BY <1>2, <3>1, <3>2 DEF ForksSpace
  <2> QED  BY <2>1, <2>2, <2>3, <2>4
<1>11. JobInv'
  <2>1. DeadHoldNothing'
    <3> SUFFICES ASSUME NEW q \in Procs \ live'
                 PROVE  /\ k'[q] = Idle /\ base'[q] = {} /\ q \notin devz'
                        /\ \A t \in Tables : pdir'[q][t] = NoTable
      BY DEF DeadHoldNothing
    <3>1. q \in Procs \ live /\ q # c /\ q # p
      BY <1>2, <1>4 DEF ForksSpace
    <3>2. /\ k[q] = Idle /\ base[q] = {} /\ q \notin devz
          /\ \A t \in Tables : pdir[q][t] = NoTable
      BY <3>1 DEF HoldingInv, JobInv, DeadHoldNothing
    <3>3. base'[q] = base[q] /\ q \notin devz' /\ \A t \in Tables : pdir'[q][t] = pdir[q][t]
      BY <1>2, <3>1, <3>2 DEF ForksSpace
    <3> QED  BY <1>6, <3>1, <3>2, <3>3
  <2>2. \A r \in Procs : r # p /\ Busy(r) => r \in live'
    BY <1>2, <1>10 DEF ForksSpace
  <2>3. halted = "" /\ halted' = "" /\ cpu \in {0, p}
    BY <1>4, <1>5 DEF Alone
  <2> QED  BY <1>5, <1>10, <2>1, <2>2, <2>3, JobEnds
<1>12. RoleInv' /\ ShareInv'
  <2>1. \A q \in Procs : Spare(q)' = Spare(q)
    BY <1>4, <1>6 DEF Spare, Busy
  <2> QED  BY <1>1, <1>2, <2>1, SpaceForked DEF ForksSpace
<1>13. DeviceInv'
  <2> DEFINE old(q) == IF q = c THEN p ELSE q
  <2>1. devz' \subseteq Procs /\ \A q \in Procs : old(q) \in Procs
    BY <1>8 DEF TypeOK
  <2>2. \A q \in devz' : old(q) \in devz
    <3>1. c \notin devz
      BY <1>1 DEF HoldingInv, JobInv, DeadHoldNothing
    <3> QED  BY <1>2, <3>1 DEF ForksSpace
  <2>3. ASSUME NEW q \in Procs, NEW t \in Tables, NEW i \in Idx
        PROVE  /\ Maps(q, t, i)' <=> Maps(old(q), t, i)
               /\ Maps(q, t, i)' => Ref(q, t, i)' = Ref(old(q), t, i)
    <3>1. Tab(q, t)' = Tab(old(q), t)
      <4>1. CASE q \in {p, c}
        BY <1>2, <4>1 DEF ForksSpace, Tab
      <4>2. CASE q \notin {p, c}
        <5>1. pdir'[q][t] = pdir[q][t]
          BY <1>2, <4>2 DEF ForksSpace
        <5> QED  BY <4>2, <5>1 DEF Tab
      <4> QED  BY <4>1, <4>2
    <3>2. Tab(old(q), t) # 0 => Tab(old(q), t) \in Frames
      BY <2>1, FramesAreTyped
    <3> HIDE DEF old
    <3> QED  BY <1>7, <3>1, <3>2 DEF Maps, Ref
  <2> HIDE DEF old
  <2>4. ~Busy(p)' /\ \A q, t, i : ~Pending(p, q, t, i)' /\ ~Pending(p, q, t, i)
    BY <1>4, <1>6 DEF Pending, Copying, Busy
  <2>5. ASSUME NEW q \in devz', NEW t \in Tables, NEW i \in Idx, IsDev(t, i)
        PROVE  Maps(q, t, i)' \/ \E r \in Procs : Pending(r, q, t, i)'
    <3>1. Maps(old(q), t, i) \/ \E r \in Procs : Pending(r, old(q), t, i)
      BY <2>2, <2>5 DEF HoldingInv, DeviceInv, DeviceMapped
    <3>2. CASE q \in {p, c}
      <4>1. old(q) = p /\ p \in devz
        BY <2>2, <3>2 DEF old
      <4>2. Maps(p, t, i)
        BY <1>4, <2>5, <4>1, DeviceIsMapped DEF Alone
      <4> QED  BY <2>1, <2>3, <4>1, <4>2
    <3>3. CASE q \notin {p, c}
      <4>1. old(q) = q
        BY <3>3 DEF old
      <4> QED  BY <1>6, <2>1, <2>3, <2>4, <3>1, <4>1, OthersStillPending
    <3> QED  BY <3>2, <3>3
  <2>6. \A q \in Procs, t \in Tables, i \in Idx : Maps(q, t, i)' =>
          IF IsDev(t, i) THEN Ref(q, t, i)' = DevFrame ELSE Ref(q, t, i)' \in Frames
    BY <2>1, <2>3, PagesAreFrames
  <2>7. \A r \in Procs : r # p /\ Busy(r) /\ k[r].as \in devz' => k[r].as \in devz
    BY <1>2, <1>10 DEF ForksSpace
  <2> QED  BY <1>6, <2>1, <2>4, <2>5, <2>6, <2>7, DeviceKept
<1>14. SwapInv'
  <2>1. ~Busy(p)'
    BY <1>6 DEF Busy
  <2>2. \A g \in Frames, i \in Idx : OnFile(table[g][i])'
    BY <1>5, <1>7 DEF OnFile, HoldingInv, SwapInv
  <2>3. Len(swap) \in Nat /\ swap' = swap
    BY <1>5, SwapIsTyped DEF HoldingInv
  <2> QED  BY <1>6, <2>1, <2>2, <2>3, SwapKept
<1> QED  BY <1>8, <1>11, <1>12, <1>13, <1>14 DEF HoldingInv

\* The machine starts in the invariant.
LEMMA HoldingInit ==
    ASSUME Init
    PROVE  HoldingInv
<1>1. 1 \in Procs /\ 1 \in Tables /\ 1 \in Idx
  BY VmmAssumption DEF Procs, Tables, Idx
<1>2. /\ boot.ram \in 2 .. NFrames
      /\ \A t \in DevTables :
           t \in Tables /\ t \in Nat /\ t >= 1 /\ 2 + t <= boot.ram /\ 2 + t \in Frames
  <2>1. /\ boot \in Boots /\ boot.ram \in 2 .. NFrames
        /\ \A t \in DevTables : 2 + t <= boot.ram
    BY VmmAssumption DEF Init
  <2>2. ASSUME NEW t \in DevTables
        PROVE  t \in Tables /\ t \in Nat /\ t >= 1 /\ 2 + t <= boot.ram /\ 2 + t \in Frames
    <3>1. t \in Tables /\ t \in Nat /\ t >= 1
      BY VmmAssumption DEF DevTables, Tables
    <3> QED  BY <2>1, <3>1, VmmAssumption DEF Frames
  <2> QED  BY <2>1, <2>2
<1>3. \A p \in Procs, t \in Tables :
        /\ p = 1 /\ t \in DevTables => Tab(p, t) = 2 + t /\ ~pdir[p][t].cow
        /\ ~(p = 1 /\ t \in DevTables) => pdir[p][t] = NoTable /\ Tab(p, t) = 0 /\ ~pdir[p][t].cow
  BY DEF Init, Tab, NoTable
<1>4. \A t \in DevTables, i \in Idx :
        table[2 + t][i] = IF IsDev(t, i)
                          THEN [st |-> "present", ref |-> DevFrame, w |-> TRUE] ELSE None
  <2>1. \A t \in DevTables : (2 + t) - 2 = t
    BY <1>2
  <2> QED  BY <1>2, <2>1 DEF Init, IsDev
<1>5. \A p \in Procs : k[p] = Idle /\ ~Busy(p) /\ Spare(p) = 0
  BY DEF Init, Busy, Spare
<1>6. \A p \in Procs, t \in Tables, i \in Idx : Maps(p, t, i) =>
        p = 1 /\ t \in DevTables /\ IsDev(t, i) /\ Ref(p, t, i) = DevFrame
  BY <1>3, <1>4 DEF Maps, Ref, None
<1>7. TypeOK
  <2>1. pdir \in [Procs -> [Tables -> [tab : 0 .. NFrames, cow : BOOLEAN]]]
    <3>1. NoTable \in [tab : 0 .. NFrames, cow : BOOLEAN]
      BY FrameFacts DEF NoTable
    <3>2. \A t \in DevTables : 2 + t \in 0 .. NFrames
      BY <1>2, FrameFacts DEF Frames
    <3>3. \A t \in DevTables :
            [tab |-> 2 + t, cow |-> FALSE] \in [tab : 0 .. NFrames, cow : BOOLEAN]
      BY <3>2
    <3> QED  BY <3>1, <3>3 DEF Init
  <2>2. table \in [Frames -> [Idx -> Entries]]
    <3>1. [st |-> "present", ref |-> DevFrame, w |-> TRUE] \in Entries
      BY FrameFacts DEF Entries
    <3> QED  BY <3>1, EmptyIsTyped DEF Init
  <2>3. base \in [Procs -> SUBSET Frames] /\ free \in SUBSET Frames
    <3>1. base = [p \in Procs |-> IF p = 1 THEN {1, 2} ELSE {}] /\ boot \in Boots
          /\ free = (1 .. boot.ram) \ ({1, 2} \cup {2 + t : t \in DevTables})
      BY DEF Init
    <3>2. boot.ram \in Nat /\ boot.ram >= 2 /\ boot.ram <= NFrames /\ NFrames \in Nat
      BY <1>2, VmmAssumption
    <3>3. 1 \in Frames /\ 2 \in Frames /\ 1 .. boot.ram \subseteq Frames
      BY <3>2 DEF Frames
    <3> QED  BY <3>1, <3>3
  <2>4. mem \in [Frames \cup {DevFrame} -> Values]
    BY VmmAssumption DEF Init
  <2>5. cpu \in 0 .. NProcs /\ spaces \in Nat
    <3>1. cpu = 0 /\ spaces = 0
      BY DEF Init
    <3> QED  BY <3>1, VmmAssumption
  <2>6. ksw \in [awake : BOOLEAN, pid : Procs, perpid : Nat, run : Nat]
    BY <1>1 DEF Init, Asleep
  <2>7. k \in [Procs -> {Idle} \cup Jobs] /\ swap \in Seq(Values)
    <3>1. k = [p \in Procs |-> Idle] /\ swap = <<>>
      BY DEF Init
    <3> QED  BY <3>1
  <2>8. boot \in Boots /\ live \subseteq Procs /\ devz \subseteq Procs
    BY <1>1 DEF Init
  <2> QED  BY <2>1, <2>2, <2>3, <2>4, <2>5, <2>6, <2>7, <2>8 DEF Init, TypeOK
<1>8. JobInv
  <2>1. DeadHoldNothing
    BY <1>3, <1>5 DEF Init, DeadHoldNothing
  <2>2. OneJobPerSpace /\ JobsInStep
    BY <1>5 DEF OneJobPerSpace, JobsInStep
  <2>3. ForksApart
    BY <1>5, JobsAreBusy DEF ForksApart, Forking
  <2> QED  BY <2>1, <2>2, <2>3 DEF JobInv
<1>9. DeviceInv
  <2>1. DeviceFrame
    BY <1>5, <1>6 DEF DeviceFrame
  <2>2. DeviceMapped
    <3>1. \A r, p \in Procs, t \in Tables, i \in Idx : ~Pending(r, p, t, i)
      BY <1>5 DEF Pending, Copying
    <3>2. ASSUME NEW t \in Tables, NEW i \in Idx, IsDev(t, i)
          PROVE  Maps(1, t, i)
      <4>1. t \in DevTables
        BY <3>2 DEF DevTables, IsDev
      <4>2. Tab(1, t) = 2 + t /\ 2 + t # 0
        BY <1>1, <1>2, <1>3, <4>1
      <4> QED  BY <1>4, <3>2, <4>1, <4>2 DEF Maps
    <3>3. devz = {1}
      BY DEF Init
    <3> QED  BY <3>1, <3>2, <3>3 DEF DeviceMapped
  <2>3. DeviceNotLoaded
    BY <1>5 DEF DeviceNotLoaded
  <2> QED  BY <2>1, <2>2, <2>3 DEF DeviceInv
<1>10. SwapInv
  <2>1. \A f \in Frames, i \in Idx : table[f][i].st # "swapped"
    BY DEF Init, None, Empty
  <2> QED  BY <1>5, <2>1 DEF SwapInv, OnFile
<1>11. /\ base[1] = {1, 2} /\ \A q \in Procs : q # 1 => base[q] = {}
       /\ free = (1 .. boot.ram) \ ({1, 2} \cup {2 + t : t \in DevTables})
  BY <1>1 DEF Init
<1>12. RoleInv
  <2>1. \A q \in Procs : \A f \in base[q] : q = 1 /\ f \in {1, 2}
    BY <1>11
  <2>2. BasesApart
    BY <1>11, <2>1 DEF BasesApart
  <2>3. TablesApart
    <3> SUFFICES ASSUME NEW p \in Procs, NEW t \in Tables, Tab(p, t) # 0
                 PROVE  /\ Tab(p, t) \notin free
                        /\ \A q \in Procs : Tab(p, t) \notin base[q] /\ Tab(p, t) # Spare(q)
      BY DEF TablesApart
    <3>1. t \in DevTables /\ Tab(p, t) = 2 + t
      BY <1>3
    <3> QED  BY <1>2, <1>5, <1>11, <2>1, <3>1
  <2>4. PagesApart
    <3>1. DevFrame \notin free /\ \A q \in Procs : DevFrame \notin base[q] /\ DevFrame # Spare(q)
      BY <1>5, <1>7, FrameFacts DEF TypeOK
    <3>2. \A q \in Procs, u \in Tables : Tab(q, u) # DevFrame
      BY <1>2, <1>3, FrameFacts
    <3> QED  BY <1>6, <3>1, <3>2 DEF PagesApart
  <2>5. SparesApart
    BY <1>5 DEF SparesApart
  <2> QED  BY <2>2, <2>3, <2>4, <2>5 DEF RoleInv
<1>13. ShareInv
  <2>1. OneEntryPerPage
    BY <1>6 DEF OneEntryPerPage
  <2>2. SharedMarked
    BY <1>2, <1>3 DEF SharedMarked
  <2>3. MarkedReadOnly
    BY <1>3 DEF MarkedReadOnly
  <2> QED  BY <2>1, <2>2, <2>3 DEF ShareInv
<1> QED  BY <1>7, <1>8, <1>9, <1>10, <1>12, <1>13 DEF HoldingInv

\* Every step keeps the invariant.
LEMMA HoldingStep ==
    ASSUME HoldingInv, [Next]_vars
    PROVE  HoldingInv'
<1>1. ASSUME NEW p \in Procs, KernelStep(p)
      PROVE  HoldingInv'
  <2>1. CASE PspaceFails(p)
    BY <2>1, StopStep DEF PspaceFails
  <2>2. CASE AllocPage(p)
    BY <2>2, AllocPageNoTableStep, AllocPageMapStep
  <2> QED  BY <1>1, <2>1, <2>2, ResolveSourceStep, ResolveTableStep, ResolvePageStep,
              ResolveEntryStep, ResolveDoneStep, EnsurePresentStep, FindZoneStep,
              AllocTableStep, ReturnStep, CopyToUserStep, ForkStep, ExecStep, ReleaseStep,
              SleepStep DEF KernelStep
<1>2. ASSUME NEW p \in Procs, UserStep(p)
      PROVE  HoldingInv'
  BY <1>2, FaultNotPresentStep, FaultOnWritingStep, KernelLoadStep, UserStoreStep,
     KernelStoreStep, StartSpaceStep, ReleaseStep DEF UserStep
<1>3. CASE UNCHANGED vars
  <2>1. /\ mem' \in [Frames \cup {DevFrame} -> Values]
        /\ ksw' \in [awake : BOOLEAN, pid : Procs, perpid : Nat, run : Nat]
    BY <1>3 DEF vars, HoldingInv, TypeOK
  <2> QED  BY <1>3, <2>1, NothingMoves DEF vars
<1> QED  BY <1>1, <1>2, <1>3, KswapdQuietStep, KswapdSwapStep DEF Next

\* Which process holds which frame, and in which role (page directory, page
\* table, page, frame of a fault in progress, free), stays consistent through
\* faults, copy on write, fork, exec, exit and kswapd, for any number of
\* processes, tables, pages and frames (kernel/mem/vmm.c, kernel/mem/bits32/vmm32.c).
THEOREM VmmInvariant == Spec => []HoldingInv
<1>1. Init => HoldingInv
  BY HoldingInit
<1>2. HoldingInv /\ [Next]_vars => HoldingInv'
  BY HoldingStep
<1> QED  BY <1>1, <1>2, PTL DEF Spec

\* The invariant implies that frames are private.
LEMMA HoldingIsPrivate ==
    ASSUME HoldingInv
    PROVE  FramesPrivate
<1>1. TypeOK
  BY DEF HoldingInv
<1>2. ASSUME NEW p \in Procs, NEW x \in Pages
      PROVE  /\ x[1] \in Tables /\ x[2] \in Idx /\ x = <<x[1], x[2]>>
             /\ vmm_is_page_present(p, x) <=> Maps(p, x[1], x[2])
             /\ Maps(p, x[1], x[2]) =>
                  /\ Entry(p, x) = table[Tab(p, x[1])][x[2]]
                  /\ Entry(p, x).ref = Ref(p, x[1], x[2])
  <2>1. x[1] \in Tables /\ x[2] \in Idx /\ x = <<x[1], x[2]>>
    BY DEF Pages
  <2> QED  BY <2>1 DEF vmm_is_page_present, Entry, Maps, Ref, Tab, None
<1>3. WritablePagesPrivate
  <2> SUFFICES ASSUME NEW p \in Procs, NEW q \in Procs, NEW x \in Pages, NEW y \in Pages,
                      <<p, x>> # <<q, y>>,
                      vmm_is_page_present(p, x), vmm_is_page_present(q, y),
                      Entry(p, x).ref = Entry(q, y).ref, Entry(p, x).ref # DevFrame
               PROVE  ~Entry(p, x).w
    BY DEF WritablePagesPrivate
  <2>1. Maps(p, x[1], x[2]) /\ Maps(q, y[1], y[2])
        /\ Ref(p, x[1], x[2]) = Ref(q, y[1], y[2]) /\ Ref(p, x[1], x[2]) # DevFrame
    BY <1>2
  <2>2. Tab(p, x[1]) = Tab(q, y[1]) /\ x[2] = y[2] /\ Tab(p, x[1]) # 0
    BY <1>2, <2>1 DEF HoldingInv, ShareInv, OneEntryPerPage, Maps
  <2>3. x[1] = y[1] /\ (p # q => pdir[p][x[1]].cow)
    BY <1>2, <2>2 DEF HoldingInv, ShareInv, SharedMarked
  <2>4. p # q
    BY <1>2, <2>2, <2>3
  <2>5. ~table[Tab(p, x[1])][x[2]].w
    BY <1>2, <2>1, <2>3, <2>4 DEF HoldingInv, ShareInv, MarkedReadOnly
  <2> QED  BY <1>2, <2>1, <2>5
<1>4. NoUsedFrameFree
  <2> SUFFICES ASSUME NEW f \in free, f \in UsedFrames
               PROVE  FALSE
    BY DEF NoUsedFrameFree
  <2>1. f \in Frames
    BY <1>1 DEF TypeOK
  <2>2. ASSUME NEW p \in Procs, f \in base[p]
        PROVE  FALSE
    BY <2>2 DEF HoldingInv, RoleInv, BasesApart
  <2>3. ASSUME NEW p \in Procs, NEW t \in Tables, f = Tab(p, t)
        PROVE  FALSE
    BY <2>1, <2>3, FrameFacts DEF HoldingInv, RoleInv, TablesApart
  <2>4. ASSUME NEW p \in Procs, NEW t \in Tables, NEW i \in Idx, Maps(p, t, i), f = Ref(p, t, i)
        PROVE  FALSE
    BY <2>4 DEF HoldingInv, RoleInv, PagesApart
  <2>5. ASSUME NEW p \in Procs, Busy(p), f = k[p].spare
        PROVE  FALSE
    BY <2>1, <2>5, FrameFacts DEF HoldingInv, RoleInv, SparesApart, Spare
  <2>6. ASSUME NEW m \in Mapped, f = table[m[1]][m[2]].ref
        PROVE  FALSE
    <3>1. m[1] \in WalkedTables /\ m[2] \in Idx /\ table[m[1]][m[2]].st = "present"
      BY DEF Mapped
    <3>2. PICK p \in Procs, t \in Tables : m[1] = Tab(p, t) /\ m[1] # 0
      BY <3>1 DEF WalkedTables, Tab
    <3>3. Maps(p, t, m[2]) /\ f = Ref(p, t, m[2])
      BY <2>6, <3>1, <3>2 DEF Maps, Ref
    <3> QED  BY <2>4, <3>1, <3>3
  <2>7. f \notin WalkedTables
    BY <2>3 DEF WalkedTables, Tab
  <2>8. ASSUME NEW p \in Procs, k[p] # Idle, f = k[p].spare
        PROVE  FALSE
    BY <2>5, <2>8 DEF Busy
  <2>9. f \notin UNION {base[p] : p \in Procs}
    BY <2>2
  <2>10. f \notin {table[m[1]][m[2]].ref : m \in Mapped}
    BY <2>6
  <2>11. f \notin {k[p].spare : p \in {q \in Procs : k[q] # Idle}}
    BY <2>8
  <2>12. f \notin UsedFrames
    BY <2>7, <2>9, <2>10, <2>11 DEF UsedFrames
  <2> QED  BY <2>12
<1> QED  BY <1>1, <1>3, <1>4 DEF FramesPrivate

\* pmm hands out no frame that a table, a directory or a fault in progress still
\* refers to, and no frame but the device's can be written through two pages:
\* the copy on write of vmm.c and the freeing of address spaces are right for
\* every machine VmmAssumption allows.
THEOREM FramesArePrivate == Spec => []FramesPrivate
<1>1. HoldingInv => FramesPrivate
  BY HoldingIsPrivate
<1> QED  BY <1>1, VmmInvariant, PTL
=============================================================================
