----------------------------- MODULE VmmFrames -----------------------------
(* Lemmas about frames: how the changes the virtual memory makes (a frame    *)
(* becomes a table, a page is mapped, moved out or given up, a space is      *)
(* forked or dropped) leave each part of HoldingInv.                         *)
EXTENDS VmmInv, FiniteSetTheorems, WellFoundedInduction, TLAPS

\* A non-empty set of natural numbers has a least element.
LEMMA LeastElement ==
    ASSUME NEW S \in SUBSET Nat, S # {}
    PROVE  \E x \in S : \A y \in S : x <= y
<1> DEFINE R == {ss \in Nat \X Nat : ss[1] < ss[2]}
<1>1. IsWellFoundedOn(R, Nat)
  BY NatLessThanWellFounded DEF OpToRel
<1> HIDE DEF R
<1>2. PICK x \in S : \A y \in S : ~(<<y, x>> \in R)
  BY <1>1, WFMin
<1>3. \A y \in S : ~(y < x)
  BY <1>2 DEF R
<1> QED  BY <1>3

LEMMA MinIsMember ==
    ASSUME NEW S \in SUBSET Nat, S # {}
    PROVE  Min(S) \in S
BY LeastElement DEF Min

\* Frames are positive numbers, and the frame of the device is none of them.
LEMMA FrameFacts ==
    /\ NFrames \in Nat /\ Frames \subseteq Nat
    /\ 0 \notin Frames /\ DevFrame \notin Frames /\ DevFrame \in Nat /\ DevFrame # 0
    /\ \A f \in 0 .. NFrames : f # 0 => f \in Frames
BY VmmAssumption DEF Frames, DevFrame

LEMMA ProcFacts == 0 \notin Procs /\ Procs \subseteq Nat
BY VmmAssumption DEF Procs

\* The frame the allocator hands out is free.
LEMMA NextFrameFree ==
    ASSUME TypeOK, free # {}
    PROVE  NextFrame \in free /\ NextFrame \in Frames
<1>1. free \in SUBSET Nat
  BY FrameFacts DEF TypeOK
<1> QED  BY <1>1, MinIsMember DEF NextFrame, TypeOK

\* The two frames of a new address space are free and distinct.
LEMMA TwoFramesFree ==
    ASSUME TypeOK, Cardinality(free) >= 2
    PROVE  TwoFrames \subseteq free /\ NextFrame \in free
<1>1. free \in SUBSET Nat /\ free \in SUBSET Frames
  BY FrameFacts DEF TypeOK
<1>2. IsFiniteSet(free)
  <2>1. IsFiniteSet(Frames)
    BY FS_Interval, FrameFacts DEF Frames
  <2> QED  BY <1>1, <2>1, FS_Subset
<1>3. free # {}
  <2>1. Cardinality({}) = 0
    BY FS_EmptySet
  <2> QED  BY <2>1
<1>4. NextFrame \in free
  BY <1>3, NextFrameFree
<1>5. free \ {NextFrame} # {}
  <2>1. SUFFICES ASSUME free = {NextFrame} PROVE FALSE
    BY <1>4
  <2>2. Cardinality({NextFrame}) = 1
    BY FS_Singleton
  <2> QED  BY <2>1, <2>2
<1>6. Min(free \ {NextFrame}) \in free \ {NextFrame}
  BY <1>1, <1>5, MinIsMember
<1> QED  BY <1>4, <1>6 DEF TwoFrames

\* A process that does anything in the kernel has a job.
LEMMA JobIsTyped ==
    ASSUME TypeOK, NEW p \in Procs
    PROVE  /\ Busy(p) => k[p] \in Jobs
           /\ k[p].at \in Stages => Busy(p) /\ k[p] \in Jobs
<1>1. k[p] = Idle \/ k[p] \in Jobs
  BY DEF TypeOK
<1>2. k[p] = Idle => k[p].at = "user"
  BY DEF Idle
<1>3. "user" \notin Stages
  BY DEF Stages
<1> QED  BY <1>1, <1>2, <1>3 DEF Busy

\* A process in user mode has no job.
LEMMA JobsAreBusy == Idle.at = "user" /\ Idle \notin Jobs
<1>1. Idle.at = "user" /\ "user" \notin Stages
  BY DEF Idle, Stages
<1>2. \A j \in Jobs : j.at \in Stages
  BY DEF Jobs
<1> QED  BY <1>1, <1>2

\* Steps that give process p the job j, or none.
LEMMA GotoIsTyped ==
    ASSUME TypeOK, NEW p \in Procs, NEW j \in Jobs, Goto(p, j)
    PROVE  /\ k' \in [Procs -> {Idle} \cup Jobs] /\ cpu' \in 0 .. NProcs
           /\ k'[p] = j /\ \A q \in Procs \ {p} : k'[q] = k[q]
           /\ cpu' = p
<1>1. k \in [Procs -> {Idle} \cup Jobs]
  BY DEF TypeOK
<1>2. cpu' \in 0 .. NProcs
  BY VmmAssumption DEF Goto, Procs
<1> QED  BY <1>1, <1>2 DEF Goto

LEMMA LeaveIsTyped ==
    ASSUME TypeOK, NEW p \in Procs, Leave(p)
    PROVE  /\ k' \in [Procs -> {Idle} \cup Jobs] /\ cpu' \in 0 .. NProcs
           /\ k'[p] = Idle /\ \A q \in Procs \ {p} : k'[q] = k[q]
           /\ cpu' = 0
<1>1. k \in [Procs -> {Idle} \cup Jobs]
  BY DEF TypeOK
<1>2. cpu' \in 0 .. NProcs
  BY VmmAssumption DEF Leave, Procs
<1> QED  BY <1>1, <1>2 DEF Leave

\* The entries of directories are typed and name frames.
LEMMA DirectoryIsTyped ==
    ASSUME TypeOK, NEW p \in Procs, NEW t \in Tables
    PROVE  /\ pdir[p][t] \in [tab : 0 .. NFrames, cow : BOOLEAN]
           /\ Tab(p, t) # 0 => Tab(p, t) \in Frames
<1>1. pdir[p][t] \in [tab : 0 .. NFrames, cow : BOOLEAN]
  <2>1. pdir \in [Procs -> [Tables -> [tab : 0 .. NFrames, cow : BOOLEAN]]]
    BY DEF TypeOK
  <2> QED  BY <2>1
<1>2. Tab(p, t) \in 0 .. NFrames
  BY <1>1 DEF Tab
<1> QED  BY <1>1, <1>2, FrameFacts

\* The entries of tables are typed.
LEMMA TableIsTyped ==
    ASSUME TypeOK, NEW f \in Frames, NEW i \in Idx
    PROVE  table[f][i] \in Entries
<1>1. table \in [Frames -> [Idx -> Entries]]
  BY DEF TypeOK
<1> QED  BY <1>1


-----------------------------------------------------------------------------
(* The roles of frames.  Each lemma takes what one kind of step does to the  *)
(* directories, tables, spares and free frames.                              *)

\* A step that moves no frame keeps who holds which.
LEMMA FramesUntouched ==
    ASSUME HoldingInv, UNCHANGED <<pdir, table, base, free>>,
           \A q \in Procs : Spare(q)' = Spare(q)
    PROVE  RoleInv' /\ ShareInv'
<1>1. \A q \in Procs, t \in Tables : Tab(q, t)' = Tab(q, t)
  BY DEF Tab
<1>2. \A q \in Procs, t \in Tables, i \in Idx :
        (Maps(q, t, i)' <=> Maps(q, t, i)) /\ Ref(q, t, i)' = Ref(q, t, i)
  BY DEF Maps, Ref, Tab
<1>3. RoleInv'
  BY <1>1, <1>2 DEF HoldingInv, RoleInv, BasesApart, TablesApart, PagesApart, SparesApart
<1>4. ShareInv'
  BY <1>1, <1>2 DEF HoldingInv, ShareInv, OneEntryPerPage, SharedMarked, MarkedReadOnly
<1> QED  BY <1>3, <1>4

\* Entry i0 of table t0, which is process a's alone, is set to e; if e maps a
\* frame, that was free.
LEMMA EntrySet ==
    ASSUME HoldingInv, NEW a \in Procs, NEW t0 \in Tables, NEW i0 \in Idx, NEW e,
           Tab(a, t0) # 0, ~pdir[a][t0].cow,
           UNCHANGED <<pdir, base>>, free' \subseteq free,
           \A q \in Procs : Spare(q)' = Spare(q),
           table' = [table EXCEPT ![Tab(a, t0)][i0] = e],
           e.st = "present" => e.ref = DevFrame \/ e.ref \in free \ free'
    PROVE  RoleInv' /\ ShareInv'
<1>1. TypeOK /\ table \in [Frames -> [Idx -> Entries]] /\ free \subseteq Frames
      /\ \A q \in Procs : base[q] \subseteq Frames
  BY DEF HoldingInv, TypeOK
<1>2. \A q \in Procs, t \in Tables : Tab(q, t)' = Tab(q, t)
  BY DEF Tab
<1>3. \A q \in Procs, t \in Tables : Tab(q, t) # 0 => Tab(q, t) \in Frames
  BY <1>1, DirectoryIsTyped
<1>4. \A q \in Procs, t \in Tables : Tab(q, t) = Tab(a, t0) => q = a /\ t = t0
  BY DEF HoldingInv, ShareInv, SharedMarked
<1>5. \A q \in Procs, t \in Tables, i \in Idx : Tab(q, t) # 0 =>
        table'[Tab(q, t)][i] =
          IF q = a /\ t = t0 /\ i = i0 THEN e ELSE table[Tab(q, t)][i]
  BY <1>1, <1>3, <1>4
<1>6. \A q \in Procs, t \in Tables, i \in Idx : Maps(q, t, i)' =>
        IF q = a /\ t = t0 /\ i = i0
        THEN e.st = "present" /\ Ref(q, t, i)' = e.ref
        ELSE Maps(q, t, i) /\ Ref(q, t, i)' = Ref(q, t, i)
  BY <1>2, <1>5 DEF Maps, Ref
<1>7. \A q \in Procs : Spare(q) \in 0 .. NFrames
  BY <1>1, JobIsTyped, FrameFacts DEF Spare, Jobs
<1>8. \A q \in Procs, t \in Tables : Tab(q, t) # DevFrame /\ Spare(q) # DevFrame
  BY <1>3, <1>7, FrameFacts
<1>9. BasesApart' /\ SparesApart'
  BY DEF HoldingInv, RoleInv, BasesApart, SparesApart
<1>10. TablesApart'
  BY <1>2 DEF HoldingInv, RoleInv, TablesApart
<1>11. PagesApart'
  <2> SUFFICES ASSUME NEW q \in Procs, NEW t \in Tables, NEW i \in Idx, Maps(q, t, i)'
               PROVE  /\ Ref(q, t, i)' \notin free'
                      /\ \A r \in Procs : Ref(q, t, i)' \notin base'[r] /\ Ref(q, t, i)' # Spare(r)'
                      /\ \A r \in Procs, u \in Tables : Ref(q, t, i)' # Tab(r, u)'
    BY DEF PagesApart
  <2>1. CASE q = a /\ t = t0 /\ i = i0
    <3>1. Ref(q, t, i)' = e.ref /\ (e.ref = DevFrame \/ e.ref \in free \ free')
      BY <1>6, <2>1
    <3>2. CASE e.ref = DevFrame
      BY <1>1, <1>2, <1>8, <3>1, <3>2, FrameFacts
    <3>3. CASE e.ref \in free \ free'
      BY <1>1, <1>2, <3>1, <3>3, FrameFacts
      DEF HoldingInv, RoleInv, TablesApart, BasesApart, SparesApart
    <3> QED  BY <3>1, <3>2, <3>3
  <2>2. CASE ~(q = a /\ t = t0 /\ i = i0)
    BY <1>2, <1>6, <2>2 DEF HoldingInv, RoleInv, PagesApart
  <2> QED  BY <2>1, <2>2
<1>12. OneEntryPerPage'
  BY <1>2, <1>6 DEF HoldingInv, RoleInv, ShareInv, OneEntryPerPage, PagesApart
<1>13. SharedMarked'
  BY <1>2 DEF HoldingInv, ShareInv, SharedMarked
<1>14. MarkedReadOnly'
  BY <1>2, <1>5, <1>6 DEF HoldingInv, ShareInv, MarkedReadOnly, Maps
<1> QED  BY <1>9, <1>10, <1>11, <1>12, <1>13, <1>14 DEF RoleInv, ShareInv

\* What the other lemmas need of the types.
LEMMA FramesAreTyped ==
    ASSUME HoldingInv
    PROVE  /\ TypeOK /\ table \in [Frames -> [Idx -> Entries]] /\ free \subseteq Frames
           /\ \A q \in Procs : base[q] \subseteq Frames /\ Spare(q) \in 0 .. NFrames
           /\ \A q \in Procs, t \in Tables :
                 Tab(q, t) \in 0 .. NFrames /\ (Tab(q, t) # 0 => Tab(q, t) \in Frames)
<1>1. /\ TypeOK /\ table \in [Frames -> [Idx -> Entries]] /\ free \subseteq Frames
      /\ \A q \in Procs : base[q] \subseteq Frames
  BY DEF HoldingInv, TypeOK
<1>2. \A q \in Procs : Spare(q) \in 0 .. NFrames
  BY <1>1, JobIsTyped, FrameFacts DEF Spare, Jobs
<1>3. \A q \in Procs, t \in Tables :
        Tab(q, t) \in 0 .. NFrames /\ (Tab(q, t) # 0 => Tab(q, t) \in Frames)
  BY <1>1, DirectoryIsTyped DEF Tab
<1> QED  BY <1>1, <1>2, <1>3

\* A mapped page that is not the device is in a frame of memory.
LEMMA PagesAreFrames ==
    ASSUME HoldingInv, NEW q \in Procs, NEW t \in Tables, NEW i \in Idx, Maps(q, t, i)
    PROVE  /\ Ref(q, t, i) # 0 /\ Ref(q, t, i) \in Frames \cup {DevFrame}
           /\ ~IsDev(t, i) => Ref(q, t, i) \in Frames
           /\ IsDev(t, i) => Ref(q, t, i) = DevFrame
BY FrameFacts DEF HoldingInv, DeviceInv, DeviceFrame

\* A job of process p takes the frame f as its spare, gives its spare back, or
\* does neither; the directories may only lose tables.
LEMMA SpareMoved ==
    ASSUME HoldingInv, NEW p \in Procs,
           UNCHANGED <<table, base>>,
           \A q \in Procs, t \in Tables : pdir'[q][t] \in {pdir[q][t], NoTable},
           \A q \in Procs \ {p} : Spare(q)' = Spare(q),
           \/ /\ Spare(p)' \in free /\ free' = free \ {Spare(p)'}
           \/ /\ Spare(p)' = 0 /\ Spare(p) # 0 /\ free' = free \cup {Spare(p)}
    PROVE  RoleInv' /\ ShareInv'
<1>1. \A q \in Procs, t \in Tables : Tab(q, t)' = Tab(q, t) \/ Tab(q, t)' = 0
  BY DEF Tab, NoTable
<1>2. \A q \in Procs, t \in Tables, i \in Idx : Maps(q, t, i)' =>
        Maps(q, t, i) /\ Tab(q, t)' = Tab(q, t) /\ Ref(q, t, i)' = Ref(q, t, i)
  BY <1>1 DEF Maps, Ref
<1>3. \A q \in Procs, t \in Tables : pdir'[q][t].cow =>
        pdir[q][t].cow /\ Tab(q, t)' = Tab(q, t)
  BY DEF Tab, NoTable
<1>4. BasesApart'
  BY DEF HoldingInv, RoleInv, BasesApart, SparesApart
<1>5. TablesApart'
  BY <1>1 DEF HoldingInv, RoleInv, TablesApart
<1>6. PagesApart'
  BY <1>1, <1>2, PagesAreFrames DEF HoldingInv, RoleInv, PagesApart
<1>7. SparesApart'
  BY DEF HoldingInv, RoleInv, SparesApart, BasesApart
<1>8. OneEntryPerPage'
  BY <1>1, <1>2 DEF HoldingInv, ShareInv, OneEntryPerPage
<1>9. SharedMarked'
  BY <1>1 DEF HoldingInv, ShareInv, SharedMarked, Tab, NoTable
<1>10. MarkedReadOnly'
  BY <1>1, <1>2, <1>3 DEF HoldingInv, ShareInv, MarkedReadOnly
<1> QED  BY <1>4, <1>5, <1>6, <1>7, <1>8, <1>9, <1>10 DEF RoleInv, ShareInv

\* A free frame f becomes the empty table t0 of process a.
LEMMA TableAdded ==
    ASSUME HoldingInv, NEW a \in Procs, NEW t0 \in Tables, NEW f \in free,
           UNCHANGED base, free' = free \ {f},
           \A q \in Procs : Spare(q)' = Spare(q),
           pdir' = [pdir EXCEPT ![a][t0] = [tab |-> f, cow |-> FALSE]],
           table' = [table EXCEPT ![f] = Empty]
    PROVE  RoleInv' /\ ShareInv'
<1>1. /\ pdir'[a][t0] = [tab |-> f, cow |-> FALSE]
      /\ \A q \in Procs, t \in Tables : ~(q = a /\ t = t0) => pdir'[q][t] = pdir[q][t]
  <2>1. pdir \in [Procs -> [Tables -> [tab : 0 .. NFrames, cow : BOOLEAN]]]
    BY DEF HoldingInv, TypeOK
  <2> QED  BY <2>1
<1>2. \A q \in Procs, t \in Tables :
        Tab(q, t)' = IF q = a /\ t = t0 THEN f ELSE Tab(q, t)
  BY <1>1 DEF Tab
<1>3. \A q \in Procs, t \in Tables : Tab(q, t) # f
  BY FrameFacts, FramesAreTyped DEF HoldingInv, RoleInv, TablesApart
<1>4. \A q \in Procs, t \in Tables, i \in Idx : Maps(q, t, i)' =>
        /\ Maps(q, t, i) /\ ~(q = a /\ t = t0) /\ Ref(q, t, i)' = Ref(q, t, i)
        /\ table'[Tab(q, t)'][i] = table[Tab(q, t)][i]
  <2> SUFFICES ASSUME NEW q \in Procs, NEW t \in Tables, NEW i \in Idx, Maps(q, t, i)'
               PROVE  /\ Maps(q, t, i) /\ ~(q = a /\ t = t0)
                      /\ Ref(q, t, i)' = Ref(q, t, i)
                      /\ table'[Tab(q, t)'][i] = table[Tab(q, t)][i]
    OBVIOUS
  <2>1. table'[f][i].st # "present"
    BY FramesAreTyped DEF Empty, None
  <2>2. ~(q = a /\ t = t0)
    BY <1>2, <2>1 DEF Maps
  <2>3. Tab(q, t)' = Tab(q, t) /\ Tab(q, t) # f /\ Tab(q, t) # 0 /\ Tab(q, t) \in Frames
    BY <1>2, <1>3, <2>2, FramesAreTyped DEF Maps
  <2>4. table'[Tab(q, t)] = table[Tab(q, t)]
    BY <2>3, FramesAreTyped
  <2> QED  BY <2>2, <2>3, <2>4 DEF Maps, Ref
<1>5. BasesApart' /\ SparesApart'
  BY DEF HoldingInv, RoleInv, BasesApart, SparesApart
<1>6. TablesApart'
  BY <1>2, FrameFacts, FramesAreTyped
  DEF HoldingInv, RoleInv, TablesApart, BasesApart, SparesApart
<1>7. PagesApart'
  BY <1>2, <1>4 DEF HoldingInv, RoleInv, PagesApart
<1>8. OneEntryPerPage'
  BY <1>2, <1>4 DEF HoldingInv, ShareInv, OneEntryPerPage
<1>9. SharedMarked'
  BY <1>1, <1>2, <1>3 DEF HoldingInv, ShareInv, SharedMarked
<1>10. MarkedReadOnly'
  BY <1>1, <1>2, <1>4 DEF HoldingInv, ShareInv, MarkedReadOnly
<1> QED  BY <1>5, <1>6, <1>7, <1>8, <1>9, <1>10 DEF RoleInv, ShareInv

\* Process p maps its spare in the empty table that a free frame f becomes.
LEMMA TableAndPageAdded ==
    ASSUME HoldingInv, NEW p \in Procs, NEW a \in Procs, NEW t0 \in Tables,
           NEW i0 \in Idx, NEW f \in free, NEW e,
           UNCHANGED base, free' = free \ {f},
           \A q \in Procs \ {p} : Spare(q)' = Spare(q),
           Spare(p) # 0, Spare(p)' = 0,
           pdir' = [pdir EXCEPT ![a][t0] = [tab |-> f, cow |-> FALSE]],
           table' = [table EXCEPT ![f] = [Empty EXCEPT ![i0] = e]],
           e.ref = Spare(p)
    PROVE  RoleInv' /\ ShareInv'
<1>1. /\ pdir'[a][t0] = [tab |-> f, cow |-> FALSE]
      /\ \A q \in Procs, t \in Tables : ~(q = a /\ t = t0) => pdir'[q][t] = pdir[q][t]
  <2>1. pdir \in [Procs -> [Tables -> [tab : 0 .. NFrames, cow : BOOLEAN]]]
    BY DEF HoldingInv, TypeOK
  <2> QED  BY <2>1
<1>2. \A q \in Procs, t \in Tables :
        Tab(q, t)' = IF q = a /\ t = t0 THEN f ELSE Tab(q, t)
  BY <1>1 DEF Tab
<1>3. \A q \in Procs, t \in Tables : Tab(q, t) # f
  BY FrameFacts, FramesAreTyped DEF HoldingInv, RoleInv, TablesApart
<1>4. \A q \in Procs, t \in Tables, i \in Idx : Maps(q, t, i)' =>
        IF q = a /\ t = t0 THEN i = i0 /\ Ref(q, t, i)' = Spare(p)
        ELSE /\ Maps(q, t, i) /\ Ref(q, t, i)' = Ref(q, t, i)
             /\ table'[Tab(q, t)'][i] = table[Tab(q, t)][i]
  <2> SUFFICES ASSUME NEW q \in Procs, NEW t \in Tables, NEW i \in Idx, Maps(q, t, i)'
               PROVE  IF q = a /\ t = t0 THEN i = i0 /\ Ref(q, t, i)' = Spare(p)
                      ELSE /\ Maps(q, t, i) /\ Ref(q, t, i)' = Ref(q, t, i)
                           /\ table'[Tab(q, t)'][i] = table[Tab(q, t)][i]
    OBVIOUS
  <2>1. table'[f][i] = IF i = i0 THEN e ELSE None
    BY FramesAreTyped DEF Empty
  <2>2. CASE q = a /\ t = t0
    BY <1>2, <2>1, <2>2 DEF Maps, Ref, None
  <2>3. CASE ~(q = a /\ t = t0)
    <3>1. /\ Tab(q, t)' = Tab(q, t) /\ Tab(q, t) # f
          /\ Tab(q, t) # 0 /\ Tab(q, t) \in Frames
      BY <1>2, <1>3, <2>3, FramesAreTyped DEF Maps
    <3>2. table'[Tab(q, t)] = table[Tab(q, t)]
      BY <3>1, FramesAreTyped
    <3> QED  BY <2>3, <3>1, <3>2 DEF Maps, Ref
  <2> QED  BY <2>2, <2>3
<1>5. BasesApart' /\ SparesApart'
  BY DEF HoldingInv, RoleInv, BasesApart, SparesApart
<1>6. TablesApart'
  BY <1>2, FrameFacts, FramesAreTyped
  DEF HoldingInv, RoleInv, TablesApart, BasesApart, SparesApart
<1>7. PagesApart'
  <2> SUFFICES ASSUME NEW q \in Procs, NEW t \in Tables, NEW i \in Idx, Maps(q, t, i)'
               PROVE  /\ Ref(q, t, i)' \notin free'
                      /\ \A r \in Procs : Ref(q, t, i)' \notin base'[r] /\ Ref(q, t, i)' # Spare(r)'
                      /\ \A r \in Procs, u \in Tables : Ref(q, t, i)' # Tab(r, u)'
    BY DEF PagesApart
  <2>1. CASE q = a /\ t = t0
    BY <1>2, <1>4, <2>1, FrameFacts, FramesAreTyped
    DEF HoldingInv, RoleInv, SparesApart, TablesApart
  <2>2. CASE ~(q = a /\ t = t0)
    BY <1>2, <1>4, <2>2, PagesAreFrames DEF HoldingInv, RoleInv, PagesApart
  <2> QED  BY <2>1, <2>2
<1>8. OneEntryPerPage'
  BY <1>2, <1>4 DEF HoldingInv, ShareInv, RoleInv, PagesApart, OneEntryPerPage
<1>9. SharedMarked'
  BY <1>1, <1>2, <1>3 DEF HoldingInv, ShareInv, SharedMarked
<1>10. MarkedReadOnly'
  BY <1>1, <1>2, <1>4 DEF HoldingInv, ShareInv, MarkedReadOnly
<1> QED  BY <1>5, <1>6, <1>7, <1>8, <1>9, <1>10 DEF RoleInv, ShareInv

\* A page is moved out: its entry, which may be in a shared table, maps nothing
\* and its frame is free.
LEMMA PageRemoved ==
    ASSUME HoldingInv, NEW a \in Procs, NEW t0 \in Tables, NEW i0 \in Idx, NEW e,
           Maps(a, t0, i0), ~IsDev(t0, i0), e.st # "present",
           UNCHANGED <<pdir, base>>, free' = free \cup {Ref(a, t0, i0)},
           \A q \in Procs : Spare(q)' = Spare(q),
           table' = [table EXCEPT ![Tab(a, t0)][i0] = e]
    PROVE  RoleInv' /\ ShareInv'
<1>1. \A q \in Procs, t \in Tables : Tab(q, t)' = Tab(q, t)
  BY DEF Tab
<1>2. Ref(a, t0, i0) \in Frames /\ Ref(a, t0, i0) # DevFrame /\ Tab(a, t0) # 0
  BY PagesAreFrames, FrameFacts DEF Maps
<1>3. \A q \in Procs, t \in Tables, i \in Idx : Maps(q, t, i)' =>
        /\ Maps(q, t, i) /\ Ref(q, t, i)' = Ref(q, t, i)
        /\ table'[Tab(q, t)][i] = table[Tab(q, t)][i]
        /\ ~(Tab(q, t) = Tab(a, t0) /\ i = i0)
  <2> SUFFICES ASSUME NEW q \in Procs, NEW t \in Tables, NEW i \in Idx, Maps(q, t, i)'
               PROVE  /\ Maps(q, t, i) /\ Ref(q, t, i)' = Ref(q, t, i)
                      /\ table'[Tab(q, t)][i] = table[Tab(q, t)][i]
                      /\ ~(Tab(q, t) = Tab(a, t0) /\ i = i0)
    OBVIOUS
  <2>1. Tab(q, t)' = Tab(q, t) /\ Tab(q, t) # 0 /\ Tab(q, t) \in Frames
    BY <1>1, FramesAreTyped DEF Maps
  <2>2. table'[Tab(q, t)][i] =
          IF Tab(q, t) = Tab(a, t0) /\ i = i0 THEN e ELSE table[Tab(q, t)][i]
    BY <2>1, FramesAreTyped
  <2> QED  BY <2>1, <2>2 DEF Maps, Ref
<1>4. BasesApart'
  BY DEF HoldingInv, RoleInv, BasesApart, PagesApart
<1>5. TablesApart'
  BY <1>1 DEF HoldingInv, RoleInv, TablesApart, PagesApart
<1>6. PagesApart'
  <2>1. \A q \in Procs, t \in Tables, i \in Idx : Maps(q, t, i)' =>
          Ref(q, t, i) # Ref(a, t0, i0)
    BY <1>2, <1>3 DEF HoldingInv, ShareInv, OneEntryPerPage
  <2> QED  BY <1>1, <1>3, <2>1 DEF HoldingInv, RoleInv, PagesApart
<1>7. SparesApart'
  BY DEF HoldingInv, RoleInv, SparesApart, PagesApart
<1>8. OneEntryPerPage'
  BY <1>1, <1>3 DEF HoldingInv, ShareInv, OneEntryPerPage
<1>9. SharedMarked'
  BY <1>1 DEF HoldingInv, ShareInv, SharedMarked
<1>10. MarkedReadOnly'
  BY <1>1, <1>3 DEF HoldingInv, ShareInv, MarkedReadOnly
<1> QED  BY <1>4, <1>5, <1>6, <1>7, <1>8, <1>9, <1>10 DEF RoleInv, ShareInv

\* What it frees: the directory, the tables that are not shared, and their pages.
LEMMA OwnedIs ==
    ASSUME NEW p \in Procs
    PROVE  \A f \in Owned(p) :
             \/ f \in base[p]
             \/ \E t \in Tables : Tab(p, t) # 0 /\ ~pdir[p][t].cow /\ f = Tab(p, t)
             \/ \E t \in Tables, i \in Idx :
                   /\ Tab(p, t) # 0 /\ ~pdir[p][t].cow /\ ~IsDev(t, i)
                   /\ Maps(p, t, i) /\ f = Ref(p, t, i)
<1> SUFFICES ASSUME NEW f \in Owned(p), f \notin base[p]
             PROVE  \/ \E t \in Tables :
                         Tab(p, t) # 0 /\ ~pdir[p][t].cow /\ f = Tab(p, t)
                    \/ \E t \in Tables, i \in Idx :
                         /\ Tab(p, t) # 0 /\ ~pdir[p][t].cow /\ ~IsDev(t, i)
                         /\ Maps(p, t, i) /\ f = Ref(p, t, i)
  OBVIOUS
<1> DEFINE own == {t \in Tables : pdir[p][t].tab # 0 /\ ~pdir[p][t].cow}
           mapped == {x \in own \X Idx : ZoneKind[x] # "dev" /\ Entry(p, x).st = "present"}
<1>1. \/ f \in {pdir[p][t].tab : t \in own}
      \/ f \in {table[pdir[p][pg[1]].tab][pg[2]].ref : pg \in mapped}
  BY DEF Owned
<1>2. CASE f \in {pdir[p][t].tab : t \in own}
  BY <1>2 DEF Tab
<1>3. CASE f \in {table[pdir[p][pg[1]].tab][pg[2]].ref : pg \in mapped}
  <2>1. PICK x \in mapped : f = table[pdir[p][x[1]].tab][x[2]].ref
    BY <1>3
  <2>2. x[1] \in Tables /\ x[2] \in Idx /\ x = <<x[1], x[2]>>
    OBVIOUS
  <2>3. Tab(p, x[1]) # 0 /\ ~pdir[p][x[1]].cow /\ f = Ref(p, x[1], x[2])
    BY <2>1 DEF Tab, Ref
  <2>4. ~IsDev(x[1], x[2])
    BY <2>2 DEF IsDev
  <2>5. Maps(p, x[1], x[2])
    BY <2>3 DEF Maps, Entry, Tab
  <2> QED  BY <2>2, <2>3, <2>4, <2>5
<1> QED  BY <1>1, <1>2, <1>3

\* What vm_pspace_free_address_space_locked frees is nobody else's.
LEMMA OwnedFrames ==
    ASSUME HoldingInv, NEW p \in Procs
    PROVE  \A f \in Owned(p) :
             /\ f \in Frames /\ f \notin free
             /\ \A q \in Procs \ {p} : f \notin base[q] /\ \A t \in Tables : f # Tab(q, t)
             /\ \A q \in Procs : f # Spare(q)
             /\ \A q \in Procs \ {p}, t \in Tables, i \in Idx : Maps(q, t, i) => f # Ref(q, t, i)
<1>1. \A f \in Owned(p) :
        \/ f \in base[p]
        \/ \E t \in Tables : Tab(p, t) # 0 /\ ~pdir[p][t].cow /\ f = Tab(p, t)
        \/ \E t \in Tables, i \in Idx :
              /\ Tab(p, t) # 0 /\ ~pdir[p][t].cow /\ ~IsDev(t, i)
              /\ Maps(p, t, i) /\ f = Ref(p, t, i)
  BY OwnedIs
<1> SUFFICES ASSUME NEW f \in Owned(p)
             PROVE  /\ f \in Frames /\ f \notin free
                    /\ \A q \in Procs \ {p} :
                         f \notin base[q] /\ \A t \in Tables : f # Tab(q, t)
                    /\ \A q \in Procs : f # Spare(q)
                    /\ \A q \in Procs \ {p}, t \in Tables, i \in Idx :
                         Maps(q, t, i) => f # Ref(q, t, i)
  OBVIOUS
<1>2. CASE f \in base[p]
  BY <1>2, FramesAreTyped, FrameFacts
  DEF HoldingInv, RoleInv, BasesApart, TablesApart, PagesApart, SparesApart
<1>3. CASE \E t \in Tables : Tab(p, t) # 0 /\ ~pdir[p][t].cow /\ f = Tab(p, t)
  BY <1>3, FramesAreTyped
  DEF HoldingInv, RoleInv, TablesApart, PagesApart, ShareInv, SharedMarked
<1>4. CASE \E t \in Tables, i \in Idx :
             /\ Tab(p, t) # 0 /\ ~pdir[p][t].cow /\ ~IsDev(t, i)
             /\ Maps(p, t, i) /\ f = Ref(p, t, i)
  <2>1. PICK t \in Tables, i \in Idx :
             /\ Tab(p, t) # 0 /\ ~pdir[p][t].cow /\ ~IsDev(t, i)
             /\ Maps(p, t, i) /\ f = Ref(p, t, i)
    BY <1>4
  <2>2. f \in Frames /\ f # DevFrame
    BY <2>1, PagesAreFrames, FrameFacts
  <2>3. \A q \in Procs \ {p}, u \in Tables, i2 \in Idx :
          Maps(q, u, i2) => f # Ref(q, u, i2)
    BY <2>1, <2>2 DEF HoldingInv, ShareInv, OneEntryPerPage, SharedMarked
  <2> QED  BY <2>1, <2>2, <2>3 DEF HoldingInv, RoleInv, PagesApart
<1> QED  BY <1>1, <1>2, <1>3, <1>4

\* Process p gives its address space up for one with the new frames B: exec, and
\* exit, where B is empty.
LEMMA SpaceDropped ==
    ASSUME HoldingInv, NEW p \in Procs, NEW B, B \subseteq free,
           pdir' = [pdir EXCEPT ![p] = [t \in Tables |-> NoTable]],
           base' = [base EXCEPT ![p] = B],
           table' = [f \in Frames |-> IF f \in Owned(p) THEN Empty ELSE table[f]],
           free' = (free \ B) \cup Owned(p),
           \A q \in Procs : Spare(q)' = Spare(q)
    PROVE  RoleInv' /\ ShareInv'
<1>1. /\ \A t \in Tables : pdir'[p][t] = NoTable
      /\ \A q \in Procs \ {p}, t \in Tables : pdir'[q][t] = pdir[q][t]
  <2>1. pdir \in [Procs -> [Tables -> [tab : 0 .. NFrames, cow : BOOLEAN]]]
    BY DEF HoldingInv, TypeOK
  <2> QED  BY <2>1
<1>2. base'[p] = B /\ \A q \in Procs \ {p} : base'[q] = base[q]
  <2>1. base \in [Procs -> SUBSET Frames]
    BY DEF HoldingInv, TypeOK
  <2> QED  BY <2>1
<1>3. \A t \in Tables : Tab(p, t)' = 0 /\ pdir'[p][t].cow = FALSE
  BY <1>1 DEF Tab, NoTable
<1>4. \A q \in Procs \ {p}, t \in Tables : Tab(q, t)' = Tab(q, t)
  BY <1>1 DEF Tab
<1>6. \A f \in Owned(p) :
        /\ f \in Frames /\ f \notin free
        /\ \A q \in Procs \ {p} : f \notin base[q] /\ \A t \in Tables : f # Tab(q, t)
        /\ \A q \in Procs : f # Spare(q)
        /\ \A q \in Procs \ {p}, t \in Tables, i \in Idx : Maps(q, t, i) => f # Ref(q, t, i)
  BY OwnedFrames
<1>7. \A q \in Procs, t \in Tables, i \in Idx : Maps(q, t, i)' =>
        /\ q # p /\ Maps(q, t, i) /\ Ref(q, t, i)' = Ref(q, t, i)
        /\ table'[Tab(q, t)'][i] = table[Tab(q, t)][i]
  <2> SUFFICES ASSUME NEW q \in Procs, NEW t \in Tables, NEW i \in Idx, Maps(q, t, i)'
               PROVE  /\ q # p /\ Maps(q, t, i) /\ Ref(q, t, i)' = Ref(q, t, i)
                      /\ table'[Tab(q, t)'][i] = table[Tab(q, t)][i]
    OBVIOUS
  <2>1. q # p /\ Tab(q, t)' = Tab(q, t) /\ Tab(q, t) \in Frames /\ Tab(q, t) # 0
    BY <1>3, <1>4, FramesAreTyped DEF Maps
  <2>2. table'[Tab(q, t)] = table[Tab(q, t)]
    BY <1>6, <2>1
  <2> QED  BY <2>1, <2>2 DEF Maps, Ref
<1>8. BasesApart'
  BY <1>2, <1>6 DEF HoldingInv, RoleInv, BasesApart
<1>9. TablesApart'
  BY <1>2, <1>3, <1>4, <1>6 DEF HoldingInv, RoleInv, TablesApart
<1>10. PagesApart'
  <2> SUFFICES ASSUME NEW q \in Procs, NEW t \in Tables, NEW i \in Idx, Maps(q, t, i)'
               PROVE  /\ Ref(q, t, i)' \notin free'
                      /\ \A r \in Procs : Ref(q, t, i)' \notin base'[r] /\ Ref(q, t, i)' # Spare(r)'
                      /\ \A r \in Procs, u \in Tables : Ref(q, t, i)' # Tab(r, u)'
    BY DEF PagesApart
  <2>1. q # p /\ Maps(q, t, i) /\ Ref(q, t, i)' = Ref(q, t, i) /\ Ref(q, t, i) # 0
    BY <1>7, PagesAreFrames
  <2> QED  BY <1>2, <1>3, <1>4, <1>6, <2>1 DEF HoldingInv, RoleInv, PagesApart
<1>11. SparesApart'
  BY <1>2, <1>6 DEF HoldingInv, RoleInv, SparesApart
<1>12. OneEntryPerPage'
  BY <1>4, <1>7 DEF HoldingInv, ShareInv, OneEntryPerPage
<1>13. SharedMarked'
  <2> SUFFICES ASSUME NEW q \in Procs, NEW r \in Procs, NEW t \in Tables, NEW u \in Tables,
                      Tab(q, t)' # 0, Tab(q, t)' = Tab(r, u)'
               PROVE  t = u /\ (q # r => pdir'[q][t].cow)
    BY DEF SharedMarked
  <2>1. q # p /\ r # p
    BY <1>3
  <2>2. Tab(q, t) # 0 /\ Tab(q, t) = Tab(r, u) /\ pdir'[q][t] = pdir[q][t]
    BY <1>1, <1>4, <2>1
  <2> QED  BY <2>2 DEF HoldingInv, ShareInv, SharedMarked
<1>14. MarkedReadOnly'
  <2> SUFFICES ASSUME NEW q \in Procs, NEW t \in Tables, pdir'[q][t].cow
               PROVE  /\ Tab(q, t)' # 0
                      /\ \A i \in Idx : Maps(q, t, i)' => ~table'[Tab(q, t)'][i].w
    BY DEF MarkedReadOnly
  <2>1. q # p /\ pdir[q][t].cow /\ Tab(q, t)' = Tab(q, t)
    BY <1>1, <1>3, <1>4
  <2>2. Tab(q, t) # 0 /\ \A i \in Idx : Maps(q, t, i) => ~table[Tab(q, t)][i].w
    BY <2>1 DEF HoldingInv, ShareInv, MarkedReadOnly
  <2> QED  BY <1>7, <2>1, <2>2
<1> QED  BY <1>8, <1>9, <1>10, <1>11, <1>12, <1>13, <1>14 DEF RoleInv, ShareInv

\* Process c, which had nothing, gets the tables of p and a directory in B; all
\* the tables are marked copy on write in both and made read-only.
LEMMA SpaceForked ==
    ASSUME HoldingInv, NEW p \in Procs, NEW c \in Procs, p # c, NEW B, B \subseteq free,
           \A q \in {p, c}, t \in Tables :
              pdir'[q][t].tab = Tab(p, t) /\ (pdir'[q][t].cow <=> Tab(p, t) # 0),
           \A q \in Procs \ {p, c}, t \in Tables : pdir'[q][t] = pdir[q][t],
           base'[c] = B, \A q \in Procs \ {c} : base'[q] = base[q],
           free' = free \ B,
           table' = [f \in Frames |->
                       IF \E t \in Tables : Tab(p, t) # 0 /\ Tab(p, t) = f
                       THEN [i \in Idx |-> ReadOnly(table[f][i])] ELSE table[f]],
           \A q \in Procs : Spare(q)' = Spare(q)
    PROVE  RoleInv' /\ ShareInv'
<1> DEFINE old(q) == IF q = c THEN p ELSE q
<1>1. /\ \A q \in {p, c}, t \in Tables :
            pdir'[q][t].tab = Tab(p, t) /\ (pdir'[q][t].cow <=> Tab(p, t) # 0)
      /\ \A q \in Procs \ {p, c}, t \in Tables : pdir'[q][t] = pdir[q][t]
  OBVIOUS
<1>2. base'[c] = B /\ \A q \in Procs \ {c} : base'[q] = base[q]
  OBVIOUS
<1>3. \A q \in Procs, t \in Tables : Tab(q, t)' = Tab(old(q), t)
  <2> SUFFICES ASSUME NEW q \in Procs, NEW t \in Tables
               PROVE  pdir'[q][t].tab = Tab(old(q), t)
    BY DEF Tab
  <2>1. CASE q \in {p, c}
    BY <1>1, <2>1
  <2>2. CASE q \notin {p, c}
    <3>1. pdir'[q][t] = pdir[q][t] /\ old(q) = q
      BY <1>1, <2>2
    <3> QED  BY <3>1 DEF Tab
  <2> QED  BY <2>1, <2>2
<1>4. \A q \in Procs, t \in Tables : pdir'[q][t].cow =>
        IF q \in {p, c} THEN Tab(p, t) # 0 ELSE pdir[q][t].cow
  BY <1>1
<1>5. \A f \in Frames, i \in Idx :
        /\ table'[f][i].st = table[f][i].st /\ table'[f][i].ref = table[f][i].ref
        /\ table[f][i].st = "present" /\ table'[f][i].w => table[f][i].w
        /\ (\E t \in Tables : Tab(p, t) # 0 /\ Tab(p, t) = f) /\ table[f][i].st = "present"
             => ~table'[f][i].w
  <2> SUFFICES ASSUME NEW f \in Frames, NEW i \in Idx
               PROVE  /\ table'[f][i].st = table[f][i].st /\ table'[f][i].ref = table[f][i].ref
                      /\ table[f][i].st = "present" /\ table'[f][i].w => table[f][i].w
                      /\ (\E t \in Tables : Tab(p, t) # 0 /\ Tab(p, t) = f)
                            /\ table[f][i].st = "present" => ~table'[f][i].w
    OBVIOUS
  <2>1. table[f][i] \in Entries
    BY FramesAreTyped
  <2>2. CASE \E t \in Tables : Tab(p, t) # 0 /\ Tab(p, t) = f
    <3>1. table'[f][i] = ReadOnly(table[f][i])
      BY <2>2
    <3>2. CASE table[f][i].st = "present"
      <4>1. table'[f][i] = [table[f][i] EXCEPT !.w = FALSE]
        BY <3>1, <3>2 DEF ReadOnly
      <4>2. table'[f][i].w = FALSE /\ table'[f][i].st = table[f][i].st
            /\ table'[f][i].ref = table[f][i].ref
        BY <2>1, <4>1 DEF Entries
      <4> QED  BY <4>2
    <3>3. CASE table[f][i].st # "present"
      BY <3>1, <3>3 DEF ReadOnly
    <3> QED  BY <3>2, <3>3
  <2>3. CASE ~\E t \in Tables : Tab(p, t) # 0 /\ Tab(p, t) = f
    <3>1. table'[f] = table[f]
      BY <2>3
    <3> QED  BY <2>3, <3>1
  <2> QED  BY <2>2, <2>3
<1>6. \A q \in Procs, t \in Tables, i \in Idx : Maps(q, t, i)' =>
        /\ Maps(old(q), t, i) /\ Ref(q, t, i)' = Ref(old(q), t, i)
        /\ Tab(q, t)' \in Frames
  <2> SUFFICES ASSUME NEW q \in Procs, NEW t \in Tables, NEW i \in Idx, Maps(q, t, i)'
               PROVE  /\ Maps(old(q), t, i) /\ Ref(q, t, i)' = Ref(old(q), t, i)
                      /\ Tab(q, t)' \in Frames
    OBVIOUS
  <2>1. Tab(q, t)' = Tab(old(q), t) /\ Tab(old(q), t) # 0 /\ Tab(old(q), t) \in Frames
    BY <1>3, FramesAreTyped DEF Maps
  <2> QED  BY <1>5, <2>1 DEF Maps, Ref
<1> HIDE DEF old
<1>7. \A q \in Procs : old(q) \in Procs
  BY DEF old
<1>8. BasesApart'
  BY <1>2 DEF HoldingInv, RoleInv, BasesApart
<1>9. TablesApart'
  BY <1>2, <1>3, <1>7 DEF HoldingInv, RoleInv, TablesApart
<1>10. PagesApart'
  <2> SUFFICES ASSUME NEW q \in Procs, NEW t \in Tables, NEW i \in Idx, Maps(q, t, i)'
               PROVE  /\ Ref(q, t, i)' \notin free'
                      /\ \A r \in Procs : Ref(q, t, i)' \notin base'[r] /\ Ref(q, t, i)' # Spare(r)'
                      /\ \A r \in Procs, u \in Tables : Ref(q, t, i)' # Tab(r, u)'
    BY DEF PagesApart
  <2>1. Maps(old(q), t, i) /\ Ref(q, t, i)' = Ref(old(q), t, i) /\ old(q) \in Procs
    BY <1>6, <1>7
  <2> QED  BY <1>2, <1>3, <1>7, <2>1 DEF HoldingInv, RoleInv, PagesApart
<1>11. SparesApart'
  BY <1>2 DEF HoldingInv, RoleInv, SparesApart
<1>12. OneEntryPerPage'
  BY <1>3, <1>6, <1>7 DEF HoldingInv, ShareInv, OneEntryPerPage
<1>13. SharedMarked'
  <2>1. \A q, r \in Procs, t, u \in Tables :
          Tab(q, t)' # 0 /\ Tab(q, t)' = Tab(r, u)' => t = u
    BY <1>3, <1>7 DEF HoldingInv, ShareInv, SharedMarked
  <2>2. ASSUME NEW q \in Procs, NEW r \in Procs, NEW t \in Tables, NEW u \in Tables,
               Tab(q, t)' # 0, Tab(q, t)' = Tab(r, u)', q # r
        PROVE  pdir'[q][t].cow
    <3>1. CASE q \in {p, c}
      <4>1. Tab(p, t) # 0
        BY <1>3, <2>2, <3>1 DEF old
      <4> QED  BY <1>1, <3>1, <4>1
    <3>2. CASE q \notin {p, c}
      <4>1. old(q) = q /\ old(r) # q /\ old(r) \in Procs
        BY <2>2, <3>2 DEF old
      <4>2. Tab(q, t) # 0 /\ Tab(q, t) = Tab(old(r), t)
        BY <1>3, <2>1, <2>2, <4>1
      <4>3. pdir[q][t].cow
        BY <4>1, <4>2 DEF HoldingInv, ShareInv, SharedMarked
      <4>4. pdir'[q][t] = pdir[q][t]
        BY <1>1, <3>2
      <4> QED  BY <4>3, <4>4
    <3> QED  BY <3>1, <3>2
  <2> QED  BY <2>1, <2>2 DEF SharedMarked
<1>14. MarkedReadOnly'
  <2> SUFFICES ASSUME NEW q \in Procs, NEW t \in Tables, pdir'[q][t].cow
               PROVE  /\ Tab(q, t)' # 0
                      /\ \A i \in Idx : Maps(q, t, i)' => ~table'[Tab(q, t)'][i].w
    BY DEF MarkedReadOnly
  <2>1. CASE q \in {p, c}
    <3>1. Tab(q, t)' = Tab(p, t) /\ Tab(p, t) # 0 /\ Tab(p, t) \in Frames
      BY <1>3, <1>4, <2>1, FramesAreTyped DEF old
    <3> QED  BY <1>5, <3>1 DEF Maps
  <2>2. CASE q \notin {p, c}
    <3>1. Tab(q, t)' = Tab(q, t) /\ pdir[q][t].cow /\ old(q) = q
      BY <1>3, <1>4, <2>2 DEF old
    <3>2. Tab(q, t) # 0 /\ \A i \in Idx : Maps(q, t, i) => ~table[Tab(q, t)][i].w
      BY <3>1 DEF HoldingInv, ShareInv, MarkedReadOnly
    <3>3. Tab(q, t) \in Frames
      BY <3>2, FramesAreTyped
    <3> QED  BY <1>5, <1>6, <3>1, <3>2, <3>3 DEF Maps
  <2> QED  BY <2>1, <2>2
<1> QED  BY <1>8, <1>9, <1>10, <1>11, <1>12, <1>13, <1>14 DEF RoleInv, ShareInv

-----------------------------------------------------------------------------
(* Jobs.  While process p runs kernel code nobody else works on its space.   *)

\* While a process runs kernel code the jobs of the others are on their own spaces.
LEMMA OthersWorkAtHome ==
    ASSUME HoldingInv, NEW p \in Procs, halted = "", cpu \in {0, p},
           NEW r \in Procs, r # p, Busy(r)
    PROVE  k[r].as = r /\ r \in live
BY ProcFacts DEF HoldingInv, JobInv, OneJobPerSpace, DeadHoldNothing, Busy

\* The parts of JobInv that do not speak of the processor.
LEMMA JobsUnmoved ==
    ASSUME HoldingInv, UNCHANGED <<live, k, base, devz, pdir>>
    PROVE  DeadHoldNothing' /\ JobsInStep' /\ ForksApart'
<1>1. DeadHoldNothing'
  BY DEF HoldingInv, JobInv, DeadHoldNothing
<1>2. JobsInStep'
  BY DEF HoldingInv, JobInv, JobsInStep, InStep, Busy
<1>3. ForksApart'
  BY DEF HoldingInv, JobInv, ForksApart, Forking
<1> QED  BY <1>1, <1>2, <1>3

\* A job is in step with the directory entry it works on.
LEMMA InStepKept ==
    ASSUME NEW r, NEW x, InStep(r, x), live' = live,
           pdir'[x.as][x.pg[1]] = pdir[x.as][x.pg[1]]
    PROVE  InStep(r, x)'
BY DEF InStep

\* JobInv, when the job of process p goes on with step j.
LEMMA JobGoesOn ==
    ASSUME HoldingInv, NEW p \in live, NEW j \in Jobs, Goto(p, j),
           halted = "", halted' = "", cpu \in {0, p}, UNCHANGED <<live, base, devz>>,
           j.as \in live, j.as # p => k[j.as] = Idle,
           \A q \in Procs \ {j.as}, t \in Tables : pdir'[q][t] = pdir[q][t],
           InStep(p, j)',
           \A q \in Procs : Forking(p, j.idx)' /\ q # p => ~Forking(q, j.idx)
    PROVE  JobInv'
<1>1. p \in Procs /\ TypeOK
  BY DEF HoldingInv, TypeOK
<1>2. k'[p] = j /\ cpu' = p /\ \A q \in Procs \ {p} : k'[q] = k[q]
  BY <1>1, GotoIsTyped
<1>3. j # Idle
  BY JobsAreBusy
<1>4. DeadHoldNothing'
  <2> SUFFICES ASSUME NEW q \in Procs \ live
               PROVE  /\ k'[q] = Idle /\ base'[q] = {} /\ q \notin devz'
                      /\ \A t \in Tables : pdir'[q][t] = NoTable
    BY DEF DeadHoldNothing
  <2>1. q # p /\ q # j.as
    OBVIOUS
  <2>2. /\ k[q] = Idle /\ base[q] = {} /\ q \notin devz
        /\ \A t \in Tables : pdir[q][t] = NoTable
    BY DEF HoldingInv, JobInv, DeadHoldNothing
  <2>3. \A t \in Tables : pdir'[q][t] = pdir[q][t]
    BY <2>1
  <2> QED  BY <1>2, <2>1, <2>2, <2>3
<1>5. \A r \in Procs : r # p /\ Busy(r) => k[r].as = r /\ r \in live
  BY <1>1, OthersWorkAtHome
<1>6. \A r \in Procs : r # p /\ Busy(r) => k[r].as # j.as
  BY <1>5 DEF Busy
<1>7. OneJobPerSpace'
  <2> SUFFICES ASSUME NEW r \in Procs, Busy(r)'
               PROVE  /\ k'[r].as \in live
                      /\ k'[r].as # r => k'[k'[r].as] = Idle /\ cpu' = r
    BY DEF OneJobPerSpace
  <2>1. CASE r = p
    <3>1. k'[r] = j /\ cpu' = r
      BY <1>2, <2>1
    <3>2. j.as # r => j.as \in Procs \ {p} /\ k[j.as] = Idle
      BY <1>1, <2>1 DEF TypeOK
    <3> QED  BY <1>2, <3>1, <3>2
  <2>2. CASE r # p
    <3>1. k'[r] = k[r] /\ Busy(r)
      BY <1>2, <2>2 DEF Busy
    <3>2. k[r].as = r /\ r \in live
      BY <1>5, <2>2, <3>1
    <3> QED  BY <3>1, <3>2
  <2> QED  BY <2>1, <2>2
<1>8. JobsInStep'
  <2> SUFFICES ASSUME NEW r \in Procs, Busy(r)'
               PROVE  InStep(r, k[r])'
    BY DEF JobsInStep
  <2>1. CASE r = p
    BY <1>2, <2>1 DEF InStep
  <2>2. CASE r # p
    <3>1. k'[r] = k[r] /\ Busy(r) /\ k[r] \in Jobs
      BY <1>1, <1>2, <2>2, JobIsTyped DEF Busy
    <3>2. k[r].as \in Procs \ {j.as} /\ k[r].pg[1] \in Tables
      BY <1>6, <2>2, <3>1 DEF Jobs, Pages
    <3>3. pdir'[k[r].as][k[r].pg[1]] = pdir[k[r].as][k[r].pg[1]]
      BY <3>2
    <3>4. PICK x : x = k[r]
      OBVIOUS
    <3>5. InStep(r, x) /\ x.as = k[r].as /\ x.pg[1] = k[r].pg[1]
      BY <3>1, <3>4 DEF HoldingInv, JobInv, JobsInStep
    <3>6. InStep(r, x)'
      BY <3>3, <3>5, InStepKept
    <3> QED  BY <3>1, <3>4, <3>6
  <2> QED  BY <2>1, <2>2
<1>9. ForksApart'
  <2>1. \A q, c \in Procs : q # p => (Forking(q, c)' <=> Forking(q, c))
    BY <1>2 DEF Forking
  <2>2. \A q, c \in Procs : q # p => ~(Forking(p, c)' /\ Forking(q, c))
    BY <1>2 DEF Forking
  <2> SUFFICES ASSUME NEW q \in Procs, NEW r \in Procs, NEW c \in Procs,
                      Forking(q, c)', Forking(r, c)'
               PROVE  q = r
    BY DEF ForksApart
  <2>3. CASE q = p \/ r = p
    BY <2>1, <2>2, <2>3
  <2>4. CASE q # p /\ r # p
    BY <2>1, <2>4 DEF HoldingInv, JobInv, ForksApart
  <2> QED  BY <2>3, <2>4
<1> QED  BY <1>4, <1>7, <1>8, <1>9 DEF JobInv

\* The facts on jobs, when the job of process p ends.
LEMMA JobEnds ==
    ASSUME HoldingInv, NEW p \in Procs, Leave(p),
           halted = "", halted' = "", cpu \in {0, p}, DeadHoldNothing',
           \A r \in Procs : r # p /\ Busy(r) =>
              /\ r \in live' /\ \A t \in Tables : pdir'[r][t] = pdir[r][t]
              /\ k[r].at = "pdir" /\ k[r].then = "fork" => k[r].idx \notin live'
    PROVE  JobInv'
<1>1. TypeOK
  BY DEF HoldingInv
<1>2. k'[p] = Idle /\ \A q \in Procs \ {p} : k'[q] = k[q]
  BY <1>1, LeaveIsTyped
<1>3. \A r \in Procs : Busy(r)' =>
        r # p /\ Busy(r) /\ k'[r] = k[r] /\ k[r].as = r /\ r \in live'
  <2> SUFFICES ASSUME NEW r \in Procs, Busy(r)'
               PROVE  r # p /\ Busy(r) /\ k'[r] = k[r] /\ k[r].as = r /\ r \in live'
    OBVIOUS
  <2>1. r # p /\ k'[r] = k[r] /\ Busy(r)
    BY <1>2 DEF Busy
  <2> QED  BY <2>1, OthersWorkAtHome
<1>4. OneJobPerSpace'
  <2> SUFFICES ASSUME NEW r \in Procs, Busy(r)'
               PROVE  k'[r].as \in live' /\ k'[r].as = r
    BY DEF OneJobPerSpace
  <2> QED  BY <1>3
<1>5. JobsInStep'
  <2> SUFFICES ASSUME NEW r \in Procs, Busy(r)'
               PROVE  InStep(r, k[r])'
    BY DEF JobsInStep
  <2>1. k'[r] = k[r] /\ Busy(r) /\ k[r] \in Jobs /\ k[r].as = r /\ r # p
    BY <1>1, <1>3, JobIsTyped
  <2>2. pdir'[k[r].as][k[r].pg[1]] = pdir[k[r].as][k[r].pg[1]]
    BY <2>1 DEF Jobs, Pages
  <2>3. InStep(r, k[r])
    BY <2>1 DEF HoldingInv, JobInv, JobsInStep
  <2>4. k[r].at = "pdir" /\ k[r].then = "fork" => k[r].idx \in Procs \ live'
    BY <2>1, <2>3 DEF InStep
  <2> QED  BY <2>1, <2>2, <2>3, <2>4 DEF InStep
<1>6. ForksApart'
  <2>1. \A q, c \in Procs : Forking(q, c)' => Forking(q, c)
    <3> SUFFICES ASSUME NEW q \in Procs, NEW c \in Procs, Forking(q, c)'
                 PROVE  Forking(q, c)
      OBVIOUS
    <3>1. q # p
      BY <1>2, JobsAreBusy DEF Forking
    <3> QED  BY <1>2, <3>1 DEF Forking
  <2> QED  BY <2>1 DEF HoldingInv, JobInv, ForksApart
<1> QED  BY <1>4, <1>5, <1>6 DEF JobInv

-----------------------------------------------------------------------------
(* The pages of the device.                                                  *)

\* Nobody but the job of process p copies a table of the space it works on.
LEMMA NoOtherPending ==
    ASSUME HoldingInv, NEW p \in Procs, halted = "", cpu \in {0, p},
           NEW a \in Procs, a = p \/ (Busy(p) /\ k[p].as = a),
           NEW r \in Procs, r # p, NEW t, NEW i
    PROVE  ~Pending(r, a, t, i)
<1> SUFFICES ASSUME Pending(r, a, t, i) PROVE FALSE
  OBVIOUS
<1>1. Busy(r) /\ k[r].as = a
  BY DEF Pending, Copying
<1>2. r = a
  BY <1>1, OthersWorkAtHome
<1>3. k[a] = Idle
  BY <1>2 DEF HoldingInv, JobInv, OneJobPerSpace
<1> QED  BY <1>1, <1>2, <1>3 DEF Busy

\* A process with the device that no job copies a table for maps its pages.
LEMMA DeviceIsMapped ==
    ASSUME HoldingInv, NEW p \in Procs, halted = "", cpu \in {0, p},
           NEW a \in devz, a = p \/ (Busy(p) /\ k[p].as = a), ~Copying(p),
           NEW t \in Tables, NEW i \in Idx, IsDev(t, i)
    PROVE  Maps(a, t, i)
<1>1. a \in Procs
  BY DEF HoldingInv, TypeOK
<1>2. \A r \in Procs : ~Pending(r, a, t, i)
  BY <1>1, NoOtherPending DEF Pending
<1> QED  BY <1>2 DEF HoldingInv, DeviceInv, DeviceMapped

\* A job that copies no table goes on to another step, begins or ends.
LEMMA DeviceUntouched ==
    ASSUME HoldingInv, NEW p \in Procs, UNCHANGED <<pdir, table, devz>>,
           \A q \in Procs \ {p} : k'[q] = k[q],
           ~Copying(p), ~Copying(p)', Busy(p)' => LoadsNoDevice(k[p])'
    PROVE  DeviceInv'
<1>1. \A q \in Procs, t \in Tables, i \in Idx :
        (Maps(q, t, i)' <=> Maps(q, t, i)) /\ Ref(q, t, i)' = Ref(q, t, i)
  BY DEF Maps, Ref, Tab
<1>2. \A r, q \in Procs, t \in Tables, i \in Idx :
        /\ Pending(r, q, t, i)' <=> Pending(r, q, t, i)
        /\ Pending(r, q, t, i) => k'[r] = k[r]
  <2> SUFFICES ASSUME NEW r \in Procs, NEW q \in Procs, NEW t \in Tables, NEW i \in Idx
               PROVE  /\ Pending(r, q, t, i)' <=> Pending(r, q, t, i)
                      /\ Pending(r, q, t, i) => k'[r] = k[r]
    OBVIOUS
  <2>1. CASE r = p
    BY <2>1 DEF Pending
  <2>2. CASE r # p
    BY <2>2 DEF Pending, Copying, Busy
  <2> QED  BY <2>1, <2>2
<1>3. DeviceFrame'
  <2>1. ASSUME NEW r \in Procs, Busy(r)'
        PROVE  SourceHasDevice(k[r])'
    <3>1. CASE r = p
      BY <2>1, <3>1 DEF SourceHasDevice, Copying
    <3>2. CASE r # p
      <4>1. k'[r] = k[r] /\ Busy(r)
        BY <2>1, <3>2 DEF Busy
      <4>2. SourceHasDevice(k[r])
        BY <4>1 DEF HoldingInv, DeviceInv, DeviceFrame
      <4> QED  BY <4>1, <4>2 DEF SourceHasDevice
    <3> QED  BY <3>1, <3>2
  <2> QED  BY <1>1, <2>1 DEF HoldingInv, DeviceInv, DeviceFrame
<1>4. DeviceMapped'
  <2>1. devz \subseteq Procs
    BY DEF HoldingInv, TypeOK
  <2> QED  BY <1>1, <1>2, <2>1 DEF HoldingInv, DeviceInv, DeviceMapped
<1>5. DeviceNotLoaded'
  <2> SUFFICES ASSUME NEW r \in Procs, Busy(r)'
               PROVE  LoadsNoDevice(k[r])'
    BY DEF DeviceNotLoaded
  <2>1. CASE r = p
    BY <2>1
  <2>2. CASE r # p
    <3>1. k'[r] = k[r] /\ Busy(r)
      BY <2>2 DEF Busy
    <3>2. LoadsNoDevice(k[r])
      BY <3>1 DEF HoldingInv, DeviceInv, DeviceNotLoaded
    <3> QED  BY <3>1, <3>2 DEF LoadsNoDevice, ToLoad
  <2> QED  BY <2>1, <2>2
<1> QED  BY <1>3, <1>4, <1>5 DEF DeviceInv

\* A step of process p on tables: what has to be shown of the job of p itself.
LEMMA DeviceKept ==
    ASSUME HoldingInv, NEW p \in Procs, \A q \in Procs \ {p} : k'[q] = k[q],
           devz' \subseteq Procs,
           \A r \in Procs : r # p /\ Busy(r) /\ k[r].as \in devz' => k[r].as \in devz,
           \A q \in Procs, t \in Tables, i \in Idx : Maps(q, t, i)' =>
              IF IsDev(t, i) THEN Ref(q, t, i)' = DevFrame ELSE Ref(q, t, i)' \in Frames,
           Busy(p)' => SourceHasDevice(k[p])' /\ LoadsNoDevice(k[p])',
           \A q \in devz', t \in Tables, i \in Idx :
              IsDev(t, i) => Maps(q, t, i)' \/ \E r \in Procs : Pending(r, q, t, i)',
           \A q \in devz', t \in Tables, i \in Idx :
              Pending(p, q, t, i)' /\ IsDev(t, i) => k'[p].src[i].st = "present"
    PROVE  DeviceInv'
<1>1. \A r \in Procs : r # p /\ Busy(r)' => k'[r] = k[r] /\ Busy(r)
  BY DEF Busy
<1>2. DeviceFrame'
  <2>1. ASSUME NEW r \in Procs, Busy(r)'
        PROVE  SourceHasDevice(k[r])'
    <3>1. CASE r = p
      BY <2>1, <3>1
    <3>2. CASE r # p
      <4>1. k'[r] = k[r] /\ SourceHasDevice(k[r])
        BY <1>1, <2>1, <3>2 DEF HoldingInv, DeviceInv, DeviceFrame
      <4> QED  BY <4>1 DEF SourceHasDevice
    <3> QED  BY <3>1, <3>2
  <2> QED  BY <2>1 DEF DeviceFrame
<1>3. DeviceMapped'
  <2>1. ASSUME NEW r \in Procs, NEW q \in Procs, NEW t \in Tables, NEW i \in Idx,
               Pending(r, q, t, i)', q \in devz', IsDev(t, i)
        PROVE  k'[r].src[i].st = "present"
    <3>1. CASE r = p
      BY <2>1, <3>1
    <3>2. CASE r # p
      <4>1. k'[r] = k[r] /\ Busy(r)
        BY <1>1, <2>1, <3>2 DEF Pending, Copying
      <4>2. Pending(r, q, t, i) /\ q \in devz
        BY <2>1, <3>2, <4>1 DEF Pending, Copying
      <4>3. k[r].src[i].st = "present"
        BY <2>1, <4>2 DEF HoldingInv, DeviceInv, DeviceMapped
      <4> QED  BY <4>1, <4>3
    <3> QED  BY <3>1, <3>2
  <2> QED  BY <2>1 DEF DeviceMapped
<1>4. DeviceNotLoaded'
  <2> SUFFICES ASSUME NEW r \in Procs, Busy(r)'
               PROVE  LoadsNoDevice(k[r])'
    BY DEF DeviceNotLoaded
  <2>1. CASE r = p
    BY <2>1
  <2>2. CASE r # p
    <3>1. k'[r] = k[r] /\ Busy(r) /\ LoadsNoDevice(k[r])
      BY <1>1, <2>2 DEF HoldingInv, DeviceInv, DeviceNotLoaded
    <3> QED  BY <2>2, <3>1 DEF LoadsNoDevice, ToLoad
  <2> QED  BY <2>1, <2>2
<1> QED  BY <1>2, <1>3, <1>4 DEF DeviceInv

-----------------------------------------------------------------------------
(* The swap file.                                                            *)

\* The swap file grows: what it held stays where it was.
LEMMA SwapKept ==
    ASSUME HoldingInv, NEW p \in Procs, \A q \in Procs \ {p} : k'[q] = k[q],
           Len(swap) \in Nat, Len(swap') \in Nat, Len(swap) <= Len(swap'),
           \A i \in Idx : Busy(p)' => OnFile(k[p].src[i])',
           \A f \in Frames, i \in Idx :
              table'[f][i] = table[f][i] \/ OnFile(table[f][i])'
    PROVE  SwapInv'
<1>1. ASSUME NEW f \in Frames, NEW i \in Idx
      PROVE  OnFile(table[f][i])'
  <2>1. CASE table'[f][i] = table[f][i]
    BY <2>1 DEF OnFile, HoldingInv, SwapInv
  <2> QED  BY <2>1
<1>2. ASSUME NEW r \in Procs, Busy(r)', NEW i \in Idx
      PROVE  OnFile(k[r].src[i])'
  <2>1. CASE r = p
    BY <1>2, <2>1
  <2>2. CASE r # p
    <3>1. k'[r] = k[r] /\ Busy(r)
      BY <1>2, <2>2 DEF Busy
    <3>2. OnFile(k[r].src[i])
      BY <3>1 DEF HoldingInv, SwapInv
    <3> QED  BY <3>1, <3>2 DEF OnFile
  <2> QED  BY <2>1, <2>2
<1> QED  BY <1>1, <1>2 DEF SwapInv

\* A step that changes no entry and no swapped page.
LEMMA SwapUntouched ==
    ASSUME HoldingInv, NEW p \in Procs, \A q \in Procs \ {p} : k'[q] = k[q],
           UNCHANGED <<table, swap>>,
           Busy(p)' => \A i \in Idx : OnFile(k'[p].src[i])
    PROVE  SwapInv'
BY DEF HoldingInv, SwapInv, OnFile, Busy

LEMMA SwapIsTyped ==
    ASSUME TypeOK
    PROVE  Len(swap) \in Nat /\ \A n \in 1 .. Len(swap) : swap[n] \in Values
<1>1. swap \in Seq(Values)
  BY DEF TypeOK
<1> QED  BY <1>1

-----------------------------------------------------------------------------
(* The steps, one by one.                                                    *)

\* The steps that change neither directories nor tables nor free frames.
LEMMA QuietJob ==
    ASSUME HoldingInv, NEW p \in live, NEW j \in Jobs, Goto(p, j),
           halted = "", cpu \in {0, p}, ~Copying(p), Spare(p) = 0,
           UNCHANGED <<boot, live, pdir, base, table, mem, free, swap, ksw, devz, halted>>,
           spaces' \in Nat,
           j.as \in live, j.as # p => k[j.as] = Idle,
           j.at \notin {"tab", "copy", "ptab"}, InStep(p, j)', LoadsNoDevice(j),
           \A i \in Idx : OnFile(j.src[i]),
           \A q \in Procs : Forking(p, j.idx)' /\ q # p => ~Forking(q, j.idx)
    PROVE  HoldingInv'
<1>1. p \in Procs /\ TypeOK
  BY DEF HoldingInv, TypeOK
<1>2. /\ k' \in [Procs -> {Idle} \cup Jobs] /\ cpu' \in 0 .. NProcs
      /\ k'[p] = j /\ \A q \in Procs \ {p} : k'[q] = k[q]
  BY <1>1, GotoIsTyped
<1>3. TypeOK'
  BY <1>1, <1>2 DEF TypeOK
<1>4. JobInv'
  BY JobGoesOn
<1>5. j.spare = 0
  BY DEF InStep
<1>6. \A q \in Procs : Spare(q)' = Spare(q)
  BY <1>2, <1>5 DEF Spare, Busy
<1>7. RoleInv' /\ ShareInv'
  BY <1>6, FramesUntouched
<1>8. ~Copying(p)'
  BY <1>2 DEF Copying
<1>9. LoadsNoDevice(k[p])'
  BY <1>2 DEF LoadsNoDevice, ToLoad
<1>10. DeviceInv'
  BY <1>1, <1>2, <1>8, <1>9, DeviceUntouched
<1>11. SwapInv'
  BY <1>1, <1>2, SwapUntouched
<1> QED  BY <1>3, <1>4, <1>7, <1>10, <1>11 DEF HoldingInv
=============================================================================
