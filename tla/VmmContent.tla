----------------------------- MODULE VmmContent -----------------------------
(* On a machine that never swaps the virtual memory implements private       *)
(* memory.  ContentInv says where the content of every page is; one lemma    *)
(* per action shows that it is kept and which contents the action changes.   *)
EXTENDS VmmProofs

\* The frame in which process p sees page <<t, i>>.
SeenBy(p, t, i, f) ==
    \/ \E r \in Procs : /\ Pending(r, p, t, i)
                        /\ k[r].src[i].st = "present" /\ f = k[r].src[i].ref
    \/ (\A r \in Procs : ~Pending(r, p, t, i)) /\ Maps(p, t, i) /\ f = Ref(p, t, i)

\* What a process reads, from the frame it reads it in.
SeenMatches ==
    \A p \in Procs, t \in Tables, i \in Idx :
        /\ IsDev(t, i) => Seen(p, <<t, i>>) = Zero
        /\ ~IsDev(t, i) =>
             /\ \A f \in Frames : SeenBy(p, t, i, f) => Seen(p, <<t, i>>) = mem[f]
             /\ (\A f \in Frames : ~SeenBy(p, t, i, f)) =>
                   Seen(p, <<t, i>>) = Loaded(<<t, i>>)

\* The frame of a page of memory has no other role, and no other page of a
\* table that is not shared is in it.
SeenApart ==
    \A p \in Procs, t \in Tables, i \in Idx, f \in Frames :
        ~IsDev(t, i) /\ SeenBy(p, t, i, f) =>
            /\ f \notin free
            /\ \A q \in Procs : f \notin base[q] /\ f # Spare(q)
            /\ \A q \in Procs, u \in Tables : f # Tab(q, u)
            /\ \A q \in Procs, u \in Tables, x \in Idx :
                 Maps(q, u, x) /\ Ref(q, u, x) = f /\ ~pdir[q][u].cow =>
                    /\ q = p /\ u = t /\ x = i
                    /\ \A r \in Procs : ~Pending(r, p, t, i)

\* One job at most copies the table of a page.
LEMMA OnePending ==
    ASSUME JobsApart, NEW p \in Procs, NEW t, NEW i,
           NEW r \in Procs, Pending(r, p, t, i), NEW s \in Procs, Pending(s, p, t, i)
    PROVE  r = s
BY DEF JobsApart, Pending, Copying

\* Without a swap file no entry is swapped out.
LEMMA NoneSwapped ==
    ASSUME HoldingInv, NothingSwapped
    PROVE  /\ \A f \in Frames, i \in Idx : table[f][i].st # "swapped"
           /\ \A r \in Procs, i \in Idx : Busy(r) => k[r].src[i].st # "swapped"
<1>1. Len(swap) = 0
  BY DEF NothingSwapped
<1>2. \A e : OnFile(e) => e.st # "swapped"
  BY <1>1 DEF OnFile
<1> QED  BY <1>2 DEF HoldingInv, SwapInv

\* What a process sees is what the frame of the page holds.
LEMMA SeenValue == HoldingInv /\ ContentInv => SeenMatches
<1> SUFFICES ASSUME HoldingInv, ContentInv,
                    NEW p \in Procs, NEW t \in Tables, NEW i \in Idx
             PROVE  /\ IsDev(t, i) => Seen(p, <<t, i>>) = Zero
                    /\ ~IsDev(t, i) =>
                         /\ \A f \in Frames : SeenBy(p, t, i, f) => Seen(p, <<t, i>>) = mem[f]
                         /\ (\A f \in Frames : ~SeenBy(p, t, i, f)) =>
                               Seen(p, <<t, i>>) = Loaded(<<t, i>>)
  BY DEF SeenMatches
<1>1. <<t, i>> \in Pages /\ <<t, i>>[1] = t /\ <<t, i>>[2] = i
  BY DEF Pages
<1>2. PICK e : e = SeenEntry(p, <<t, i>>)
  OBVIOUS
<1>3. \A r \in Procs : Pending(r, p, t, i) => e = k[r].src[i]
  <2> SUFFICES ASSUME NEW r \in Procs, Pending(r, p, t, i)
               PROVE  e = k[r].src[i]
    OBVIOUS
  <2>1. PICK s : s = CHOOSE x \in Procs : Pending(x, p, t, i)
    OBVIOUS
  <2>2. s \in Procs /\ Pending(s, p, t, i)
    BY <2>1
  <2>3. s = r
    BY <2>2, OnePending DEF ContentInv
  <2>4. e = k[s].src[i]
    BY <1>1, <1>2, <2>1 DEF SeenEntry
  <2> QED  BY <2>3, <2>4
<1>4. (\A r \in Procs : ~Pending(r, p, t, i)) =>
        e = IF Tab(p, t) = 0 THEN None ELSE table[Tab(p, t)][i]
  BY <1>1, <1>2 DEF SeenEntry, Entry, Tab
<1>5. Seen(p, <<t, i>>) = IF IsDev(t, i) THEN Zero
                          ELSE IF e.st = "present" THEN mem[e.ref]
                          ELSE IF e.st = "swapped" THEN swap[e.ref] ELSE Loaded(<<t, i>>)
  BY <1>1, <1>2 DEF Seen, IsDev
<1>6. e.st # "swapped"
  <2>1. CASE \E r \in Procs : Pending(r, p, t, i)
    BY <1>3, <2>1, NoneSwapped DEF ContentInv, Pending, Copying
  <2>2. CASE \A r \in Procs : ~Pending(r, p, t, i)
    <3>1. CASE Tab(p, t) = 0
      BY <1>4, <2>2, <3>1 DEF None
    <3>2. CASE Tab(p, t) # 0
      BY <1>4, <2>2, <3>2, NoneSwapped, FramesAreTyped DEF ContentInv
    <3> QED  BY <3>1, <3>2
  <2> QED  BY <2>1, <2>2
<1>7. \A f : SeenBy(p, t, i, f) <=> e.st = "present" /\ f = e.ref
  <2>1. CASE \E r \in Procs : Pending(r, p, t, i)
    BY <1>3, <2>1 DEF SeenBy
  <2>2. CASE \A r \in Procs : ~Pending(r, p, t, i)
    BY <1>4, <2>2 DEF SeenBy, Maps, Ref, None
  <2> QED  BY <2>1, <2>2
<1>8. ~IsDev(t, i) /\ e.st = "present" => e.ref \in Frames
  <2>1. CASE \E r \in Procs : Pending(r, p, t, i)
    BY <1>3, <2>1 DEF HoldingInv, DeviceInv, DeviceFrame, SourceHasDevice, Pending, Copying
  <2>2. CASE \A r \in Procs : ~Pending(r, p, t, i)
    BY <1>4, <2>2, PagesAreFrames DEF Maps, Ref, None
  <2> QED  BY <2>1, <2>2
<1> QED  BY <1>5, <1>6, <1>7, <1>8

\* The same after a step.
LEMMA SeenValueNext == HoldingInv' /\ ContentInv' => SeenMatches'
BY SeenValue, PTL

\* The frames that processes see are nobody else's.
LEMMA SeenIsApart ==
    ASSUME HoldingInv, ContentInv
    PROVE  SeenApart
<1> SUFFICES ASSUME NEW p \in Procs, NEW t \in Tables, NEW i \in Idx, NEW f \in Frames,
                    ~IsDev(t, i), SeenBy(p, t, i, f)
             PROVE  /\ f \notin free
                    /\ \A q \in Procs : f \notin base[q] /\ f # Spare(q)
                    /\ \A q \in Procs, u \in Tables : f # Tab(q, u)
                    /\ \A q \in Procs, u \in Tables, x \in Idx :
                         Maps(q, u, x) /\ Ref(q, u, x) = f /\ ~pdir[q][u].cow =>
                            /\ q = p /\ u = t /\ x = i
                            /\ \A r \in Procs : ~Pending(r, p, t, i)
  BY DEF SeenApart
<1>1. CASE \E r \in Procs : Pending(r, p, t, i)
  <2>1. PICK r \in Procs : Pending(r, p, t, i) /\ k[r].src[i].st = "present" /\ f = k[r].src[i].ref
    BY <1>1 DEF SeenBy
  <2>2. Frozen(f)
    BY <2>1 DEF ContentInv, SourceFrozen, Pending
  <2> QED  BY <2>2 DEF Frozen
<1>2. CASE \A r \in Procs : ~Pending(r, p, t, i)
  <2>1. Maps(p, t, i) /\ f = Ref(p, t, i)
    BY <1>2 DEF SeenBy
  <2>2. /\ f \notin free
        /\ \A q \in Procs : f \notin base[q] /\ f # Spare(q)
        /\ \A q \in Procs, u \in Tables : f # Tab(q, u)
    BY <2>1 DEF HoldingInv, RoleInv, PagesApart
  <2>3. ASSUME NEW q \in Procs, NEW u \in Tables, NEW x \in Idx,
               Maps(q, u, x), Ref(q, u, x) = f, ~pdir[q][u].cow
        PROVE  q = p /\ u = t /\ x = i
    <3>1. Tab(q, u) = Tab(p, t) /\ x = i /\ Tab(q, u) # 0
      BY <2>1, <2>3, FrameFacts DEF HoldingInv, ShareInv, OneEntryPerPage, Maps
    <3> QED  BY <2>3, <3>1 DEF HoldingInv, ShareInv, SharedMarked
  <2> QED  BY <1>2, <2>2, <2>3
<1> QED  BY <1>1, <1>2

\* A page that stays where it is and whose frame is not written keeps its content.
LEMMA SameSeen ==
    ASSUME HoldingInv, ContentInv, HoldingInv', ContentInv',
           NEW p \in Procs, NEW t \in Tables, NEW i \in Idx,
           ~IsDev(t, i) => \A f \in Frames : SeenBy(p, t, i, f)' <=> SeenBy(p, t, i, f),
           ~IsDev(t, i) => \A f \in Frames : SeenBy(p, t, i, f) => mem'[f] = mem[f]
    PROVE  Seen(p, <<t, i>>)' = Seen(p, <<t, i>>)
<1>1. /\ IsDev(t, i) => Seen(p, <<t, i>>) = Zero
      /\ ~IsDev(t, i) =>
           /\ \A f \in Frames : SeenBy(p, t, i, f) => Seen(p, <<t, i>>) = mem[f]
           /\ (\A f \in Frames : ~SeenBy(p, t, i, f)) => Seen(p, <<t, i>>) = Loaded(<<t, i>>)
  BY SeenValue DEF SeenMatches
<1>2. /\ IsDev(t, i) => Seen(p, <<t, i>>)' = Zero
      /\ ~IsDev(t, i) =>
           /\ \A f \in Frames : SeenBy(p, t, i, f)' => Seen(p, <<t, i>>)' = mem'[f]
           /\ (\A f \in Frames : ~SeenBy(p, t, i, f)') => Seen(p, <<t, i>>)' = Loaded(<<t, i>>)
  BY SeenValueNext DEF SeenMatches, IsDev, Loaded
<1> QED  BY <1>1, <1>2

\* No process sees another content than before.
SeenKept == \A q \in Procs, t \in Tables, i \in Idx : Seen(q, <<t, i>>)' = Seen(q, <<t, i>>)

\* The jobs of the other processes stay as they are.
OthersStay(p) == \A q \in Procs \ {p} : k'[q] = k[q]

\* What has to be shown of a step of process p.
LEMMA ContentKept ==
    ASSUME HoldingInv, ContentInv, HoldingInv', NEW p \in Procs, OthersStay(p),
           UNCHANGED <<boot, swap>>, ksw'.awake = ksw.awake, halted' = "" \/ k' = k,
           \A f \in Frames : Frozen(f) => Frozen(f)',
           \A i \in Idx, g \in Frames :
              /\ Copying(p)' /\ k'[p].idx <= i /\ k'[p].src[i].st = "present"
              /\ ~IsDev(k'[p].pg[1], i) /\ g = k'[p].src[i].ref
              => Frozen(g),
           \A q \in Procs \ {p}, t \in Tables, i \in Idx :
              Busy(q) => (Maps(k[q].as, t, i)' <=> Maps(k[q].as, t, i)),
           Busy(p)' => PageInStep(k[p])'
    PROVE  ContentInv'
<1>1. NothingSwapped'
  BY DEF ContentInv, NothingSwapped
<1>2. JobsApart'
  <2>1. CASE k' = k
    BY <2>1 DEF ContentInv, JobsApart, Busy
  <2>2. CASE halted' = ""
    <3> SUFFICES ASSUME NEW r \in Procs, NEW q \in Procs, Busy(r)', Busy(q)',
                        k'[r].as = k'[q].as
                 PROVE  r = q
      BY DEF JobsApart
    <3>1. \A s \in Procs : Busy(s)' =>
             (k'[s].as # s => k'[k'[s].as] = Idle /\ cpu' = s)
      BY <2>2 DEF HoldingInv, JobInv, OneJobPerSpace
    <3>2. CASE k'[r].as = r
      BY <3>1, <3>2 DEF Busy
    <3>3. CASE k'[r].as # r
      BY <3>1, <3>3 DEF Busy
    <3> QED  BY <3>2, <3>3
  <2> QED  BY <2>1, <2>2
<1>3. SourceFrozen'
  <2> SUFFICES ASSUME NEW r \in Procs, NEW i \in Idx, Copying(r)', k'[r].idx <= i,
                      k'[r].src[i].st = "present", ~IsDev(k'[r].pg[1], i)
               PROVE  Frozen(k[r].src[i].ref)'
    BY DEF SourceFrozen, IsDev
  <2>1. PICK g : g = k'[r].src[i].ref
    OBVIOUS
  <2>2. g \in Frames
    BY <2>1 DEF HoldingInv, DeviceInv, DeviceFrame, SourceHasDevice, Copying, IsDev
  <2>3. Frozen(g)
    <3>1. CASE r = p
      BY <2>1, <2>2, <3>1
    <3>2. CASE r # p
      BY <2>1, <3>2 DEF ContentInv, SourceFrozen, Copying, Busy, OthersStay
    <3> QED  BY <3>1, <3>2
  <2>4. Frozen(g)'
    BY <2>2, <2>3
  <2> QED  BY <2>1, <2>4
<1>4. PagesInStep'
  <2> SUFFICES ASSUME NEW q \in Procs, Busy(q)'
               PROVE  PageInStep(k[q])'
    BY DEF PagesInStep
  <2>1. CASE q = p
    BY <2>1
  <2>2. CASE q # p
    <3>1. PICK j : j = k[q]
      OBVIOUS
    <3>2. Busy(q) /\ k'[q] = j /\ j \in Jobs /\ PageInStep(j)
      <4>1. Busy(q) /\ k'[q] = j
        BY <2>2, <3>1 DEF OthersStay, Busy
      <4> QED  BY <3>1, <4>1, JobIsTyped DEF HoldingInv, ContentInv, PagesInStep
    <3>3. j.pg[1] \in Tables /\ j.pg[2] \in Idx
      BY <3>2, JobIsFields
    <3>4. Maps(j.as, j.pg[1], j.pg[2])' <=> Maps(j.as, j.pg[1], j.pg[2])
      BY <2>2, <3>1, <3>2, <3>3
    <3>5. PageInStep(j)'
      BY <3>2, <3>4 DEF PageInStep, Loading
    <3> QED  BY <3>2, <3>5
  <2> QED  BY <2>1, <2>2
<1> QED  BY <1>1, <1>2, <1>3, <1>4 DEF ContentInv

\* Frames with the same roles as before.
LEMMA FrozenKept ==
    ASSUME NEW f, Frozen(f), UNCHANGED <<pdir, base, table>>, f \notin free',
           \A q \in Procs : f # Spare(q)'
    PROVE  Frozen(f)'
BY DEF Frozen, Tab, Maps, Ref

\* A step of process p that touches no table and copies none.
LEMMA JobOnly ==
    ASSUME HoldingInv, ContentInv, HoldingInv', NEW p \in Procs, OthersStay(p),
           UNCHANGED <<boot, swap, ksw, pdir, base, table, mem>>, halted' = "" \/ k' = k,
           \A f \in Frames : Frozen(f) => f \notin free' /\ f # Spare(p)',
           \A q \in Procs, t \in Tables, i \in Idx :
              ~Pending(p, q, t, i) /\ ~Pending(p, q, t, i)',
           Copying(p)' => \A i \in Idx : ~(k'[p].idx <= i),
           Busy(p)' => PageInStep(k[p])'
    PROVE  ContentInv' /\ SeenKept
<1>1. \A f \in Frames : Frozen(f) => Frozen(f)'
  <2> SUFFICES ASSUME NEW f \in Frames, Frozen(f)
               PROVE  Frozen(f)'
    OBVIOUS
  <2>1. \A q \in Procs \ {p} : Spare(q)' = Spare(q)
    BY DEF OthersStay, Spare, Busy
  <2>2. \A q \in Procs : f # Spare(q)'
    BY <2>1 DEF Frozen
  <2> QED  BY <2>2, FrozenKept
<1>2. \A q \in Procs, t \in Tables, i \in Idx :
        (Maps(q, t, i)' <=> Maps(q, t, i)) /\ Ref(q, t, i)' = Ref(q, t, i)
  BY DEF Maps, Ref, Tab
<1>3. ContentInv'
  <2>1. \A q \in Procs \ {p}, t \in Tables, i \in Idx :
          Busy(q) => (Maps(k[q].as, t, i)' <=> Maps(k[q].as, t, i))
    <3> SUFFICES ASSUME NEW q \in Procs \ {p}, NEW t \in Tables, NEW i \in Idx, Busy(q)
                 PROVE  Maps(k[q].as, t, i)' <=> Maps(k[q].as, t, i)
      OBVIOUS
    <3>1. k'[q] = k[q]
      BY DEF OthersStay
    <3> QED  BY <3>1 DEF Maps, Tab
  <2> QED  BY <1>1, <2>1, ContentKept
<1>4. \A r, q \in Procs, t \in Tables, i \in Idx :
        /\ Pending(r, q, t, i)' <=> Pending(r, q, t, i)
        /\ Pending(r, q, t, i) => k'[r] = k[r]
  <2> SUFFICES ASSUME NEW r \in Procs, NEW q \in Procs, NEW t \in Tables, NEW i \in Idx
               PROVE  /\ Pending(r, q, t, i)' <=> Pending(r, q, t, i)
                      /\ Pending(r, q, t, i) => k'[r] = k[r]
    OBVIOUS
  <2>1. CASE r = p
    BY <2>1
  <2>2. CASE r # p
    <3>1. k'[r] = k[r]
      BY <2>2 DEF OthersStay
    <3> QED  BY <3>1 DEF Pending, Copying, Busy
  <2> QED  BY <2>1, <2>2
<1>5. \A q \in Procs, t \in Tables, i \in Idx, f \in Frames :
        SeenBy(q, t, i, f)' <=> SeenBy(q, t, i, f)
  <2> SUFFICES ASSUME NEW q \in Procs, NEW t \in Tables, NEW i \in Idx, NEW f \in Frames
               PROVE  SeenBy(q, t, i, f)' <=> SeenBy(q, t, i, f)
    OBVIOUS
  <2>1. (Maps(q, t, i)' <=> Maps(q, t, i)) /\ Ref(q, t, i)' = Ref(q, t, i)
    BY <1>2
  <2>2. \A r \in Procs : /\ Pending(r, q, t, i)' <=> Pending(r, q, t, i)
                         /\ Pending(r, q, t, i) => k'[r].src[i] = k[r].src[i]
    BY <1>4
  <2> QED  BY <2>1, <2>2 DEF SeenBy
<1>6. SeenKept
  BY <1>3, <1>5, SameSeen DEF SeenKept
<1> QED  BY <1>3, <1>6

-----------------------------------------------------------------------------
(* Steps that leave the tables alone.                                        *)

\* A step that moves neither a job nor a frame.
LEMMA StandsStill ==
    ASSUME HoldingInv, ContentInv, HoldingInv',
           UNCHANGED <<boot, swap, pdir, base, table, free, k>>, ksw'.awake = ksw.awake
    PROVE  /\ ContentInv'
           /\ \A p \in Procs, t \in Tables, i \in Idx : \A f :
                SeenBy(p, t, i, f)' <=> SeenBy(p, t, i, f)
<1>1. NothingSwapped' /\ JobsApart'
  BY DEF ContentInv, NothingSwapped, JobsApart, Busy
<1>2. \A q \in Procs, t \in Tables, i \in Idx :
        (Maps(q, t, i)' <=> Maps(q, t, i)) /\ Ref(q, t, i)' = Ref(q, t, i)
  BY DEF Maps, Ref, Tab
<1>3. SourceFrozen'
  BY DEF ContentInv, SourceFrozen, Frozen, Copying, Busy, Spare, Maps, Ref, Tab
<1>4. PagesInStep'
  BY DEF ContentInv, PagesInStep, PageInStep, Loading, Busy, Maps, Tab
<1>5. \A p \in Procs, t \in Tables, i \in Idx : \A f : SeenBy(p, t, i, f)' <=> SeenBy(p, t, i, f)
  BY DEF SeenBy, Pending, Copying, Busy, Maps, Ref, Tab
<1> QED  BY <1>1, <1>3, <1>4, <1>5 DEF ContentInv

\* Nor writes to memory.
LEMMA NothingSeen ==
    ASSUME HoldingInv, ContentInv, HoldingInv',
           UNCHANGED <<boot, swap, pdir, base, table, free, k, mem>>, ksw'.awake = ksw.awake
    PROVE  ContentInv' /\ SeenKept
<1>1. /\ ContentInv'
      /\ \A p \in Procs, t \in Tables, i \in Idx : \A f : SeenBy(p, t, i, f)' <=> SeenBy(p, t, i, f)
  BY StandsStill
<1> QED  BY <1>1, SameSeen DEF SeenKept

\* A job that copies no table begins or goes on.
LEMMA QuietGoto ==
    ASSUME HoldingInv, ContentInv, HoldingInv', NEW p \in Procs, NEW j \in Jobs, Goto(p, j),
           UNCHANGED <<boot, swap, ksw, pdir, base, table, mem>>, halted' = "",
           ~Copying(p), j.at \notin {"tab", "copy"}, PageInStep(j),
           \A f \in Frames : Frozen(f) => f \notin free' /\ f # j.spare
    PROVE  ContentInv' /\ SeenKept
<1>1. k'[p] = j /\ \A q \in Procs \ {p} : k'[q] = k[q]
  BY GotoIsTyped DEF HoldingInv
<1>2. OthersStay(p) /\ ~Copying(p)' /\ Busy(p)' /\ Spare(p)' = j.spare
  BY <1>1, JobsAreBusy DEF OthersStay, Copying, Busy, Spare
<1>3. \A q, t, i : ~Pending(p, q, t, i) /\ ~Pending(p, q, t, i)'
  BY <1>2 DEF Pending
<1>4. PageInStep(k[p])'
  BY <1>1 DEF PageInStep, Loading, Maps, Tab
<1>5. \A f \in Frames : Frozen(f) => f \notin free' /\ f # Spare(p)'
  BY <1>2
<1> QED  BY <1>2, <1>3, <1>4, <1>5, JobOnly

\* A job that copies no table ends.
LEMMA QuietLeave ==
    ASSUME HoldingInv, ContentInv, HoldingInv', NEW p \in Procs, Leave(p),
           UNCHANGED <<boot, swap, ksw, pdir, base, table, mem, free>>, halted' = "",
           ~Copying(p)
    PROVE  ContentInv' /\ SeenKept
<1>1. k'[p] = Idle /\ \A q \in Procs \ {p} : k'[q] = k[q]
  BY LeaveIsTyped DEF HoldingInv
<1>2. OthersStay(p) /\ ~Copying(p)' /\ ~Busy(p)' /\ Spare(p)' = 0
  BY <1>1 DEF OthersStay, Copying, Busy, Spare
<1>3. \A q, t, i : ~Pending(p, q, t, i) /\ ~Pending(p, q, t, i)'
  BY <1>2 DEF Pending
<1>4. \A f \in Frames : Frozen(f) => f \notin free' /\ f # Spare(p)'
  BY <1>2, FrameFacts DEF Frozen
<1> QED  BY <1>2, <1>3, <1>4, JobOnly

\* A fault, or a copy function of the kernel, begins.
LEMMA StartSeen ==
    ASSUME HoldingInv, ContentInv, HoldingInv', NEW p \in Procs, InUser(p), NEW a \in live,
           NEW pg \in Pages, NEW at \in {"src", "absent", "check", "fail"},
           NEW then \in {"absent", "return", "check"}, NEW last \in {"return", "store"},
           NEW v \in Values, Goto(p, Job(p, a, pg, at, then, last, v)),
           at = "absent" \/ (at = "src" /\ then = "absent") => ~vmm_is_page_present(a, pg),
           UNCHANGED <<boot, pdir, base, table, mem, free, swap, ksw, halted>>
    PROVE  ContentInv' /\ SeenKept
<1>1. PICK j : j = Job(p, a, pg, at, then, last, v)
  OBVIOUS
<1>2. a \in Procs
  BY DEF HoldingInv, TypeOK
<1>3. j \in Jobs /\ j.at = at /\ j.as = a /\ j.pg = pg /\ j.then = then /\ j.spare = 0
  <2>1. at \in Stages /\ then \in {"absent", "return", "check", "fork", "exec"}
    BY DEF Stages
  <2>2. 0 \in 0 .. NFrames
    BY VmmAssumption
  <2> QED  BY <1>1, <1>2, <2>1, <2>2, EmptyIsTyped DEF Job, Jobs
<1>4. halted' = "" /\ ~Copying(p)
  BY UserHasNoJob
<1>5. PageInStep(j)
  <2>1. Loading(j) => ~Maps(a, pg[1], pg[2])
    BY <1>3 DEF Loading, vmm_is_page_present, Entry, Maps, Tab
  <2> QED  BY <1>3, <2>1 DEF PageInStep
<1>6. \A f \in Frames : Frozen(f) => f \notin free' /\ f # j.spare
  BY <1>3, FrameFacts DEF Frozen
<1> QED  BY <1>1, <1>3, <1>4, <1>5, <1>6, QuietGoto

\* Faults and copies of the kernel begin unseen.
LEMMA FaultSeen ==
    ASSUME HoldingInv, ContentInv, HoldingInv', NEW p \in Procs, NEW pg \in Pages,
           FaultNotPresent(p, pg) \/ FaultOnWriting(p, pg)
    PROVE  ContentInv' /\ SeenKept
<1>1. InUser(p) /\ p \in live /\ Zero \in Values
  BY VmmAssumption DEF FaultNotPresent, FaultOnWriting, InUser
<1>2. CASE FaultNotPresent(p, pg)
  <2>1. PICK at \in {"src", "absent"} : at = IF vmm_is_copy_on_write(p, pg) THEN "src" ELSE "absent"
    OBVIOUS
  <2>2. Goto(p, Job(p, p, pg, at, "absent", "return", Zero)) /\ ~vmm_is_page_present(p, pg)
        /\ UNCHANGED <<boot, pdir, base, table, mem, free, swap, ksw, halted>>
    BY <1>2, <2>1 DEF FaultNotPresent
  <2> QED  BY <1>1, <2>2, StartSeen
<1>3. CASE FaultOnWriting(p, pg)
  <2>1. PICK at \in {"src", "fail"} : at = IF vmm_is_copy_on_write(p, pg) THEN "src" ELSE "fail"
    OBVIOUS
  <2>2. Goto(p, Job(p, p, pg, at, "return", "return", Zero))
        /\ UNCHANGED <<boot, pdir, base, table, mem, free, swap, ksw, halted>>
    BY <1>3, <2>1 DEF FaultOnWriting
  <2> QED  BY <1>1, <2>2, StartSeen
<1> QED  BY <1>2, <1>3

LEMMA KernelStoreSeen ==
    ASSUME HoldingInv, ContentInv, HoldingInv', NEW p \in Procs, NEW q \in Procs,
           NEW pg \in Pages, NEW v \in Values, KernelStore(p, q, pg, v)
    PROVE  ContentInv' /\ SeenKept
<1>1. PICK at \in {"src", "check"} : at = IF vmm_is_copy_on_write(q, pg) THEN "src" ELSE "check"
  OBVIOUS
<1>2. /\ Goto(p, Job(p, q, pg, at, "check", "store", v)) /\ InUser(p) /\ q \in live
      /\ UNCHANGED <<boot, pdir, base, table, mem, free, swap, ksw, halted>>
  BY <1>1 DEF KernelStore
<1> QED  BY <1>2, StartSeen

LEMMA KernelLoadSeen ==
    ASSUME HoldingInv, ContentInv, HoldingInv', NEW p \in Procs, NEW pg \in Pages, KernelLoad(p, pg)
    PROVE  ContentInv' /\ SeenKept
<1>1. InUser(p) /\ p \in live /\ Zero \in Values /\ ~vmm_is_page_present(p, pg)
      /\ UNCHANGED <<boot, pdir, base, table, mem, free, swap, ksw>>
  BY VmmAssumption DEF KernelLoad, InUser
<1>2. CASE vmm_is_copy_on_write(p, pg)
  <2>1. k' = k
    BY <1>2 DEF KernelLoad
  <2> QED  BY <1>1, <2>1, NothingSeen
<1>3. CASE ~vmm_is_copy_on_write(p, pg)
  <2>1. Goto(p, Job(p, p, pg, "absent", "return", "return", Zero)) /\ halted' = halted
    BY <1>3 DEF KernelLoad
  <2> QED  BY <1>1, <2>1, StartSeen
<1> QED  BY <1>2, <1>3

\* The job of p, whose fields new takes over, with what ContentInv says of it.
LEMMA RunningSeen ==
    ASSUME HoldingInv, ContentInv, NEW p \in Procs, Runs(p), NEW j, j = k[p], j.at \in Stages
    PROVE  /\ halted = "" /\ cpu \in {0, p} /\ Busy(p) /\ j \in Jobs /\ p \in live
           /\ InStep(p, j) /\ PageInStep(j) /\ Spare(p) = j.spare
           /\ j.as \in Procs /\ j.pg[1] \in Tables /\ j.pg[2] \in Idx
<1>1. /\ halted = "" /\ cpu \in {0, p} /\ Busy(p) /\ j \in Jobs /\ p \in live
      /\ InStep(p, j) /\ Spare(p) = j.spare
  BY RunningJob
<1>2. PageInStep(j)
  BY <1>1 DEF ContentInv, PagesInStep
<1> QED  BY <1>1, <1>2, JobIsFields

\* Steps between two allocations are unseen.
LEMMA EnsurePresentSeen ==
    ASSUME HoldingInv, ContentInv, HoldingInv', NEW p \in Procs, EnsurePresent(p)
    PROVE  ContentInv' /\ SeenKept
<1>1. PICK j : j = k[p]
  OBVIOUS
<1>2. PICK at : at = IF vmm_is_page_present(j.as, j.pg) THEN j.last ELSE "absent"
  OBVIOUS
<1>3. /\ Runs(p) /\ j.at = "check" /\ j.at \in Stages /\ Goto(p, [j EXCEPT !.at = at])
      /\ UNCHANGED <<boot, pdir, base, table, mem, free, swap, ksw, halted>>
  BY <1>1, <1>2 DEF EnsurePresent, Stages
<1>4. /\ halted = "" /\ j \in Jobs /\ InStep(p, j) /\ PageInStep(j)
      /\ j.as \in Procs /\ j.pg[1] \in Tables /\ j.pg[2] \in Idx
  BY <1>1, <1>3, RunningSeen
<1>5. at \in {"return", "store", "absent"} /\ at \in Stages
  BY <1>2, <1>4 DEF Jobs, Stages
<1>6. PICK new : new = [j EXCEPT !.at = at]
  OBVIOUS
<1>7. /\ new \in Jobs /\ Goto(p, new) /\ new.at = at /\ new.as = j.as /\ new.pg = j.pg
      /\ new.spare = j.spare
  BY <1>3, <1>4, <1>5, <1>6 DEF Jobs
<1>8. j.spare = 0 /\ ~Copying(p)
  BY <1>1, <1>3, <1>4 DEF InStep, Copying
<1>9. PageInStep(new)
  <2>1. vmm_is_page_present(j.as, j.pg) <=> Maps(j.as, j.pg[1], j.pg[2])
    BY DEF vmm_is_page_present, Entry, Maps, Tab, None
  <2>2. at = "absent" => ~Maps(j.as, j.pg[1], j.pg[2])
    BY <1>2, <1>4, <2>1 DEF Jobs
  <2>3. at = "store" => Maps(j.as, j.pg[1], j.pg[2])
    BY <1>2, <2>1
  <2> QED  BY <1>5, <1>7, <2>2, <2>3 DEF PageInStep, Loading
<1>10. \A f \in Frames : Frozen(f) => f \notin free' /\ f # new.spare
  BY <1>3, <1>7, <1>8, FrameFacts DEF Frozen
<1> QED  BY <1>3, <1>4, <1>5, <1>7, <1>8, <1>9, <1>10, QuietGoto

LEMMA FindZoneSeen ==
    ASSUME HoldingInv, ContentInv, HoldingInv', NEW p \in Procs, FindZone(p)
    PROVE  ContentInv' /\ SeenKept
<1>1. PICK j : j = k[p]
  OBVIOUS
<1>2. PICK at \in {"fail", "page"} : at = IF Zone(j.as, j.pg) = "none" THEN "fail" ELSE "page"
  OBVIOUS
<1>3. /\ Runs(p) /\ j.at = "absent" /\ j.at \in Stages /\ Goto(p, [j EXCEPT !.at = at])
      /\ UNCHANGED <<boot, pdir, base, table, mem, free, swap, ksw, halted>>
  BY <1>1, <1>2 DEF FindZone, Stages
<1>4. halted = "" /\ j \in Jobs /\ InStep(p, j) /\ PageInStep(j)
  BY <1>1, <1>3, RunningSeen
<1>5. PICK new : new = [j EXCEPT !.at = at]
  OBVIOUS
<1>6. /\ new \in Jobs /\ Goto(p, new) /\ new.at = at /\ new.as = j.as /\ new.pg = j.pg
      /\ new.spare = j.spare
  <2>1. at \in Stages
    BY DEF Stages
  <2> QED  BY <1>3, <1>4, <1>5, <2>1 DEF Jobs
<1>7. j.spare = 0 /\ ~Copying(p)
  BY <1>1, <1>3, <1>4 DEF InStep, Copying
<1>8. PageInStep(new)
  BY <1>3, <1>4, <1>6 DEF PageInStep, Loading
<1>9. \A f \in Frames : Frozen(f) => f \notin free' /\ f # new.spare
  BY <1>3, <1>6, <1>7, FrameFacts DEF Frozen
<1> QED  BY <1>3, <1>4, <1>6, <1>7, <1>8, <1>9, QuietGoto

LEMMA StartSpaceSeen ==
    ASSUME HoldingInv, ContentInv, HoldingInv', NEW p \in Procs, NEW c \in Procs,
           NEW what \in {"fork", "exec"}, StartSpace(p, what, c)
    PROVE  ContentInv' /\ SeenKept
<1>1. PICK j : j = [Job(p, p, <<1, 1>>, "pdir", what, "return", Zero) EXCEPT !.idx = c]
  OBVIOUS
<1>2. /\ InUser(p) /\ Goto(p, j)
      /\ UNCHANGED <<boot, pdir, base, table, mem, free, swap, ksw, halted>>
  BY <1>1 DEF StartSpace
<1>3. halted = "" /\ ~Copying(p)
  BY <1>2, UserHasNoJob
<1>4. j \in Jobs /\ j.at = "pdir" /\ j.spare = 0
  <2>1. <<1, 1>> \in Pages
    BY VmmAssumption DEF Pages, Tables, Idx
  <2>2. 0 \in 0 .. NFrames /\ c \in Nat /\ Zero \in Values
    BY VmmAssumption, ProcFacts
  <2> QED  BY <1>1, <2>1, <2>2, EmptyIsTyped DEF Job, Jobs, Stages
<1>5. PageInStep(j)
  BY <1>4 DEF PageInStep, Loading
<1>6. \A f \in Frames : Frozen(f) => f \notin free' /\ f # j.spare
  BY <1>2, <1>4, FrameFacts DEF Frozen
<1> QED  BY <1>2, <1>3, <1>4, <1>5, <1>6, QuietGoto

LEMMA ReturnSeen ==
    ASSUME HoldingInv, ContentInv, HoldingInv', NEW p \in Procs, Return(p)
    PROVE  ContentInv' /\ SeenKept
<1>1. /\ Runs(p) /\ k[p].at = "return" /\ k[p].at \in Stages /\ Leave(p)
      /\ UNCHANGED <<boot, pdir, base, table, mem, free, swap, ksw, halted>>
  BY DEF Return, Stages
<1>2. halted = ""
  BY <1>1, RunningJob
<1>3. ~Copying(p)
  BY <1>1 DEF Copying
<1> QED  BY <1>1, <1>2, <1>3, QuietLeave

\* The free frame a job takes is no page that anybody still copies.
LEMMA TakesFree ==
    ASSUME NEW f \in free, free' = free \ {f}
    PROVE  \A g \in Frames : Frozen(g) => g \notin free' /\ g # f
BY DEF Frozen

LEMMA AllocPageNoTableSeen ==
    ASSUME HoldingInv, ContentInv, HoldingInv', NEW p \in Procs, AllocPage(p),
           Tab(k[p].as, k[p].pg[1]) = 0
    PROVE  ContentInv' /\ SeenKept
<1>1. PICK j : j = k[p]
  OBVIOUS
<1>2. Runs(p) /\ j.at = "page" /\ j.at \in Stages /\ free # {}
  BY <1>1 DEF AllocPage, Stages
<1>3. halted = "" /\ j \in Jobs /\ InStep(p, j) /\ PageInStep(j)
  BY <1>1, <1>2, RunningSeen
<1>4. PICK f : f = NextFrame
  OBVIOUS
<1>5. f \in free /\ f \in Frames /\ f \in 0 .. NFrames
  <2>1. f \in free /\ f \in Frames
    BY <1>2, <1>4, NextFrameFree DEF HoldingInv
  <2> QED  BY <2>1, FrameFacts DEF Frames
<1>6. PICK new : new = [j EXCEPT !.at = "ptab", !.spare = f]
  OBVIOUS
<1>7. new \in Jobs /\ new.at = "ptab" /\ new.spare = f /\ new.as = j.as /\ new.pg = j.pg
  BY <1>3, <1>5, <1>6 DEF Jobs, Stages
<1>8. /\ Goto(p, new) /\ free' = free \ {f}
      /\ UNCHANGED <<boot, pdir, base, table, mem, swap, ksw, halted>>
  BY <1>1, <1>4, <1>6 DEF AllocPage, Tab
<1>9. ~Copying(p)
  BY <1>1, <1>2 DEF Copying
<1>10. PageInStep(new)
  BY <1>2, <1>3, <1>7 DEF PageInStep, Loading
<1>11. \A g \in Frames : Frozen(g) => g \notin free' /\ g # new.spare
  BY <1>5, <1>7, <1>8, TakesFree
<1> QED  BY <1>3, <1>7, <1>8, <1>9, <1>10, <1>11, QuietGoto

\* Copy on write: after the last entry nothing is left to copy.
LEMMA ResolveDoneSeen ==
    ASSUME HoldingInv, ContentInv, HoldingInv', NEW p \in Procs, ResolveDone(p)
    PROVE  ContentInv' /\ SeenKept
<1>1. PICK j : j = k[p]
  OBVIOUS
<1>2. Runs(p) /\ j.at = "copy" /\ j.at \in Stages /\ j.idx > NIdx
  BY <1>1 DEF ResolveDone, Stages
<1>3. halted = "" /\ Busy(p) /\ j \in Jobs /\ InStep(p, j) /\ PageInStep(j) /\ Spare(p) = j.spare
  BY <1>1, <1>2, RunningSeen
<1>4. j.then \in {"absent", "return", "check"} /\ j.spare # 0
  BY <1>2, <1>3 DEF InStep
<1>5. PICK new : new = [j EXCEPT !.at = j.then, !.spare = 0, !.src = Empty, !.idx = 1]
  OBVIOUS
<1>6. /\ new \in Jobs /\ new.at = j.then /\ new.spare = 0 /\ new.as = j.as /\ new.pg = j.pg
  <2>1. j.then \in Stages /\ 0 \in 0 .. NFrames
    BY <1>4, FrameFacts DEF Stages
  <2> QED  BY <1>3, <1>5, <2>1, EmptyIsTyped DEF Jobs
<1>7. /\ Goto(p, new) /\ free' = free \cup {j.spare}
      /\ UNCHANGED <<boot, pdir, base, table, mem, swap, ksw, halted>>
  BY <1>1, <1>5 DEF ResolveDone
<1>8. k'[p] = new /\ \A q \in Procs \ {p} : k'[q] = k[q]
  BY <1>6, <1>7, GotoIsTyped DEF HoldingInv
<1>9. OthersStay(p) /\ ~Copying(p)' /\ Spare(p)' = 0
  BY <1>4, <1>6, <1>8 DEF OthersStay, Copying, Spare, Busy
<1>10. \A q, t : \A i \in Idx : ~Pending(p, q, t, i) /\ ~Pending(p, q, t, i)'
  <2>1. \A i \in Idx : ~(j.idx <= i)
    <3>1. j.idx \in Nat /\ NIdx \in Nat
      BY <1>3, JobIsFields, VmmAssumption
    <3> QED  BY <1>2, <3>1 DEF Idx
  <2> QED  BY <1>1, <1>9, <2>1 DEF Pending
<1>11. \A f \in Frames : Frozen(f) => f \notin free' /\ f # Spare(p)'
  BY <1>3, <1>7, <1>9, FrameFacts DEF Frozen
<1>12. PageInStep(k[p])'
  <2>1. PageInStep(new)
    BY <1>2, <1>3, <1>4, <1>6 DEF PageInStep, Loading
  <2> QED  BY <1>7, <1>8, <2>1 DEF PageInStep, Loading, Maps, Tab
<1> QED  BY <1>3, <1>7, <1>9, <1>10, <1>11, <1>12, JobOnly

-----------------------------------------------------------------------------
(* Stores.                                                                   *)

\* Page <<t0, i0>> of process a, and no other, holds v after the step.
StoresTo(a, t0, i0, v) ==
    /\ \A q \in Procs, t \in Tables, i \in Idx : ~(q = a /\ t = t0 /\ i = i0) =>
          Seen(q, <<t, i>>)' = Seen(q, <<t, i>>)
    /\ IsDev(t0, i0) => Seen(a, <<t0, i0>>)' = Seen(a, <<t0, i0>>) /\ mem'[DevFrame] = v
    /\ ~IsDev(t0, i0) => Seen(a, <<t0, i0>>)' = v /\ mem'[DevFrame] = mem[DevFrame]

\* A write to the frame of a page whose table is not shared.
LEMMA PageWritten ==
    ASSUME HoldingInv, ContentInv, HoldingInv', ContentInv',
           NEW a \in Procs, NEW t0 \in Tables, NEW i0 \in Idx, NEW v,
           Maps(a, t0, i0), ~IsDev(t0, i0) => ~pdir[a][t0].cow,
           \A r \in Procs : ~Pending(r, a, t0, i0),
           mem' = [mem EXCEPT ![Ref(a, t0, i0)] = v],
           \A q \in Procs, t \in Tables, i \in Idx : \A f :
              SeenBy(q, t, i, f)' <=> SeenBy(q, t, i, f)
    PROVE  StoresTo(a, t0, i0, v)
<1>1. PICK g : g = Ref(a, t0, i0)
  OBVIOUS
<1>2. mem \in [Frames \cup {DevFrame} -> Values]
  BY DEF HoldingInv, TypeOK
<1>3. CASE IsDev(t0, i0)
  <2>1. g = DevFrame
    BY <1>1, <1>3, PagesAreFrames
  <2>2. mem'[DevFrame] = v /\ \A f \in Frames : mem'[f] = mem[f]
    BY <1>1, <1>2, <2>1, FrameFacts
  <2>3. \A q \in Procs, t \in Tables, i \in Idx : Seen(q, <<t, i>>)' = Seen(q, <<t, i>>)
    BY <2>2, SameSeen
  <2> QED  BY <1>3, <2>2, <2>3 DEF StoresTo
<1>4. CASE ~IsDev(t0, i0)
  <2>1. g \in Frames /\ g # DevFrame
    BY <1>1, <1>4, PagesAreFrames, FrameFacts
  <2>2. mem'[g] = v /\ mem'[DevFrame] = mem[DevFrame] /\ \A f \in Frames \ {g} : mem'[f] = mem[f]
    BY <1>1, <1>2, <2>1
  <2>3. ASSUME NEW q \in Procs, NEW t \in Tables, NEW i \in Idx, ~(q = a /\ t = t0 /\ i = i0)
        PROVE  Seen(q, <<t, i>>)' = Seen(q, <<t, i>>)
    <3>1. ~IsDev(t, i) => ~SeenBy(q, t, i, g)
      BY <1>1, <1>4, <2>1, <2>3, SeenIsApart DEF SeenApart
    <3>2. ~IsDev(t, i) => \A f \in Frames : SeenBy(q, t, i, f) => mem'[f] = mem[f]
      BY <2>2, <3>1
    <3> QED  BY <3>2, SameSeen
  <2>4. SeenBy(a, t0, i0, g)
    BY <1>1 DEF SeenBy
  <2>5. Seen(a, <<t0, i0>>)' = v
    <3>1. SeenBy(a, t0, i0, g)'
      BY <2>4
    <3>2. ~IsDev(t0, i0)' /\ SeenMatches'
      BY <1>4, SeenValueNext DEF IsDev
    <3> QED  BY <2>1, <2>2, <3>1, <3>2 DEF SeenMatches
  <2> QED  BY <1>4, <2>2, <2>3, <2>5 DEF StoresTo
<1> QED  BY <1>3, <1>4

\* A store of a user program changes one page of that process, or the device.
LEMMA UserStoreSeen ==
    ASSUME HoldingInv, ContentInv, HoldingInv', NEW p \in Procs, NEW pg \in Pages,
           NEW v \in Values, UserStore(p, pg, v)
    PROVE  ContentInv' /\ StoresTo(p, pg[1], pg[2], v)
<1>1. /\ InUser(p) /\ vmm_is_page_present(p, pg) /\ Entry(p, pg).w
      /\ mem' = [mem EXCEPT ![Entry(p, pg).ref] = v]
      /\ UNCHANGED <<boot, pdir, base, table, free, swap, k, ksw, halted>>
  BY DEF UserStore
<1>2. PICK t0 \in Tables, i0 \in Idx : t0 = pg[1] /\ i0 = pg[2]
  BY DEF Pages
<1>3. Maps(p, t0, i0) /\ Entry(p, pg).ref = Ref(p, t0, i0) /\ table[Tab(p, t0)][i0].w
  BY <1>1, <1>2 DEF vmm_is_page_present, Entry, Maps, Ref, Tab, None
<1>4. ~pdir[p][t0].cow
  BY <1>3 DEF HoldingInv, ShareInv, MarkedReadOnly
<1>5. \A r \in Procs : ~Pending(r, p, t0, i0)
  <2>1. halted = "" /\ cpu \in {0, p} /\ ~Copying(p)
    BY <1>1, UserHasNoJob
  <2> QED  BY <2>1, NoOtherPending DEF Pending
<1>6. /\ ContentInv'
      /\ \A q \in Procs, t \in Tables, i \in Idx : \A f : SeenBy(q, t, i, f)' <=> SeenBy(q, t, i, f)
  BY <1>1, StandsStill
<1> QED  BY <1>1, <1>2, <1>3, <1>4, <1>5, <1>6, PageWritten

\* So does the copy of the kernel to user memory.
LEMMA CopyToUserSeen ==
    ASSUME HoldingInv, ContentInv, HoldingInv', NEW p \in Procs, CopyToUser(p)
    PROVE  /\ ContentInv' /\ StoresTo(k[p].as, k[p].pg[1], k[p].pg[2], k[p].val)
           /\ k[p].as \in live /\ k[p].pg \in Pages /\ k[p].val \in Values
<1>1. PICK j : j = k[p]
  OBVIOUS
<1>2. /\ Runs(p) /\ j.at = "store" /\ j.at \in Stages /\ Leave(p)
      /\ mem' = [mem EXCEPT ![Entry(j.as, j.pg).ref] = j.val]
      /\ UNCHANGED <<boot, pdir, base, table, free, swap, ksw, halted>>
  BY <1>1 DEF CopyToUser, Stages
<1>3. /\ halted = "" /\ cpu \in {0, p} /\ Busy(p) /\ j \in Jobs /\ InStep(p, j) /\ PageInStep(j)
  BY <1>1, <1>2, RunningSeen
<1>4. PICK a \in Procs, t0 \in Tables, i0 \in Idx : a = j.as /\ t0 = j.pg[1] /\ i0 = j.pg[2]
  BY <1>3, JobIsFields
<1>5. j.pg \in Pages /\ j.val \in Values /\ j.as \in live
  BY <1>1, <1>2, <1>3, RunningJob, JobIsFields
<1>6. Maps(a, t0, i0) /\ ~pdir[a][t0].cow
  BY <1>2, <1>3, <1>4 DEF PageInStep, InStep
<1>7. Entry(a, j.pg).ref = Ref(a, t0, i0)
  BY <1>4, <1>6 DEF Entry, Ref, Maps, Tab
<1>8. ~Copying(p) /\ Spare(p) = 0
  <2>1. j.spare = 0
    BY <1>2, <1>3 DEF InStep
  <2> QED  BY <1>1, <1>2, <2>1 DEF Copying, Spare
<1>9. \A r \in Procs : ~Pending(r, a, t0, i0)
  BY <1>1, <1>3, <1>4, <1>8, NoOtherPending DEF Pending
<1>10. k'[p] = Idle /\ \A q \in Procs \ {p} : k'[q] = k[q]
  BY <1>2, LeaveIsTyped DEF HoldingInv
<1>11. /\ OthersStay(p) /\ ~Copying(p)' /\ ~Busy(p)' /\ \A q \in Procs : Spare(q)' = Spare(q)
  BY <1>8, <1>10 DEF OthersStay, Copying, Busy, Spare
<1>12. ContentInv'
  <2>1. \A f \in Frames : Frozen(f) => Frozen(f)'
    BY <1>2, <1>11, FrozenKept DEF Frozen
  <2>2. \A q \in Procs \ {p}, t \in Tables, i \in Idx :
          Busy(q) => (Maps(k[q].as, t, i)' <=> Maps(k[q].as, t, i))
    BY <1>2, <1>10 DEF Maps, Tab
  <2> QED  BY <1>2, <1>3, <1>11, <2>1, <2>2, ContentKept
<1>13. ASSUME NEW q \in Procs, NEW t \in Tables, NEW i \in Idx, NEW f
       PROVE  SeenBy(q, t, i, f)' <=> SeenBy(q, t, i, f)
  <2>1. \A r \in Procs : /\ Pending(r, q, t, i)' <=> Pending(r, q, t, i)
                         /\ Pending(r, q, t, i) => k'[r].src[i] = k[r].src[i]
    BY <1>8, <1>10, <1>11 DEF Pending, Copying, Busy
  <2>2. (Maps(q, t, i)' <=> Maps(q, t, i)) /\ Ref(q, t, i)' = Ref(q, t, i)
    BY <1>2 DEF Maps, Ref, Tab
  <2> QED  BY <2>1, <2>2 DEF SeenBy
<1>14. StoresTo(a, t0, i0, j.val)
  BY <1>2, <1>4, <1>6, <1>7, <1>9, <1>12, <1>13, PageWritten
<1> QED  BY <1>1, <1>4, <1>5, <1>12, <1>14

-----------------------------------------------------------------------------
(* Copy on write.                                                            *)

\* A page that the job of p does not copy is seen in the same frame as before.
LEMMA SeenElsewhere ==
    ASSUME NEW p \in Procs, OthersStay(p), NEW q \in Procs, NEW t \in Tables, NEW i \in Idx,
           ~Pending(p, q, t, i), ~Pending(p, q, t, i)',
           Maps(q, t, i)' <=> Maps(q, t, i), Maps(q, t, i) => Ref(q, t, i)' = Ref(q, t, i)
    PROVE  \A f : SeenBy(q, t, i, f)' <=> SeenBy(q, t, i, f)
<1>1. \A r \in Procs : /\ Pending(r, q, t, i)' <=> Pending(r, q, t, i)
                       /\ Pending(r, q, t, i) => k'[r].src[i] = k[r].src[i]
  BY DEF OthersStay, Pending, Copying, Busy
<1> QED  BY <1>1 DEF SeenBy

\* A page that the job of p has still to copy, before and after.
LEMMA StillToCopy ==
    ASSUME JobsApart, JobsApart', NEW p \in Procs, NEW q \in Procs, NEW t \in Tables, NEW i \in Idx,
           Pending(p, q, t, i), Pending(p, q, t, i)', k'[p].src[i] = k[p].src[i]
    PROVE  \A f : SeenBy(q, t, i, f)' <=> SeenBy(q, t, i, f)
<1>1. \A r \in Procs : (Pending(r, q, t, i) => r = p) /\ (Pending(r, q, t, i)' => r = p)
  BY DEF JobsApart, Pending, Copying
<1> QED  BY <1>1 DEF SeenBy

\* The table is taken out of the directory, and its pages are seen in the copy.
LEMMA ResolveSourceSeen ==
    ASSUME HoldingInv, ContentInv, HoldingInv', NEW p \in Procs, ResolveSource(p)
    PROVE  ContentInv' /\ SeenKept
<1>1. PICK j : j = k[p]
  OBVIOUS
<1>2. Runs(p) /\ j.at = "src" /\ j.at \in Stages /\ free # {}
  BY <1>1 DEF ResolveSource, Stages
<1>3. /\ halted = "" /\ cpu \in {0, p} /\ Busy(p) /\ j \in Jobs /\ InStep(p, j) /\ PageInStep(j)
  BY <1>1, <1>2, RunningSeen
<1>4. PICK a \in Procs, t0 \in Tables, i0 \in Idx : a = j.as /\ t0 = j.pg[1] /\ i0 = j.pg[2]
  BY <1>3, JobIsFields
<1>5. PICK f : f = NextFrame
  OBVIOUS
<1>6. f \in free /\ f \in Frames
  BY <1>2, <1>5, NextFrameFree DEF HoldingInv
<1>7. PICK src : src = table[Tab(a, t0)]
  OBVIOUS
<1>8. pdir[a][t0].cow /\ Tab(a, t0) # 0 /\ Tab(a, t0) \in Frames /\ j.idx = 1
  <2>1. pdir[a][t0].cow /\ j.idx = 1
    BY <1>2, <1>3, <1>4 DEF InStep
  <2> QED  BY <2>1, FramesAreTyped DEF HoldingInv, ShareInv, MarkedReadOnly
<1>9. src \in [Idx -> Entries]
  BY <1>7, <1>8, FramesAreTyped
<1>10. PICK new : new = [j EXCEPT !.at = "tab", !.spare = f, !.src = src]
  OBVIOUS
<1>11. /\ new \in Jobs /\ new.at = "tab" /\ new.spare = f /\ new.src = src /\ new.as = a
       /\ new.pg = j.pg /\ new.idx = 1 /\ new.then = j.then
  <2>1. f \in 0 .. NFrames
    BY <1>6, FrameFacts DEF Frames
  <2> QED  BY <1>3, <1>4, <1>8, <1>9, <1>10, <2>1 DEF Jobs, Stages
<1>12. /\ Goto(p, new) /\ pdir' = [pdir EXCEPT ![a][t0] = NoTable] /\ free' = free \ {f}
       /\ UNCHANGED <<boot, base, table, mem, swap, ksw, halted>>
  BY <1>1, <1>4, <1>5, <1>7, <1>10 DEF ResolveSource, Tab
<1>13. k'[p] = new /\ \A q \in Procs \ {p} : k'[q] = k[q]
  BY <1>11, <1>12, GotoIsTyped DEF HoldingInv
<1>14. /\ Tab(a, t0)' = 0
       /\ \A q \in Procs, t \in Tables : ~(q = a /\ t = t0) =>
             pdir'[q][t] = pdir[q][t] /\ Tab(q, t)' = Tab(q, t)
  <2>1. pdir \in [Procs -> [Tables -> [tab : 0 .. NFrames, cow : BOOLEAN]]]
    BY DEF HoldingInv, TypeOK
  <2>2. pdir'[a][t0] = NoTable /\ \A q \in Procs, t \in Tables : ~(q = a /\ t = t0) =>
          pdir'[q][t] = pdir[q][t]
    BY <1>12, <2>1
  <2> QED  BY <2>2 DEF Tab, NoTable
<1>15. /\ \A i \in Idx : ~Maps(a, t0, i)'
       /\ \A q \in Procs, t \in Tables, i \in Idx : ~(q = a /\ t = t0) =>
            (Maps(q, t, i)' <=> Maps(q, t, i)) /\ Ref(q, t, i)' = Ref(q, t, i)
  BY <1>12, <1>14 DEF Maps, Ref
<1>16. OthersStay(p) /\ Busy(p)' /\ Spare(p)' = f /\ \A q \in Procs \ {p} : Spare(q)' = Spare(q)
  BY <1>11, <1>13, JobsAreBusy DEF OthersStay, Busy, Spare
<1>17. ASSUME NEW g \in Frames, Frozen(g)
       PROVE  Frozen(g)'
  <2>1. g \notin free' /\ \A q \in Procs : g \notin base'[q] /\ g # Spare(q)'
    BY <1>6, <1>12, <1>16, <1>17 DEF Frozen
  <2>2. \A q \in Procs, t \in Tables : g # Tab(q, t)'
    BY <1>14, <1>17, FrameFacts DEF Frozen
  <2>3. \A q \in Procs, t \in Tables, x \in Idx :
          Maps(q, t, x)' /\ Ref(q, t, x)' = g => pdir'[q][t].cow
    BY <1>14, <1>15, <1>17 DEF Frozen
  <2> QED  BY <2>1, <2>2, <2>3 DEF Frozen
<1>18. \A i \in Idx : /\ src[i].st = "present" <=> Maps(a, t0, i)
                      /\ src[i].ref = Ref(a, t0, i)
  BY <1>7, <1>8 DEF Maps, Ref
<1>19. ASSUME NEW i \in Idx, Maps(a, t0, i), ~IsDev(t0, i)
       PROVE  Frozen(Ref(a, t0, i))
  <2>1. PICK g \in Frames : g = Ref(a, t0, i)
    BY <1>19, PagesAreFrames
  <2>2. ASSUME NEW q \in Procs, NEW t \in Tables, NEW x \in Idx, Maps(q, t, x), Ref(q, t, x) = g
        PROVE  pdir[q][t].cow
    <3>1. Tab(q, t) = Tab(a, t0) /\ Tab(q, t) # 0
      BY <1>19, <2>1, <2>2, FrameFacts DEF HoldingInv, ShareInv, OneEntryPerPage, Maps
    <3> QED  BY <1>8, <3>1 DEF HoldingInv, ShareInv, SharedMarked
  <2> QED  BY <1>19, <2>1, <2>2 DEF Frozen, HoldingInv, RoleInv, PagesApart
<1>20. ContentInv'
  <2>1. ASSUME NEW i \in Idx, NEW g \in Frames, k'[p].src[i].st = "present",
               ~IsDev(k'[p].pg[1], i), g = k'[p].src[i].ref
        PROVE  Frozen(g)
    BY <1>4, <1>11, <1>13, <1>18, <1>19, <2>1
  <2>2. ASSUME NEW q \in Procs \ {p}, NEW t \in Tables, NEW i \in Idx, Busy(q)
        PROVE  Maps(k[q].as, t, i)' <=> Maps(k[q].as, t, i)
    <3>1. PICK b : b = k[q].as
      OBVIOUS
    <3>2. b \in Procs /\ b # a /\ k'[q].as = b
      <4>1. b # a /\ k'[q].as = b
        BY <1>1, <1>3, <1>4, <1>13, <2>2, <3>1 DEF ContentInv, JobsApart
      <4> QED  BY <2>2, <3>1, <4>1, JobIsTyped, JobIsFields DEF HoldingInv
    <3>3. Maps(b, t, i)' <=> Maps(b, t, i)
      BY <1>15, <3>2
    <3> QED  BY <3>1, <3>2, <3>3
  <2>3. PageInStep(k[p])'
    <3>1. ~Maps(a, t0, i0)'
      BY <1>15
    <3>2. j.then = "absent" => src[i0].st # "present"
      BY <1>2, <1>3, <1>4, <1>18 DEF PageInStep, Loading
    <3>3. PageInStep(new)'
      BY <1>4, <1>11, <3>1, <3>2 DEF PageInStep, Loading
    <3> QED  BY <1>13, <3>3
  <2> QED  BY <1>3, <1>12, <1>16, <1>17, <2>1, <2>2, <2>3, ContentKept
<1>21. ASSUME NEW q \in Procs, NEW t \in Tables, NEW i \in Idx
       PROVE  \A g : SeenBy(q, t, i, g)' <=> SeenBy(q, t, i, g)
  <2>1. ~Pending(p, q, t, i)
    BY <1>1, <1>2 DEF Pending, Copying
  <2>2. CASE q = a /\ t = t0
    <3>1. Pending(p, q, t, i)' /\ \A r \in Procs \ {p} : ~Pending(r, q, t, i)'
      <4>1. Pending(p, q, t, i)'
        BY <1>4, <1>11, <1>13, <1>16, <2>2 DEF Pending, Copying, Idx
      <4> QED  BY <1>20, <4>1 DEF ContentInv, JobsApart, Pending, Copying
    <3>2. \A r \in Procs : ~Pending(r, q, t, i)
      BY <1>1, <1>3, <1>4, <2>1, <2>2, NoOtherPending
    <3>3. k'[p].src[i] = src[i]
      BY <1>11, <1>13
    <3> QED  BY <1>18, <2>2, <3>1, <3>2, <3>3 DEF SeenBy
  <2>3. CASE ~(q = a /\ t = t0)
    <3>1. ~Pending(p, q, t, i)'
      BY <1>4, <1>11, <1>13, <2>3 DEF Pending
    <3> QED  BY <1>15, <1>16, <2>1, <2>3, <3>1, SeenElsewhere
  <2> QED  BY <2>2, <2>3
<1>22. SeenKept
  BY <1>12, <1>20, <1>21, SameSeen DEF SeenKept
<1> QED  BY <1>20, <1>22

\* The jobs of the others are on other spaces than the job of p.
LEMMA OtherSpaces ==
    ASSUME HoldingInv, ContentInv, NEW p \in Procs, Busy(p), OthersStay(p),
           NEW a \in Procs, a = k[p].as,
           \A q \in Procs \ {a}, t \in Tables, i \in Idx : Maps(q, t, i)' <=> Maps(q, t, i)
    PROVE  \A q \in Procs \ {p}, t \in Tables, i \in Idx :
              Busy(q) => (Maps(k[q].as, t, i)' <=> Maps(k[q].as, t, i))
<1> SUFFICES ASSUME NEW q \in Procs \ {p}, NEW t \in Tables, NEW i \in Idx, Busy(q)
             PROVE  Maps(k[q].as, t, i)' <=> Maps(k[q].as, t, i)
  OBVIOUS
<1>1. PICK b : b = k[q].as
  OBVIOUS
<1>2. b # a /\ k'[q].as = b
  BY <1>1 DEF OthersStay, ContentInv, JobsApart
<1>3. b \in Procs
  BY <1>1, JobIsTyped, JobIsFields DEF HoldingInv
<1>4. Maps(b, t, i)' <=> Maps(b, t, i)
  BY <1>2, <1>3
<1> QED  BY <1>1, <1>2, <1>4

\* The new table is empty: everything is still seen in the old one.
LEMMA ResolveTableSeen ==
    ASSUME HoldingInv, ContentInv, HoldingInv', NEW p \in Procs, ResolveTable(p)
    PROVE  ContentInv' /\ SeenKept
<1>1. PICK j : j = k[p]
  OBVIOUS
<1>2. Runs(p) /\ j.at = "tab" /\ j.at \in Stages /\ free # {}
  BY <1>1 DEF ResolveTable, Stages
<1>3. /\ halted = "" /\ cpu \in {0, p} /\ Busy(p) /\ j \in Jobs /\ InStep(p, j) /\ PageInStep(j)
  BY <1>1, <1>2, RunningSeen
<1>4. PICK a \in Procs, t0 \in Tables, i0 \in Idx : a = j.as /\ t0 = j.pg[1] /\ i0 = j.pg[2]
  BY <1>3, JobIsFields
<1>5. PICK f : f = NextFrame
  OBVIOUS
<1>6. f \in free /\ f \in Frames /\ f # 0
  BY <1>2, <1>5, NextFrameFree, FrameFacts DEF HoldingInv
<1>7. j.idx = 1 /\ Tab(a, t0) = 0
  <2>1. j.idx = 1 /\ pdir[a][t0] = NoTable
    BY <1>2, <1>3, <1>4 DEF InStep
  <2> QED  BY <2>1 DEF Tab, NoTable
<1>8. PICK new : new = [j EXCEPT !.at = "copy"]
  OBVIOUS
<1>9. /\ new \in Jobs /\ new.at = "copy" /\ new.spare = j.spare /\ new.src = j.src
      /\ new.as = a /\ new.pg = j.pg /\ new.idx = 1 /\ new.then = j.then
  BY <1>3, <1>4, <1>7, <1>8 DEF Jobs, Stages
<1>10. /\ Goto(p, new) /\ pdir' = [pdir EXCEPT ![a][t0] = [tab |-> f, cow |-> FALSE]]
       /\ free' = free \ {f} /\ table' = [table EXCEPT ![f] = Empty]
       /\ UNCHANGED <<boot, base, mem, swap, ksw, halted>>
  BY <1>1, <1>4, <1>5, <1>8 DEF ResolveTable
<1>11. k'[p] = new /\ \A q \in Procs \ {p} : k'[q] = k[q]
  BY <1>9, <1>10, GotoIsTyped DEF HoldingInv
<1>12. /\ pdir' \in [Procs -> [Tables -> [tab : 0 .. NFrames, cow : BOOLEAN]]]
       /\ pdir'[a][t0].tab = f /\ ~pdir'[a][t0].cow /\ Tab(a, t0)' = f
       /\ \A q \in Procs, t \in Tables : ~(q = a /\ t = t0) =>
             pdir'[q][t] = pdir[q][t] /\ Tab(q, t)' = Tab(q, t)
       /\ \A q \in Procs \ {a}, t \in Tables : pdir'[q][t] = pdir[q][t]
  BY <1>6, <1>10, DirectoryExtended
<1>13. /\ \A i \in Idx : table'[f][i] = None
       /\ \A g \in Frames \ {f} : table'[g] = table[g]
  <2>1. table \in [Frames -> [Idx -> Entries]]
    BY DEF HoldingInv, TypeOK
  <2> QED  BY <1>6, <1>10, <2>1 DEF Empty
<1>14. /\ \A i \in Idx : ~Maps(a, t0, i)' /\ ~Maps(a, t0, i)
       /\ \A q \in Procs, t \in Tables, i \in Idx : ~(q = a /\ t = t0) =>
            (Maps(q, t, i)' <=> Maps(q, t, i)) /\ (Maps(q, t, i) => Ref(q, t, i)' = Ref(q, t, i))
  <2>1. \A i \in Idx : ~Maps(a, t0, i)' /\ ~Maps(a, t0, i)
    BY <1>7, <1>12, <1>13 DEF Maps, None
  <2>2. ASSUME NEW q \in Procs, NEW t \in Tables, NEW i \in Idx, ~(q = a /\ t = t0)
        PROVE  /\ Maps(q, t, i)' <=> Maps(q, t, i)
               /\ Maps(q, t, i) => Ref(q, t, i)' = Ref(q, t, i)
    <3>1. Tab(q, t)' = Tab(q, t) /\ Tab(q, t) # f
      BY <1>6, <1>12, <2>2 DEF HoldingInv, RoleInv, TablesApart
    <3>2. Tab(q, t) # 0 => table'[Tab(q, t)] = table[Tab(q, t)]
      BY <1>13, <3>1, FramesAreTyped
    <3> QED  BY <3>1, <3>2 DEF Maps, Ref
  <2> QED  BY <2>1, <2>2
<1>15. OthersStay(p) /\ Busy(p)' /\ \A q \in Procs : Spare(q)' = Spare(q)
  BY <1>1, <1>3, <1>9, <1>11, JobsAreBusy DEF OthersStay, Busy, Spare
<1>16. ASSUME NEW g \in Frames, Frozen(g)
       PROVE  Frozen(g)'
  <2>1. g \notin free' /\ \A q \in Procs : g \notin base'[q] /\ g # Spare(q)'
    BY <1>10, <1>15, <1>16 DEF Frozen
  <2>2. \A q \in Procs, t \in Tables : g # Tab(q, t)'
    BY <1>6, <1>12, <1>16 DEF Frozen
  <2>3. \A q \in Procs, t \in Tables, x \in Idx :
          Maps(q, t, x)' /\ Ref(q, t, x)' = g => pdir'[q][t].cow
    BY <1>12, <1>14, <1>16 DEF Frozen
  <2> QED  BY <2>1, <2>2, <2>3 DEF Frozen
<1>17. ContentInv'
  <2>1. ASSUME NEW i \in Idx, NEW g \in Frames, k'[p].idx <= i, k'[p].src[i].st = "present",
               ~IsDev(k'[p].pg[1], i), g = k'[p].src[i].ref
        PROVE  Frozen(g)
    <3>1. /\ Copying(p) /\ j.idx <= i /\ j.src[i].st = "present"
          /\ ~IsDev(j.pg[1], i) /\ g = j.src[i].ref
      BY <1>1, <1>2, <1>3, <1>7, <1>9, <1>11, <2>1 DEF Copying
    <3> QED  BY <1>1, <3>1 DEF ContentInv, SourceFrozen
  <2>2. \A q \in Procs \ {p}, t \in Tables, i \in Idx :
          Busy(q) => (Maps(k[q].as, t, i)' <=> Maps(k[q].as, t, i))
    <3>1. a = k[p].as /\ Busy(p) /\ OthersStay(p)
      BY <1>1, <1>3, <1>4, <1>15
    <3>2. \A q \in Procs \ {a}, t \in Tables, i \in Idx : Maps(q, t, i)' <=> Maps(q, t, i)
      BY <1>14
    <3> QED  BY <3>1, <3>2, OtherSpaces
  <2>3. PageInStep(k[p])'
    <3>1. ~Maps(a, t0, i0)'
      BY <1>14
    <3>2. j.then = "absent" => j.src[i0].st # "present"
      BY <1>2, <1>3, <1>4 DEF PageInStep
    <3>3. PageInStep(new)'
      BY <1>4, <1>9, <3>1, <3>2 DEF PageInStep, Loading
    <3> QED  BY <1>11, <3>3
  <2> QED  BY <1>3, <1>10, <1>15, <1>16, <2>1, <2>2, <2>3, ContentKept
<1>18. ASSUME NEW q \in Procs, NEW t \in Tables, NEW i \in Idx
       PROVE  \A g : SeenBy(q, t, i, g)' <=> SeenBy(q, t, i, g)
  <2>1. CASE q = a /\ t = t0
    <3>1. Copying(p) /\ Copying(p)'
      BY <1>1, <1>2, <1>3, <1>9, <1>11, <1>15 DEF Copying
    <3>2. 1 <= i /\ k[p].idx = 1 /\ k'[p].idx = 1
      BY <1>1, <1>7, <1>9, <1>11 DEF Idx
    <3>3. Pending(p, q, t, i) /\ Pending(p, q, t, i)'
      BY <1>1, <1>4, <1>9, <1>11, <2>1, <3>1, <3>2 DEF Pending
    <3>4. k'[p].src[i] = k[p].src[i]
      BY <1>1, <1>9, <1>11
    <3> QED  BY <1>17, <3>3, <3>4, StillToCopy DEF ContentInv
  <2>2. CASE ~(q = a /\ t = t0)
    <3>1. ~Pending(p, q, t, i) /\ ~Pending(p, q, t, i)'
      BY <1>1, <1>4, <1>9, <1>11, <2>2 DEF Pending
    <3> QED  BY <1>14, <1>15, <2>2, <3>1, SeenElsewhere
  <2> QED  BY <2>1, <2>2
<1>19. SeenKept
  BY <1>10, <1>17, <1>18, SameSeen DEF SeenKept
<1> QED  BY <1>17, <1>19

\* The job of p fills the next entry of the new table: what every page but
\* that one is seen in stays.
LEMMA EntryCopiedSeen ==
    ASSUME HoldingInv, ContentInv, HoldingInv', NEW p \in Procs, NEW j, j = k[p],
           Runs(p), j.at = "copy", j.idx <= NIdx,
           NEW a \in Procs, a = j.as, NEW t0 \in Tables, t0 = j.pg[1],
           NEW i0 \in Idx, i0 = j.idx, NEW e \in Entries,
           Goto(p, [j EXCEPT !.idx = @ + 1]),
           SetsEntry(Tab(a, t0), i0, e),
           free' \in SUBSET free,
           UNCHANGED <<boot, pdir, base, swap, ksw, halted>>,
           e.st = j.src[i0].st,
           e.st = "present" =>
              IF IsDev(t0, i0) THEN e.ref = DevFrame ELSE e.ref \in free
    PROVE  /\ ContentInv'
           /\ \A r \in Procs : ~Pending(r, a, t0, i0)'
           /\ Pending(p, a, t0, i0)
           /\ Maps(a, t0, i0)' <=> e.st = "present"
           /\ Ref(a, t0, i0)' = e.ref
           /\ \A q \in Procs, t \in Tables, i \in Idx : ~(q = a /\ t = t0 /\ i = i0) =>
                 \A g : SeenBy(q, t, i, g)' <=> SeenBy(q, t, i, g)
<1>1. /\ halted = "" /\ cpu \in {0, p} /\ Busy(p) /\ j \in Jobs /\ InStep(p, j) /\ PageInStep(j)
  <2>1. j.at \in Stages
    BY DEF Stages
  <2> QED  BY <2>1, RunningSeen
<1>2. Tab(a, t0) # 0 /\ ~pdir[a][t0].cow /\ j.idx \in Nat
  BY <1>1, JobIsFields DEF InStep, Tab
<1>3. PICK new : new = [j EXCEPT !.idx = @ + 1]
  OBVIOUS
<1>4. /\ new \in Jobs /\ new.at = "copy" /\ new.spare = j.spare /\ new.src = j.src
      /\ new.as = a /\ new.pg = j.pg /\ new.idx = i0 + 1 /\ new.then = j.then
      /\ Goto(p, new)
  <2>1. Goto(p, new)
    BY <1>3
  <2>2. /\ new \in Jobs /\ new.at = j.at /\ new.spare = j.spare /\ new.src = j.src
        /\ new.as = j.as /\ new.pg = j.pg /\ new.idx = j.idx + 1 /\ new.then = j.then
    BY <1>1, <1>3, NextIndex, Zenon
  <2> QED  BY <2>1, <2>2
<1>5. k'[p] = new /\ \A q \in Procs \ {p} : k'[q] = k[q]
  BY <1>4, GotoIsTyped DEF HoldingInv
<1>6. /\ Maps(a, t0, i0)' <=> e.st = "present"
      /\ Ref(a, t0, i0)' = e.ref
      /\ \A q \in Procs, t \in Tables, i \in Idx : ~(q = a /\ t = t0 /\ i = i0) =>
           (Maps(q, t, i)' <=> Maps(q, t, i)) /\ (Maps(q, t, i) => Ref(q, t, i)' = Ref(q, t, i))
  BY <1>2, EntryEffect
<1>7. OthersStay(p) /\ Busy(p)' /\ \A q \in Procs : Spare(q)' = Spare(q)
  BY <1>1, <1>4, <1>5, JobsAreBusy DEF OthersStay, Busy, Spare
<1>8. \A i \in Idx : i0 + 1 <= i <=> i0 <= i /\ i # i0
  BY DEF Idx
<1>9. ASSUME NEW g \in Frames, Frozen(g)
      PROVE  Frozen(g)'
  <2>1. g \notin free' /\ \A q \in Procs : g \notin base'[q] /\ g # Spare(q)'
    BY <1>7, <1>9 DEF Frozen
  <2>2. \A q \in Procs, t \in Tables : g # Tab(q, t)'
    BY <1>9 DEF Frozen, Tab
  <2>3. e.st = "present" => e.ref # g
    BY <1>9, FrameFacts DEF Frozen
  <2>4. ASSUME NEW q \in Procs, NEW t \in Tables, NEW x \in Idx, Maps(q, t, x)', Ref(q, t, x)' = g
        PROVE  pdir'[q][t].cow
    <3>1. ~(q = a /\ t = t0 /\ x = i0)
      BY <1>6, <2>3, <2>4
    <3> QED  BY <1>6, <1>9, <2>4, <3>1 DEF Frozen
  <2> QED  BY <2>1, <2>2, <2>4 DEF Frozen
<1>10. ContentInv'
  <2>1. ASSUME NEW i \in Idx, NEW g \in Frames, k'[p].idx <= i, k'[p].src[i].st = "present",
               ~IsDev(k'[p].pg[1], i), g = k'[p].src[i].ref
        PROVE  Frozen(g)
    <3>1. /\ Copying(p) /\ j.idx <= i /\ j.src[i].st = "present"
          /\ ~IsDev(j.pg[1], i) /\ g = j.src[i].ref
      BY <1>1, <1>4, <1>5, <1>8, <2>1 DEF Copying
    <3> QED  BY <3>1 DEF ContentInv, SourceFrozen
  <2>2. \A q \in Procs \ {p}, t \in Tables, i \in Idx :
          Busy(q) => (Maps(k[q].as, t, i)' <=> Maps(k[q].as, t, i))
    BY <1>1, <1>6, <1>7, OtherSpaces
  <2>3. PageInStep(k[p])'
    <3>1. PICK i1 \in Idx : i1 = j.pg[2]
      BY <1>1, JobIsFields
    <3>2. ASSUME j.then = "absent"
          PROVE  ~Maps(a, t0, i1)' /\ j.src[i1].st # "present"
      <4>1. ~Maps(a, t0, i1) /\ j.src[i1].st # "present"
        BY <1>1, <3>1, <3>2 DEF PageInStep, Loading
      <4> QED  BY <1>6, <4>1
    <3>3. PageInStep(new)'
      BY <1>4, <3>1, <3>2 DEF PageInStep, Loading
    <3> QED  BY <1>5, <3>3
  <2>4. halted' = "" /\ ksw'.awake = ksw.awake
    BY <1>1
  <2> QED  BY <1>7, <1>9, <2>1, <2>2, <2>3, <2>4, ContentKept
<1>11. Pending(p, a, t0, i0) /\ ~Pending(p, a, t0, i0)'
  <2>1. i0 <= i0 /\ ~(i0 + 1 <= i0)
    BY <1>2
  <2>2. Copying(p) /\ k'[p].idx = i0 + 1
    BY <1>1, <1>4, <1>5 DEF Copying
  <2> QED  BY <2>1, <2>2 DEF Pending
<1>12. \A r \in Procs : ~Pending(r, a, t0, i0)'
  <2>1. \A r \in Procs : Pending(r, a, t0, i0)' => r = p
    BY <1>4, <1>5, <1>7, <1>10 DEF ContentInv, JobsApart, Pending, Copying
  <2> QED  BY <1>11, <2>1
<1>13. ASSUME NEW q \in Procs, NEW t \in Tables, NEW i \in Idx, ~(q = a /\ t = t0 /\ i = i0)
       PROVE  \A g : SeenBy(q, t, i, g)' <=> SeenBy(q, t, i, g)
  <2>1. Pending(p, q, t, i)' <=> Pending(p, q, t, i)
    BY <1>1, <1>4, <1>5, <1>7, <1>8, <1>13 DEF Pending, Copying
  <2>2. CASE Pending(p, q, t, i)
    <3>1. k'[p].src[i] = k[p].src[i]
      BY <1>4, <1>5
    <3> QED  BY <1>10, <2>1, <2>2, <3>1, StillToCopy DEF ContentInv
  <2>3. CASE ~Pending(p, q, t, i)
    BY <1>6, <1>7, <1>13, <2>1, <2>3, SeenElsewhere
  <2> QED  BY <2>2, <2>3
<1> QED  BY <1>6, <1>10, <1>11, <1>12, <1>13

\* The step fills frame g with v; g is free or held by a job; every page but
\* <<t0, i0>> of process a is seen in the same frame as before.
Fills(g, v) == mem' = [mem EXCEPT ![g] = v]
Unused(g)   == g \in free \/ \E r \in Procs : g = Spare(r)
SeenOnlyHere(a, t0, i0) ==
    \A q \in Procs, t \in Tables, i \in Idx : ~(q = a /\ t = t0 /\ i = i0) =>
        \A f : SeenBy(q, t, i, f)' <=> SeenBy(q, t, i, f)

\* A page is seen in frame g after the step, which nobody had, with the
\* content it had before.
LEMMA PageMoved ==
    ASSUME HoldingInv, ContentInv, HoldingInv', ContentInv',
           NEW a \in Procs, NEW t0 \in Tables, NEW i0 \in Idx, ~IsDev(t0, i0),
           NEW g \in Frames, Unused(g), NEW v, Fills(g, v),
           SeenBy(a, t0, i0, g)', Seen(a, <<t0, i0>>) = v, SeenOnlyHere(a, t0, i0)
    PROVE  SeenKept /\ mem'[DevFrame] = mem[DevFrame]
<1>1. /\ mem'[g] = v /\ mem'[DevFrame] = mem[DevFrame]
      /\ \A f \in Frames \ {g} : mem'[f] = mem[f]
  <2>1. mem \in [Frames \cup {DevFrame} -> Values]
    BY DEF HoldingInv, TypeOK
  <2> QED  BY <2>1, FrameFacts DEF Fills
<1>2. ASSUME NEW q \in Procs, NEW t \in Tables, NEW i \in Idx
      PROVE  Seen(q, <<t, i>>)' = Seen(q, <<t, i>>)
  <2>1. CASE q = a /\ t = t0 /\ i = i0
    <3>1. ~IsDev(t0, i0)' /\ SeenMatches'
      BY SeenValueNext DEF IsDev
    <3> QED  BY <1>1, <2>1, <3>1 DEF SeenMatches
  <2>2. CASE ~(q = a /\ t = t0 /\ i = i0)
    <3>1. ~IsDev(t, i) => ~SeenBy(q, t, i, g)
      BY SeenIsApart DEF SeenApart, Unused
    <3>2. ~IsDev(t, i) => \A f \in Frames : SeenBy(q, t, i, f) => mem'[f] = mem[f]
      BY <1>1, <3>1
    <3> QED  BY <2>2, <3>2, SameSeen DEF SeenOnlyHere
  <2> QED  BY <2>1, <2>2
<1> QED  BY <1>1, <1>2 DEF SeenKept

\* The copy of a page holds what the page did.
LEMMA ResolvePageSeen ==
    ASSUME HoldingInv, ContentInv, HoldingInv', NEW p \in Procs, ResolvePage(p)
    PROVE  ContentInv' /\ SeenKept /\ mem'[DevFrame] = mem[DevFrame]
<1>1. PICK j : j = k[p]
  OBVIOUS
<1>2. /\ Runs(p) /\ j.at = "copy" /\ j.at \in Stages /\ free # {} /\ j.idx <= NIdx
      /\ j.src[j.idx].st = "present" /\ ~IsDev(j.pg[1], j.idx)
  BY <1>1 DEF ResolvePage, CopiesPage, Stages, IsDev
<1>3. j \in Jobs /\ InStep(p, j) /\ SourceHasDevice(j)
  BY <1>1, <1>2, RunningJob
<1>4. PICK a \in Procs, t0 \in Tables, i0 \in Idx : a = j.as /\ t0 = j.pg[1] /\ i0 = j.idx
  <2>1. j.idx \in Idx
    BY <1>2, <1>3, VmmAssumption DEF InStep, Idx
  <2> QED  BY <1>3, <2>1, JobIsFields
<1>5. PICK f : f = NextFrame
  OBVIOUS
<1>6. f \in free /\ f \in Frames /\ f \in Nat
  BY <1>2, <1>5, NextFrameFree, FrameFacts DEF HoldingInv
<1>7. PICK w : w = ZoneWrites(<<j.pg[1], j.idx>>)
  OBVIOUS
<1>8. PICK e : e = [j.src[j.idx] EXCEPT !.ref = f, !.w = w]
  OBVIOUS
<1>9. e \in Entries /\ e.st = "present" /\ e.ref = f
  <2>1. j.src[j.idx] \in Entries
    BY <1>3, <1>4, JobIsFields
  <2>2. w \in BOOLEAN
    BY <1>7 DEF ZoneWrites
  <2> QED  BY <1>2, <1>6, <1>8, <2>1, <2>2 DEF Entries
<1>10. /\ Goto(p, [j EXCEPT !.idx = @ + 1]) /\ free' = free \ {f}
       /\ SetsEntry(Tab(a, t0), i0, e)
       /\ mem' = [mem EXCEPT ![f] = mem[j.src[i0].ref]]
       /\ UNCHANGED <<boot, pdir, base, swap, ksw, halted>>
  BY <1>1, <1>4, <1>5, <1>7, <1>8 DEF ResolvePage, Tab, SetsEntry
<1>11. /\ ContentInv'
       /\ \A r \in Procs : ~Pending(r, a, t0, i0)'
       /\ Pending(p, a, t0, i0)
       /\ Maps(a, t0, i0)' <=> e.st = "present"
       /\ Ref(a, t0, i0)' = e.ref
       /\ \A q \in Procs, t \in Tables, i \in Idx : ~(q = a /\ t = t0 /\ i = i0) =>
             \A g : SeenBy(q, t, i, g)' <=> SeenBy(q, t, i, g)
  <2>1. free' \in SUBSET free /\ e.st = j.src[i0].st /\ ~IsDev(t0, i0) /\ e.ref \in free
    BY <1>2, <1>4, <1>6, <1>9, <1>10
  <2> QED  BY <1>1, <1>2, <1>4, <1>9, <1>10, <2>1, EntryCopiedSeen
<1>12. SeenBy(a, t0, i0, f)'
  BY <1>9, <1>11 DEF SeenBy
<1>13. PICK g \in Frames : g = j.src[i0].ref
  BY <1>2, <1>3, <1>4 DEF SourceHasDevice
<1>14. Seen(a, <<t0, i0>>) = mem[g]
  <2>1. SeenBy(a, t0, i0, g)
    BY <1>1, <1>2, <1>4, <1>11, <1>13 DEF SeenBy
  <2>2. ~IsDev(t0, i0)
    BY <1>2, <1>4
  <2> QED  BY <2>1, <2>2, SeenValue DEF SeenMatches
<1>15. PICK v : v = mem[g]
  OBVIOUS
<1>16. /\ Fills(f, v) /\ Seen(a, <<t0, i0>>) = v /\ ~IsDev(t0, i0) /\ Unused(f)
  BY <1>2, <1>4, <1>6, <1>10, <1>13, <1>14, <1>15 DEF Fills, Unused
<1>17. SeenOnlyHere(a, t0, i0)
  BY <1>11 DEF SeenOnlyHere
<1>18. SeenKept /\ mem'[DevFrame] = mem[DevFrame]
  BY <1>6, <1>11, <1>12, <1>16, <1>17, PageMoved
<1> QED  BY <1>11, <1>18

\* An entry that maps no memory is copied: the page is seen as before.
LEMMA ResolveEntrySeen ==
    ASSUME HoldingInv, ContentInv, HoldingInv', NEW p \in Procs, ResolveEntry(p)
    PROVE  ContentInv' /\ SeenKept
<1>1. PICK j : j = k[p]
  OBVIOUS
<1>2. /\ Runs(p) /\ j.at = "copy" /\ j.at \in Stages /\ j.idx <= NIdx
      /\ j.src[j.idx].st = "present" => IsDev(j.pg[1], j.idx)
  BY <1>1 DEF ResolveEntry, CopiesPage, Stages, IsDev
<1>3. /\ j \in Jobs /\ InStep(p, j) /\ SourceHasDevice(j)
  BY <1>1, <1>2, RunningJob
<1>4. PICK a \in Procs, t0 \in Tables, i0 \in Idx : a = j.as /\ t0 = j.pg[1] /\ i0 = j.idx
  <2>1. j.idx \in Idx
    BY <1>2, <1>3, VmmAssumption DEF InStep, Idx
  <2> QED  BY <1>3, <2>1, JobIsFields
<1>5. j.src[i0] \in Entries
  BY <1>3, JobIsFields
<1>6. PICK e : e = IF j.src[j.idx].st = "present" THEN [j.src[j.idx] EXCEPT !.w = TRUE]
                   ELSE j.src[j.idx]
  OBVIOUS
<1>7. /\ e \in Entries /\ e.st = j.src[i0].st /\ e.ref = j.src[i0].ref
  BY <1>4, <1>5, <1>6 DEF Entries
<1>8. /\ Goto(p, [j EXCEPT !.idx = @ + 1])
      /\ SetsEntry(Tab(a, t0), i0, e)
      /\ UNCHANGED <<boot, pdir, base, mem, free, swap, ksw, halted>>
  BY <1>1, <1>4, <1>6 DEF ResolveEntry, Tab, SetsEntry
<1>9. free' \in SUBSET free /\ (e.st = "present" => IsDev(t0, i0) /\ e.ref = DevFrame)
  BY <1>2, <1>3, <1>4, <1>7, <1>8 DEF SourceHasDevice
<1>10. /\ ContentInv'
       /\ \A r \in Procs : ~Pending(r, a, t0, i0)'
       /\ Pending(p, a, t0, i0)
       /\ Maps(a, t0, i0)' <=> e.st = "present"
       /\ Ref(a, t0, i0)' = e.ref
       /\ \A q \in Procs, t \in Tables, i \in Idx : ~(q = a /\ t = t0 /\ i = i0) =>
             \A g : SeenBy(q, t, i, g)' <=> SeenBy(q, t, i, g)
  BY <1>1, <1>2, <1>4, <1>7, <1>8, <1>9, EntryCopiedSeen
<1>11. ASSUME ~IsDev(t0, i0)
       PROVE  \A g : ~SeenBy(a, t0, i0, g)' /\ ~SeenBy(a, t0, i0, g)
  <2>1. j.src[i0].st # "present" /\ e.st # "present"
    BY <1>7, <1>9, <1>11
  <2>2. \A r \in Procs : Pending(r, a, t0, i0) => r = p
    BY <1>10, OnePending DEF ContentInv
  <2> QED  BY <1>1, <1>10, <2>1, <2>2 DEF SeenBy
<1>12. ASSUME NEW q \in Procs, NEW t \in Tables, NEW i \in Idx
       PROVE  ~IsDev(t, i) => \A g \in Frames : SeenBy(q, t, i, g)' <=> SeenBy(q, t, i, g)
  BY <1>10, <1>11
<1>13. SeenKept
  BY <1>8, <1>10, <1>12, SameSeen DEF SeenKept
<1> QED  BY <1>10, <1>13

-----------------------------------------------------------------------------
(* Demand paging.                                                            *)

\* A page that nobody maps and no job copies holds what it is loaded with.
LEMMA NotYetLoaded ==
    ASSUME HoldingInv, ContentInv, NEW a \in Procs, NEW t0 \in Tables, NEW i0 \in Idx,
           ~IsDev(t0, i0), ~Maps(a, t0, i0), \A r \in Procs : ~Pending(r, a, t0, i0)
    PROVE  Seen(a, <<t0, i0>>) = Loaded(<<t0, i0>>)
<1>1. \A f \in Frames : ~SeenBy(a, t0, i0, f)
  BY DEF SeenBy
<1> QED  BY <1>1, SeenValue DEF SeenMatches

\* The page is mapped and filled with what it is loaded with.
LEMMA AllocPageMapSeen ==
    ASSUME HoldingInv, ContentInv, HoldingInv', NEW p \in Procs, AllocPage(p),
           Tab(k[p].as, k[p].pg[1]) # 0
    PROVE  ContentInv' /\ SeenKept /\ mem'[DevFrame] = mem[DevFrame]
<1>1. PICK j : j = k[p]
  OBVIOUS
<1>2. Runs(p) /\ j.at = "page" /\ j.at \in Stages /\ free # {}
  BY <1>1 DEF AllocPage, Stages
<1>3. /\ halted = "" /\ cpu \in {0, p} /\ Busy(p) /\ j \in Jobs /\ InStep(p, j) /\ PageInStep(j)
      /\ Spare(p) = j.spare
  BY <1>1, <1>2, RunningSeen
<1>4. PICK a \in Procs, t0 \in Tables, i0 \in Idx :
        a = j.as /\ t0 = j.pg[1] /\ i0 = j.pg[2] /\ j.last \in {"return", "store"}
        /\ j.pg = <<t0, i0>>
  BY <1>3, JobIsFields
<1>5. /\ ~pdir[a][t0].cow /\ Tab(a, t0) # 0 /\ Tab(a, t0) \in Frames /\ j.spare = 0
      /\ ~IsDev(t0, i0) /\ ~Maps(a, t0, i0)
  <2>1. ~pdir[a][t0].cow /\ j.spare = 0
    BY <1>2, <1>3, <1>4 DEF InStep
  <2>2. ~IsDev(t0, i0)
    BY <1>1, <1>2, <1>4, RunningJob DEF LoadsNoDevice
  <2>3. ~Maps(a, t0, i0)
    BY <1>2, <1>3, <1>4 DEF PageInStep, Loading
  <2> QED  BY <1>1, <1>4, <2>1, <2>2, <2>3, FramesAreTyped
<1>6. PICK f : f = NextFrame
  OBVIOUS
<1>7. f \in free /\ f \in Frames /\ f \in Nat
  BY <1>2, <1>6, NextFrameFree, FrameFacts DEF HoldingInv
<1>8. PICK new : new = [j EXCEPT !.at = j.last]
  OBVIOUS
<1>9. /\ new \in Jobs /\ new.at = j.last /\ new.spare = 0 /\ new.as = a /\ new.pg = j.pg
  <2>1. j.last \in Stages
    BY <1>4 DEF Stages
  <2> QED  BY <1>3, <1>4, <1>5, <1>8, <2>1 DEF Jobs
<1>10. PICK e : e = [st |-> "present", ref |-> f, w |-> ZoneWrites(j.pg)]
  OBVIOUS
<1>11. e \in Entries /\ e.st = "present" /\ e.ref = f
  <2>1. ZoneWrites(j.pg) \in BOOLEAN
    BY DEF ZoneWrites
  <2> QED  BY <1>7, <1>10, <2>1 DEF Entries
<1>12. /\ Goto(p, new) /\ free' = free \ {f} /\ SetsEntry(Tab(a, t0), i0, e)
       /\ UNCHANGED <<boot, pdir, base, swap, ksw, halted>>
  BY <1>1, <1>4, <1>5, <1>6, <1>8, <1>10 DEF AllocPage, MapAndFill, SetsEntry, Tab
<1>13. mem' = [mem EXCEPT ![f] = Loaded(<<t0, i0>>)]
  <2>1. PICK o : o = table[Tab(a, t0)][i0]
    OBVIOUS
  <2>2. o.st # "swapped"
    BY <1>5, <2>1, NoneSwapped DEF ContentInv
  <2>3. mem' = [mem EXCEPT ![f] = IF o.st = "swapped" THEN swap[o.ref] ELSE Loaded(j.pg)]
    BY <1>1, <1>4, <1>5, <1>6, <2>1 DEF AllocPage, MapAndFill, Tab
  <2> QED  BY <1>4, <2>2, <2>3
<1>14. k'[p] = new /\ \A q \in Procs \ {p} : k'[q] = k[q]
  BY <1>9, <1>12, GotoIsTyped DEF HoldingInv
<1>15. /\ table' \in [Frames -> [Idx -> Entries]]
       /\ Maps(a, t0, i0)' <=> e.st = "present"
       /\ Ref(a, t0, i0)' = e.ref
       /\ \A q \in Procs, t \in Tables, i \in Idx : ~(q = a /\ t = t0 /\ i = i0) =>
            (Maps(q, t, i)' <=> Maps(q, t, i)) /\ (Maps(q, t, i) => Ref(q, t, i)' = Ref(q, t, i))
       /\ \A g \in Frames, i \in Idx : table'[g][i] = table[g][i] \/ table'[g][i] = e
  BY <1>5, <1>11, <1>12, EntryEffect
<1>16. /\ OthersStay(p) /\ Busy(p)' /\ ~Copying(p) /\ ~Copying(p)'
       /\ \A q \in Procs : Spare(q)' = Spare(q)
  BY <1>1, <1>2, <1>3, <1>4, <1>5, <1>9, <1>14, JobsAreBusy DEF OthersStay, Busy, Spare, Copying
<1>17. ASSUME NEW g \in Frames, Frozen(g)
       PROVE  Frozen(g)'
  <2>1. g \notin free' /\ \A q \in Procs : g \notin base'[q] /\ g # Spare(q)'
    BY <1>12, <1>16, <1>17 DEF Frozen
  <2>2. \A q \in Procs, t \in Tables : g # Tab(q, t)'
    BY <1>12, <1>17 DEF Frozen, Tab
  <2>3. g # f
    BY <1>7, <1>17 DEF Frozen
  <2>4. ASSUME NEW q \in Procs, NEW t \in Tables, NEW x \in Idx, Maps(q, t, x)', Ref(q, t, x)' = g
        PROVE  pdir'[q][t].cow
    <3>1. ~(q = a /\ t = t0 /\ x = i0)
      BY <1>11, <1>15, <2>3, <2>4
    <3> QED  BY <1>12, <1>15, <1>17, <2>4, <3>1 DEF Frozen
  <2> QED  BY <2>1, <2>2, <2>4 DEF Frozen
<1>18. ContentInv'
  <2>1. \A q \in Procs \ {p}, t \in Tables, i \in Idx :
          Busy(q) => (Maps(k[q].as, t, i)' <=> Maps(k[q].as, t, i))
    BY <1>1, <1>3, <1>4, <1>15, <1>16, OtherSpaces
  <2>2. PageInStep(k[p])'
    <3>1. Maps(a, t0, i0)'
      BY <1>11, <1>15
    <3>2. PageInStep(new)'
      BY <1>4, <1>9, <3>1 DEF PageInStep, Loading
    <3> QED  BY <1>14, <3>2
  <2>3. halted' = "" /\ ksw'.awake = ksw.awake
    BY <1>3, <1>12
  <2> QED  BY <1>12, <1>16, <1>17, <2>1, <2>2, <2>3, ContentKept
<1>19. ASSUME NEW q \in Procs, NEW t \in Tables, NEW i \in Idx, ~(q = a /\ t = t0 /\ i = i0)
       PROVE  \A g : SeenBy(q, t, i, g)' <=> SeenBy(q, t, i, g)
  <2>1. ~Pending(p, q, t, i) /\ ~Pending(p, q, t, i)'
    BY <1>16 DEF Pending
  <2> QED  BY <1>15, <1>16, <1>19, <2>1, SeenElsewhere
<1>20. Seen(a, <<t0, i0>>) = Loaded(<<t0, i0>>)
  <2>1. \A r \in Procs : ~Pending(r, a, t0, i0)
    BY <1>1, <1>3, <1>4, <1>16, NoOtherPending DEF Pending
  <2> QED  BY <1>5, <2>1, NotYetLoaded
<1>21. SeenBy(a, t0, i0, f)'
  <2>1. \A r \in Procs : ~Pending(r, a, t0, i0)'
    <3>1. \A r \in Procs : Pending(r, a, t0, i0)' => r = p
      BY <1>9, <1>14, <1>16, <1>18 DEF ContentInv, JobsApart, Pending, Copying
    <3> QED  BY <1>16, <3>1 DEF Pending
  <2> QED  BY <1>11, <1>15, <2>1 DEF SeenBy
<1>22. PICK v : v = Loaded(<<t0, i0>>)
  OBVIOUS
<1>23. Fills(f, v) /\ Seen(a, <<t0, i0>>) = v /\ Unused(f) /\ SeenOnlyHere(a, t0, i0)
  BY <1>7, <1>13, <1>19, <1>20, <1>22 DEF Fills, Unused, SeenOnlyHere
<1>24. SeenKept /\ mem'[DevFrame] = mem[DevFrame]
  BY <1>5, <1>7, <1>18, <1>21, <1>23, PageMoved
<1> QED  BY <1>18, <1>24

\* The same in a new table.
LEMMA AllocTableSeen ==
    ASSUME HoldingInv, ContentInv, HoldingInv', NEW p \in Procs, AllocTable(p)
    PROVE  ContentInv' /\ SeenKept /\ mem'[DevFrame] = mem[DevFrame]
<1>1. PICK j : j = k[p]
  OBVIOUS
<1>2. Runs(p) /\ j.at = "ptab" /\ j.at \in Stages /\ free # {}
  BY <1>1 DEF AllocTable, Stages
<1>3. /\ halted = "" /\ cpu \in {0, p} /\ Busy(p) /\ j \in Jobs /\ InStep(p, j) /\ PageInStep(j)
      /\ Spare(p) = j.spare
  BY <1>1, <1>2, RunningSeen
<1>4. PICK a \in Procs, t0 \in Tables, i0 \in Idx, s \in 0 .. NFrames :
        a = j.as /\ t0 = j.pg[1] /\ i0 = j.pg[2] /\ j.last \in {"return", "store"}
        /\ j.pg = <<t0, i0>> /\ s = j.spare
  BY <1>3, JobIsFields
<1>5. /\ Tab(a, t0) = 0 /\ s # 0 /\ s \in Frames /\ s \in Nat /\ ~IsDev(t0, i0)
  <2>1. Tab(a, t0) = 0 /\ j.spare # 0
    BY <1>2, <1>3, <1>4 DEF InStep, Tab
  <2>2. ~IsDev(t0, i0)
    BY <1>1, <1>2, <1>4, RunningJob DEF LoadsNoDevice
  <2> QED  BY <1>3, <1>4, <2>1, <2>2, JobIsFields, FrameFacts
<1>6. PICK f : f = NextFrame
  OBVIOUS
<1>7. f \in free /\ f \in Frames /\ f # 0
  BY <1>2, <1>6, NextFrameFree, FrameFacts DEF HoldingInv
<1>8. PICK new : new = [j EXCEPT !.at = j.last, !.spare = 0]
  OBVIOUS
<1>9. /\ new \in Jobs /\ new.at = j.last /\ new.spare = 0 /\ new.as = a /\ new.pg = j.pg
  <2>1. j.last \in Stages /\ 0 \in 0 .. NFrames
    BY <1>4, FrameFacts DEF Stages
  <2> QED  BY <1>3, <1>4, <1>8, <2>1 DEF Jobs
<1>10. PICK e : e = [st |-> "present", ref |-> s, w |-> ZoneWrites(j.pg)]
  OBVIOUS
<1>11. e.st = "present" /\ e.ref = s
  BY <1>10
<1>12. /\ Goto(p, new) /\ free' = free \ {f}
       /\ pdir' = [pdir EXCEPT ![a][t0] = [tab |-> f, cow |-> FALSE]]
       /\ MapAndFill([table EXCEPT ![f] = Empty], f, s, j.pg)
       /\ UNCHANGED <<boot, base, swap, ksw, halted>>
  BY <1>1, <1>4, <1>6, <1>8 DEF AllocTable
<1>13. /\ table'[f][i0] = e /\ \A i \in Idx \ {i0} : table'[f][i] = None
       /\ \A g \in Frames \ {f} : table'[g] = table[g]
  <2>1. table' = [[table EXCEPT ![f] = Empty] EXCEPT ![f][i0] = e]
    BY <1>4, <1>10, <1>12 DEF MapAndFill
  <2>2. table \in [Frames -> [Idx -> Entries]]
    BY FramesAreTyped
  <2>3. [Empty EXCEPT ![i0] = e][i0] = e /\ \A i \in Idx \ {i0} : [Empty EXCEPT ![i0] = e][i] = None
    BY DEF Empty
  <2>4. table'[f] = [Empty EXCEPT ![i0] = e] /\ \A g \in Frames \ {f} : table'[g] = table[g]
    BY <1>7, <2>1, <2>2
  <2> QED  BY <2>3, <2>4
<1>14. Fills(s, Loaded(<<t0, i0>>))
  <2>1. PICK o : o = [table EXCEPT ![f] = Empty][f][i0]
    OBVIOUS
  <2>2. o.st # "swapped"
    BY <1>7, <2>1, FramesAreTyped DEF Empty, None
  <2>3. mem' = [mem EXCEPT ![s] = IF o.st = "swapped" THEN swap[o.ref] ELSE Loaded(j.pg)]
    BY <1>4, <1>12, <2>1 DEF MapAndFill
  <2> QED  BY <1>4, <2>2, <2>3 DEF Fills
<1>15. k'[p] = new /\ \A q \in Procs \ {p} : k'[q] = k[q]
  BY <1>9, <1>12, GotoIsTyped DEF HoldingInv
<1>16. /\ pdir' \in [Procs -> [Tables -> [tab : 0 .. NFrames, cow : BOOLEAN]]]
       /\ pdir'[a][t0].tab = f /\ ~pdir'[a][t0].cow /\ Tab(a, t0)' = f
       /\ \A q \in Procs, t \in Tables : ~(q = a /\ t = t0) =>
             pdir'[q][t] = pdir[q][t] /\ Tab(q, t)' = Tab(q, t)
       /\ \A q \in Procs \ {a}, t \in Tables : pdir'[q][t] = pdir[q][t]
  BY <1>7, <1>12, DirectoryExtended
<1>17. /\ Maps(a, t0, i0)' /\ Ref(a, t0, i0)' = s
       /\ \A i \in Idx : ~Maps(a, t0, i) /\ (i # i0 => ~Maps(a, t0, i)')
  BY <1>5, <1>7, <1>11, <1>13, <1>16 DEF Maps, Ref, None
<1>18. ASSUME NEW q \in Procs, NEW t \in Tables, NEW i \in Idx, ~(q = a /\ t = t0 /\ i = i0)
       PROVE  /\ Maps(q, t, i)' <=> Maps(q, t, i)
              /\ Maps(q, t, i) => Ref(q, t, i)' = Ref(q, t, i)
  <2>1. CASE q = a /\ t = t0
    BY <1>17, <1>18, <2>1
  <2>2. CASE ~(q = a /\ t = t0)
    <3>1. Tab(q, t)' = Tab(q, t) /\ Tab(q, t) # f
      BY <1>7, <1>16, <2>2 DEF HoldingInv, RoleInv, TablesApart
    <3>2. Tab(q, t) # 0 => table'[Tab(q, t)] = table[Tab(q, t)]
      BY <1>13, <3>1, FramesAreTyped
    <3> QED  BY <3>1, <3>2 DEF Maps, Ref
  <2> QED  BY <2>1, <2>2
<1>19. /\ OthersStay(p) /\ Busy(p)' /\ ~Copying(p) /\ ~Copying(p)' /\ Spare(p)' = 0
       /\ \A q \in Procs \ {p} : Spare(q)' = Spare(q)
  BY <1>1, <1>2, <1>4, <1>9, <1>15, JobsAreBusy DEF OthersStay, Busy, Spare, Copying
<1>20. ASSUME NEW g \in Frames, Frozen(g)
       PROVE  Frozen(g)'
  <2>1. g \notin free' /\ \A q \in Procs : g \notin base'[q] /\ g # Spare(q)'
    BY <1>12, <1>19, <1>20, FrameFacts DEF Frozen
  <2>2. \A q \in Procs, t \in Tables : g # Tab(q, t)'
    BY <1>7, <1>16, <1>20 DEF Frozen
  <2>3. g # s
    BY <1>3, <1>4, <1>20 DEF Frozen
  <2>4. ASSUME NEW q \in Procs, NEW t \in Tables, NEW x \in Idx, Maps(q, t, x)', Ref(q, t, x)' = g
        PROVE  pdir'[q][t].cow
    <3>1. ~(q = a /\ t = t0 /\ x = i0)
      BY <1>17, <2>3, <2>4
    <3>2. Maps(q, t, x) /\ Ref(q, t, x) = g /\ ~(q = a /\ t = t0)
      BY <1>17, <1>18, <2>4, <3>1
    <3> QED  BY <1>16, <1>20, <3>2 DEF Frozen
  <2> QED  BY <2>1, <2>2, <2>4 DEF Frozen
<1>21. ContentInv'
  <2>1. \A q \in Procs \ {p}, t \in Tables, i \in Idx :
          Busy(q) => (Maps(k[q].as, t, i)' <=> Maps(k[q].as, t, i))
    <3>1. a = k[p].as /\ Busy(p) /\ OthersStay(p)
      BY <1>1, <1>3, <1>4, <1>19
    <3>2. \A q \in Procs \ {a}, t \in Tables, i \in Idx : Maps(q, t, i)' <=> Maps(q, t, i)
      BY <1>18
    <3> QED  BY <3>1, <3>2, OtherSpaces
  <2>2. PageInStep(k[p])'
    <3>1. PageInStep(new)'
      BY <1>4, <1>9, <1>17 DEF PageInStep, Loading
    <3> QED  BY <1>15, <3>1
  <2>3. halted' = "" /\ ksw'.awake = ksw.awake
    BY <1>3, <1>12
  <2> QED  BY <1>12, <1>19, <1>20, <2>1, <2>2, <2>3, ContentKept
<1>22. SeenOnlyHere(a, t0, i0)
  <2> SUFFICES ASSUME NEW q \in Procs, NEW t \in Tables, NEW i \in Idx,
                      ~(q = a /\ t = t0 /\ i = i0)
               PROVE  \A g : SeenBy(q, t, i, g)' <=> SeenBy(q, t, i, g)
    BY DEF SeenOnlyHere
  <2>1. ~Pending(p, q, t, i) /\ ~Pending(p, q, t, i)'
    BY <1>19 DEF Pending
  <2> QED  BY <1>18, <1>19, <2>1, SeenElsewhere
<1>23. PICK v : v = Loaded(<<t0, i0>>)
  OBVIOUS
<1>24. Seen(a, <<t0, i0>>) = v
  <2>1. \A r \in Procs : ~Pending(r, a, t0, i0)
    BY <1>1, <1>3, <1>4, <1>19, NoOtherPending DEF Pending
  <2> QED  BY <1>5, <1>17, <1>23, <2>1, NotYetLoaded
<1>25. SeenBy(a, t0, i0, s)'
  <2>1. \A r \in Procs : ~Pending(r, a, t0, i0)'
    <3>1. \A r \in Procs : Pending(r, a, t0, i0)' => r = p
      BY <1>9, <1>15, <1>19, <1>21 DEF ContentInv, JobsApart, Pending, Copying
    <3> QED  BY <1>19, <3>1 DEF Pending
  <2> QED  BY <1>17, <2>1 DEF SeenBy
<1>26. Unused(s) /\ Fills(s, v)
  BY <1>3, <1>4, <1>14, <1>23 DEF Unused
<1>27. SeenKept /\ mem'[DevFrame] = mem[DevFrame]
  BY <1>5, <1>21, <1>22, <1>24, <1>25, <1>26, PageMoved
<1> QED  BY <1>21, <1>27

-----------------------------------------------------------------------------
(* Address spaces.                                                           *)

\* What process q sees is as fresh as a new address space.
SeesFresh(q) ==
    \A t \in Tables, i \in Idx :
        Seen(q, <<t, i>>) = IF IsDev(t, i) THEN Zero ELSE Loaded(<<t, i>>)

\* The memory of process p is fresh after the step, and no other memory changes.
Refreshes(p) ==
    /\ SeesFresh(p)'
    /\ \A q \in Procs \ {p}, t \in Tables, i \in Idx : Seen(q, <<t, i>>)' = Seen(q, <<t, i>>)
    /\ mem'[DevFrame] = mem[DevFrame]

\* exit and exec drop the address space of p and touch no other memory.
LEMMA SpaceGivenUpSeen ==
    ASSUME HoldingInv, ContentInv, HoldingInv', NEW p \in Procs, Alone(p),
           ~Copying(p), Spare(p) = 0, Leave(p), NEW B, DropsSpace(p, B),
           UNCHANGED <<boot, swap, ksw, halted>>
    PROVE  ContentInv' /\ Refreshes(p)
<1>1. k'[p] = Idle /\ \A q \in Procs \ {p} : k'[q] = k[q]
  BY LeaveIsTyped DEF HoldingInv
<1>2. /\ OthersStay(p) /\ ~Copying(p)' /\ ~Busy(p)' /\ \A q \in Procs : Spare(q)' = Spare(q)
  BY <1>1 DEF OthersStay, Copying, Busy, Spare
<1>3. \A f \in Owned(p) :
        f \in Frames /\ f \notin free /\ \A q \in Procs \ {p}, t \in Tables : f # Tab(q, t)
  BY OwnedFrames
<1>4. /\ \A t \in Tables : Tab(p, t)' = 0
      /\ \A q \in Procs \ {p}, t \in Tables : pdir'[q][t] = pdir[q][t] /\ Tab(q, t)' = Tab(q, t)
  <2>1. pdir \in [Procs -> [Tables -> [tab : 0 .. NFrames, cow : BOOLEAN]]]
    BY DEF HoldingInv, TypeOK
  <2>2. /\ \A t \in Tables : pdir'[p][t] = NoTable
        /\ \A q \in Procs \ {p}, t \in Tables : pdir'[q][t] = pdir[q][t]
    BY <2>1 DEF DropsSpace
  <2> QED  BY <2>2 DEF Tab, NoTable
<1>5. base'[p] = B /\ B \subseteq free /\ \A q \in Procs \ {p} : base'[q] = base[q]
  <2>1. base \in [Procs -> SUBSET Frames]
    BY DEF HoldingInv, TypeOK
  <2> QED  BY <2>1 DEF DropsSpace
<1>6. \A f \in Frames : f \notin Owned(p) => table'[f] = table[f]
  BY DEF DropsSpace
<1>7. mem'[DevFrame] = mem[DevFrame] /\ \A f \in Frames : f \notin Owned(p) => mem'[f] = mem[f]
  <2>1. DOMAIN mem = Frames \cup {DevFrame}
    BY DEF HoldingInv, TypeOK
  <2>2. DevFrame \notin Owned(p)
    BY <1>3, FrameFacts
  <2> QED  BY <2>1, <2>2 DEF DropsSpace, Forget
<1>8. /\ \A t \in Tables, i \in Idx : ~Maps(p, t, i)'
      /\ \A q \in Procs \ {p}, t \in Tables, i \in Idx :
           (Maps(q, t, i)' <=> Maps(q, t, i)) /\ (Maps(q, t, i) => Ref(q, t, i)' = Ref(q, t, i))
  <2>1. \A t \in Tables, i \in Idx : ~Maps(p, t, i)'
    BY <1>4 DEF Maps
  <2>2. ASSUME NEW q \in Procs \ {p}, NEW t \in Tables, NEW i \in Idx
        PROVE  (Maps(q, t, i)' <=> Maps(q, t, i)) /\ (Maps(q, t, i) => Ref(q, t, i)' = Ref(q, t, i))
    <3>1. Tab(q, t)' = Tab(q, t) /\ Tab(q, t) \notin Owned(p)
      BY <1>3, <1>4
    <3>2. Tab(q, t) # 0 => table'[Tab(q, t)] = table[Tab(q, t)]
      BY <1>6, <3>1, FramesAreTyped
    <3> QED  BY <3>1, <3>2 DEF Maps, Ref
  <2> QED  BY <2>1, <2>2
<1>9. ASSUME NEW f \in Frames, Frozen(f)
      PROVE  Frozen(f)'
  <2>1. f \notin Owned(p)
    BY <1>9, OwnedIs DEF Frozen
  <2>2. f \notin free' /\ f \notin B
    BY <1>5, <1>9, <2>1 DEF Frozen, DropsSpace
  <2>3. \A q \in Procs : f \notin base'[q] /\ f # Spare(q)'
    BY <1>2, <1>5, <1>9, <2>2 DEF Frozen
  <2>4. \A q \in Procs, t \in Tables : f # Tab(q, t)'
    BY <1>4, <1>9, FrameFacts DEF Frozen
  <2>5. \A q \in Procs, t \in Tables, x \in Idx :
          Maps(q, t, x)' /\ Ref(q, t, x)' = f => pdir'[q][t].cow
    BY <1>4, <1>8, <1>9 DEF Frozen
  <2> QED  BY <2>2, <2>3, <2>4, <2>5 DEF Frozen
<1>10. ASSUME NEW r \in Procs \ {p}, Busy(r)
       PROVE  k[r].as = r /\ k'[r].as = r
  BY <1>1, <1>10, OthersWorkAtHome DEF Alone
<1>11. ContentInv'
  <2>1. \A q \in Procs \ {p}, t \in Tables, i \in Idx :
          Busy(q) => (Maps(k[q].as, t, i)' <=> Maps(k[q].as, t, i))
    <3> SUFFICES ASSUME NEW q \in Procs \ {p}, NEW t \in Tables, NEW i \in Idx, Busy(q)
                 PROVE  Maps(k[q].as, t, i)' <=> Maps(k[q].as, t, i)
      OBVIOUS
    <3>1. Maps(q, t, i)' <=> Maps(q, t, i)
      BY <1>8
    <3> QED  BY <1>10, <3>1
  <2>2. ksw'.awake = ksw.awake /\ halted' = ""
    BY DEF Alone
  <2> QED  BY <1>2, <1>9, <2>1, <2>2, ContentKept
<1>12. \A q, t, i : ~Pending(p, q, t, i) /\ ~Pending(p, q, t, i)'
  BY <1>2 DEF Pending
<1>13. ASSUME NEW q \in Procs \ {p}, NEW t \in Tables, NEW i \in Idx
       PROVE  Seen(q, <<t, i>>)' = Seen(q, <<t, i>>)
  <2>1. \A f : SeenBy(q, t, i, f)' <=> SeenBy(q, t, i, f)
    BY <1>2, <1>8, <1>12, SeenElsewhere
  <2>2. ASSUME NEW f \in Frames, ~IsDev(t, i), SeenBy(q, t, i, f)
        PROVE  mem'[f] = mem[f]
    <3>1. /\ f \notin base[p] /\ \A u \in Tables : f # Tab(p, u)
          /\ \A u \in Tables, x \in Idx :
               ~(Maps(p, u, x) /\ Ref(p, u, x) = f /\ ~pdir[p][u].cow)
      BY <2>2, SeenIsApart DEF SeenApart
    <3>2. f \notin Owned(p)
      BY <3>1, OwnedIs
    <3> QED  BY <1>7, <3>2
  <2> QED  BY <1>11, <2>1, <2>2, SameSeen
<1>14. ASSUME NEW t \in Tables, NEW i \in Idx
       PROVE  Seen(p, <<t, i>>)' = IF IsDev(t, i) THEN Zero ELSE Loaded(<<t, i>>)
  <2>1. \A r \in Procs : ~Pending(r, p, t, i)'
    <3> SUFFICES ASSUME NEW r \in Procs, Pending(r, p, t, i)'
                 PROVE  FALSE
      OBVIOUS
    <3>1. r # p /\ Busy(r)' /\ k'[r].as = p
      BY <1>12 DEF Pending, Copying
    <3>2. Busy(r)
      BY <1>1, <3>1 DEF Busy
    <3> QED  BY <1>10, <3>1, <3>2
  <2>2. \A f : ~SeenBy(p, t, i, f)'
    BY <1>8, <2>1 DEF SeenBy
  <2>3. SeenMatches'
    BY <1>11, SeenValueNext
  <2> QED  BY <2>2, <2>3 DEF SeenMatches, IsDev, Loaded
<1>15. SeesFresh(p)'
  BY <1>14 DEF SeesFresh, IsDev, Loaded
<1> QED  BY <1>7, <1>11, <1>13, <1>15 DEF Refreshes

LEMMA ReleaseSeen ==
    ASSUME HoldingInv, ContentInv, HoldingInv', NEW p \in Procs, Exit(p) \/ Killed(p)
    PROVE  ContentInv' /\ Refreshes(p) /\ p \in live /\ live' = live \ {p}
<1>1. p \in live /\ Alone(p) /\ ~Copying(p) /\ Spare(p) = 0
  <2>1. CASE Exit(p)
    BY <2>1, UserHasNoJob DEF Exit, Alone
  <2>2. CASE Killed(p)
    <3>1. Runs(p) /\ k[p].at = "fail" /\ k[p].at \in Stages
      BY <2>2 DEF Killed, Stages
    <3>2. p \in live /\ halted = "" /\ cpu \in {0, p} /\ InStep(p, k[p]) /\ Spare(p) = k[p].spare
      BY <3>1, RunningJob
    <3> QED  BY <3>1, <3>2 DEF InStep, Copying, Alone
  <2> QED  BY <2>1, <2>2
<1>2. Release(p)
  BY DEF Exit, Killed
<1>3. DropsSpace(p, {}) /\ live' = live \ {p}
  <2>1. free \ {} = free
    OBVIOUS
  <2> QED  BY <1>2, <2>1 DEF Release, DropsSpace
<1>4. Leave(p) /\ UNCHANGED <<boot, swap, ksw, halted>>
  BY <1>2 DEF Release
<1> QED  BY <1>1, <1>3, <1>4, SpaceGivenUpSeen

\* exec gives the process fresh memory, or changes nothing when it fails.
LEMMA ExecSeen ==
    ASSUME HoldingInv, ContentInv, HoldingInv', NEW p \in Procs, Exec(p)
    PROVE  /\ ContentInv' /\ p \in live /\ live' = live
           /\ Refreshes(p) \/ (SeenKept /\ mem' = mem)
<1>1. Runs(p) /\ k[p].at = "pdir" /\ k[p].at \in Stages /\ Cardinality(free) >= 2
  BY DEF Exec, Stages
<1>2. p \in live /\ Alone(p) /\ ~Copying(p) /\ Spare(p) = 0
  <2>1. p \in live /\ halted = "" /\ cpu \in {0, p} /\ InStep(p, k[p]) /\ Spare(p) = k[p].spare
    BY <1>1, RunningJob
  <2> QED  BY <1>1, <2>1 DEF InStep, Copying, Alone
<1>3. Leave(p) /\ UNCHANGED <<boot, spaces, live, swap, ksw, halted>>
  BY DEF Exec
<1>4. CASE UNCHANGED <<base, pdir, devz, table, free, mem>>
  <2>1. halted' = ""
    BY <1>2, <1>3 DEF Alone
  <2> QED  BY <1>2, <1>3, <1>4, <2>1, QuietLeave
<1>5. TwoFrames \subseteq free
  BY <1>1, TwoFramesFree DEF HoldingInv
<1>6. CASE DropsSpace(p, TwoFrames)
  BY <1>2, <1>3, <1>6, SpaceGivenUpSeen
<1> QED  BY <1>3, <1>4, <1>5, <1>6 DEF Exec, DropsSpace

\* The memory of c is a copy of the memory of p, and no other memory changes.
CopiesMemory(p, c) ==
    \A t \in Tables, i \in Idx :
        /\ Seen(c, <<t, i>>)' = Seen(p, <<t, i>>)
        /\ \A q \in Procs \ {c} : Seen(q, <<t, i>>)' = Seen(q, <<t, i>>)

\* fork: the child sees what its parent sees, in the same frames.
LEMMA ForkSeen ==
    ASSUME HoldingInv, ContentInv, HoldingInv', NEW p \in Procs, Fork(p)
    PROVE  /\ ContentInv' /\ mem' = mem /\ p \in live
           /\ \E c \in Procs \ live : CopiesMemory(p, c) /\ live' = live \cup {c}
<1>1. PICK c \in Procs : c = k[p].idx /\ c \notin live /\ p # c
  BY ForkEffect
<1>2. ForksSpace(p, c, TwoFrames)
  BY <1>1, ForkEffect
<1>3. Runs(p) /\ k[p].at = "pdir" /\ k[p].at \in Stages
  BY DEF Fork, Stages
<1>4. /\ p \in live /\ Alone(p) /\ ~Copying(p) /\ Spare(p) = 0
  <2>1. /\ p \in live /\ halted = "" /\ cpu \in {0, p} /\ InStep(p, k[p])
        /\ Spare(p) = k[p].spare
    BY <1>3, RunningJob
  <2> QED  BY <1>3, <2>1 DEF InStep, Copying, Alone
<1>5. Leave(p) /\ UNCHANGED <<boot, mem, swap, ksw, halted>>
  BY DEF Fork
<1>6. k'[p] = Idle /\ \A q \in Procs \ {p} : k'[q] = k[q]
  BY <1>5, LeaveIsTyped DEF HoldingInv
<1>7. /\ OthersStay(p) /\ ~Copying(p)' /\ ~Busy(p)' /\ \A q \in Procs : Spare(q)' = Spare(q)
  BY <1>4, <1>6 DEF OthersStay, Copying, Busy, Spare
<1>8. \A f \in Frames, i \in Idx :
         table'[f][i].st = table[f][i].st /\ table'[f][i].ref = table[f][i].ref
  BY <1>2, TablesMadeReadOnly DEF ForksSpace
<1>9. ASSUME NEW q \in Procs, NEW s \in Procs, s = IF q = c THEN p ELSE q,
             NEW t \in Tables, NEW i \in Idx
      PROVE  /\ Tab(q, t)' = Tab(s, t)
             /\ Maps(q, t, i)' <=> Maps(s, t, i)
             /\ Maps(s, t, i) => Ref(q, t, i)' = Ref(s, t, i)
  <2>1. Tab(q, t)' = Tab(s, t)
    <3>1. CASE q \in {p, c}
      BY <1>2, <1>9, <3>1 DEF ForksSpace, Tab
    <3>2. CASE q \notin {p, c}
      <4>1. pdir'[q][t] = pdir[q][t]
        BY <1>2, <3>2 DEF ForksSpace
      <4> QED  BY <1>9, <3>2, <4>1 DEF Tab
    <3> QED  BY <3>1, <3>2
  <2>2. Tab(s, t) # 0 => Tab(s, t) \in Frames
    BY FramesAreTyped
  <2> QED  BY <1>8, <2>1, <2>2 DEF Maps, Ref
<1>10. \A q \in Procs \ {c}, t \in Tables, i \in Idx :
         /\ Tab(q, t)' = Tab(q, t)
         /\ Maps(q, t, i)' <=> Maps(q, t, i)
         /\ Maps(q, t, i) => Ref(q, t, i)' = Ref(q, t, i)
  BY <1>9
<1>11. \A t \in Tables, i \in Idx :
         /\ Tab(c, t)' = Tab(p, t)
         /\ Maps(c, t, i)' <=> Maps(p, t, i)
         /\ Maps(p, t, i) => Ref(c, t, i)' = Ref(p, t, i)
  BY <1>9
<1>12. ASSUME NEW f \in Frames, Frozen(f)
       PROVE  Frozen(f)'
  <2>1. f \notin free' /\ f \notin TwoFrames
    BY <1>2, <1>12 DEF Frozen, ForksSpace
  <2>2. \A q \in Procs : f \notin base'[q] /\ f # Spare(q)'
    BY <1>2, <1>7, <1>12, <2>1 DEF Frozen, ForksSpace
  <2>3. \A q \in Procs, t \in Tables : f # Tab(q, t)'
    <3> SUFFICES ASSUME NEW q \in Procs, NEW t \in Tables
                 PROVE  f # Tab(q, t)'
      OBVIOUS
    <3>1. 1 \in Idx
      BY VmmAssumption DEF Idx
    <3>2. Tab(q, t)' = Tab(q, t) \/ Tab(q, t)' = Tab(p, t)
      BY <1>10, <1>11, <3>1
    <3> QED  BY <1>12, <3>2 DEF Frozen
  <2>4. ASSUME NEW q \in Procs, NEW t \in Tables, NEW x \in Idx,
               Maps(q, t, x)', Ref(q, t, x)' = f
        PROVE  pdir'[q][t].cow
    <3>1. CASE q \in {p, c}
      <4>1. Tab(p, t) # 0
        BY <1>10, <1>11, <2>4, <3>1 DEF Maps
      <4> QED  BY <1>2, <3>1, <4>1 DEF ForksSpace
    <3>2. CASE q \notin {p, c}
      <4>1. pdir'[q][t] = pdir[q][t]
        BY <1>2, <3>2 DEF ForksSpace
      <4>2. Maps(q, t, x) /\ Ref(q, t, x) = f
        BY <1>10, <2>4, <3>2
      <4> QED  BY <1>12, <4>1, <4>2 DEF Frozen
    <3> QED  BY <3>1, <3>2
  <2> QED  BY <2>1, <2>2, <2>3, <2>4 DEF Frozen
<1>13. ASSUME NEW r \in Procs \ {p}, Busy(r)
       PROVE  k[r].as = r /\ k'[r].as = r /\ r # c
  <2>1. k[r].as = r /\ r \in live
    BY <1>4, <1>13, OthersWorkAtHome DEF Alone
  <2> QED  BY <1>1, <1>6, <1>13, <2>1
<1>14. ContentInv'
  <2>1. \A q \in Procs \ {p}, t \in Tables, i \in Idx :
          Busy(q) => (Maps(k[q].as, t, i)' <=> Maps(k[q].as, t, i))
    <3> SUFFICES ASSUME NEW q \in Procs \ {p}, NEW t \in Tables, NEW i \in Idx, Busy(q)
                 PROVE  Maps(k[q].as, t, i)' <=> Maps(k[q].as, t, i)
      OBVIOUS
    <3>1. Maps(q, t, i)' <=> Maps(q, t, i)
      BY <1>10, <1>13
    <3> QED  BY <1>13, <3>1
  <2>2. ksw'.awake = ksw.awake /\ halted' = ""
    BY <1>4, <1>5 DEF Alone
  <2> QED  BY <1>5, <1>7, <1>12, <2>1, <2>2, ContentKept
<1>15. \A q, t, i : ~Pending(p, q, t, i) /\ ~Pending(p, q, t, i)'
  BY <1>4, <1>7 DEF Pending
<1>16. ASSUME NEW q \in Procs \ {c}, NEW t \in Tables, NEW i \in Idx
       PROVE  Seen(q, <<t, i>>)' = Seen(q, <<t, i>>)
  <2>1. \A f : SeenBy(q, t, i, f)' <=> SeenBy(q, t, i, f)
    BY <1>7, <1>10, <1>15, SeenElsewhere
  <2> QED  BY <1>5, <1>14, <2>1, SameSeen
<1>17. ASSUME NEW t \in Tables, NEW i \in Idx
       PROVE  Seen(c, <<t, i>>)' = Seen(p, <<t, i>>)
  <2>1. \A r \in Procs : ~Pending(r, p, t, i) /\ ~Pending(r, c, t, i)'
    <3> SUFFICES ASSUME NEW r \in Procs, Pending(r, p, t, i) \/ Pending(r, c, t, i)'
                 PROVE  FALSE
      OBVIOUS
    <3>1. r # p
      BY <1>15
    <3>2. Busy(r)
      BY <1>6, <3>1 DEF Pending, Copying, Busy
    <3> QED  BY <1>13, <3>1, <3>2 DEF Pending
  <2>2. \A f : SeenBy(c, t, i, f)' <=> SeenBy(p, t, i, f)
    BY <1>11, <2>1 DEF SeenBy
  <2>3. SeenMatches /\ SeenMatches'
    BY <1>14, SeenValue, SeenValueNext
  <2>4. /\ IsDev(t, i) => Seen(p, <<t, i>>) = Zero
        /\ ~IsDev(t, i) =>
             /\ \A f \in Frames : SeenBy(p, t, i, f) => Seen(p, <<t, i>>) = mem[f]
             /\ (\A f \in Frames : ~SeenBy(p, t, i, f)) => Seen(p, <<t, i>>) = Loaded(<<t, i>>)
    BY <2>3 DEF SeenMatches
  <2>5. /\ IsDev(t, i) => Seen(c, <<t, i>>)' = Zero
        /\ ~IsDev(t, i) =>
             /\ \A f \in Frames : SeenBy(c, t, i, f)' => Seen(c, <<t, i>>)' = mem'[f]
             /\ (\A f \in Frames : ~SeenBy(c, t, i, f)') => Seen(c, <<t, i>>)' = Loaded(<<t, i>>)
    BY <2>3 DEF SeenMatches, IsDev, Loaded
  <2> QED  BY <1>5, <2>2, <2>4, <2>5
<1>18. CopiesMemory(p, c) /\ live' = live \cup {c}
  BY <1>2, <1>16, <1>17 DEF CopiesMemory, ForksSpace
<1> QED  BY <1>1, <1>4, <1>5, <1>14, <1>18

-----------------------------------------------------------------------------
(* The specification.                                                        *)

\* What a step may do to the memory that processes see.
Unseen == SeenKept /\ live' = live /\ mem'[DevFrame] = mem[DevFrame]

Stores(a, pg, v) ==
    /\ StoresTo(a, pg[1], pg[2], v) /\ live' = live
    /\ \/ UserStore(a, pg, v)
       \/ \E q \in Procs : k[q] # Idle /\ k[q].as = a /\ k[q].pg = pg /\ CopyToUser(q)

Forks(p, c) == CopiesMemory(p, c) /\ live' = live \cup {c} /\ mem'[DevFrame] = mem[DevFrame]

Drops(p) == Refreshes(p) /\ ((live' = live /\ Exec(p)) \/ live' = live \ {p})

SeenStep ==
    \/ Unseen
    \/ \E a \in live, pg \in Pages, v \in Values : Stores(a, pg, v)
    \/ \E p \in live, c \in Procs \ live : Forks(p, c)
    \/ \E p \in live : Drops(p)

\* A kernel step of a process.
LEMMA KernelStepSeen ==
    ASSUME HoldingInv, ContentInv, HoldingInv', NEW p \in Procs, KernelStep(p)
    PROVE  ContentInv' /\ SeenStep
<1>1. CASE ResolveSource(p)
  BY <1>1, ResolveSourceSeen DEF ResolveSource, SeenStep, Unseen
<1>2. CASE ResolveTable(p)
  BY <1>2, ResolveTableSeen DEF ResolveTable, SeenStep, Unseen
<1>3. CASE ResolvePage(p)
  <2>1. live' = live
    BY <1>3 DEF ResolvePage
  <2> QED  BY <1>3, <2>1, ResolvePageSeen DEF SeenStep, Unseen
<1>4. CASE ResolveEntry(p)
  <2>1. live' = live /\ mem' = mem
    BY <1>4 DEF ResolveEntry
  <2> QED  BY <1>4, <2>1, ResolveEntrySeen DEF SeenStep, Unseen
<1>5. CASE ResolveDone(p)
  BY <1>5, ResolveDoneSeen DEF ResolveDone, SeenStep, Unseen
<1>6. CASE EnsurePresent(p)
  BY <1>6, EnsurePresentSeen DEF EnsurePresent, SeenStep, Unseen
<1>7. CASE FindZone(p)
  BY <1>7, FindZoneSeen DEF FindZone, SeenStep, Unseen
<1>8. CASE AllocPage(p)
  <2>1. live' = live
    BY <1>8 DEF AllocPage
  <2>2. CASE Tab(k[p].as, k[p].pg[1]) = 0
    <3>1. mem' = mem
      BY <1>8, <2>2 DEF AllocPage, Tab
    <3> QED  BY <1>8, <2>1, <2>2, <3>1, AllocPageNoTableSeen DEF SeenStep, Unseen
  <2>3. CASE Tab(k[p].as, k[p].pg[1]) # 0
    BY <1>8, <2>1, <2>3, AllocPageMapSeen DEF SeenStep, Unseen
  <2> QED  BY <2>2, <2>3
<1>9. CASE AllocTable(p)
  <2>1. live' = live
    BY <1>9 DEF AllocTable
  <2> QED  BY <1>9, <2>1, AllocTableSeen DEF SeenStep, Unseen
<1>10. CASE Return(p)
  BY <1>10, ReturnSeen DEF Return, SeenStep, Unseen
<1>11. CASE CopyToUser(p)
  <2>1. live' = live /\ k[p].at = "store"
    BY <1>11 DEF CopyToUser
  <2>2. k[p] # Idle
    BY <2>1 DEF Idle
  <2>3. /\ ContentInv' /\ StoresTo(k[p].as, k[p].pg[1], k[p].pg[2], k[p].val)
        /\ k[p].as \in live /\ k[p].pg \in Pages /\ k[p].val \in Values
    BY <1>11, CopyToUserSeen
  <2>4. Stores(k[p].as, k[p].pg, k[p].val)
    BY <1>11, <2>1, <2>2, <2>3 DEF Stores
  <2> QED  BY <2>3, <2>4 DEF SeenStep
<1>12. CASE PspaceFails(p) \/ Sleep(p)
  <2>1. UNCHANGED <<boot, swap, pdir, base, table, free, k, mem, ksw, live>>
    BY <1>12 DEF PspaceFails, Sleep
  <2> QED  BY <2>1, NothingSeen DEF SeenStep, Unseen
<1>13. CASE Fork(p)
  <2>1. /\ ContentInv' /\ mem' = mem /\ p \in live
        /\ \E c \in Procs \ live : CopiesMemory(p, c) /\ live' = live \cup {c}
    BY <1>13, ForkSeen
  <2>2. \E c \in Procs \ live : Forks(p, c)
    BY <2>1 DEF Forks
  <2> QED  BY <2>1, <2>2 DEF SeenStep
<1>14. CASE Exec(p)
  <2>1. /\ ContentInv' /\ p \in live /\ live' = live
        /\ Refreshes(p) \/ (SeenKept /\ mem' = mem)
    BY <1>14, ExecSeen
  <2> QED  BY <1>14, <2>1 DEF SeenStep, Drops, Unseen
<1>15. CASE Killed(p)
  BY <1>15, ReleaseSeen DEF SeenStep, Drops
<1> QED  BY <1>1, <1>2, <1>3, <1>4, <1>5, <1>6, <1>7, <1>8, <1>9, <1>10, <1>11, <1>12,
            <1>13, <1>14, <1>15 DEF KernelStep

\* A step that begins in user mode.
LEMMA UserStepSeen ==
    ASSUME HoldingInv, ContentInv, HoldingInv', NEW p \in Procs, UserStep(p)
    PROVE  ContentInv' /\ SeenStep
<1>1. ASSUME NEW pg \in Pages, FaultNotPresent(p, pg) \/ FaultOnWriting(p, pg)
      PROVE  ContentInv' /\ SeenStep
  <2>1. live' = live /\ mem' = mem
    BY <1>1 DEF FaultNotPresent, FaultOnWriting
  <2> QED  BY <1>1, <2>1, FaultSeen DEF SeenStep, Unseen
<1>2. ASSUME NEW pg \in Pages, KernelLoad(p, pg)
      PROVE  ContentInv' /\ SeenStep
  <2>1. live' = live /\ mem' = mem
    BY <1>2 DEF KernelLoad
  <2> QED  BY <1>2, <2>1, KernelLoadSeen DEF SeenStep, Unseen
<1>3. ASSUME NEW pg \in Pages, NEW v \in Values, UserStore(p, pg, v)
      PROVE  ContentInv' /\ SeenStep
  <2>1. live' = live /\ p \in live
    BY <1>3 DEF UserStore, InUser
  <2>2. ContentInv' /\ StoresTo(p, pg[1], pg[2], v)
    BY <1>3, UserStoreSeen
  <2>3. Stores(p, pg, v)
    BY <1>3, <2>1, <2>2 DEF Stores
  <2> QED  BY <2>1, <2>2, <2>3 DEF SeenStep
<1>4. ASSUME NEW pg \in Pages, NEW q \in Procs, NEW v \in Values, KernelStore(p, q, pg, v)
      PROVE  ContentInv' /\ SeenStep
  <2>1. live' = live /\ mem' = mem
    BY <1>4 DEF KernelStore
  <2> QED  BY <1>4, <2>1, KernelStoreSeen DEF SeenStep, Unseen
<1>5. ASSUME NEW c \in Procs, NEW what \in {"fork", "exec"}, StartSpace(p, what, c)
      PROVE  ContentInv' /\ SeenStep
  <2>1. live' = live /\ mem' = mem
    BY <1>5 DEF StartSpace
  <2> QED  BY <1>5, <2>1, StartSpaceSeen DEF SeenStep, Unseen
<1>6. CASE Exit(p)
  BY <1>6, ReleaseSeen DEF SeenStep, Drops
<1> QED  BY <1>1, <1>2, <1>3, <1>4, <1>5, <1>6 DEF UserStep

\* Every step: kswapd does not run without a swap file.
LEMMA NextSeen ==
    ASSUME HoldingInv, ContentInv, HoldingInv', [Next]_vars
    PROVE  ContentInv' /\ SeenStep
<1>1. ~boot.swap /\ ~ksw.awake
  BY DEF ContentInv, NothingSwapped
<1>2. ~KswapdWake /\ ~KswapdSwap /\ ~KswapdNext
  BY <1>1 DEF KswapdWake, KswapdSwap, KswapdNext
<1>3. CASE UNCHANGED vars
  <2>1. UNCHANGED <<boot, swap, pdir, base, table, free, k, mem, ksw, live>>
    BY <1>3 DEF vars
  <2> QED  BY <2>1, NothingSeen DEF SeenStep, Unseen
<1> QED  BY <1>2, <1>3, KernelStepSeen, UserStepSeen DEF Next

\* At boot nothing but the device is mapped.
LEMMA ContentInit ==
    ASSUME NoSwap, Init
    PROVE  ContentInv /\ \A p \in Procs : SeesFresh(p)
<1>1. HoldingInv
  BY HoldingInit
<1>2. \A p \in Procs : ~Busy(p)
  BY DEF Init, Busy
<1>3. ContentInv
  <2>1. NothingSwapped
    BY DEF NoSwap, Init, NothingSwapped, Asleep
  <2> QED  BY <1>2, <2>1 DEF ContentInv, JobsApart, SourceFrozen, PagesInStep, Copying
<1>4. ASSUME NEW p \in Procs, NEW t \in Tables, NEW i \in Idx
      PROVE  Seen(p, <<t, i>>) = IF IsDev(t, i) THEN Zero ELSE Loaded(<<t, i>>)
  <2>1. ASSUME Maps(p, t, i), ~IsDev(t, i)
        PROVE  FALSE
    <3>1. Ref(p, t, i) \in Frames
      BY <1>1, <2>1, PagesAreFrames
    <3>2. Tab(p, t) \in Frames
      BY <1>1, <2>1, FramesAreTyped DEF Maps
    <3>3. Ref(p, t, i) = DevFrame
      BY <2>1, <3>2 DEF Init, Maps, Ref, None, Empty
    <3> QED  BY <3>1, <3>3, FrameFacts
  <2>2. \A r \in Procs : ~Pending(r, p, t, i)
    BY <1>2 DEF Pending, Copying
  <2>3. ~IsDev(t, i) => \A f \in Frames : ~SeenBy(p, t, i, f)
    BY <2>1, <2>2 DEF SeenBy
  <2> QED  BY <1>1, <1>3, <2>3, SeenValue DEF SeenMatches
<1> QED  BY <1>3, <1>4 DEF SeesFresh

\* Where the content of every page is: an inductive invariant of the machine
\* without a swap file, which says that the pages a job still has to copy stay
\* frozen, and that a job loads only absent pages (vmm_resolve_copy_on_write,
\* vmm_resolve_page_not_present_locked).
THEOREM ContentInvariant ==
    ASSUME NoSwap
    PROVE  Spec => []ContentInv
<1>1. Init => ContentInv
  BY ContentInit
<1>2. HoldingInv /\ HoldingInv' /\ ContentInv /\ [Next]_vars => ContentInv'
  BY NextSeen
<1> QED  BY <1>1, <1>2, VmmInvariant, PTL DEF Spec

\* A page is a table and an index.
LEMMA PageIsPair ==
    ASSUME NEW pg \in Pages
    PROVE  pg[1] \in Tables /\ pg[2] \in Idx /\ pg = <<pg[1], pg[2]>>
BY DEF Pages

\* Only stores and exec change what a live process reads.
LEMMA OnlyStores ==
    ASSUME HoldingInv, ContentInv, HoldingInv', [Next]_vars,
           NEW p \in live \cap live', NEW pg \in Pages, Seen(p, pg)' # Seen(p, pg)
    PROVE  \/ \E v \in Values : UserStore(p, pg, v)
           \/ \E q \in Procs : k[q] # Idle /\ k[q].as = p /\ k[q].pg = pg /\ CopyToUser(q)
           \/ Exec(p)
<1>1. PICK t \in Tables, i \in Idx : pg = <<t, i>> /\ pg[1] = t /\ pg[2] = i
  BY PageIsPair
<1>2. p \in Procs /\ Seen(p, <<t, i>>)' # Seen(p, <<t, i>>)
  BY <1>1 DEF HoldingInv, TypeOK
<1>3. SeenStep
  BY NextSeen
<1>4. CASE Unseen
  BY <1>2, <1>4 DEF Unseen, SeenKept
<1>5. ASSUME NEW a \in live, NEW x \in Pages, NEW v \in Values, Stores(a, x, v)
      PROVE  \/ UserStore(p, pg, v)
             \/ \E q \in Procs : k[q] # Idle /\ k[q].as = p /\ k[q].pg = pg /\ CopyToUser(q)
  <2>1. PICK u \in Tables, j \in Idx : x = <<u, j>> /\ x[1] = u /\ x[2] = j
    BY PageIsPair
  <2>2. StoresTo(a, u, j, v)
    BY <1>5, <2>1 DEF Stores
  <2>3. a = p /\ u = t /\ j = i
    BY <1>2, <2>2 DEF StoresTo
  <2>4. x = pg
    BY <1>1, <2>1, <2>3
  <2> QED  BY <1>5, <2>3, <2>4 DEF Stores
<1>6. ASSUME NEW q \in live, NEW c \in Procs \ live, Forks(q, c)
      PROVE  FALSE
  BY <1>2, <1>6 DEF Forks, CopiesMemory
<1>7. ASSUME NEW q \in live, Drops(q)
      PROVE  Exec(p)
  <2>1. q = p
    BY <1>2, <1>7 DEF Drops, Refreshes
  <2> QED  BY <1>7, <2>1 DEF Drops
<1> QED  BY <1>3, <1>4, <1>5, <1>6, <1>7 DEF SeenStep

\* Faults and the resolving of copy on write, by anybody, change nothing that a
\* live process reads: only its own stores, those of the kernel for it and its
\* exec do.  With a swap file this is false of the code.
THEOREM StoresAlone ==
    ASSUME NoSwap
    PROVE  Spec => OnlyStoresChangeMemory
<1>1. HoldingInv /\ ContentInv /\ HoldingInv' /\ [Next]_vars =>
        [\A p \in live \cap live', pg \in Pages : Seen(p, pg)' # Seen(p, pg) =>
          \/ \E v \in Values : UserStore(p, pg, v)
          \/ \E q \in Procs : k[q] # Idle /\ k[q].as = p /\ k[q].pg = pg /\ CopyToUser(q)
          \/ Exec(p)]_vars
  BY OnlyStores
<1> QED  BY <1>1, VmmInvariant, ContentInvariant, PTL DEF Spec, OnlyStoresChangeMemory

\* The abstract content: the memory of every process, page by page.
Content == [p \in Procs |-> [pg \in Pages |-> Seen(p, pg)]]

\* A step that rewrites one page of one process.
LEMMA OnePageChanged ==
    ASSUME NEW a \in Procs, NEW x \in Pages, NEW v, Seen(a, x)' = v,
           \A q \in Procs, pg \in Pages : ~(q = a /\ pg = x) => Seen(q, pg)' = Seen(q, pg)
    PROVE  Content' = [Content EXCEPT ![a][x] = v]
<1>1. PICK c : c = Content
  OBVIOUS
<1>2. PICK d : d = Content'
  OBVIOUS
<1>3. c = [q \in Procs |-> [pg \in Pages |-> c[q][pg]]]
  BY <1>1 DEF Content
<1>4. d = [q \in Procs |-> [pg \in Pages |-> d[q][pg]]]
  BY <1>2 DEF Content
<1>5. \A q \in Procs, pg \in Pages : d[q][pg] = IF q = a /\ pg = x THEN v ELSE c[q][pg]
  BY <1>1, <1>2 DEF Content
<1>6. PICK e : e = [c EXCEPT ![a][x] = v]
  OBVIOUS
<1>7. \A q \in Procs : e[q] = [pg \in Pages |-> d[q][pg]]
  BY <1>3, <1>5, <1>6
<1>8. e = [q \in Procs |-> e[q]]
  BY <1>3, <1>6
<1>9. d = e
  BY <1>4, <1>7, <1>8
<1> QED  BY <1>1, <1>2, <1>6, <1>9

\* A step that replaces the memory of one process.
LEMMA OneMemoryChanged ==
    ASSUME NEW a \in Procs, NEW m, m = [pg \in Pages |-> m[pg]],
           \A pg \in Pages : Seen(a, pg)' = m[pg],
           \A q \in Procs \ {a}, pg \in Pages : Seen(q, pg)' = Seen(q, pg)
    PROVE  Content' = [Content EXCEPT ![a] = m]
<1>1. PICK c : c = Content
  OBVIOUS
<1>2. PICK d : d = Content'
  OBVIOUS
<1>3. c = [q \in Procs |-> c[q]] /\ d = [q \in Procs |-> d[q]]
  BY <1>1, <1>2 DEF Content
<1>4. d[a] = m
  <2>1. d[a] = [pg \in Pages |-> Seen(a, pg)']
    BY <1>2 DEF Content
  <2> QED  BY <2>1
<1>5. ASSUME NEW q \in Procs \ {a}
      PROVE  d[q] = c[q]
  <2>1. d[q] = [pg \in Pages |-> Seen(q, pg)'] /\ c[q] = [pg \in Pages |-> Seen(q, pg)]
    BY <1>1, <1>2 DEF Content
  <2> QED  BY <2>1
<1>6. d = [c EXCEPT ![a] = m]
  BY <1>3, <1>4, <1>5
<1> QED  BY <1>1, <1>2, <1>6

\* A step that changes no content.
LEMMA ContentSame ==
    ASSUME \A q \in Procs, t \in Tables, i \in Idx : Seen(q, <<t, i>>)' = Seen(q, <<t, i>>)
    PROVE  Content' = Content
<1>1. \A q \in Procs, pg \in Pages : Seen(q, pg)' = Seen(q, pg)
  BY PageIsPair
<1>2. \A q \in Procs : [pg \in Pages |-> Seen(q, pg)'] = [pg \in Pages |-> Seen(q, pg)]
  BY <1>1
<1> QED  BY <1>2 DEF Content

\* A store is a store of the abstract memory.
LEMMA StoreIsAbstract ==
    ASSUME live \subseteq Procs, NEW a \in live, NEW x \in Pages, NEW v \in Values, Stores(a, x, v)
    PROVE  Private!AStore(a, x, v)
<1>1. PICK t \in Tables, i \in Idx : x = <<t, i>> /\ x[1] = t /\ x[2] = i
  BY PageIsPair
<1>2. StoresTo(a, t, i, v) /\ live' = live /\ a \in Procs
  BY <1>1 DEF Stores
<1>3. CASE IsDev(t, i)
  <2>1. Content' = Content /\ mem'[DevFrame] = v
    BY <1>2, <1>3, ContentSame DEF StoresTo
  <2>2. x \in {pg \in Pages : ZoneKind[pg] = "dev"}
    BY <1>1, <1>3 DEF IsDev
  <2> QED  BY <1>2, <2>1, <2>2 DEF Private!AStore, Content
<1>4. CASE ~IsDev(t, i)
  <2>1. mem'[DevFrame] = mem[DevFrame] /\ Seen(a, x)' = v
    BY <1>1, <1>2, <1>4 DEF StoresTo
  <2>2. ASSUME NEW q \in Procs, NEW pg \in Pages, ~(q = a /\ pg = x)
        PROVE  Seen(q, pg)' = Seen(q, pg)
    <3>1. PICK u \in Tables, j \in Idx : pg = <<u, j>>
      BY PageIsPair
    <3>2. ~(q = a /\ u = t /\ j = i)
      BY <1>1, <2>2, <3>1
    <3> QED  BY <1>2, <3>1, <3>2 DEF StoresTo
  <2>3. Content' = [Content EXCEPT ![a][x] = v]
    BY <1>2, <2>1, <2>2, OnePageChanged
  <2>4. x \notin {pg \in Pages : ZoneKind[pg] = "dev"}
    BY <1>1, <1>4 DEF IsDev
  <2> QED  BY <1>2, <2>1, <2>3, <2>4 DEF Private!AStore, Content
<1> QED  BY <1>3, <1>4

LEMMA ForkIsAbstract ==
    ASSUME live \subseteq Procs, NEW p \in live, NEW c \in Procs \ live, Forks(p, c)
    PROVE  Private!AFork(p, c)
<1>1. CopiesMemory(p, c) /\ live' = live \cup {c} /\ mem'[DevFrame] = mem[DevFrame] /\ p \in Procs
  BY DEF Forks
<1>2. PICK m : m = [pg \in Pages |-> Seen(p, pg)]
  OBVIOUS
<1>3. m = Content[p] /\ m = [pg \in Pages |-> m[pg]]
  BY <1>1, <1>2 DEF Content
<1>4. ASSUME NEW pg \in Pages
      PROVE  Seen(c, pg)' = m[pg] /\ \A q \in Procs \ {c} : Seen(q, pg)' = Seen(q, pg)
  <2>1. PICK t \in Tables, i \in Idx : pg = <<t, i>>
    BY PageIsPair
  <2> QED  BY <1>1, <1>2, <2>1 DEF CopiesMemory
<1>5. Content' = [Content EXCEPT ![c] = m]
  BY <1>3, <1>4, OneMemoryChanged
<1>6. Content' = [Content EXCEPT ![c] = Content[p]]
  BY <1>3, <1>5
<1> QED  BY <1>1, <1>6 DEF Private!AFork, Content

LEMMA DropIsAbstract ==
    ASSUME live \subseteq Procs, NEW p \in live, Drops(p)
    PROVE  Private!AExec(p) \/ Private!AExit(p)
<1>1. Refreshes(p) /\ (live' = live \/ live' = live \ {p}) /\ p \in Procs
  BY DEF Drops
<1>2. PICK m : m = [pg \in Pages |-> IF ZoneKind[pg] = "dev" THEN Zero ELSE Loaded(pg)]
  OBVIOUS
<1>3. ASSUME NEW pg \in Pages
      PROVE  Seen(p, pg)' = m[pg] /\ \A q \in Procs \ {p} : Seen(q, pg)' = Seen(q, pg)
  <2>1. PICK t \in Tables, i \in Idx : pg = <<t, i>>
    BY PageIsPair
  <2>2. Seen(p, <<t, i>>)' = IF IsDev(t, i) THEN Zero ELSE Loaded(<<t, i>>)
    BY <1>1 DEF Refreshes, SeesFresh, IsDev, Loaded
  <2>3. \A q \in Procs \ {p} : Seen(q, <<t, i>>)' = Seen(q, <<t, i>>)
    BY <1>1 DEF Refreshes
  <2> QED  BY <1>2, <2>1, <2>2, <2>3 DEF IsDev
<1>4. m = [pg \in Pages |-> m[pg]]
  BY <1>2
<1>5. Content' = [Content EXCEPT ![p] = m]
  BY <1>1, <1>3, <1>4, OneMemoryChanged
<1>6. mem'[DevFrame] = mem[DevFrame]
  BY <1>1 DEF Refreshes
<1> QED  BY <1>1, <1>2, <1>5, <1>6 DEF Private!AExec, Private!AExit, Content

\* Every step is a step of the abstract memory, or none.
LEMMA StepIsAbstract ==
    ASSUME HoldingInv, ContentInv, HoldingInv', [Next]_vars
    PROVE  [Private!ANext]_(Private!avars)
<1>1. live \subseteq Procs
  BY DEF HoldingInv, TypeOK
<1>2. SeenStep
  BY NextSeen
<1>3. CASE Unseen
  <2>1. live' = live /\ Content' = Content /\ mem'[DevFrame] = mem[DevFrame]
    BY <1>3, ContentSame DEF Unseen, SeenKept
  <2> QED  BY <2>1 DEF Private!avars, Content
<1>4. ASSUME NEW a \in live, NEW x \in Pages, NEW v \in Values, Stores(a, x, v)
      PROVE  Private!ANext
  BY <1>1, <1>4, StoreIsAbstract DEF Private!ANext
<1>5. ASSUME NEW p \in live, NEW c \in Procs \ live, Forks(p, c)
      PROVE  Private!ANext
  BY <1>1, <1>5, ForkIsAbstract DEF Private!ANext
<1>6. ASSUME NEW p \in live, Drops(p)
      PROVE  Private!ANext
  BY <1>1, <1>6, DropIsAbstract DEF Private!ANext
<1> QED  BY <1>2, <1>3, <1>4, <1>5, <1>6 DEF SeenStep

\* The machine starts with fresh memory.
LEMMA InitIsAbstract ==
    ASSUME NoSwap, Init
    PROVE  Private!AInit
<1>1. live = {1} /\ mem[DevFrame] \in Values
  <2>1. mem = [f \in Frames \cup {DevFrame} |-> Zero] /\ Zero \in Values
    BY VmmAssumption DEF Init
  <2> QED  BY <2>1 DEF Init
<1>2. PICK m : m = [pg \in Pages |-> IF ZoneKind[pg] = "dev" THEN Zero ELSE Loaded(pg)]
  OBVIOUS
<1>3. ASSUME NEW p \in Procs
      PROVE  [pg \in Pages |-> Seen(p, pg)] = m
  <2>1. ASSUME NEW pg \in Pages
        PROVE  Seen(p, pg) = m[pg]
    <3>1. PICK t \in Tables, i \in Idx : pg = <<t, i>>
      BY PageIsPair
    <3>2. Seen(p, <<t, i>>) = IF IsDev(t, i) THEN Zero ELSE Loaded(<<t, i>>)
      BY ContentInit DEF SeesFresh
    <3> QED  BY <1>2, <3>1, <3>2 DEF IsDev
  <2> QED  BY <1>2, <2>1
<1>4. Content = [p \in Procs |-> m]
  BY <1>3 DEF Content
<1> QED  BY <1>1, <1>2, <1>4 DEF Private!AInit, Content

\* Demand paging, copy on write, fork, exec and exit implement private memory:
\* whatever the processes do and whoever gets the frames, every process reads
\* what it stored last, or what its parent had at the fork (vmm.c, vmm32.c).
\* The machine has no swap file; with one the code breaks the promise.
THEOREM MemoryIsPrivate ==
    ASSUME NoSwap
    PROVE  Spec => ImplementsPrivateMemory
<1>1. Init => Private!AInit
  BY InitIsAbstract
<1>2. HoldingInv /\ ContentInv /\ HoldingInv' /\ [Next]_vars => [Private!ANext]_(Private!avars)
  BY StepIsAbstract
<1> QED  BY <1>1, <1>2, VmmInvariant, ContentInvariant, PTL
         DEF Spec, ImplementsPrivateMemory, Private!ASpec
=============================================================================
