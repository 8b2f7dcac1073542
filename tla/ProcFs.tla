------------------------------- MODULE ProcFs -------------------------------
(* procfs (fs/procfs): the files of /proc, made up on every call.  A file is *)
(* known by its inode index alone, which packs a level, a pid and a file;    *)
(* the dentry cache remembers which operations an index got first.           *)
EXTENDS Naturals, Integers, Sequences, FiniteSets, TLC

CONSTANTS
    MaxSlots,       \* MAX_PROCESS_COUNT
    MaxPid,         \* pids are 1..MaxPid, threads take some of them
    PidBits,        \* bits for the pid in an index of level 2 (10)
    CacheSize,      \* dentries of procfs that are in memory at once
    DirCaps,        \* entries a getdents buffer has room for
    SysReaders,     \* pids that look at /proc/sys, and at whose pid nobody looks
    GrowWhileRead   \* TRUE: a text may get longer while it is read

ASSUME ProcFsAssumption == 0 \notin DirCaps /\ 1 \notin DirCaps

\* Processes, the dentry cache, a listing and a reading in progress; job is what
\* the calls are about, lookups, a listing or the reading of a text.
VARIABLE pf

RootFiles == <<"stat", "uptime", "meminfo", "self", "sys">>
PidFiles == <<"memstat", "pidstat", "exe">>
SysFiles == <<"sysctl_enable">>
NStatic == Len(RootFiles)
BodyMod == 2 ^ (PidBits + 2)

\* procfs_inode_get_index, and the indices of the three levels.  self and sys
\* share procfs_root_self_get_inode_index.  The body is cut to its bits.
procfs_inode_get_index(level, body) == <<level, body % BodyMod>>
procfs_root_sfiles_get_inode_index(i) == procfs_inode_get_index(1, i - 1)
procfs_root_pid_get_inode_index(pid) == <<1, pid + NStatic>>
procfs_root_get_pid_from_inode_index(index) == index[2] - NStatic
procfs_root_self_get_inode_index(running) == procfs_root_pid_get_inode_index(running)
procfs_pid_sfiles_get_inode_index(dir, i) ==
    procfs_inode_get_index(2, procfs_root_get_pid_from_inode_index(dir) * 4 + (i - 1))
procfs_pid_get_pid_from_inode_index(index) == index[2] \div 4
procfs_sys_sfiles_get_inode_index(i) == procfs_inode_get_index(3, i - 1)

Slots == 0..MaxSlots - 1
AliveSlots(s) == {k \in Slots : s.proc[k].status = "ALIVE"}
AlivePids(s) == {s.proc[k].pid : k \in AliveSlots(s)}
Used(s) == {k \in Slots : s.proc[k].pid # 0}

PfInit ==
    \E job \in {"look", "list", "read"} :
    pf = [job |-> job, proc |-> [k \in Slots |-> IF k = 0 THEN [pid |-> 1, status |-> "ALIVE"]
                                    ELSE [pid |-> 0, status |-> "INVALID"]],
          cache |-> <<>>, got |-> <<>>,
          list |-> [on |-> FALSE, offset |-> 0, seen |-> {}, since |-> {}, missed |-> {}],
          text |-> 1, read |-> [on |-> FALSE, offset |-> 0, out |-> 0, text |-> 0],
          sysctl |-> 1]

\* Processes come, in slots that are never used again, and go.
NewProc(pid) ==
    /\ Cardinality(Used(pf)) < MaxSlots /\ \A k \in Used(pf) : pf.proc[k].pid < pid
    /\ pf' = [pf EXCEPT !.proc[Cardinality(Used(pf))] = [pid |-> pid, status |-> "ALIVE"], !.got = <<>>]
EndProc(k) ==
    /\ k \in AliveSlots(pf) \ {0}
    /\ pf' = [pf EXCEPT !.proc[k].status = "DEAD", !.got = <<>>,
                        !.list.since = @ \ {pf.proc[k].pid}]

-----------------------------------------------------------------------------
\* dentry_get_no_inode: the dentry in the cache with what it has, or a new one
\* that is given the operations of the file.
GotDentry(s, index, ops) == IF index \in DOMAIN s.cache THEN s ELSE [s EXCEPT !.cache = @ @@ (index :> ops)]

\* procfs_root_lookup by the process running; names of pids stand for themselves.
OpsOf(name) == IF name = "self" THEN "pid" ELSE name
procfs_root_lookup(s, running, name) ==
    LET i == CHOOSE k \in 1..NStatic : RootFiles[k] = name
        index == IF i <= 3 THEN procfs_root_sfiles_get_inode_index(i)
                 ELSE procfs_root_self_get_inode_index(running)
    IN <<GotDentry(s, index, OpsOf(name)), index>>
RootLookupPid(s, pid) ==
    <<GotDentry(s, procfs_root_pid_get_inode_index(pid), "pid"), procfs_root_pid_get_inode_index(pid)>>

\* procfs_pid_lookup, procfs_sys_lookup, chosen by the operations of the dentry.
ChildLookup(s, dir, i) ==
    IF s.cache[dir] = "pid"
    THEN LET index == procfs_pid_sfiles_get_inode_index(dir, i)
         IN <<GotDentry(s, index, PidFiles[i]), index>>
    ELSE LET index == procfs_sys_sfiles_get_inode_index(i)
         IN <<GotDentry(s, index, SysFiles[i]), index>>

Found(s, index, want) ==
    /\ Cardinality(DOMAIN s.cache) <= CacheSize
    /\ pf' = [s EXCEPT !.got = [ops |-> s.cache[index], index |-> index, want |-> want]]

LookRoot(running, name) ==
    /\ pf.job = "look"
    /\ running \in AlivePids(pf)
    /\ name = "sys" => running \in SysReaders
    /\ name = "self" => running \notin SysReaders
    /\ LET r == procfs_root_lookup(pf, running, name) IN Found(r[1], r[2], [ops |-> OpsOf(name), pid |-> 0])

LookPid(pid, i) ==
    /\ pf.job = "look"
    /\ pid \in AlivePids(pf) \ SysReaders
    /\ LET d == RootLookupPid(pf, pid)
           r == ChildLookup(d[1], d[2], i)
       IN Found(r[1], r[2], [ops |-> PidFiles[i], pid |-> pid])

LookSys(running) ==
    /\ pf.job = "look"
    /\ running \in SysReaders \cap AlivePids(pf)
    /\ LET d == procfs_root_lookup(pf, running, "sys")
           r == ChildLookup(d[1], d[2], 1)
       IN Found(r[1], r[2], [ops |-> SysFiles[1], pid |-> 0])

EvictProc(index) ==
    /\ index \in DOMAIN pf.cache
    /\ pf' = [pf EXCEPT !.cache = [i \in DOMAIN @ \ {index} |-> @[i]], !.got = <<>>]

-----------------------------------------------------------------------------
\* procfs_root_getdents: the static files, one per offset, and then the slots of
\* proc[].  The offset stays at the last slot that was looked at.
Statics(offset, cap) == {i \in 1..NStatic : i > offset /\ i <= offset + cap}

RECURSIVE PidLoopSkips(_, _, _, _, _)
PidLoopSkips(s, k, offset, cap, seen) ==
    IF k = MaxSlots THEN [offset |-> offset, seen |-> seen]
    ELSE IF k \notin AliveSlots(s) THEN PidLoopSkips(s, k + 1, NStatic + k, cap, seen)
    ELSE IF cap = 0 THEN [offset |-> NStatic + k + 1, seen |-> seen]
    ELSE PidLoopSkips(s, k + 1, NStatic + k, cap - 1, seen \cup {s.proc[k].pid})
RECURSIVE PidLoop(_, _, _, _, _)
PidLoop(s, k, offset, cap, seen) ==
    IF k = MaxSlots THEN [offset |-> offset, seen |-> seen]
    ELSE IF k \notin AliveSlots(s) THEN PidLoop(s, k + 1, NStatic + k, cap, seen)
    ELSE IF cap = 0 THEN [offset |-> offset, seen |-> seen]
    ELSE PidLoop(s, k + 1, NStatic + k, cap - 1, seen \cup {s.proc[k].pid})

procfs_root_getdents(s, offset, cap) ==
    LET st == Statics(offset, cap)
        off == offset + Cardinality(st)
    IN IF off < NStatic THEN [offset |-> off, static |-> st, seen |-> {}]
       ELSE PidLoop(s, off - NStatic, off, cap - Cardinality(st), {}) @@ [static |-> st]

\* opendir, readdir until nothing comes, closedir.
OpenDir ==
    /\ pf.job = "list"
    /\ ~pf.list.on
    /\ pf' = [pf EXCEPT !.list = [on |-> TRUE, offset |-> 0, seen |-> {}, since |-> AlivePids(pf), missed |-> {}],
                        !.got = <<>>]
ReadDir(cap) ==
    /\ pf.list.on
    /\ LET r == procfs_root_getdents(pf, pf.list.offset, cap)
       IN pf' = IF r.seen = {} /\ r.static = {}
                THEN [pf EXCEPT !.list = [@ EXCEPT !.on = FALSE, !.missed = pf.list.since \ pf.list.seen], !.got = <<>>]
                ELSE [pf EXCEPT !.list.offset = r.offset, !.list.seen = @ \cup r.seen, !.got = <<>>]

-----------------------------------------------------------------------------
\* procfs_root_uptime_read and its like: the whole text, unless the offset is
\* its length.  text is the length of what the file would say now.
OpenText == /\ pf.job = "read" /\ ~pf.read.on
            /\ pf' = [pf EXCEPT !.read = [on |-> TRUE, offset |-> 0, out |-> 0, text |-> 0], !.got = <<>>]
ReadText(len) ==
    /\ pf.read.on
    /\ pf' = IF pf.read.offset = pf.text THEN [pf EXCEPT !.read.on = FALSE, !.got = <<>>]
             ELSE IF len < pf.text THEN [pf EXCEPT !.read = [@ EXCEPT !.on = FALSE, !.out = 0, !.text = 0], !.got = <<>>]
             ELSE [pf EXCEPT !.read = [@ EXCEPT !.offset = @ + pf.text, !.out = @ + pf.text,
                                                !.text = IF pf.read.offset = 0 THEN pf.text ELSE @],
                             !.got = <<>>]
Grow == /\ pf.job = "read" /\ pf.text < 3 /\ (GrowWhileRead \/ ~pf.read.on)
        /\ pf' = [pf EXCEPT !.text = @ + 1, !.got = <<>>]

\* procfs_sys_doint_write: sscanf reads on into bytes of the stack that nobody
\* wrote when the text has no end, so any number may come of it.
SysctlWrite(v) == pf.job = "read" /\ pf' = [pf EXCEPT !.sysctl = v, !.got = <<>>]

PfNext ==
    \/ \E pid \in 1..MaxPid : NewProc(pid)
    \/ \E k \in Slots : EndProc(k)
    \/ \E running \in 1..MaxPid, i \in 1..NStatic : LookRoot(running, RootFiles[i])
    \/ \E pid \in 1..MaxPid, i \in 1..Len(PidFiles) : LookPid(pid, i)
    \/ \E running \in 1..MaxPid : LookSys(running)
    \/ \E index \in DOMAIN pf.cache : EvictProc(index)
    \/ OpenDir
    \/ \E cap \in DirCaps : ReadDir(cap)
    \/ OpenText
    \/ \E len \in {1, 3} : ReadText(len)
    \/ Grow
    \/ \E v \in {0, 1} : SysctlWrite(v)

-----------------------------------------------------------------------------
\* A name gives the operations of its own file, and the files of a process are
\* that process's, whatever the cache holds from other lookups.
FileIsItself ==
    pf.got = <<>> \/ /\ pf.got.ops = pf.got.want.ops
                     /\ pf.got.want.pid # 0 => procfs_pid_get_pid_from_inode_index(pf.got.index) = pf.got.want.pid

\* A listing of /proc has every process that lived from its start to its end,
\* and a text read until its end is the text once.
ListingComplete == pf.list.missed = {}
TextOnce == ~pf.read.on => pf.read.out = pf.read.text

ProcFilesSound == FileIsItself /\ ListingComplete /\ TextOnce
=============================================================================
