-------------------------------- MODULE Vfs --------------------------------
(***************************************************************************)
(* The system calls on files over the dentry cache: the walk of             *)
(* vfs_resolve_path_start_from (kernel/kernel/fs/vfs.c), file descriptors   *)
(* (fs/file.c), the calls of syscalls/fs.c, and what ext2 does for them.    *)
(*                                                                          *)
(* loc[p] holds the locals of the call process p is in.  Its field pc is    *)
(*   "idle"    outside of the kernel                                        *)
(*   "walk"    the loop of vfs_resolve_path_start_from: cur is the dentry    *)
(*             reached, names the rest of the path                          *)
(*   "get"     dentry_get(want): the search of the cache                    *)
(*   "dup"     a hit: the block is unlocked, tgt not yet duplicated          *)
(*   "alloc"   a miss: dentry_cache_find_empty_entry                        *)
(*   "fill"    the entry tgt was found, not yet filled                      *)
(*   "linked", "exists", "created"   dentry_get has returned tgt            *)
(*   "again"   sys_open resolves the whole path, after vfs_create           *)
(*   "exit"    proc_free closes the files, one after the other              *)
(* and ret says where dentry_get returns to.  frames[p] holds the calls of  *)
(* dentry_put that have not returned: <<"put", d>> before the counter goes  *)
(* down, <<"fin", d>> once it is zero and the parent is being put.  They    *)
(* run before the process goes on at pc.                                    *)
(*                                                                          *)
(* Without PREEMPT_KERNEL a call runs to its end before another one starts; *)
(* with it, calls interleave at every lock.                                 *)
(***************************************************************************)
EXTENDS Dentry, SequencesExt

CONSTANTS
  Procs,         \* the processes
  InitProc,      \* the one that runs at the start
  Fds,           \* file descriptors of a process
  NFiles,        \* bound: open files
  Calls,         \* the system calls the processes make
  Paths,         \* the paths they give: [abs |-> BOOLEAN, names |-> Seq]
  CreatExisting, \* whether a call creates a name that exists
  Preemptible,   \* PREEMPT_KERNEL
  MaxCount,      \* bound: no new call once a d_count is above MaxCount
  MaxHeld        \* bound: nor once stat_cached_dentries is below 0 or above MaxHeld

CreateCalls == {"creat", "excl", "mkdir"}
PathCalls   == {"open", "unlink", "rmdir", "chdir"} \cup CreateCalls

ASSUME VfsAssumption ==
  /\ InitProc \in Procs /\ NFiles \in Nat /\ MaxCount \in Nat /\ MaxHeld \in Nat
  /\ CreatExisting \in BOOLEAN /\ Preemptible \in BOOLEAN
  /\ Calls \subseteq PathCalls \cup {"write", "fsync", "close", "fork", "exit"}
  /\ \A r \in Paths : r.abs \in BOOLEAN /\ Len(r.names) > 0
  /\ NInodes >= 3

VARIABLES
  dirents,   \* the directory entries on the disk: <<directory, name, inode>>
  cwd,       \* proc_t::cwd, NULL for a process that does not exist
  fds,       \* proc_t::fds
  fcount,    \* file_t::count, 0 for a file that does not exist
  fdentry,   \* file_t::dentry
  opened,    \* history: the inode a file was opened on
  entered,   \* history: the inode a process made its cwd
  loc, frames

fileVars == <<fds, fcount, fdentry, opened>>
cwdVars  == <<cwd, entered>>
vars == <<cacheVars, inodeVars, dirents, fileVars, cwdVars, loc, frames>>

Files == 1..NFiles
Getting == {"get", "dup", "alloc", "fill"}
Places  == Getting \cup {"idle", "walk", "linked", "exists", "created", "again", "exit"}
NoCall  == [pc |-> "idle", op |-> "none", abs |-> FALSE, path |-> <<>>, names |-> <<>>,
            cur |-> NULL, tgt |-> NULL, want |-> 0, ret |-> "walk"]

VfsTypeOK ==
  /\ DentryTypeOK
  /\ cwd \in [Procs -> Entries \cup {NULL}]
  /\ fds \in [Procs -> [Fds -> Files \cup {NULL}]]
  /\ fcount \in [Files -> Nat]
  /\ fdentry \in [Files -> Entries \cup {NULL}]
  /\ \A p \in Procs :
       /\ DOMAIN loc[p] = DOMAIN NoCall
       /\ loc[p].pc \in Places /\ loc[p].op \in PathCalls \cup {"none"}
       /\ {loc[p].cur, loc[p].tgt} \subseteq Entries \cup {NULL}
       /\ loc[p].want \in Inodes \cup {0}
       /\ \A i \in 1..Len(frames[p]) : frames[p][i] \in {"put", "fin"} \X Entries

(***************************************************************************)
(* The first process sits in the root directory; the directory "d" holds    *)
(* the file "f".                                                            *)
(***************************************************************************)
Init ==
  /\ nblocks = 1
  /\ d_count = [e \in Entries |-> IF e = 1 THEN 1 ELSE 0]
  /\ inode_indx = [e \in Entries |-> IF e = 1 THEN ROOT ELSE 0]
  /\ flags = [e \in Entries |-> {}]
  /\ parent = [e \in Entries |-> NULL]
  /\ inode = [e \in Entries |-> 0]
  /\ area = [e \in Entries |-> IF e = 1 THEN "live" ELSE "none"]
  /\ can_cache_inodes = TRUE
  /\ stat_cached_dentries = 1 /\ stat_cached_inodes_area_size = 1
  /\ kind = [i \in Inodes |-> IF i <= 2 THEN "dir" ELSE IF i = 3 THEN "file" ELSE "free"]
  /\ disk = [i \in Inodes |-> 0] /\ latest = disk
  /\ dirents = {<<ROOT, "..", ROOT>>, <<ROOT, "d", 2>>, <<2, "..", ROOT>>, <<2, "f", 3>>}
  /\ cwd = [p \in Procs |-> IF p = InitProc THEN 1 ELSE NULL]
  /\ entered = [p \in Procs |-> IF p = InitProc THEN ROOT ELSE 0]
  /\ fds = [p \in Procs |-> [n \in Fds |-> NULL]]
  /\ fcount = [f \in Files |-> 0]
  /\ fdentry = [f \in Files |-> NULL] /\ opened = [f \in Files |-> 0]
  /\ loc = [p \in Procs |-> NoCall]
  /\ frames = [p \in Procs |-> <<>>]

-----------------------------------------------------------------------------
\* A process that is in no system call.
Out(p) == loc[p].pc = "idle" /\ frames[p] = <<>>

\* No other call is under way, or calls may interleave.
MayRun(p) == Preemptible \/ \A q \in Procs \ {p} : Out(q)

\* Process p is at l, with no dentry_put under way.
At(p, l) == loc[p].pc = l /\ frames[p] = <<>> /\ MayRun(p)

\* Process p goes on with the locals r, after the dentries in s are put.
Go(p, r) == loc' = [loc EXCEPT ![p] = r]
GoTo(p, l) == Go(p, [loc[p] EXCEPT !.pc = l])
PutAll(p, s) == frames' = [frames EXCEPT ![p] = [i \in 1..Len(s) |-> <<"put", s[i]>>]]

\* The call returns, after the dentries in s are put.
Leave(p, s) == Go(p, NoCall) /\ PutAll(p, s)

(***************************************************************************)
(* dentry_t::lock is held across steps by a dentry_put that has reached     *)
(* zero, and by ext2_lookup, ext2_create and ext2_mkdir on the directory    *)
(* while they call dentry_get.                                              *)
(***************************************************************************)
Locked(d) ==
  \E q \in Procs :
    \/ \E i \in 1..Len(frames[q]) : frames[q][i] = <<"fin", d>>
    \/ loc[q].pc \in Getting /\ loc[q].ret # "walk" /\ loc[q].cur = d

\* The inodes that the directory inode dir has under the name n.
Lookup(dir, n) ==
  IF n = "." THEN {dir} ELSE {x[3] : x \in {y \in dirents : y[1] = dir /\ y[2] = n}}
IsDir(d) == inode_indx[d] # 0 /\ kind[inode_indx[d]] = "dir"

-----------------------------------------------------------------------------
\* A mutant of Get: a dentry that nobody holds is not found.
GetOnlyHeld(p) ==
  /\ At(p, "get")
  /\ LET hits == {e \in Cached(loc[p].want) : d_count[e] > 0} IN
     \/ hits # {} /\ Go(p, [loc[p] EXCEPT !.pc = "dup", !.tgt = Lowest(hits)])
     \/ hits = {} /\ GoTo(p, "alloc")
  /\ UNCHANGED <<cacheVars, inodeVars, dirents, fileVars, cwdVars, frames>>

\* dentry_get: the search of the cache.
Get(p) ==
  /\ At(p, "get")
  /\ LET hits == Cached(loc[p].want) IN
     \/ /\ hits # {}
        /\ stat_cached_dentries' =
             stat_cached_dentries + (IF d_count[Lowest(hits)] = 0 THEN 1 ELSE 0)
        /\ Go(p, [loc[p] EXCEPT !.pc = "dup", !.tgt = Lowest(hits)])
     \/ /\ hits = {}
        /\ GoTo(p, "alloc")
        /\ UNCHANGED stat_cached_dentries
  /\ UNCHANGED <<entryVars, d_count, flags, parent, inodeVars, dirents, fileVars,
                 cwdVars, frames>>

\* dentry_get returns e: the start of the walk, or what its caller wanted.
Return(p, e) ==
  Go(p, IF loc[p].ret = "walk"
          THEN [loc[p] EXCEPT !.pc = "walk", !.cur = e, !.tgt = NULL]
          ELSE [loc[p] EXCEPT !.pc = loc[p].ret])

\* dentry_get: the duplicate of a cached dentry, after the block is unlocked.
Dup(p) ==
  /\ At(p, "dup")
  /\ ~Locked(loc[p].tgt)
  /\ dentry_duplicate(loc[p].tgt)
  /\ Return(p, loc[p].tgt)
  /\ UNCHANGED <<entryVars, flags, parent, stat_cached_dentries, inodeVars, dirents,
                 fileVars, cwdVars, frames>>

\* dentry_alloc_new: an entry is chosen, and its block unlocked.
Alloc(p) ==
  /\ At(p, "alloc")
  /\ \E e \in Entries :
       find_empty_entry(e) /\ Go(p, [loc[p] EXCEPT !.pc = "fill", !.tgt = e])
  /\ UNCHANGED <<d_count, inode_indx, flags, parent, inode, area, can_cache_inodes,
                 stat_cached_dentries, stat_cached_inodes_area_size, inodeVars,
                 dirents, fileVars, cwdVars, frames>>

\* dentry_alloc_new: the entry is filled.
Fill(p) ==
  /\ At(p, "fill")
  /\ dentry_alloc_new(loc[p].tgt, loc[p].want)
  /\ Return(p, loc[p].tgt)
  /\ UNCHANGED <<inodeVars, dirents, fileVars, cwdVars, frames>>

-----------------------------------------------------------------------------
(***************************************************************************)
(* dentry_put: the counter goes down; at zero the parent is put first, with *)
(* the lock of the dentry held, and then the dentry is dealt with.  The     *)
(* step has no successor where ASSERT(d_count > 0) stops the kernel.        *)
(***************************************************************************)
Put(p) ==
  /\ frames[p] # <<>> /\ MayRun(p)
  /\ LET d == Head(frames[p])[2]
         above == IF parent[d] = NULL THEN <<>> ELSE << <<"put", parent[d]>> >>
     IN  /\ Head(frames[p])[1] = "put"
         /\ ~Locked(d)
         /\ d_count[d] > 0
         /\ d_count' = [d_count EXCEPT ![d] = @ - 1]
         /\ frames' = [frames EXCEPT ![p] =
                         IF d_count[d] > 1 THEN Tail(@)
                         ELSE above \o << <<"fin", d>> >> \o Tail(@)]
  /\ UNCHANGED <<entryVars, flags, parent, stat_cached_dentries, inodeVars, dirents,
                 fileVars, cwdVars, loc>>

\* A mutant of PutImpl: the early return for a deleted inode leaves the lock taken,
\* and the next user of the entry spins.
PutImplKeepsLock(p) ==
  /\ frames[p] # <<>> /\ MayRun(p)
  /\ Head(frames[p])[1] = "fin"
  /\ LET d == Head(frames[p])[2]
         deleted == "TO_BE_DELETED" \in flags[d]
     IN  \/ /\ deleted => inode_indx[d] # 0
            /\ dentry_put_impl(d)
            /\ frames' = IF deleted THEN frames ELSE [frames EXCEPT ![p] = Tail(@)]
            /\ UNCHANGED <<dirents, fileVars, cwdVars, loc>>
         \/ /\ deleted /\ inode_indx[d] = 0
            /\ UNCHANGED vars

\* dentry_put_impl_locked, after the parent was put.
PutImpl(p) ==
  /\ frames[p] # <<>> /\ MayRun(p)
  /\ Head(frames[p])[1] = "fin"
  /\ dentry_put_impl(Head(frames[p])[2])
  /\ frames' = [frames EXCEPT ![p] = Tail(@)]
  /\ UNCHANGED <<dirents, fileVars, cwdVars, loc>>

-----------------------------------------------------------------------------
\* The walk over ns starts at the root, or at a duplicate of cwd.
ResolveFrom(p, o, abs, path, ns) ==
  LET call == [NoCall EXCEPT !.op = o, !.abs = abs, !.path = path, !.names = ns] IN
  \/ /\ abs
     /\ Go(p, [call EXCEPT !.pc = "get", !.want = ROOT])
     /\ UNCHANGED d_count
  \/ /\ ~abs
     /\ ~Locked(cwd[p])
     /\ dentry_duplicate(cwd[p])
     /\ Go(p, [call EXCEPT !.pc = "walk", !.cur = cwd[p]])

\* The inode that a path leads to on the disk, 0 if there is none.
OnDisk(start, ns) ==
  LET at[k \in 0..Len(ns)] ==
        IF k = 0 THEN start
        ELSE LET found == Lookup(at[k - 1], ns[k])
             IN  IF found = {} THEN 0 ELSE Lowest(found)
  IN  at[Len(ns)]


\* sys_open and the other calls that take a path: the first walk.
Begin(p) ==
  /\ At(p, "idle") /\ cwd[p] # NULL
  /\ \A e \in Entries : d_count[e] <= MaxCount
  /\ stat_cached_dentries \in 0..MaxHeld
  /\ \E o \in Calls \cap PathCalls, r \in Paths :
       /\ o \in CreateCalls =>
            CreatExisting \/ OnDisk(IF r.abs THEN ROOT ELSE entered[p], r.names) = 0
       /\ ResolveFrom(p, o, r.abs, r.names,
                      IF o \in CreateCalls THEN Front(r.names) ELSE r.names)
  /\ UNCHANGED <<entryVars, flags, parent, stat_cached_dentries, inodeVars, dirents,
                 fileVars, cwdVars, frames>>

\* sys_open, after vfs_create: the walk over the whole path.
Again(p) ==
  /\ At(p, "again")
  /\ ResolveFrom(p, "open", loc[p].abs, loc[p].path, loc[p].path)
  /\ UNCHANGED <<entryVars, flags, parent, stat_cached_dentries, inodeVars, dirents,
                 fileVars, cwdVars, frames>>

\* vfs_lookup of the next name, where "." is the directory itself; without it the walk
\* ends with ENOENT.
Walk(p) ==
  /\ At(p, "walk") /\ loc[p].names # <<>>
  /\ LET dir == loc[p].cur
         name == Head(loc[p].names)
         found == IF IsDir(dir) THEN Lookup(inode_indx[dir], name) ELSE {}
     IN  \/ /\ name = "." /\ IsDir(dir)
            /\ ~Locked(dir)
            /\ dentry_duplicate(dir)
            /\ Go(p, [loc[p] EXCEPT !.pc = "linked", !.tgt = dir])
         \/ /\ name # "."
            /\ \E i \in found :
                 Go(p, [loc[p] EXCEPT !.pc = "get", !.want = i, !.ret = "linked"])
            /\ UNCHANGED d_count
         \/ /\ found = {}
            /\ Go(p, NoCall)
            /\ UNCHANGED d_count
  /\ UNCHANGED <<entryVars, flags, parent, stat_cached_dentries, inodeVars, dirents,
                 fileVars, cwdVars, frames>>

\* The next iteration of the walk, at new.
Onwards(p, new) ==
  Go(p, [loc[p] EXCEPT !.pc = "walk", !.cur = new, !.tgt = NULL, !.names = Tail(@)])

(***************************************************************************)
(* The end of an iteration of the walk: the dentry that was found gets its  *)
(* parent, except for "..", and the directory is put.                       *)
(***************************************************************************)
Link(p) ==
  /\ At(p, "linked")
  /\ LET par == loc[p].cur
         new == loc[p].tgt
     IN  /\ IF new # par /\ parent[par] # new
              THEN /\ ~Locked(new) /\ ~Locked(par)
                   /\ parent' = [parent EXCEPT ![new] = par]
                   /\ dentry_duplicate(par)
              ELSE UNCHANGED <<parent, d_count>>
         /\ Onwards(p, new)
         /\ PutAll(p, <<par>>)
  /\ UNCHANGED <<entryVars, flags, stat_cached_dentries, inodeVars, dirents, fileVars,
                 cwdVars>>

-----------------------------------------------------------------------------
\* The walk of call o is over: vfs_resolve_path_start_from returned e.
Resolved(p, o, e) ==
  At(p, "walk") /\ loc[p].names = <<>> /\ loc[p].op = o /\ e = loc[p].cur

\* file_init_path: file f on dentry e, in the descriptor n.
FileInit(p, n, f, e) ==
  /\ fds' = [fds EXCEPT ![p][n] = f]
  /\ fcount' = [fcount EXCEPT ![f] = 1]
  /\ fdentry' = [fdentry EXCEPT ![f] = e]
  /\ opened' = [opened EXCEPT ![f] = inode_indx[e]]

\* The descriptor and the file that sys_open takes.
FreeFds(p) == {n \in Fds : fds[p][n] = NULL}
FreeFiles  == {f \in Files : fcount[f] = 0}

\* A mutant of Open: an error returns without path_put.
OpenLeaksPath(p) ==
  /\ \E e \in Entries :
       /\ Resolved(p, "open", e)
       /\ \/ /\ FreeFds(p) # {} /\ FreeFiles # {} /\ ~Locked(e)
             /\ FileInit(p, Lowest(FreeFds(p)), Lowest(FreeFiles), e)
             /\ dentry_duplicate(e)
             /\ Leave(p, <<e>>)
          \/ Leave(p, <<>>) /\ UNCHANGED <<fileVars, d_count>>
  /\ UNCHANGED <<entryVars, flags, parent, stat_cached_dentries, inodeVars, dirents,
                 cwdVars>>

(***************************************************************************)
(* vfs_open, and the path_put of sys_open: a new file on the dentry, of a   *)
(* directory with O_DIRECTORY, or an error (a directory without, no          *)
(* permission, no descriptor) that changes nothing.                         *)
(***************************************************************************)
Open(p) ==
  /\ \E e \in Entries :
       /\ Resolved(p, "open", e)
       /\ \/ /\ FreeFds(p) # {} /\ FreeFiles # {} /\ ~Locked(e)
             /\ FileInit(p, Lowest(FreeFds(p)), Lowest(FreeFiles), e)
             /\ dentry_duplicate(e)
          \/ UNCHANGED <<fileVars, d_count>>
       /\ Leave(p, <<e>>)
  /\ UNCHANGED <<entryVars, flags, parent, stat_cached_dentries, inodeVars, dirents,
                 cwdVars>>

\* proc_chdir: the old cwd is put and the walk's result kept, for a directory.
Chdir(p) ==
  /\ \E e \in Entries :
       /\ Resolved(p, "chdir", e)
       /\ \/ /\ IsDir(e)
             /\ Leave(p, <<cwd[p]>>)
             /\ cwd' = [cwd EXCEPT ![p] = e]
             /\ entered' = [entered EXCEPT ![p] = inode_indx[e]]
          \/ /\ ~IsDir(e)
             /\ Leave(p, <<e>>)
             /\ UNCHANGED cwdVars
  /\ UNCHANGED <<cacheVars, inodeVars, dirents, fileVars>>

\* _ext2_rm_child: the directory entries without the one of e in the directory d.
Without(d, e) == {x \in dirents : ~(x[1] = inode_indx[d] /\ x[3] = inode_indx[e])}

\* ext2_rm: the name goes, and the file loses a link.
ext2_rm(e) ==
  /\ parent[e] # NULL
  /\ ~Locked(e) /\ ~Locked(parent[e])
  /\ dirents' = Without(parent[e], e)
  /\ touch({e})

\* A mutant of Unlink: the inode goes at once, whoever has the file open.
UnlinkAtOnce(p) ==
  /\ \E e \in Entries :
       /\ Resolved(p, "unlink", e)
       /\ \/ ~IsDir(e) /\ ext2_rm(e) /\ kind' = [kind EXCEPT ![inode_indx[e]] = "free"]
          \/ IsDir(e) /\ UNCHANGED <<dirents, inode, latest, kind>>
       /\ Leave(p, <<e>>)
  /\ UNCHANGED <<nblocks, d_count, inode_indx, flags, parent, area, can_cache_inodes,
                 stat_cached_dentries, stat_cached_inodes_area_size, disk, fileVars,
                 cwdVars>>

\* vfs_unlink, for a file with one link: the inode goes with the last holder of the dentry.
Unlink(p) ==
  /\ \E e \in Entries :
       /\ Resolved(p, "unlink", e)
       /\ \/ /\ ~IsDir(e)
             /\ flags' = [flags EXCEPT ![e] = @ \cup {"TO_BE_DELETED", "DIRTY"}]
             /\ ext2_rm(e)
          \/ /\ IsDir(e)
             /\ UNCHANGED <<flags, dirents, inode, latest>>
       /\ Leave(p, <<e>>)
  /\ UNCHANGED <<nblocks, d_count, inode_indx, parent, area, can_cache_inodes,
                 stat_cached_dentries, stat_cached_inodes_area_size, kind, disk,
                 fileVars, cwdVars>>

\* ext2_rmdir of an empty directory: the name goes, and the directory and its parent
\* lose links.  The parent is not marked dirty.
ext2_rmdir(e) ==
  /\ ~Locked(e) /\ ~Locked(parent[e])
  /\ dirents' = {x \in Without(parent[e], e) : x[1] # inode_indx[e]}
  /\ touch({e, parent[e]})

\* A mutant of Rmdir: other holders of the directory do not count, and the inode goes
\* at once.
RmdirInUse(p) ==
  /\ \E e \in Entries :
       /\ Resolved(p, "rmdir", e)
       /\ LET busy == \/ ~IsDir(e) \/ parent[e] = NULL
                      \/ \E x \in dirents : x[1] = inode_indx[e] /\ x[2] # ".."
          IN  \/ ~busy /\ ext2_rmdir(e) /\ kind' = [kind EXCEPT ![inode_indx[e]] = "free"]
              \/ busy /\ UNCHANGED <<dirents, inode, latest, kind>>
       /\ Leave(p, <<e>>)
  /\ UNCHANGED <<nblocks, d_count, inode_indx, flags, parent, area, can_cache_inodes,
                 stat_cached_dentries, stat_cached_inodes_area_size, disk, fileVars,
                 cwdVars>>

\* vfs_rmdir: a directory that only this call holds.
Rmdir(p) ==
  /\ \E e \in Entries :
       /\ Resolved(p, "rmdir", e)
       /\ LET busy == \/ ~IsDir(e) \/ d_count[e] # 1 \/ parent[e] = NULL
                      \/ \E x \in dirents : x[1] = inode_indx[e] /\ x[2] # ".."
          IN  \/ /\ ~busy
                 /\ ext2_rmdir(e)
                 /\ flags' = [flags EXCEPT ![e] = @ \cup {"TO_BE_DELETED", "DIRTY"}]
              \/ busy /\ UNCHANGED <<flags, dirents, inode, latest>>
       /\ Leave(p, <<e>>)
  /\ UNCHANGED <<nblocks, d_count, inode_indx, parent, area, can_cache_inodes,
                 stat_cached_dentries, stat_cached_inodes_area_size, kind, disk,
                 fileVars, cwdVars>>

-----------------------------------------------------------------------------
\* _ext2_allocate_inode_index takes the first of them.
FreeInodes == {i \in Inodes : kind[i] = "free"}

NewName(p) == loc[p].path[Len(loc[p].path)]

\* The directory and what the call created are put; then sys_open resolves the whole
\* path, if the call is one of calls.
GoOn(p, calls, s) ==
  IF loc[p].op \in calls
    THEN /\ Go(p, [loc[p] EXCEPT !.pc = "again", !.cur = NULL, !.tgt = NULL])
         /\ PutAll(p, s)
    ELSE Leave(p, s)

\* vfs_create: vfs_lookup finds a dentry with the name of the new file.
CreateFound(p) ==
  /\ \E o \in {"creat", "excl"}, e \in Entries :
       /\ Resolved(p, o, e) /\ IsDir(e)
       /\ \E i \in Lookup(inode_indx[e], NewName(p)) :
            Go(p, [loc[p] EXCEPT !.pc = "get", !.want = i, !.ret = "exists"])
  /\ UNCHANGED <<cacheVars, inodeVars, dirents, fileVars, cwdVars, frames>>

\* EEXIST: path_put of that dentry, and of the directory.
CreateExists(p) ==
  /\ At(p, "exists")
  /\ GoOn(p, {"creat"}, <<loc[p].tgt, loc[p].cur>>)
  /\ UNCHANGED <<cacheVars, inodeVars, dirents, fileVars, cwdVars>>

\* ext2_create and ext2_mkdir: the first free inode is taken.
CreateInode(p) ==
  /\ \E o \in CreateCalls, e \in Entries :
       /\ Resolved(p, o, e) /\ IsDir(e)
       /\ o = "mkdir" \/ Lookup(inode_indx[e], NewName(p)) = {}
       /\ FreeInodes # {}
       /\ LET i == Lowest(FreeInodes) IN
          /\ kind' = [kind EXCEPT ![i] = IF o = "mkdir" THEN "dir" ELSE "file"]
          /\ Go(p, [loc[p] EXCEPT !.pc = "get", !.want = i, !.ret = "created"])
  /\ UNCHANGED <<cacheVars, disk, latest, dirents, fileVars, cwdVars, frames>>

\* ENOTDIR and ENOSPC: only the directory is put.
CreateFails(p) ==
  /\ \E o \in CreateCalls, e \in Entries :
       /\ Resolved(p, o, e)
       /\ ~IsDir(e) \/ FreeInodes = {}
       /\ GoOn(p, {"creat"}, <<e>>)
  /\ UNCHANGED <<cacheVars, inodeVars, dirents, fileVars, cwdVars>>

\* _ext2_add_child: the directory entries that inode i named n in the directory d adds.
NewDirents(d, n, i, mkdir) ==
  {<<d, n, i>>} \cup (IF mkdir THEN {<<i, "..", d>>} ELSE {})

(***************************************************************************)
(* The rest of ext2_create and ext2_mkdir: the inode is set up, its name    *)
(* goes into the directory, and a new directory gives its parent a link.    *)
(***************************************************************************)
Created(p) ==
  /\ At(p, "created")
  /\ LET e == loc[p].tgt
         d == loc[p].cur
         new == loc[p].want
         mkdir == loc[p].op = "mkdir"
         changed == IF mkdir THEN {e, d} ELSE {e}
     IN  /\ touch(changed)
         /\ flags' = [x \in Entries |->
                        IF x \in changed THEN flags[x] \cup {"DIRTY"} ELSE flags[x]]
         /\ dirents' = dirents \cup NewDirents(inode_indx[d], NewName(p), new, mkdir)
         /\ GoOn(p, {"creat", "excl"}, <<e, d>>)
  /\ UNCHANGED <<nblocks, d_count, inode_indx, parent, area, can_cache_inodes,
                 stat_cached_dentries, stat_cached_inodes_area_size, kind, disk,
                 fileVars, cwdVars>>

-----------------------------------------------------------------------------
Can(p, c) == c \in Calls /\ At(p, "idle") /\ cwd[p] # NULL

\* vfs_write: the inode changes in memory.
Write(p) ==
  /\ Can(p, "write")
  /\ \E n \in Fds :
       /\ fds[p][n] # NULL
       /\ LET e == fdentry[fds[p][n]] IN
          /\ ~Locked(e)
          /\ touch({e})
          /\ flags' = [flags EXCEPT ![e] = @ \cup {"DIRTY"}]
  /\ UNCHANGED <<nblocks, d_count, inode_indx, parent, area, can_cache_inodes,
                 stat_cached_dentries, stat_cached_inodes_area_size, kind, disk,
                 dirents, fileVars, cwdVars, loc, frames>>

\* sys_fsync
Fsync(p) ==
  /\ Can(p, "fsync")
  /\ \E n \in Fds : /\ fds[p][n] # NULL
                    /\ ~Locked(fdentry[fds[p][n]])
                    /\ dentry_flush({fdentry[fds[p][n]]})
  /\ UNCHANGED <<entryVars, d_count, parent, stat_cached_dentries, kind, latest,
                 dirents, fileVars, cwdVars, loc, frames>>

\* file_put, for the file of a descriptor that is closed: sys_close, and the loop of
\* proc_free.
FilePut(p) ==
  /\ \E n \in Fds :
       LET f == fds[p][n]
           last == fcount[f] = 1
       IN  /\ f # NULL
           /\ fds' = [fds EXCEPT ![p][n] = NULL]
           /\ fcount' = [fcount EXCEPT ![f] = @ - 1]
           /\ PutAll(p, IF last THEN <<fdentry[f]>> ELSE <<>>)
           /\ fdentry' = [fdentry EXCEPT ![f] = IF last THEN NULL ELSE @]
           /\ opened' = [opened EXCEPT ![f] = IF last THEN 0 ELSE @]
  /\ UNCHANGED <<cacheVars, inodeVars, dirents, cwdVars, loc>>

Close(p) == Can(p, "close") /\ FilePut(p)

\* The process dies: proc_free closes its files and then puts the cwd.
Exit(p) ==
  /\ Can(p, "exit")
  /\ \E q \in Procs \ {p} : cwd[q] # NULL          \* bound: not the last one
  /\ GoTo(p, "exit")
  /\ UNCHANGED <<cacheVars, inodeVars, dirents, fileVars, cwdVars, frames>>

ExitClose(p) == At(p, "exit") /\ FilePut(p)

ExitCwd(p) ==
  /\ At(p, "exit") /\ FreeFds(p) = Fds
  /\ Leave(p, <<cwd[p]>>)
  /\ cwd' = [cwd EXCEPT ![p] = NULL]
  /\ entered' = [entered EXCEPT ![p] = 0]
  /\ UNCHANGED <<cacheVars, inodeVars, dirents, fileVars>>

\* proc_fork_from: the child shares the files and the cwd of its parent.
Fork(p) ==
  /\ Can(p, "fork") /\ ~Locked(cwd[p])
  /\ \E q \in Procs :
       /\ cwd[q] = NULL /\ Out(q)
       /\ cwd' = [cwd EXCEPT ![q] = cwd[p]]
       /\ entered' = [entered EXCEPT ![q] = entered[p]]
       /\ fds' = [fds EXCEPT ![q] = fds[p]]
       /\ fcount' = [f \in Files |-> fcount[f] + Cardinality({n \in Fds : fds[p][n] = f})]
  /\ dentry_duplicate(cwd[p])
  /\ UNCHANGED <<entryVars, flags, parent, stat_cached_dentries, inodeVars, dirents,
                 fdentry, opened, loc, frames>>

(***************************************************************************)
(* kdentryflusherd, over one block: with interrupts off it writes every     *)
(* dirty inode whose dentry is not locked.                                  *)
(***************************************************************************)
Flusher ==
  /\ Preemptible \/ \A q \in Procs : Out(q)
  /\ \E b \in 0..(nblocks - 1) :
       dentry_flush({e \in (b * BlockLen + 1)..((b + 1) * BlockLen) :
                        inode_indx[e] # 0 /\ ~Locked(e)})
  /\ UNCHANGED <<entryVars, d_count, parent, stat_cached_dentries, kind, latest,
                 dirents, fileVars, cwdVars, loc, frames>>

-----------------------------------------------------------------------------
\* The steps of the kernel inside a call that process p made.
Kernel(p) ==
  \/ Get(p) \/ Dup(p) \/ Alloc(p) \/ Fill(p) \/ Put(p) \/ PutImpl(p)
  \/ Again(p) \/ Walk(p) \/ Link(p)
  \/ Open(p) \/ Chdir(p) \/ Unlink(p) \/ Rmdir(p)
  \/ CreateFound(p) \/ CreateExists(p) \/ CreateInode(p) \/ CreateFails(p) \/ Created(p)
  \/ ExitClose(p) \/ ExitCwd(p)

\* The calls a process makes.
User(p) == Begin(p) \/ Write(p) \/ Fsync(p) \/ Close(p) \/ Exit(p) \/ Fork(p)

Next == Flusher \/ \E p \in Procs : Kernel(p) \/ User(p)

\* A call the kernel has begun goes on.
Fairness == \A p \in Procs : WF_vars(Kernel(p))

Spec == Init /\ [][Next]_vars /\ Fairness

=============================================================================
