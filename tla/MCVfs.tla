------------------------------- MODULE MCVfs -------------------------------
(***************************************************************************)
(* The properties of Vfs, and the paths that its runs give to the calls.    *)
(***************************************************************************)
EXTENDS Vfs

Abs(ns) == [abs |-> TRUE, names |-> ns]
Rel(ns) == [abs |-> FALSE, names |-> ns]

PathsTree  == {Abs(<<"d">>), Abs(<<"d", "f">>), Rel(<<"f">>)}
PathsCalls == PathsTree \cup {Abs(<<"d", "..">>)}
PathsNew   == {Abs(<<"d", "f">>), Abs(<<"f">>)}
PathsDirs  == {Abs(<<"d">>), Abs(<<"d", "f">>), Abs(<<"d", "..">>), Rel(<<".">>)}

-----------------------------------------------------------------------------
(***************************************************************************)
(* The references to dentry d that somebody will put: the working           *)
(* directories, the open files, the dentries whose parent it is, what a     *)
(* call under way holds, and the dentry_put calls that have not begun.  A   *)
(* dentry that the walk has just taken from the cache, where nobody held    *)
(* it, still has the parent it had before; Link overwrites it.              *)
(***************************************************************************)
Stale(e) == d_count[e] = 1 /\ \E p \in Procs : loc[p].pc = "linked" /\ loc[p].tgt = e
Held(p) ==      \* what the call of p holds, besides its frames
  CASE loc[p].pc \in {"idle", "again", "exit"} -> {}
    [] loc[p].pc \in Getting -> IF loc[p].ret = "walk" THEN {} ELSE {<<"cur", loc[p].cur>>}
    [] loc[p].pc = "walk" -> {<<"cur", loc[p].cur>>}
    [] OTHER -> {<<"cur", loc[p].cur>>, <<"tgt", loc[p].tgt>>}

Refs(d) ==
  Cardinality({p \in Procs : cwd[p] = d})
  + Cardinality({f \in Files : fdentry[f] = d})
  + Cardinality({e \in Entries : d_count[e] > 0 /\ parent[e] = d /\ ~Stale(e)})
  + Cardinality({<<p, w>> \in Procs \X {"cur", "tgt"} : <<w, d>> \in Held(p)})
  + Cardinality({<<p, i>> \in Procs \X (1..5) :
                    i <= Len(frames[p]) /\ frames[p][i] = <<"put", d>>})

\* Nobody's dentry is given back under him: d_count is at least the number of
\* references that dentry_put will give back, over all the paths by which the walk,
\* open, chdir, fork and exit take and drop them.
RefsCovered == \A d \in Entries : d_count[d] >= Refs(d)

\* An inode is held by one dentry only, whatever dentry_get finds, allocates or
\* reuses; two of them would hold, and write back, different contents.
OneDentryPerInode ==
  \A d, e \in Entries : inode_indx[d] = inode_indx[e] /\ inode_indx[d] # 0 => d = e

\* A descriptor stays on the inode it was opened on, and a process in the directory
\* it entered: dentry_put deletes the inode only with the last holder, and neither
\* dentry_alloc_new nor free_inode_cache takes the dentry away from a holder.
OpenInodeKept ==
  /\ \A f \in Files : fcount[f] > 0 =>
       /\ inode_indx[fdentry[f]] = opened[f]
       /\ kind[opened[f]] # "free"
       /\ area[fdentry[f]] = "live"
  /\ \A p \in Procs : cwd[p] # NULL =>
       inode_indx[cwd[p]] = entered[p] /\ kind[entered[p]] = "dir"

\* All together: states have their types, and a holder's dentry is counted for
\* it and stays what it was.
HoldersKept == VfsTypeOK /\ RefsCovered /\ OpenInodeKept

\* No change of an inode is lost: what is cached is the latest content, and the
\* disk has it, or the dentry is marked dirty, so that dentry_put or kdentryflusherd
\* will write it before the entry is reused.
NoLostUpdate ==
  \A i \in Inodes : kind[i] # "free" =>
    \/ Cached(i) = {} /\ disk[i] = latest[i]
    \/ \E e \in Cached(i) : /\ inode[e] = latest[i]
                            /\ "DIRTY" \in flags[e] \/ disk[i] = latest[i]

\* An unlinked file that nobody has open any more is deleted: when no call is under
\* way, every file on the disk has a name or is open.  A reference to a file that some
\* call leaks breaks it.
NoOrphan ==
  (\A p \in Procs : Out(p)) =>
    \A i \in Inodes : kind[i] = "file" =>
      \/ \E x \in dirents : x[3] = i
      \/ \E f \in Files : fcount[f] > 0 /\ opened[f] = i

\* Every call returns: no thread waits for a dentry_t::lock that it holds itself.
CallReturns == \A p \in Procs : ~Out(p) ~> Out(p)

-----------------------------------------------------------------------------
\* ASSERT(dentry->d_count > 0) of dentry_put_locked.
PutAsserted ==
  \A p \in Procs : frames[p] # <<>> /\ Head(frames[p])[1] = "put" =>
    d_count[Head(frames[p])[2]] > 0

=============================================================================
