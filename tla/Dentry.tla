------------------------------- MODULE Dentry -------------------------------
(***************************************************************************)
(* The dentry cache, kernel/kernel/fs/dentry.c, over the inodes of one      *)
(* mounted file system.  Each operator is one critical section of the code: *)
(* what it does between taking a lock and giving it back.  The module Vfs   *)
(* puts them together into system calls.                                    *)
(*                                                                          *)
(* An entry of the cache is a number; the entries of a block follow each    *)
(* other, and dentry_cache_alloc adds a block of BlockLen entries.  The     *)
(* content of an inode (mode, links_count, size, times) is one bit that     *)
(* every change of the inode flips.                                         *)
(***************************************************************************)
EXTENDS Integers, FiniteSets

CONSTANTS
  BlockLen,         \* entries of one dentry_cache_list block
  MaxBlocks,        \* bound: blocks the cache may grow to
  NInodes,          \* inodes of the file system
  InodeCacheLimit   \* DENTRY_SWAP_THRESHOLD_FOR_INODE_CACHE, in inodes

ASSUME DentryAssumption ==
  /\ BlockLen \in Nat \ {0} /\ MaxBlocks \in Nat \ {0}
  /\ NInodes \in Nat \ {0} /\ InodeCacheLimit \in Nat

VARIABLES
  nblocks,      \* blocks of the list dentry_cache
  d_count,      \* dentry_t::d_count
  inode_indx,   \* dentry_t::inode_indx, 0 for an entry without a dentry
  flags,        \* dentry_t::flags
  parent,       \* dentry_t::parent
  inode,        \* the content of the area dentry_t::inode points to
  area,         \* that area: "none" (a null pointer), "live" or "freed"
  can_cache_inodes, stat_cached_dentries,
  stat_cached_inodes_area_size,   \* in inodes
  kind,         \* the inode on the disk: "free", "dir" or "file"
  disk,         \* its content on the disk
  latest        \* history: the content the last change gave it

cacheVars == <<nblocks, d_count, inode_indx, flags, parent, inode, area,
               can_cache_inodes, stat_cached_dentries,
               stat_cached_inodes_area_size>>
entryVars == <<nblocks, inode_indx, inode, area, can_cache_inodes,
               stat_cached_inodes_area_size>>
inodeVars == <<kind, disk, latest>>

NULL    == 0
Entries == 1..(MaxBlocks * BlockLen)
Present == 1..(nblocks * BlockLen)
Inodes  == 1..NInodes
ROOT    == 1                     \* the code's inode 2
Flag    == {"DIRTY", "TO_BE_DELETED"}

DentryTypeOK ==
  /\ nblocks \in 0..MaxBlocks
  /\ d_count \in [Entries -> Nat]
  /\ inode_indx \in [Entries -> Inodes \cup {0}]
  /\ flags \in [Entries -> SUBSET Flag]
  /\ parent \in [Entries -> Entries \cup {NULL}]
  /\ inode \in [Entries -> {0, 1}]
  /\ area \in [Entries -> {"none", "live", "freed"}]
  /\ can_cache_inodes \in BOOLEAN
  /\ stat_cached_dentries \in Int
  /\ stat_cached_inodes_area_size \in Int
  /\ kind \in [Inodes -> {"free", "dir", "file"}]
  /\ disk \in [Inodes -> {0, 1}]
  /\ latest \in [Inodes -> {0, 1}]

Lowest(S) == CHOOSE e \in S : \A f \in S : e <= f
Highest(S) == CHOOSE e \in S : \A f \in S : f <= e

Cached(i) == {e \in Present : inode_indx[e] = i}

\* The counter is unsigned: below zero it wraps to a huge size.
need_to_free_inode_cache(size) == size > InodeCacheLimit \/ size < 0

-----------------------------------------------------------------------------
(***************************************************************************)
(* dentry_cache_find_empty_entry: the first entry without a dentry, else    *)
(* the last one nobody holds, else the first of a new block.                *)
(***************************************************************************)
find_empty_entry(e) ==
  LET empty  == Cached(0)
      unheld == {x \in Present : d_count[x] = 0}
  IN  IF empty # {} THEN e = Lowest(empty) /\ UNCHANGED nblocks
      ELSE IF unheld # {} THEN e = Highest(unheld) /\ UNCHANGED nblocks
      ELSE /\ nblocks < MaxBlocks
           /\ e = nblocks * BlockLen + 1
           /\ nblocks' = nblocks + 1

\* The rest of dentry_alloc_new: entry e becomes the dentry of inode i.
dentry_alloc_new(e, i) ==
  LET allocated == inode_indx[e] # 0 IN
  /\ d_count' = [d_count EXCEPT ![e] = 1]
  /\ flags' = [flags EXCEPT ![e] = {}]
  /\ inode_indx' = [inode_indx EXCEPT ![e] = i]
  /\ parent' = [parent EXCEPT ![e] = NULL]
  /\ area' = [area EXCEPT ![e] = IF allocated THEN @ ELSE "live"]
  /\ stat_cached_inodes_area_size' =
       stat_cached_inodes_area_size + (IF allocated THEN 0 ELSE 1)
  /\ inode' = [inode EXCEPT ![e] = disk[i]]              \* read_inode
  /\ stat_cached_dentries' = stat_cached_dentries + 1
  /\ UNCHANGED <<nblocks, can_cache_inodes>>

\* dentry_duplicate
dentry_duplicate(e) == d_count' = [d_count EXCEPT ![e] = @ + 1]

\* A change of the inodes of the dentries in S, in memory; the caller marks them dirty.
touch(S) ==
  /\ inode' = [e \in Entries |-> IF e \in S THEN 1 - inode[e] ELSE inode[e]]
  /\ latest' = [i \in Inodes |->
                  IF \E e \in S : inode_indx[e] = i
                    THEN 1 - inode[CHOOSE e \in S : inode_indx[e] = i]
                    ELSE latest[i]]

\* The dentries in S whose inode dentry_flush_inode_locked writes.
ToWrite(S) == {e \in S : "DIRTY" \in flags[e] /\ area[e] # "none"}

\* ext2_write_inode, for the dentries in W.
write_inode(W) ==
  disk' = [i \in Inodes |->
             IF \E e \in W : inode_indx[e] = i
               THEN inode[CHOOSE e \in W : inode_indx[e] = i] ELSE disk[i]]

\* ext2_free_inode: nothing is freed for the index 0 of an entry without a dentry.
free_inode(i) ==
  /\ kind'   = [x \in Inodes |-> IF x = i THEN "free" ELSE kind[x]]
  /\ disk'   = [x \in Inodes |-> IF x = i THEN 0 ELSE disk[x]]
  /\ latest' = [x \in Inodes |-> IF x = i THEN 0 ELSE latest[x]]

\* A mutant of dentry_flush: the flag is removed and nothing is written.
FlushNothing(S) ==
  /\ UNCHANGED disk
  /\ flags' = [e \in Entries |-> IF e \in S THEN flags[e] \ {"DIRTY"} ELSE flags[e]]

\* dentry_flush_inode_locked, for the dentries in S.
dentry_flush(S) ==
  /\ write_inode(ToWrite(S))
  /\ flags' = [e \in Entries |->
                 IF e \in ToWrite(S) THEN flags[e] \ {"DIRTY"} ELSE flags[e]]

\* dentry_delete_from_cache_locked
dentry_delete_from_cache(e) ==
  /\ inode_indx' = [inode_indx EXCEPT ![e] = 0]
  /\ area' = [area EXCEPT ![e] = IF @ = "none" THEN @ ELSE "freed"]
  /\ stat_cached_inodes_area_size' = stat_cached_inodes_area_size - 1
  /\ can_cache_inodes' =
       (can_cache_inodes \/ ~need_to_free_inode_cache(stat_cached_inodes_area_size - 1))

\* free_inode_cache: every entry that nobody holds loses its inode.
free_inode_cache ==
  LET unheld == {x \in Present : d_count[x] = 0}
      size   == stat_cached_inodes_area_size - Cardinality(unheld)
  IN  /\ inode_indx' = [x \in Entries |-> IF x \in unheld THEN 0 ELSE inode_indx[x]]
      /\ area' = [x \in Entries |->
                    IF x \in unheld /\ area[x] # "none" THEN "freed" ELSE area[x]]
      /\ stat_cached_inodes_area_size' = size
      /\ can_cache_inodes' = (can_cache_inodes /\ ~need_to_free_inode_cache(size))

\* dentry_prefree_locked
dentry_prefree(e) ==
  /\ IF ~can_cache_inodes THEN dentry_delete_from_cache(e)
     ELSE IF need_to_free_inode_cache(stat_cached_inodes_area_size)
       THEN free_inode_cache
       ELSE UNCHANGED <<inode_indx, area, stat_cached_inodes_area_size,
                        can_cache_inodes>>
  /\ stat_cached_dentries' = stat_cached_dentries - 1

(***************************************************************************)
(* What dentry_put_impl_locked does with a dentry nobody holds any more,    *)
(* after it has put the parent: the inode is deleted, or it is written and  *)
(* the dentry stays in the cache.  The field parent keeps its value.        *)
(***************************************************************************)
dentry_put_impl(e) ==
  \/ /\ "TO_BE_DELETED" \in flags[e]
     /\ free_inode(inode_indx[e])
     /\ inode' = [inode EXCEPT ![e] = 0]
     /\ dentry_delete_from_cache(e)
     /\ UNCHANGED <<nblocks, d_count, flags, parent, stat_cached_dentries>>
  \/ /\ "TO_BE_DELETED" \notin flags[e]
     /\ dentry_flush({e})
     /\ dentry_prefree(e)
     /\ UNCHANGED <<nblocks, d_count, parent, inode, kind, latest>>

=============================================================================
