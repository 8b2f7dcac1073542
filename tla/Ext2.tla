-------------------------------- MODULE Ext2 --------------------------------
(* fs/ext2/ext2.c.  Blocks and inodes: the bitmaps and counts of the groups, *)
(* the tree of blocks below an inode, and the files that live in them.  A    *)
(* block has Cells cells, and a pointer to a block and a byte of a file take *)
(* a cell each; a new block holds what was in it before.  Directories, from  *)
(* _ext2_add_to_dir_block on: blocks of entries, each with the length of its *)
(* record, so that the records of a block cover it.  The dentries that cache *)
(* inodes are module Dentry.                                                 *)
EXTENDS Integers, Sequences, FiniteSets, FiniteSetsExt, SequencesExt, Functions

CONSTANTS
    Groups,       \* groups of the disk
    BLOCK_LEN,    \* bytes of a block; a bitmap has 8 bits for each
    FirstFree,    \* blocks of a group that mkfs uses, from the start of the group
    FreeBlocks,   \* blocks that are free in each group at first; _ext2_free_block_index
                  \* is right while they are among the first BLOCK_LEN of a group
    NInos,        \* inodes of a group that are free at first
    Cells,        \* cells of a block
    NDirect,      \* 12: pointers of an inode to data
    Backs, Gaps,  \* distances of writes before and past the end of a file
    Lens,         \* of reads and writes
    Cuts,         \* the lengths ftruncate is called with
    StalePointers, \* whether a block that was freed before may become one of pointers
                  \* of the second level, which is not cleared
    MaxFileBlocks, MaxCalls   \* bounds: blocks of a file, calls of a behaviour

ASSUME Ext2Assumption ==
    /\ {Groups, BLOCK_LEN, Cells, NDirect, NInos} \subseteq Nat \ {0}
    /\ Backs \cup Gaps \subseteq Nat /\ Lens \subseteq Nat /\ Cuts \subseteq Nat
    /\ StalePointers \in BOOLEAN

VARIABLE ex
\* used[g], count[g]: bitmap and free_blocks_count   iused[g], icount[g]: of inodes
\* inode[i]: [blocks, size, block]                   disk[b]: the cells of a block
\* dinode[i]: the inode on the disk                  held: files whose lock is never released
\* files: the inodes of files                        again: a block has been freed before
\* booted: there was a reboot                        calls: the number of calls so far
\* data[i]: what programs wrote to file i, safe[i]: what of it is there after a reboot

PerGroup == 8 * BLOCK_LEN                        \* blocks_per_group
GroupIds == 0 .. Groups - 1
Offs     == FirstFree .. FirstFree + FreeBlocks - 1
BlockIds == {PerGroup * g + off + 1 : g \in GroupIds, off \in Offs}
InoIds   == {NInos * g + off + 1 : g \in GroupIds, off \in 0 .. NInos - 1}
NoInode  == [blocks |-> 0, size |-> 0, block |-> [n \in 0 .. NDirect + 2 |-> 0]]

ExInit ==
    ex = [used   |-> [g \in GroupIds |-> (0 .. PerGroup - 1) \ Offs],
          count  |-> [g \in GroupIds |-> FreeBlocks],
          iused  |-> [g \in GroupIds |-> {}],
          icount |-> [g \in GroupIds |-> NInos],
          inode  |-> [i \in InoIds |-> NoInode],
          disk   |-> [b \in BlockIds |-> [c \in 0 .. Cells - 1 |-> 0]],
          dinode |-> [i \in InoIds |-> NoInode],
          files  |-> {}, held |-> {}, again |-> FALSE, booted |-> FALSE, calls |-> 0,
          data   |-> [i \in InoIds |-> <<>>], safe |-> [i \in InoIds |-> <<>>]]

-----------------------------------------------------------------------------
(* Allocation.  An operation on the state returns [ok, e, b]: whether it     *)
(* succeeded, the state after it and a block.                                *)

Done(e, b) == [ok |-> TRUE, e |-> e, b |-> b]
Fails(e)   == [ok |-> FALSE, e |-> e, b |-> 0]
Then(a, Continue(_)) == IF a.ok THEN Continue(a) ELSE a

Unset(set, bits) == (0 .. bits - 1) \ set

\* The first group, from group 0 on, whose count and bitmap both have a free one.
_ext2_allocate_block_index(e) ==
    LET gs == {g \in GroupIds : e.count[g] # 0 /\ Unset(e.used[g], PerGroup) # {}}
        g  == Min(gs)
        off == Min(Unset(e.used[g], PerGroup))
    IN IF gs = {} THEN Fails(e)
       ELSE Done([e EXCEPT !.used[g] = @ \cup {off}, !.count[g] = @ - 1],
                 PerGroup * g + off + 1)

\* Mutant: the index is not made to start from 0.
_ext2_free_block_indexFromOne(e, b) ==
    LET g == b \div PerGroup
    IN [e EXCEPT !.used[g] = @ \ {b % BLOCK_LEN}, !.count[g] = @ + 1, !.again = TRUE]

\* The offset is a remainder of the block's length, not of blocks_per_group.
_ext2_free_block_index(e, b) ==
    LET g == (b - 1) \div PerGroup
    IN [e EXCEPT !.used[g] = @ \ {(b - 1) % BLOCK_LEN}, !.count[g] = @ + 1, !.again = TRUE]

\* free_inodes_count is looked at and never decremented.
_ext2_allocate_inode_index(e) ==
    LET gs == {g \in GroupIds : e.icount[g] # 0 /\ Unset(e.iused[g], NInos) # {}}
        g  == Min(gs)
        off == Min(Unset(e.iused[g], NInos))
    IN IF gs = {} THEN Fails(e)
       ELSE Done([e EXCEPT !.iused[g] = @ \cup {off}], NInos * g + off + 1)

_ext2_free_inode_index(e, i) ==
    LET g == (i - 1) \div NInos
    IN [e EXCEPT !.iused[g] = @ \ {(i - 1) % NInos}, !.icount[g] = @ + 1]

-----------------------------------------------------------------------------
(* The tree of blocks: NDirect pointers in the inode, then one pointer each  *)
(* to a block of pointers, of pointers to those, and so on.                  *)

_ext2_get_block_of_inode_lev0(e, cur, n) == e.disk[cur][n]
_ext2_get_block_of_inode_lev1(e, cur, n) ==
    LET res == e.disk[cur][n \div Cells]
    IN IF res = 0 THEN 0 ELSE _ext2_get_block_of_inode_lev0(e, res, n % Cells)
_ext2_get_block_of_inode_lev2(e, cur, n) ==
    LET res == e.disk[cur][n \div (Cells * Cells)]
    IN IF res = 0 THEN 0 ELSE _ext2_get_block_of_inode_lev1(e, res, n % (Cells * Cells))

Lev0End == NDirect + Cells
Lev1End == Lev0End + Cells * Cells

_ext2_get_block_of_inode(e, i, n) ==
    LET top == e.inode[i].block IN
    CASE n < NDirect -> top[n]
      [] n >= NDirect /\ n < Lev0End ->
           _ext2_get_block_of_inode_lev0(e, top[NDirect], n - NDirect)
      [] n >= Lev0End /\ n < Lev1End ->
           _ext2_get_block_of_inode_lev1(e, top[NDirect + 1], n - Lev0End)
      [] OTHER -> _ext2_get_block_of_inode_lev2(e, top[NDirect + 2], n - Lev1End)

\* The block a cell of a block of pointers points to, a new one if it is 0.
Below(e, cur, off) ==
    IF e.disk[cur][off] # 0 THEN Done(e, e.disk[cur][off])
    ELSE Then(_ext2_allocate_block_index(e),
              LAMBDA a : Done([a.e EXCEPT !.disk[cur][off] = a.b], a.b))

_ext2_set_block_of_inode_lev0(e, cur, n, val) == Done([e EXCEPT !.disk[cur][n] = val], val)
_ext2_set_block_of_inode_lev1(e, cur, n, val) ==
    Then(Below(e, cur, n \div Cells),
         LAMBDA a : _ext2_set_block_of_inode_lev0(a.e, a.b, n % Cells, val))
_ext2_set_block_of_inode_lev2(e, cur, n, val) ==
    Then(Below(e, cur, n \div (Cells * Cells)),
         LAMBDA a : _ext2_set_block_of_inode_lev1(a.e, a.b, n % (Cells * Cells), val))

\* The same for the pointers of the inode itself.
Top(e, i, slot) ==
    IF e.inode[i].block[slot] # 0 THEN Done(e, e.inode[i].block[slot])
    ELSE Then(_ext2_allocate_block_index(e),
              LAMBDA a : Done([a.e EXCEPT !.inode[i].block[slot] = a.b], a.b))

_ext2_set_block_of_inode(e, i, n, val) ==
    CASE n < NDirect -> Done([e EXCEPT !.inode[i].block[n] = val], val)
      [] n >= NDirect /\ n < Lev0End ->
           Then(Top(e, i, NDirect),
                LAMBDA a : _ext2_set_block_of_inode_lev0(a.e, a.b, n - NDirect, val))
      [] n >= Lev0End /\ n < Lev1End ->
           Then(Top(e, i, NDirect + 1),
                LAMBDA a : _ext2_set_block_of_inode_lev1(a.e, a.b, n - Lev0End, val))
      [] OTHER ->
           Then(Top(e, i, NDirect + 2),
                LAMBDA a : _ext2_set_block_of_inode_lev2(a.e, a.b, n - Lev1End, val))

\* A new last block.  When there is none for the pointers the block is lost.
_ext2_allocate_block_for_inode(e, i) ==
    Then(_ext2_allocate_block_index(e),
         LAMBDA a : Then(_ext2_set_block_of_inode(a.e, i, e.inode[i].blocks, a.b),
                         LAMBDA s : Done([s.e EXCEPT !.inode[i].blocks = @ + 1], a.b)))

-----------------------------------------------------------------------------
(* Files.  Positions count from 0.                                           *)

\* What a program writes tells files, positions and overwriting apart.
Byte(i, pos) == 1000 * i + 2 * pos + (IF pos < ex.inode[i].size THEN 1 ELSE 0)

\* Positions that lie in block n of a file.
InBlock(n) == n * Cells .. n * Cells + Cells - 1

\* Block a.b of the file, its n-th, gets the positions here.
PutBytes(a, i, n, here) ==
    Done([a.e EXCEPT !.disk[a.b] =
            [c \in 0 .. Cells - 1 |->
               IF n * Cells + c \in here THEN Byte(i, n * Cells + c) ELSE @[c]]], a.b)

\* One turn of the loop of ext2_write: had is the number of blocks before the
\* call, w.n how much is written so far.
WriteBlock(w, i, n, had, span) ==
    LET here == span \cap InBlock(n)
        Counted(a) == [ok |-> a.ok, e |-> a.e, n |-> w.n + IF a.ok THEN Cardinality(here) ELSE 0]
    IN IF ~w.ok THEN w
       ELSE Counted(Then(IF had <= n THEN _ext2_allocate_block_for_inode(w.e, i)
                         ELSE Done(w.e, _ext2_get_block_of_inode(w.e, i, n)),
                         LAMBDA a : PutBytes(a, i, n, here)))

\* The last block of the loop is that of position start + len, so a write that
\* ends with a block allocates one more.
WriteBlocks(e, i, start, len) ==
    LET had == e.inode[i].blocks
        first == start \div Cells
        last == (start + len) \div Cells
    IN FoldLeft(LAMBDA w, n : WriteBlock(w, i, n, had, start .. start + len - 1),
                [ok |-> TRUE, e |-> e, n |-> 0],
                [k \in 1 .. last - first + 1 |-> first + k - 1])

\* s with len bytes of file i from start on.
Overlaid(s, i, start, len) ==
    [p \in 1 .. Len(s) |-> IF p - 1 \in start .. start + len - 1 THEN Byte(i, p - 1) ELSE s[p]]

\* An error leaves the function with the dentry's lock held.
ext2_write(i, start, len) ==
    LET end == start + len
        size == Max({ex.inode[i].size, end})
        grown == [p \in 1 .. size |-> IF p <= Len(ex.data[i]) THEN ex.data[i][p] ELSE 0]
    IN /\ i \in ex.files \ ex.held
       /\ \E w \in {WriteBlocks(ex, i, start, len)} :
          ex' = IF w.ok
                THEN [w.e EXCEPT !.calls = @ + 1, !.inode[i].size = size,
                                 !.data[i] = Overlaid(grown, i, start, len),
                                 !.safe[i] = Overlaid(@, i, start, len)]
                ELSE [w.e EXCEPT !.calls = @ + 1, !.held = @ \cup {i},
                                 !.safe[i] = Overlaid(@, i, start, w.n)]

\* What ext2_read copies out.
ext2_read(e, i, start, len) ==
    LET nd == e.inode[i]
        last == IF start + len = 0 THEN nd.blocks - 1     \* 0 - 1 wraps
                ELSE Min({(start + len - 1) \div Cells, nd.blocks - 1})
        n == Min({len, nd.size - start, (last + 1) * Cells - start})
    IN IF start >= nd.size THEN <<>>
       ELSE [k \in 1 .. n |->
               LET pos == start + k - 1
               IN e.disk[_ext2_get_block_of_inode(e, i, pos \div Cells)][pos % Cells]]

\* Blocks past the new end are freed and stay in the inode; for len = 0 the last
\* byte is number 2^32 - 1 and none is freed.
ext2_truncate(i, len) ==
    LET nd == ex.inode[i]
        from == IF len = 0 THEN nd.blocks ELSE (len - 1) \div Cells + 1
        gone == [k \in 1 .. Max({nd.blocks - from, 0}) |->
                   _ext2_get_block_of_inode(ex, i, from + k - 1)]
        e == FoldLeft(_ext2_free_block_index, ex, gone)
    IN /\ i \in ex.files \ ex.held
       /\ nd.size > len
       /\ ex' = [e EXCEPT !.calls = @ + 1, !.inode[i].size = len, !.data[i] = SubSeq(@, 1, len)]

\* _ext2_setup_file on the inode dentry_get read; its pointers stay.
ext2_create ==
    LET a == _ext2_allocate_inode_index(ex)
    IN /\ a.ok
       /\ ex' = [a.e EXCEPT !.calls = @ + 1, !.files = @ \cup {a.b},
                            !.inode[a.b] = [@ EXCEPT !.blocks = 0, !.size = 0],
                            !.data[a.b] = <<>>, !.safe[a.b] = <<>>]

\* The blocks of data are freed, those of pointers are not.
ext2_free_inode(i) ==
    LET blocks == [k \in 1 .. ex.inode[i].blocks |-> _ext2_get_block_of_inode(ex, i, k - 1)]
        e == FoldLeft(_ext2_free_block_index, ex, blocks)
    IN /\ i \in ex.files \ ex.held
       /\ ex' = [_ext2_free_inode_index(e, i)
                 EXCEPT !.calls = @ + 1, !.inode[i] = NoInode, !.dinode[i] = NoInode,
                        !.files = @ \ {i},
                        !.data[i] = <<>>, !.safe[i] = <<>>]

\* The dentry is flushed, or the file synced.
ext2_write_inode(i) ==
    /\ i \in ex.files \ ex.held
    /\ ex' = [ex EXCEPT !.calls = @ + 1, !.dinode[i] = ex.inode[i], !.safe[i] = ex.data[i]]

\* The machine is switched off; ext2_prepare_fs reads the group table, which
\* nothing has written since mkfs, and ext2_read_inode the inodes.
Rebooted(e) ==
    [e EXCEPT !.calls = @ + 1, !.inode = e.dinode, !.held = {}, !.data = e.safe, !.booted = TRUE,
              !.count = [g \in GroupIds |-> FreeBlocks], !.icount = [g \in GroupIds |-> NInos]]
Reboot == ~ex.booted /\ ex' = Rebooted(ex)

\* The same in the middle of a call.  A file that is deleted has no name any more:
\* some of its blocks are free, all of them, or the inode is zero besides.
CutFree(i) ==
    /\ i \in ex.files \ ex.held /\ ~ex.booted
    /\ \E k \in 0 .. ex.inode[i].blocks, inode \in {ex.dinode[i], NoInode} :
         LET gone == [n \in 1 .. k |-> _ext2_get_block_of_inode(ex, i, n - 1)]
         IN /\ inode = NoInode => k = ex.inode[i].blocks
            /\ ex' = Rebooted([FoldLeft(_ext2_free_block_index, ex, gone)
                               EXCEPT !.dinode[i] = inode, !.files = @ \ {i},
                                      !.data[i] = <<>>, !.safe[i] = <<>>])

\* len bytes of a longer write are on the disk; the bitmap may have one more block,
\* to which no pointer points yet.
CutWrite(i, start, len) ==
    /\ i \in ex.files \ ex.held /\ ~ex.booted
    /\ \E w \in {WriteBlocks(ex, i, start, len)} :
         \E e \in {w.e, _ext2_allocate_block_index(w.e).e} :
            ex' = Rebooted([e EXCEPT !.safe[i] = Overlaid(@, i, start, w.n)])

\* The inode is taken and has no name yet.
CutCreate ==
    /\ ~ex.booted /\ _ext2_allocate_inode_index(ex).ok
    /\ ex' = Rebooted(_ext2_allocate_inode_index(ex).e)

\* The bounds of a write.
Reach(i, end) ==
    LET n == end \div Cells + 1
    IN n <= MaxFileBlocks /\ (ex.again /\ ~StalePointers => n <= Lev0End)

ExCalls ==
    \/ ext2_create \/ Reboot \/ CutCreate
    \/ \E i \in ex.files :
         \/ ext2_free_inode(i) \/ ext2_write_inode(i) \/ CutFree(i)
         \/ \E len \in Cuts : ext2_truncate(i, len)
         \/ \E s \in {0 - x : x \in Backs} \cup Gaps, len \in Lens :
              LET start == ex.inode[i].size + s
              IN /\ start >= 0 /\ Reach(i, start + len)
                 /\ ext2_write(i, start, len) \/ \E n \in 0 .. len - 1 : CutWrite(i, start, n)

ExNext == ex.calls < MaxCalls /\ ExCalls

-----------------------------------------------------------------------------
\* Blocks of the tree of an inode: those of pointers and those of data.
Pointers(e, nd) ==
    LET n == nd.blocks
        T(slot) == {nd.block[NDirect + slot]}
        Cell(b, m) == {e.disk[b][c] : c \in 0 .. m - 1}
        Up(x, y) == (x + y - 1) \div y
        l0 == IF n > NDirect THEN T(0) ELSE {}
        l1 == IF n > Lev0End
              THEN T(1) \cup Cell(nd.block[NDirect + 1],
                                  Min({Up(n - Lev0End, Cells), Cells}))
              ELSE {}
    IN l0 \cup l1

\* Every block of a file is marked as used and belongs to this place of this file
\* alone, for the inodes in memory and for those on the disk, which a reboot reads;
\* so a block is never given to two files, although the group table on the disk is
\* that of mkfs.
BlocksOwned ==
    \A inodes \in {ex.inode, ex.dinode} :
        LET e == [ex EXCEPT !.inode = inodes]
            Data(i) == [n \in 0 .. inodes[i].blocks - 1 |-> _ext2_get_block_of_inode(e, i, n)]
            Mine(i) == {Data(i)[n] : n \in DOMAIN Data(i)} \cup Pointers(e, inodes[i])
        IN \A i \in ex.files :
             /\ Cardinality(Mine(i)) =
                  inodes[i].blocks + Cardinality(Pointers(e, inodes[i]))
             /\ \A b \in Mine(i) :
                  b \in BlockIds /\ (b - 1) % PerGroup \in ex.used[(b - 1) \div PerGroup]
             /\ \A j \in ex.files \ {i} : Mine(i) \cap Mine(j) = {}

\* A file holds what was written to it last, at every place and over every block
\* boundary, and after a reboot what was there when its inode was written last,
\* with the writes to that part since.
FileHolds ==
    \A i \in ex.files \ ex.held :
        /\ ex.inode[i].size = Len(ex.data[i])
        /\ \A start \in 0 .. Len(ex.data[i]), len \in Lens :
             ext2_read(ex, i, start, len) =
               SubSeq(ex.data[i], start + 1, Min({start + len, Len(ex.data[i])}))

\* Until a reboot the count of a group is the number of its free blocks.
CountsExact ==
    ~ex.booted => \A g \in GroupIds :
        ex.count[g] = Cardinality(Unset(ex.used[g], PerGroup))

-----------------------------------------------------------------------------
(* Directories.  A block is the sequence of its records; what lies in a      *)
(* record behind its name is never read.  Names are opaque but for their     *)
(* length.                                                                   *)

CONSTANTS
    DirBlockLen,     \* BLOCK_LEN
    DIR_ENTRY_LEN,   \* 8 and the size of a pointer: what the first entry of a block gets
    NameLens,        \* [name |-> length], of the names programs use
    DirInos,         \* inodes of files; an inode has one name
    MaxDirBlocks,    \* bound: blocks of the directory
    GetCaps          \* sizes of the buffers for getdents

ASSUME Ext2DirAssumption ==
    /\ DirBlockLen \in Nat /\ DIR_ENTRY_LEN \in Nat /\ MaxDirBlocks \in Nat \ {0}
    /\ \A n \in DOMAIN NameLens : NameLens[n] \in Nat \ {0}

VARIABLE dd
\* blocks: sequences of [ino, rec, name]     names: [name |-> inode], what is in the directory
\* off, got, state: a listing: the offset, the names so far, and "none", "on", "end" or "error"
\* halted: the panic the kernel stopped with

Self   == 1                                  \* inodes of the directory and of its parent
Parent == 2
LenOf(name) == CASE name = "." -> 1 [] name = ".." -> 2 [] OTHER -> NameLens[name]

NORM_FILENAME(x) == x + ((4 - (x % 4)) % 4)
RecLen(name) == 8 + NORM_FILENAME(LenOf(name))
Rec(ino, rec, name) == [ino |-> ino, rec |-> rec, name |-> name]

-----------------------------------------------------------------------------
\* The last record that was passed before position k of a block.
Before(block, k) == FoldLeft(LAMBDA x, r : x + r.rec, 0, SubSeq(block, 1, k - 1))

\* The first record with room for both its own name and the new one is split.
Fits(block, name) == {k \in DOMAIN block : block[k].rec >= RecLen(block[k].name) + RecLen(name)}
_ext2_add_to_dir_block(block, ino, name) ==
    LET k == Min(Fits(block, name))
        own == RecLen(block[k].name)
    IN SubSeq(block, 1, k - 1)
         \o <<[block[k] EXCEPT !.rec = own], Rec(ino, block[k].rec - own, name)>>
         \o SubSeq(block, k + 1, Len(block))

_ext2_add_first_entry_to_dir_block(ino, name) == <<Rec(ino, DirBlockLen, name)>>

\* Blocks in order; then a new block, if the disk has one (full: it has none).
_ext2_add_child(d, ino, name, full) ==
    LET ks == {k \in DOMAIN d.blocks : Fits(d.blocks[k], name) # {}}
    IN CASE ks # {} ->
              [d EXCEPT !.blocks[Min(ks)] = _ext2_add_to_dir_block(@, ino, name),
                        !.names = (name :> ino) @@ @]
         [] ks = {} /\ full -> d
         [] OTHER ->
              [d EXCEPT !.blocks = Append(@, _ext2_add_first_entry_to_dir_block(ino, name)),
                        !.names = (name :> ino) @@ @]

\* The record before the one of the inode takes its room.
_ext2_rm_from_dir_block(block, k) ==
    SubSeq(block, 1, k - 2)
      \o <<[block[k - 1] EXCEPT !.rec = @ + block[k].rec]>>
      \o SubSeq(block, k + 1, Len(block))

Holding(block, ino) == {k \in DOMAIN block : block[k].ino = ino}

_ext2_rm_child(d, name) ==
    LET ino == d.names[name]
        b == Min({x \in DOMAIN d.blocks : Holding(d.blocks[x], ino) # {}})
        k == Min(Holding(d.blocks[b], ino))
    IN IF k = 1 THEN [d EXCEPT !.halted = "can't delete first entry"]
       ELSE [d EXCEPT !.blocks[b] = _ext2_rm_from_dir_block(@, k),
                      !.names = [n \in DOMAIN @ \ {name} |-> @[n]]]

\* The inode of the first record with the name, 0 if there is none.
_ext2_lookup_block(block, name) ==
    LET ks == {k \in DOMAIN block : block[k].name = name}
    IN IF ks = {} THEN 0 ELSE block[Min(ks)].ino
ext2_lookup(d, name) ==
    LET found == {b \in DOMAIN d.blocks : _ext2_lookup_block(d.blocks[b], name) # 0}
    IN IF found = {} THEN 0 ELSE _ext2_lookup_block(d.blocks[Min(found)], name)

_ext2_is_dir_empty(d) == FoldLeft(LAMBDA x, b : x + Len(b), 0, d.blocks) <= 2

-----------------------------------------------------------------------------
(* getdents.  A record is copied with one byte more than it takes here.      *)

\* From record k on, len bytes of room: [n, bytes, names]: how many records were
\* passed and what was copied; -1 bytes: nothing fits.
_ext2_getdents_block(block, k, len) ==
    FoldLeft(LAMBDA g, r : IF g.full \/ RecLen(r.name) + 1 > g.len
                           THEN [g EXCEPT !.full = TRUE]
                           ELSE [g EXCEPT !.len = @ - (RecLen(r.name) + 1), !.scanned = @ + r.rec,
                                          !.names = Append(@, r.name)],
             [full |-> FALSE, len |-> len, scanned |-> 0, names |-> <<>>],
             SubSeq(block, k, Len(block)))

\* One turn of the loop of ext2_getdents over the blocks.
GetdentsBlock(d, s, b) ==
    LET block == d.blocks[b]
        inner == IF s.first THEN d.off % DirBlockLen ELSE 0
        k == CHOOSE x \in 1 .. Len(block) + 1 : Before(block, x) = inner
        g == _ext2_getdents_block(block, k, Min({s.len, DirBlockLen - inner}))
        copied == FoldLeft(LAMBDA x, n : x + RecLen(n) + 1, 0, g.names)
    IN CASE s.stop -> s
         [] ~s.stop /\ g.full /\ g.names = <<>> ->
              [s EXCEPT !.stop = TRUE, !.error = s.names = <<>>]
         [] OTHER -> [s EXCEPT !.first = FALSE, !.len = @ - copied, !.off = @ + g.scanned,
                               !.names = @ \o g.names]

ext2_getdents(d, cap) ==
    LET from == d.off \div DirBlockLen + 1
    IN FoldLeft(LAMBDA s, b : GetdentsBlock(d, s, b),
                [first |-> TRUE, stop |-> FALSE, error |-> FALSE, len |-> cap, off |-> d.off,
                 names |-> <<>>],
                [x \in 1 .. Max({Len(d.blocks) - from + 1, 0}) |-> from + x - 1])

-----------------------------------------------------------------------------
\* _ext2_setup_dir.
DdInit ==
    dd = [blocks |-> <<_ext2_add_to_dir_block(
                          _ext2_add_first_entry_to_dir_block(Self, "."), Parent, "..")>>,
          names |-> ("." :> Self) @@ (".." :> Parent),
          off |-> 0, got |-> <<>>, state |-> "none", halted |-> ""]

NoListing(d) == [d EXCEPT !.off = 0, !.got = <<>>, !.state = "none"]

\* ext2_create and ext2_mkdir, after vfs_create did not find the name.  A name longer
\* than DIR_ENTRY_LEN has room for is copied over the end of a buffer, when it comes
\* first in its block; such names are not used.
AddEntry(name, ino, full) ==
    /\ name \notin DOMAIN dd.names /\ ino \notin Range(dd.names)
    /\ LenOf(name) <= DIR_ENTRY_LEN - 8
    /\ Len(dd.blocks) < MaxDirBlocks \/ full
    /\ dd' = NoListing(_ext2_add_child(dd, ino, name, full))

\* ext2_rm and ext2_rmdir.
RmEntry(name) ==
    /\ name \in DOMAIN dd.names \ {".", ".."}
    /\ dd' = NoListing(_ext2_rm_child(dd, name))

\* One call of getdents by a program that lists the directory.
GetEntries(cap) ==
    LET s == ext2_getdents(dd, cap)
    IN /\ dd.state \in {"none", "on"}
       /\ dd' = [dd EXCEPT !.off = s.off, !.got = @ \o s.names,
                           !.state = CASE s.error -> "error"
                                       [] ~s.error /\ s.names = <<>> -> "end"
                                       [] OTHER -> "on"]

DdNext ==
    /\ dd.halted = ""
    /\ \/ \E name \in DOMAIN NameLens, ino \in DirInos, full \in BOOLEAN : AddEntry(name, ino, full)
       \/ \E name \in DOMAIN NameLens : RmEntry(name)
       \/ \E cap \in GetCaps : GetEntries(cap)

-----------------------------------------------------------------------------
\* The records cover their block and have room for their names, a name is found
\* exactly when it is in the directory, with its inode, and the directory is empty
\* when no name was added, after splits and merges of records in any order.
DirectorySound ==
    /\ \A b \in DOMAIN dd.blocks :
         /\ Before(dd.blocks[b], Len(dd.blocks[b]) + 1) = DirBlockLen
         /\ \A k \in DOMAIN dd.blocks[b] : dd.blocks[b][k].rec >= RecLen(dd.blocks[b][k].name)
    /\ \A name \in DOMAIN NameLens \cup {".", ".."} :
         ext2_lookup(dd, name) = IF name \in DOMAIN dd.names THEN dd.names[name] ELSE 0
    /\ _ext2_is_dir_empty(dd) <=> DOMAIN dd.names = {".", ".."}

\* A listing of a directory of one block, whose last record has a byte to spare, ends,
\* with every name once, whatever the buffers of its calls hold.
ListingExact ==
    LET last == Last(Last(dd.blocks))
    IN Len(dd.blocks) = 1 /\ last.rec > RecLen(last.name) =>
         /\ dd.state # "error"
         /\ IsInjective(dd.got)
         /\ Range(dd.got) \subseteq DOMAIN dd.names
         /\ dd.state = "end" => Range(dd.got) = DOMAIN dd.names
=============================================================================
