------------------------------- MODULE DevFs -------------------------------
(* devfs (fs/devfs/devfs.c): the device files.  Each file is an entry in a   *)
(* zone of entries; the VFS works on a copy of the entry that its dentry     *)
(* holds, and writes the copy back when the dentry is dirty.  The list of    *)
(* /dev is kept half in the copy of the root (first, last) and half in the   *)
(* entries themselves (next).                                                *)
EXTENDS Naturals, Sequences, FiniteSets, TLC

CONSTANTS
    Devices,        \* names of devices; a name stands for its file_ops too
    EntriesPerZone, \* DEVFS_ZONE_SIZE / DEVFS_INODE_LEN
    DevZones,       \* zones kmalloc can give
    ChmodStale      \* TRUE: chmod may come while a copy is behind its entry

ASSUME DevFsAssumption == EntriesPerZone \in Nat \ {0} /\ DevZones \in Nat \ {0}

VARIABLE dv         \* zones, entries, dentries, and the calls' results

ROOT_INODE == 2
NullPtr == <<0, 0>>

\* An entry by its address, the zone and the slot in it.  _devfs_get_entry
\* computes the address from the index, _devfs_new_entry from what is left of
\* the last zone.
DevEntry(index, name, dir) ==
    [index |-> index, name |-> name, dir |-> dir, handlers |-> IF dir THEN "null" ELSE name,
     mode |-> 0, parent |-> "none", next |-> NullPtr, first |-> NullPtr, last |-> NullPtr]

_devfs_get_entry(s, indx) ==
    IF indx - 2 >= Len(s.zones) * EntriesPerZone THEN NullPtr
    ELSE <<((indx - 2) \div EntriesPerZone) + 1, (indx - 2) % EntriesPerZone>>

EntryAt(s, p) == s.zones[p[1]][p[2]]

\* _devfs_alloc_entry_zone; a zone is not cleared, its entries are.
NewDevZone(s) ==
    [s EXCEPT !.zones = Append(@, [k \in 0..EntriesPerZone - 1 |-> DevEntry(0, "junk", FALSE)]),
              !.next_space = 0]

\* _devfs_new_entry, _devfs_set_name, _devfs_set_handlers.
Placed(s, name, dir) ==
    LET t == IF s.next_space = EntriesPerZone THEN NewDevZone(s) ELSE s
    IN [t EXCEPT !.zones[Len(t.zones)][t.next_space] = DevEntry(t.next_inode_index, name, dir),
                 !.next_space = @ + 1, !.next_inode_index = @ + 1]
LastPlaced(s) == <<Len(s.zones), s.next_space - 1>>

\* devfs_prepare_fs and vfs_mount: the root is read into a dentry that is kept.
DvInit ==
    LET s == Placed([zones |-> <<>>, next_space |-> EntriesPerZone,
                     next_inode_index |-> ROOT_INODE, copy |-> <<>>, dirty |-> {}, held |-> {},
                     registered |-> <<>>, found |-> <<>>],
                    "root", TRUE)
    IN dv = [s EXCEPT !.copy = (ROOT_INODE :> EntryAt(s, LastPlaced(s))), !.held = {ROOT_INODE}]

\* _devfs_add_to_list works on the copy of the parent, and on the entry itself
\* of the last child.
_devfs_add_to_list(s, e) ==
    LET root == s.copy[ROOT_INODE]
        t == [s EXCEPT !.zones[e[1]][e[2]].parent = "root", !.copy[ROOT_INODE].last = e]
    IN IF root.last = NullPtr THEN [t EXCEPT !.copy[ROOT_INODE].first = e]
       ELSE [t EXCEPT !.zones[root.last[1]][root.last[2]].next = e]

\* devfs_register, by a driver that is told that /dev is there, by the console,
\* by ptmx_install and, later, by every new pseudo terminal.  Out of memory is
\* not looked at in _devfs_new_entry; the model stops before it.
devfs_register(name) ==
    /\ \A k \in 1..Len(dv.registered) : dv.registered[k] # name
    /\ dv.next_space = EntriesPerZone => Len(dv.zones) < DevZones
    /\ LET t == Placed(dv, name, FALSE)
       IN dv' = [_devfs_add_to_list(t, LastPlaced(t))
                 EXCEPT !.dirty = @ \cup {ROOT_INODE}, !.registered = Append(@, name)]

\* devfs_lookup: from the copy of the root along the entries.
RECURSIVE Scan(_, _, _)
Scan(s, p, name) ==
    IF p = NullPtr THEN 0
    ELSE IF EntryAt(s, p).name = name THEN EntryAt(s, p).index
    ELSE Scan(s, EntryAt(s, p).next, name)

devfs_lookup(s, name) == Scan(s, s.copy[ROOT_INODE].first, name)

\* dentry_get: the dentry in the cache, or a new one with devfs_read_inode.
dentry_get(s, index) ==
    IF index \in DOMAIN s.copy THEN [s EXCEPT !.held = @ \cup {index}]
    ELSE LET p == _devfs_get_entry(s, index)
         IN [s EXCEPT !.copy = @ @@ (index :> EntryAt(s, p)), !.held = @ \cup {index}]

\* vfs_open of a device: lookup, then the custom open of the copy's handlers, or
\* a plain file; afterwards read, write, ioctl, mmap and fstat use the handlers.
OpenDevice(name) ==
    LET index == devfs_lookup(dv, name)
    IN /\ \E k \in 1..Len(dv.registered) : dv.registered[k] = name
       /\ IF index = 0 THEN dv' = [dv EXCEPT !.found = (name :> "ENOENT")]
          ELSE LET t == dentry_get(dv, index)
               IN dv' = [t EXCEPT !.found = (name :> t.copy[index].handlers)]

\* The last close; the dentry stays in the cache.
CloseDevice(index) ==
    /\ index \in dv.held \ {ROOT_INODE}
    /\ dv' = [dv EXCEPT !.held = @ \ {index}, !.found = <<>>]

\* dentry_flush by kdentryflusherd or by a put: devfs_write_inode.
devfs_write_inode(s, index) ==
    LET p == _devfs_get_entry(s, index)
    IN [s EXCEPT !.zones[p[1]][p[2]] = s.copy[index], !.dirty = @ \ {index}]

FlushDevice(index) ==
    /\ index \in dv.dirty
    /\ dv' = [devfs_write_inode(dv, index) EXCEPT !.found = <<>>]

\* A dentry nobody holds gives its place to another one.
EvictDevice(index) ==
    /\ index \in DOMAIN dv.copy \ (dv.held \cup dv.dirty)
    /\ dv' = [dv EXCEPT !.copy = [i \in DOMAIN @ \ {index} |-> @[i]], !.found = <<>>]

\* vfs_chmod of a device file by its owner.
ChmodDevice(index) ==
    /\ index \in DOMAIN dv.copy \ {ROOT_INODE}
    /\ \/ ChmodStale
       \/ /\ Len(dv.registered) = Cardinality(Devices)
          /\ dv.copy[index].next = EntryAt(dv, _devfs_get_entry(dv, index)).next
    /\ dv' = [dv EXCEPT !.copy[index].mode = 1, !.dirty = @ \cup {index}, !.found = <<>>]

DvNext ==
    \/ \E name \in Devices : devfs_register(name) \/ OpenDevice(name)
    \/ \E index \in DOMAIN dv.copy : CloseDevice(index) \/ FlushDevice(index) \/ EvictDevice(index) \/ ChmodDevice(index)

-----------------------------------------------------------------------------
\* Whatever was copied, written back and evicted in between, a device that was
\* registered is found under its name, and an open file has its own handlers.
DevicesFound ==
    /\ \A k \in 1..Len(dv.registered) :
           LET index == devfs_lookup(dv, dv.registered[k])
           IN index # 0 /\ EntryAt(dv, _devfs_get_entry(dv, index)).handlers = dv.registered[k]
    /\ \A name \in DOMAIN dv.found : dv.found[name] = name
=============================================================================
