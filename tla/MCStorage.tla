----------------------------- MODULE MCStorage -----------------------------
(* Files below the dentry cache, in parts that share no state: the blocks    *)
(* and the directories of ext2, the virtio devices, driver discovery, /dev   *)
(* and /proc.  part selects the one a behaviour exercises.                   *)
EXTENDS Ext2, Virtio, Devman, DevFs, ProcFs

VARIABLE part

\* Names with their lengths: two short ones, and two that need more than one unit of 4 bytes.
MCNameLens == [a |-> 1, b |-> 1, long |-> 4, mid |-> 3]

\* The slots of the bus: one disk, one display, a mouse and a keyboard, something unknown.
MCSlots == <<"none", "block", "input", "gpu", "input", "other">>
MCRingSize == [block |-> 8, gpu |-> 16, input |-> 2]
InputEvent(t, c, v) == [type |-> t, code |-> c, value |-> v]
MCEvents ==
    [d \in {3, 5} |->
       IF d = 3 THEN {InputEvent("rel", "x", 2), InputEvent("rel", "y", 1),
                      InputEvent("key", "left", 1), InputEvent("key", "left", 0)}
       ELSE {InputEvent("key", "a", 0), InputEvent("key", "b", 0), InputEvent("key", "a", 1)}]

StorageInit ==
    /\ part \in {"blocks", "dirs", "virtio", "drivers", "devfs", "procfs"}
    /\ IF part = "blocks" THEN ExInit ELSE ex = <<>>
    /\ IF part = "dirs" THEN DdInit ELSE dd = <<>>
    /\ IF part = "virtio" THEN VqInit ELSE vq = <<>>
    /\ IF part = "drivers" THEN DmInit ELSE dm = <<>>
    /\ IF part = "devfs" THEN DvInit ELSE dv = <<>>
    /\ IF part = "procfs" THEN PfInit ELSE pf = <<>>

StorageNext ==
    \/ part = "blocks" /\ ExNext /\ UNCHANGED <<part, dd, vq, dm, dv, pf>>
    \/ part = "dirs" /\ DdNext /\ UNCHANGED <<part, ex, vq, dm, dv, pf>>
    \/ part = "virtio" /\ VqNext /\ UNCHANGED <<part, ex, dd, dm, dv, pf>>
    \/ part = "drivers" /\ DmNext /\ UNCHANGED <<part, ex, dd, vq, dv, pf>>
    \/ part = "devfs" /\ DvNext /\ UNCHANGED <<part, ex, dd, vq, dm, pf>>
    \/ part = "procfs" /\ PfNext /\ UNCHANGED <<part, ex, dd, vq, dm, dv>>

StorageSpec == StorageInit /\ [][StorageNext]_<<part, ex, dd, vq, dm, dv, pf>>

-----------------------------------------------------------------------------
\* What a file system keeps on its disk is what was put there: no block belongs to two
\* owners or to nobody, a file reads as it was written, the free counts are exact, and a
\* directory has the entries that were added and not removed, whole and in its blocks.
DiskSound ==
    /\ part = "blocks" => BlocksOwned /\ FileHolds /\ CountsExact
    /\ part = "dirs" => DirectorySound /\ ListingExact

\* Names and requests lead to what they name.  Descriptors and memory of virtio requests are
\* taken and given back once, and sectors, the display and input are what was asked for;
\* after a boot in any order of the drivers every disk has its driver and its file system
\* and /dev and /proc are mounted; a device file has the functions of its device, and a file
\* of /proc is its process's.
DevicesSound ==
    /\ part = "virtio" => RequestMemoryExact /\ SectorsExact /\ DisplayFollows /\ InputExact
    /\ part = "drivers" => DriversSound
    /\ part = "devfs" => DevicesFound
    /\ part = "procfs" => ProcFilesSound
=============================================================================
