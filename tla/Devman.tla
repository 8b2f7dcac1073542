------------------------------- MODULE Devman -------------------------------
(* The driver manager (drivers/driver_manager.c), the drivers that find the  *)
(* disk, the display and the clock of a PC or of a Versatile Express board,  *)
(* what the VFS does when it is told of a device or of a file system, and    *)
(* the order in which the boot CPU calls them (kernel.c).                    *)
(*                                                                           *)
(* Drivers install themselves from .driver_init_sections, whose order is the *)
(* order in which the files were linked: any order is possible here, but for *)
(* the drivers that LinkedFirst puts in front to bound the number of orders. *)
EXTENDS Naturals, Sequences, FiniteSets, TLC

LOCAL INSTANCE SequencesExt
LOCAL INSTANCE FiniteSetsExt
LOCAL INSTANCE Functions

CONSTANTS
    Machines,       \* subset of {"pc", "vexpress"}: the machines that boot
    Drives,         \* the ATA drives of the PC, a subset of {"master", "slave"}
    Formatted,      \* the drives and cards that hold an ext2 file system
    LinkedFirst     \* drivers that are linked before the others, in some order

VARIABLE dm         \* the manager, the VFS tables and the progress of the boot

DRIVER_ID_EMPTY == 255
NoDev == 254

\* The driver_desc_t of each driver: what it is, the devices and the drivers it
\* listens to, whether it has init_with_dev, on_start, recieve_notification.
Desc(type, devs, drvs, init, start, note) ==
    [type |-> type, listened_device_mask |-> devs, listened_driver_mask |-> drvs,
     init_with_dev |-> init, on_start |-> start, recieve_notification |-> note]

DriverInfo ==
    [vfs     |-> Desc("VFS", {"STORAGE"}, {"FS"}, FALSE, FALSE, TRUE),
     ext2    |-> Desc("FS", {}, {}, FALSE, FALSE, FALSE),
     devfs   |-> Desc("FS", {}, {}, FALSE, FALSE, FALSE),
     procfs  |-> Desc("FS", {}, {}, FALSE, FALSE, FALSE),
     timeman |-> Desc("TIME_MANAGER", {"RTC"}, {}, FALSE, FALSE, TRUE),
     devtree |-> Desc("VIRTUAL", {}, {}, FALSE, TRUE, FALSE),
     rtc     |-> Desc("RTC", {}, {}, TRUE, FALSE, FALSE),
     pci86   |-> Desc("BUS_CONTROLLER", {}, {}, FALSE, TRUE, FALSE),
     ide86   |-> Desc("BUS_CONTROLLER", {"BUS_CONTROLLER"}, {}, TRUE, FALSE, FALSE),
     ata86   |-> Desc("STORAGE_DEVICE", {"STORAGE"}, {}, TRUE, FALSE, FALSE),
     bga86   |-> Desc("VIDEO_DEVICE", {"DISPLAY"}, {}, TRUE, FALSE, TRUE),
     pl111   |-> Desc("VIDEO_DEVICE", {"DISPLAY"}, {}, TRUE, FALSE, TRUE),
     pl181   |-> Desc("BUS_CONTROLLER", {}, {}, TRUE, FALSE, FALSE),
     p181rdr |-> Desc("STORAGE_DEVICE", {"STORAGE"}, {}, TRUE, FALSE, FALSE)]

\* What the linker put into the image of each machine.
Installed(machine) ==
    {"vfs", "ext2", "devfs", "procfs", "timeman"} \cup
    (IF machine = "pc" THEN {"rtc", "pci86", "ide86", "ata86", "bga86"} ELSE {"pl181", "pl111"})

\* A device: its DEVICE_ type, how it is described, the name or class it has
\* there, and the drive behind it if it is a disk.
Device(type, desc, name, drive) ==
    [type |-> type, desc |-> desc, name |-> name, drive |-> drive,
     driver_id |-> 0, is_virtual |-> FALSE]

\* What the PCI bus and the device tree hold: on each a device nothing drives.
PciDevices == <<Device("BRIDGE", "PCI", "bridge", "none"),
                Device("BUS_CONTROLLER", "PCI", "ide", "none"),
                Device("DISPLAY", "PCI", "bga", "none")>>
DevtreeEntries == <<Device("INPUT_SYSTEMS", "DEVTREE", "gicv2", "none"),
                    Device("DISPLAY", "DEVTREE", "pl111", "none"),
                    Device("BUS_CONTROLLER", "DEVTREE", "pl181", "none")>>

Id(s, name) == CHOOSE i \in 1..Len(s.drivers) : s.drivers[i] = name
Listens(name, type) == type \in DriverInfo[name].listened_device_mask

-----------------------------------------------------------------------------
\* The VFS.  vfs_choose_fs_of_dev: the first file system that has a recognize
\* and accepts the disk; only ext2 has one.  The drive is read through the
\* functions of the device's driver.
Recognized(s, i) == {k \in 1..Len(s.fses) : s.fses[k] = "ext2" /\ s.devices[i].disk \in Formatted}

vfs_choose_fs_of_dev(s, i) ==
    IF Recognized(s, i) = {} THEN s
    ELSE [s EXCEPT !.fs_of[i] = s.fses[Min(Recognized(s, i))], !.prepared[i] = @ + 1]

\* The first storage device the VFS hears of becomes the root, whatever it holds.
vfs_add_dev(s, i) ==
    IF s.devices[i].type # "STORAGE" THEN s
    ELSE LET t == IF s.root = NoDev THEN [s EXCEPT !.root = i] ELSE s
         IN IF s.devices[i].is_virtual THEN t ELSE vfs_choose_fs_of_dev(t, i)

vfs_add_fs(s, name) ==
    IF DriverInfo[name].type # "FS" THEN s ELSE [s EXCEPT !.fses = Append(@, name)]

\* recieve_notification of a driver for DEVMAN_NOTIFICATION_NEW_DEVICE: the VFS
\* looks for a file system, the time manager takes the clock's function.
NotifyDevice(s, name, i) ==
    CASE name = "vfs" -> vfs_add_dev(s, i)
      [] name = "timeman" -> [s EXCEPT !.get_rtc = s.drivers[s.devices[i].driver_id]]
      [] OTHER -> s

notify_drivers_about_device(s, i) ==
    FoldLeft(LAMBDA t, name : IF Listens(name, t.devices[i].type) /\ DriverInfo[name].recieve_notification
                              THEN NotifyDevice(t, name, i) ELSE t,
             s, s.drivers)

notify_driver_about_devices(s, name) ==
    FoldLeft(LAMBDA t, i : IF /\ t.devices[i].driver_id # DRIVER_ID_EMPTY
                              /\ Listens(name, t.devices[i].type)
                              /\ DriverInfo[name].recieve_notification
                           THEN NotifyDevice(t, name, i) ELSE t,
             s, [i \in 1..Len(s.devices) |-> i])

\* Only the VFS listens to drivers: it is told of the new one, or, when it is
\* the new one, of all that are there.
notify_drivers_about_driver(s, name) ==
    FoldLeft(LAMBDA t, other :
                 LET u == IF DriverInfo[name].type \in DriverInfo[other].listened_driver_mask
                          THEN vfs_add_fs(t, name) ELSE t
                 IN IF DriverInfo[other].type \in DriverInfo[name].listened_driver_mask
                    THEN vfs_add_fs(u, other) ELSE u,
             s, s.drivers)

-----------------------------------------------------------------------------
\* init_with_dev of each driver: whether it takes the device, and what it does.
\* The IDE controller registers its drives, and the SD controller first a
\* driver for cards and then the card, in the middle of their own registration.
\* ide_init_with_dev writes the same port and the master bit for both drives.
Accepts(name, d) ==
    CASE name = "ide86" -> d.desc = "PCI" /\ d.name = "ide"
      [] name = "ata86" -> d.desc = "PCI" /\ d.name = "ata"
      [] name = "bga86" -> d.desc = "PCI" /\ d.name = "bga"
      [] OTHER -> d.desc = "DEVTREE"

AtaDrives == SetToSeq({Device("STORAGE", "PCI", "ata", d) : d \in Drives})
CardDevice == Device("STORAGE", "DEVTREE", "p181rdr", "card")

RECURSIVE devman_register_device(_, _), devman_register_driver(_, _)

InitWithDev(s, name, i) ==
    LET t == [s EXCEPT !.inits = Append(@, [driver |-> name, device |-> i])]
    IN CASE name = "ide86" -> FoldLeft(devman_register_device, t, AtaDrives)
         [] name = "pl181" -> devman_register_device(devman_register_driver(t, "p181rdr"), CardDevice)
         [] name = "ata86" -> [t EXCEPT !.devices[i].disk = "master"]
         [] name = "p181rdr" -> [t EXCEPT !.devices[i].disk = "card"]
         [] OTHER -> t

\* A PCI device goes to a driver that listens to its type and takes it, a
\* device of the tree to the driver of its name, whose answer is not looked at.
Supports(name, d) ==
    /\ DriverInfo[name].init_with_dev
    /\ IF d.desc = "PCI" THEN Listens(name, d.type) /\ Accepts(name, d) ELSE d.name = name

does_driver_support_device(s, i, name) ==
    LET t == InitWithDev(s, name, i)
    IN notify_drivers_about_device([t EXCEPT !.devices[i].driver_id = Id(t, name)], i)

\* The caller sets the id and tells the drivers a second time.
Bound(s, i, name) ==
    notify_drivers_about_device(does_driver_support_device(s, i, name), i)

push_devices_to_driver(s, name) ==
    FoldLeft(LAMBDA t, i : IF t.devices[i].driver_id = DRIVER_ID_EMPTY /\ Supports(name, t.devices[i])
                           THEN Bound(t, i, name) ELSE t,
             s, [i \in 1..Len(s.devices) |-> i])

push_device_to_drivers(s, i) ==
    LET fit == {k \in 1..Len(s.drivers) : Supports(s.drivers[k], s.devices[i])}
    IN IF fit = {} THEN [s EXCEPT !.devices[i].driver_id = DRIVER_ID_EMPTY]
       ELSE Bound(s, i, s.drivers[Min(fit)])

devman_register_driver(s, name) ==
    LET t == [s EXCEPT !.drivers = Append(@, name)]
    IN notify_driver_about_devices(
           notify_drivers_about_driver(push_devices_to_driver(t, name), name), name)

\* The entry of a new device is as the loader left it: all zero, so the id of
\* its driver reads as that of the first driver until it is set.
NewDevice(s, d) ==
    [s EXCEPT !.devices = Append(@, d @@ [disk |-> "none"]), !.fs_of = Append(@, "none"),
              !.prepared = Append(@, 0)]

devman_register_device(s, d) ==
    LET t == NewDevice(s, [d EXCEPT !.driver_id = 1])
    IN push_device_to_drivers(t, Len(t.devices))

-----------------------------------------------------------------------------
\* stage3.  devtree_init registers its driver before the others if the loader
\* passed a tree.
DmInit ==
    \E machine \in Machines :
        LET s == [machine |-> machine, phase |-> "install", todo |-> Installed(machine),
                  drivers |-> <<>>, devices |-> <<>>, fses |-> <<>>, fs_of |-> <<>>,
                  prepared |-> <<>>, root |-> NoDev, get_rtc |-> "none", inits |-> <<>>,
                  mounts |-> <<>>, told |-> {}]
        IN dm = IF machine = "vexpress" THEN devman_register_driver(s, "devtree") ELSE s

RtcDevice == Device("RTC", "DEVTREE", "rtc", "none")

\* devman_install_drivers: one installation function after the other; that of
\* the PC's clock registers the device as well.
Install(name) ==
    /\ dm.phase = "install" /\ name \in dm.todo
    /\ name \in LinkedFirst \/ dm.todo \cap LinkedFirst = {}
    /\ LET t == devman_register_driver([dm EXCEPT !.todo = @ \ {name}], name)
           u == IF name = "rtc" THEN devman_register_device(t, RtcDevice) ELSE t
       IN dm' = [u EXCEPT !.phase = IF u.todo = {} THEN "run" ELSE "install"]

\* devman_run: pci_find_devices, find_devices.
devman_run ==
    /\ dm.phase = "run"
    /\ dm' = [FoldLeft(devman_register_device, dm,
                       IF dm.machine = "pc" THEN PciDevices ELSE DevtreeEntries)
              EXCEPT !.phase = "procfs"]

\* vfs_mount with a new virtual device: procfs on /proc, then devfs on /dev,
\* after which the drivers are told that they can make their files.
FsId(s, name) == CHOOSE k \in 1..Len(s.fses) : s.fses[k] = name

vfs_mount(s, name) ==
    LET t == NewDevice(s, [Device("STORAGE", "PCI", "virtual", "none")
                           EXCEPT !.driver_id = 1, !.is_virtual = TRUE])
        i == Len(t.devices)
    IN [t EXCEPT !.fs_of[i] = t.fses[FsId(t, name)], !.root = IF @ = NoDev THEN i ELSE @,
                 !.mounts = Append(@, i)]

devman_send_notification(s) ==
    [s EXCEPT !.told = {n \in Range(s.drivers) : DriverInfo[n].recieve_notification} \ {"vfs", "timeman"}]

MountProcfs ==
    /\ dm.phase = "procfs" /\ dm.root # NoDev
    /\ dm' = [vfs_mount(dm, "procfs") EXCEPT !.phase = "devfs"]

MountDevfs ==
    /\ dm.phase = "devfs"
    /\ dm' = [devman_send_notification(vfs_mount(dm, "devfs")) EXCEPT !.phase = "done"]

\* The boot is over.
Running == dm.phase = "done" /\ UNCHANGED dm

DmNext ==
    \/ \E name \in DOMAIN DriverInfo : Install(name)
    \/ devman_run
    \/ MountProcfs
    \/ MountDevfs
    \/ Running

-----------------------------------------------------------------------------
Ran == dm.phase \in {"procfs", "devfs", "done"}
Real == {i \in 1..Len(dm.devices) : ~dm.devices[i].is_virtual}

\* Whatever the order of installation, the VFS has each file system once.
FilesystemsOnce ==
    \/ ~ \E k \in 1..Len(dm.drivers) : dm.drivers[k] = "vfs"
    \/ /\ Range(dm.fses) = {n \in Range(dm.drivers) : DriverInfo[n].type = "FS"}
       /\ IsInjective(dm.fses)

\* Every device that some driver of the image supports is initialised by
\* exactly one driver, its own, and the others stay without one; no two disks
\* are the same drive.
DevicesDriven ==
    Ran =>
        /\ \A i \in Real :
               LET d == dm.devices[i]
                   fit == {k \in 1..Len(dm.drivers) : Supports(dm.drivers[k], d)}
                   done == {k \in 1..Len(dm.inits) : dm.inits[k].device = i}
               IN IF fit = {} THEN d.driver_id = DRIVER_ID_EMPTY /\ done = {}
                  ELSE /\ d.driver_id \in fit /\ Cardinality(done) = 1
                       /\ \A k \in done : dm.inits[k].driver = dm.drivers[d.driver_id]
        /\ \A i, j \in Real :
               dm.devices[i].disk = dm.devices[j].disk => i = j \/ dm.devices[i].disk = "none"

\* The disk's file system is found and mounted as the root, the clock is read
\* from, and each driver of a device file is told when /dev is there.
BootComplete ==
    /\ Ran => /\ dm.root # NoDev => dm.fs_of[dm.root] = "ext2"
              /\ \A i \in Real : dm.devices[i].disk \in Formatted => dm.fs_of[i] = "ext2"
              /\ dm.machine = "pc" => dm.get_rtc = "rtc"
    /\ dm.phase = "done" => /\ dm.fs_of[dm.mounts[1]] = "procfs"
                            /\ dm.fs_of[dm.mounts[2]] = "devfs"
                            /\ \A i \in Real : dm.devices[i].type = "DISPLAY"
                                  => dm.drivers[dm.devices[i].driver_id] \in dm.told

DriversSound == FilesystemsOnce /\ DevicesDriven /\ BootComplete
=============================================================================
