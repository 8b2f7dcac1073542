\* A disk with two groups and two inodes, a directory of two blocks, a bus with four virtio
\* devices, a PC and a board that boot, three device files, two to a zone, and five processes
\* in /proc.
SPECIFICATION StorageSpec
CONSTANTS
  Groups = 2
  BLOCK_LEN = 16
  FirstFree = 3
  FreeBlocks = 8
  NInos = 1
  Cells = 2
  NDirect = 1
  Backs = {0, 2}
  Gaps = {}
  Lens = {3, 13}
  Cuts = {0}
  StalePointers = FALSE
  MaxFileBlocks = 9
  MaxCalls = 7
  DirBlockLen = 52
  DIR_ENTRY_LEN = 12
  NameLens <- MCNameLens
  DirInos = {11, 12, 13, 14}
  MaxDirBlocks = 2
  GetCaps = {13, 30, 60}
  BucketBits = 4
  ByteBits = 2
  BusSlots <- MCSlots
  RingSize <- MCRingSize
  QnMax = 16
  IdxMod = 32
  AckMod = 64
  PoolBlocks = 28
  PoolTaken = 2
  Sectors = {1, 2}
  Datas = {5, 6}
  VEvents <- MCEvents
  EventElements = 2
  Overrun = FALSE
  MaxReqs = 14
  MaxEvs = 5
  Machines = {"pc", "vexpress"}
  Drives = {"master"}
  Formatted = {"master", "card"}
  LinkedFirst = {"pci86", "bga86", "procfs", "devfs"}
  Devices = {"kbd", "ptmx", "pts0"}
  EntriesPerZone = 2
  DevZones = 3
  ChmodStale = FALSE
  MaxSlots = 5
  MaxPid = 4
  PidBits = 3
  CacheSize = 3
  DirCaps = {2, 3}
  SysReaders = {2}
  GrowWhileRead = FALSE
INVARIANTS
  DiskSound DevicesSound
CHECK_DEADLOCK FALSE
