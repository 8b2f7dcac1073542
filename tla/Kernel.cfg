\* The allocators, the layout of address spaces, the byte streams, traps and page tables;
\* three processes with three threads in one node of slots, and arrays of two strings for a new program.
SPECIFICATION Spec
CONSTANTS
  BucketBits = 4
  ByteBits = 2
  Blocks = 11
  Reserved <- MCReserved
  Counts = {1, 2, 3, 5}
  Aligns = {1, 2, 3}
  Zoner = 11
  EarlyBase = 1
  ZoneSizes = {1, 2}
  ZoneAligns = {1, 2}
  HBlock = 2
  HeapBlocks = 9
  HeapSizes = {1, 2, 4}
  HeapAligns = {2, 3}
  MaxBuffers = 3
  Pids = {1, 2, 3}
  Su = {3}
  MaxLive = 4
  Width = 5
  PageSize = 2
  USER_HIGH = 17
  Lens = {0, 2, 5, 31}
  Ptrs = {0, 5, 16}
  Segments <- MCSegments
  StackSize = 2
  MaxZones = 5
  FirstCap = 2
  InitCaps = {1, 2, 3}
  Elems = {1, 2}
  MaxSize = 6
  RingLen = 3
  Tags = 4
  SizeMod = 6
  Writes = {1, 3}
  Reads = {1, 4}
  Packet = 2
  MaxLines = 3
  Readers = {r1, r2}
  Fds = {f1, f2}
  Signals = {1, 2}
  MaxNest = 3
  MaxSignals = 2
  MaxEarly = 1
  StackWords = 200
  Sp0 = 190
  FpuSlots = {1, 2, 3}
  MaxTid = 3
  MaxSkew = 1
  PtArchs = {"x86_64", "arm64", "riscv64"}
  NRam = 32
  PtSpaces = {1, 2}
  ZoneFlags <- MCZoneFlags
  DevPage = 1
  StackPage = 0
  MaxMade = 2
  MaxProcs = 3
  THREADS_PER_NODE = 3
  MaxThreadsMade = 3
  Codes = {1}
  Uses = {}
  ArgLens = {0, 3, 6}
  MaxArgs = 2
  USER_STR_MAXLEN = 6
  USER_PTRARRAY_MAXLEN = 2
  MaxData = 11
  StackTop = 160
INVARIANTS
  AllocatorsSound StructuresExact NullPageKept
  StreamsInOrder InputNotStuck
  UserStateKept CallsServed MemoryMapped ProcessesSound
SYMMETRY Symmetry
CHECK_DEADLOCK FALSE
