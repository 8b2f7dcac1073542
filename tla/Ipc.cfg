\* The dock and an application that asks for a window and a menu, gets an input
\* event and may be closed; a read takes at most two messages.  And the C library:
\* integers of 8 bits, texts of three and four characters, buffers of 8 bytes.
SPECIFICATION Spec
CONSTANTS
  Base = 32
  WordBytes = 2
  MaxBatch = 2
  Clients = {5, 6}
  Dock = 6
  Chunk = 2
  MaxEvents = 1
  MaxRequests = 1
  HeaderSizes = {16, 32}
  AllocSizes = {0, 60, 1900}
  CallocPairs <- MCCallocPairs
  SizeBits = 21
  MAX_ALLOCATED_BLOCKS = 2
  MaxPointers = 3
  BUFSIZ = 8
  VbufSizes = {0, 8}
  Contents <- MCContents
  IoSizes = {1, 5}
  MaxFile = 5
  PartialWrites = FALSE
  TellBuffered = FALSE
  Letters = {1, 2, 3}
  MaxStr = 3
  MemLen = 10
  Delims = {2, 3}
  Bits = 8
  Chars = {32, 43, 45, 48, 57, 70, 97, 120}
  MaxChars = 3
  Directives = {37, 108, 100, 122, 113}
  MaxFmt = 4
  SortVals = {1, 2, 3}
  MaxSort = 4
  MaxDay = 1470
  Names = {"A", "B", "C"}
  Values = {"u", "v"}
  MaxEnv = 4
  UnsetAny = FALSE
  NF = 3
  PwLines <- MCPwLines
  MaxPwLines = 3
  PwBuf = 12
INVARIANTS
  AnswerIsReply
  EventsInOrder
  BatchDecoded
  LibcKeeps
  LibcExact
PROPERTY Answered
CHECK_DEADLOCK FALSE
