\* Writes and new inodes next to the flusher, in a cache that grows by single entries.
\* A name that exists may be created: the kernel may then stop at an ASSERT.
SPECIFICATION Spec
CONSTANTS
  BlockLen = 1
  MaxBlocks = 3
  NInodes = 4
  InodeCacheLimit = 9
  Procs = {1}
  InitProc = 1
  Fds = {1}
  NFiles = 2
  Calls = {"creat", "excl", "open", "close", "unlink", "write", "fsync", "mkdir"}
  Paths <- PathsNew
  CreatExisting = TRUE
  Preemptible = FALSE
  MaxCount = 2
  MaxHeld = 3
INVARIANT NoLostUpdate
INVARIANT OneDentryPerInode
CHECK_DEADLOCK FALSE
