\* open(O_CREAT) of a file that exists.
SPECIFICATION Spec
CONSTANTS
  BlockLen = 2
  MaxBlocks = 3
  NInodes = 4
  InodeCacheLimit = 9
  Procs = {1}
  InitProc = 1
  Fds = {1}
  NFiles = 2
  Calls = {"open", "creat", "close"}
  Paths <- PathsTree
  CreatExisting = TRUE
  Preemptible = FALSE
  MaxCount = 2
  MaxHeld = 4
INVARIANT PutAsserted
