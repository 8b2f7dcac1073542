\* Two processes that fork, open, create, unlink, close and exit; every call returns.
SPECIFICATION Spec
CONSTANTS
  BlockLen = 2
  MaxBlocks = 3
  NInodes = 4
  InodeCacheLimit = 9
  Procs = {1, 2}
  InitProc = 1
  Fds = {1}
  NFiles = 2
  Calls = {"open", "unlink", "close", "fork", "exit", "creat"}
  Paths <- PathsCalls
  CreatExisting = FALSE
  Preemptible = FALSE
  MaxCount = 2
  MaxHeld = 4
INVARIANT HoldersKept
INVARIANT NoOrphan
PROPERTY CallReturns
