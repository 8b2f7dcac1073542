\* Two processes that make, remove and enter directories, open files and exit, with
\* the inode cache at its limit.
SPECIFICATION Spec
CONSTANTS
  BlockLen = 2
  MaxBlocks = 3
  NInodes = 4
  InodeCacheLimit = 1
  Procs = {1, 2}
  InitProc = 1
  Fds = {1}
  NFiles = 2
  Calls = {"mkdir", "rmdir", "chdir", "unlink", "fork", "open", "close", "exit"}
  Paths <- PathsDirs
  CreatExisting = FALSE
  Preemptible = FALSE
  MaxCount = 3
  MaxHeld = 3
INVARIANT HoldersKept
