\* One CPU, processes that fork, create threads, exit and are killed.
SPECIFICATION Spec
CONSTANTS
  NThreads = 4
  NProcs = 4
  CPUs = {0}
  MIN_PRIO = 0
  DEFAULT_PRIO = 0
  Calls = {"block", "exit", "fork", "create_thread", "term"}
  Targets = {3}
  MinLoad = 0
INVARIANTS
  InductiveInv
  QueuesExact
  NoFreedThreadRuns
  NoThreadOfDeadProcess
