\* One CPU, single-threaded processes of changing priorities: the pointer-level scheduler
\* implements the round scheduler; liveness under weak fairness of the kernel and of the
\* timer.  A process may raise a terminating signal and go on until the tick.
SPECIFICATION FairSpec
CONSTANTS
  NThreads = 3
  NProcs = 3
  CPUs = {0}
  MIN_PRIO = 1
  DEFAULT_PRIO = 1
  Calls = {"block", "sigreturn", "exit", "fork", "stop", "cont", "term", "raise", "nice"}
  Targets = {3}
  MinLoad = 1
INVARIANTS
  PickedIsRunnable
  RoundInPriorityOrder
PROPERTIES
  ImplementsRounds
  RunnableRuns
  ReadyThreadWakes
  DyingProcessFreed
