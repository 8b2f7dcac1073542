\* Two CPUs: a process is stopped and continued while its thread executes on the other CPU.
SPECIFICATION Spec
CONSTANTS
  NThreads = 4
  NProcs = 4
  CPUs = {0, 1}
  MIN_PRIO = 0
  DEFAULT_PRIO = 0
  Calls = {"block", "fork", "stop", "cont"}
  Targets = {4}
  MinLoad = 1
INVARIANTS
  PickedIsRunnable
