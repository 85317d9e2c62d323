CONSTANTS
  MULTITHREAD = 3
  FaultSets = {{}, {"fork", "shmget", "kill"}, {"fork", "stop"}}
SPECIFICATION Spec
INVARIANTS FreshResults
PROPERTIES MainEnds ImplementsParallelContexts
CHECK_DEADLOCK FALSE
