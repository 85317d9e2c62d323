CONSTANTS
  MULTITHREAD = 3
  FaultSets = {{}, {"fork", "lost", "socket"}, {"bind", "kill", "stop"}, {"lost", "recvfrom"}}
SPECIFICATION Spec
PROPERTIES EndsIffAllHeard ImplementsParallelContexts
CHECK_DEADLOCK FALSE
