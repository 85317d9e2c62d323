CONSTANTS
  MULTITHREAD = 2
  TOTAL_DATA_SIZE = 2000
  CommandLines <- MCCommandLines
  Builds <- MCBuilds
  Machines <- MCMachines
  EE_TICKS_PER_SEC = 100
  HAS_FLOAT = TRUE
SPECIFICATION Spec
INVARIANTS TenSecsSuffice
CHECK_DEADLOCK FALSE
