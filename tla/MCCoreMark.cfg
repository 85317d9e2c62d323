CONSTANTS
  NULL = NULL
  Configs <- MCConfigs
SPECIFICATION Spec
INVARIANTS ListIntact Restored Validated
PROPERTIES SortStable
CHECK_DEADLOCK FALSE
