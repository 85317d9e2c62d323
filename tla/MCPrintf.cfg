CONSTANTS
  Bits = 16
  Parts = 64
  NUL = NUL
  CallSets <- SomeCalls
SPECIFICATION Spec
INVARIANTS Formats
CHECK_DEADLOCK FALSE
