SPECIFICATION Spec
CONSTANTS
  WordCount = 4
  RegisterCount = 3
  EntryCount = 2
  Programs <- MCCsrPrograms
INVARIANTS OperandsAreArchitectural
