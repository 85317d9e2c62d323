SPECIFICATION Spec
CONSTANTS
  WordCount = 4
  RegisterCount = 3
  EntryCount = 2
  Programs <- MCPrograms
INVARIANTS OperandsAreArchitectural BranchTargetsRight DuplicatesAgree NoBubbleBehindJump
PROPERTIES ImplementsSequential KeepsExecuting
