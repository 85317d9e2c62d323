SPECIFICATION Spec
INVARIANTS ComputesRight
PROPERTIES Passes
CHECK_DEADLOCK FALSE
