SPECIFICATION Spec
CONSTANTS
  MaxRuns = 1
  Operations = 1
  Capacity = 1
  MaxResets = 1
INVARIANT
  OneMutationWorker
CHECK_DEADLOCK FALSE
