SPECIFICATION FairSpec
CONSTANTS
  MaxRuns = 3
  Operations = 2
  Capacity = 1
  MaxResets = 1
INVARIANTS
  TypeOK
  OneBookPerSimulation
  CompleteMeansAll
PROPERTIES
  PauseHolds
  SimulationsEnd
CHECK_DEADLOCK FALSE
