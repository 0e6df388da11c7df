SPECIFICATION FairSpec
CONSTANTS
  Capacity = 2
  EventKinds <- Commands
  Seeds = 2
  Faults <- AllFaults
  MaxEdition = 4
  MaxRefused = 1
  MaxResets = 1
  MaxWire = 1
  OtherNumbers = {4}
INVARIANTS
  TypeOK
  NewestArrives
  CurrentUnlessOvertaken
PROPERTIES
  NoBlindDelta
  GapsAreRepaired
  ConnectionsShow
