SPECIFICATION Spec
CONSTANTS
  Capacity = 4
  EventKinds <- PlainCommands
  Seeds = 2
  Faults = {"out_of_order"}
  MaxEdition = 4
  MaxRefused = 1
  MaxResets = 0
  MaxWire = 1
  OtherNumbers = {}
INVARIANTS
  LiveIsCurrent
