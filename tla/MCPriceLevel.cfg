SPECIFICATION LevelSpec
CONSTANTS
  n1 = n1
  n2 = n2
  n3 = n3
  n4 = n4
  l1 = l1
  l2 = l2
  Nodes = {n1, n2, n3, n4}
  PriceLevels = {l1, l2}
  Quantities = {1, 2}
  NoNode = NoNode
  NoLevel = NoLevel
SYMMETRY Symmetry
INVARIANTS
  LevelTypeOK
  LinksReciprocal
  AggregatesExact
PROPERTY
  ImplementsLevels
