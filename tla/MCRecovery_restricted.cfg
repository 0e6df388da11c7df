SPECIFICATION RecoverySpec
CONSTANTS
  o1 = o1
  o2 = o2
  o3 = o3
  a1 = a1
  a2 = a2
  OrderIds = {o1, o2, o3}
  EmptyName = EmptyName
  Accounts = {a1, a2, EmptyName}
  Prices = {1, 2}
  StpPolicy = "CANCEL_TAKER"
  NoOrder = NoOrder
  None = None
  MaxSequence = 6
  Commands <- Traffic
  SeedCommands <- Seeds
  DefaultLimits <- Open
  OtherLimits <- OneSetting
  LatestPoint = 2
  Overtaking = 1
INVARIANTS
  RecoveryReproduces
CHECK_DEADLOCK FALSE
