SPECIFICATION Spec
CONSTANTS
  o1 = o1
  o2 = o2
  o3 = o3
  a1 = a1
  a2 = a2
  OrderIds = {o1, o2, o3}
  Accounts = {a1, a2}
  Prices = {1, 2}
  StpPolicy = "CANCEL_TAKER"
  Requests <- MixedRequests
  RiskRequests <- NoRequests
  ModifyQuantities = {1, 3}
  ModifyPrices = {1, 2}
  NoOrder = NoOrder
  None = None
  MaxSequence = 7
SYMMETRY Symmetry
INVARIANT
  FillOrKillAllOrNothing
PROPERTIES
  PriceTimePriority
  CommandsEnd
  ImplementsReference
CHECK_DEADLOCK FALSE
