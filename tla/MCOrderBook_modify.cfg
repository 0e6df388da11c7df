SPECIFICATION Spec
CONSTANTS
  o1 = o1
  o2 = o2
  o3 = o3
  a1 = a1
  a2 = a2
  OrderIds = {o1, o2, o3}
  Accounts = {a1, a2}
  Prices = {1, 2}
  StpPolicy = "CANCEL_TAKER"
  Requests <- RestingRequests
  RiskRequests <- RefusedRequests
  ModifyQuantities = {1, 2, 3}
  ModifyPrices = {0, 1, 2}
  NoOrder = NoOrder
  None = None
  MaxSequence = 9
SYMMETRY Symmetry
INVARIANTS
  TypeOK
  BookConsistent
  Uncrossed
  NoOrderLost
  QuantitiesAddUp
  PostOnlyNeverTakes
PROPERTY
  TerminalIsFinal
CHECK_DEADLOCK FALSE
