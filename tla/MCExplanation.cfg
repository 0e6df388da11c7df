SPECIFICATION ExplainedSpec
CONSTANTS
  o1 = o1
  o2 = o2
  a1 = a1
  a2 = a2
  OrderIds = {o1, o2}
  Accounts = {a1, a2}
  Prices = {1}
  StpPolicy = "CANCEL_TAKER"
  Requests <- Orders
  RiskRequests <- NoOrders
  ModifyQuantities = {}
  ModifyPrices = {}
  NoOrder = NoOrder
  None = None
  MaxSequence = 8
INVARIANT
  CancellationsExplained
CHECK_DEADLOCK FALSE
