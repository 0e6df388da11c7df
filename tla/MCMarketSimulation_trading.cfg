SPECIFICATION MarketSpec
CONSTANTS
  s1 = s1
  s2 = s2
  o1 = o1
  o2 = o2
  o3 = o3
  a1 = a1
  a2 = a2
  bidder = bidder
  asker = asker
  OrderIds <- Ids
  Accounts <- Users
  Prices <- Quotes
  StpPolicy = "CANCEL_TAKER"
  NoOrder = NoOrder
  None = None
  MaxSequence = 12
  Commands <- Traffic
  SeedCommands <- Seeds
  DefaultLimits <- Open
  OtherLimits <- Limits
  NoiseOffsets <- Offsets
  MakerOffsets = {2}
  Sizes <- AgentSizes
  Opening <- Center
  ScenarioKeys = {"flash_selloff", "high_volatility"}
  MaxSteps <- Steps
  MaxCompany = 2
  Window = 8
  Unknown = a2
  Thresholds <- Rules
INVARIANTS
  MarketTypeOK
  AccountsAgree
  WithinLimits
  AggressorsAsForced
  CommandsFindTheirBook
  AlertsAreGrounded
CHECK_DEADLOCK FALSE
