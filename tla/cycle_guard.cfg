CONSTANTS
  share = share
  bond = bond
  NoOrder = NoOrder
  Instruments = {share}
  Uids = {share}
  Universe <- ShareOnly
  Lot <- OneLot
  PriceTick <- OneTick
  Ids = {1, 2, 3, 4}
  DecisionIds = {1, 2, 3, 4}
  MaxRows = 4
  Decisions <- NoDecisions
  Quotes <- SteadyQuotes
  Sessions <- Day
  StatusInputs <- NoPermissions
  MaxQuoteAge = 0
  CashFloor = 0
  StartingCash = 100
  MaxTime = 2
  SlippageBps = 0
  CommNum = 1
  CommDen = 100
  OldState <- NoOldState
  OldOrder <- NoOldOrder
  MaxInt = 100000
  Views <- AnyViews
  EntrySizes <- OneSize
  Risk <- GuardRisk
SPECIFICATION MCSpec
INVARIANTS OneWorkingOrder DailyCapKept ExposureKept SellsHeld
CHECK_DEADLOCK FALSE
