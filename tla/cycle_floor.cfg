CONSTANTS
  share = share
  bond = bond
  NoOrder = NoOrder
  Instruments = {share, bond}
  Uids = {share, bond}
  Universe <- ShareAndBond
  Lot <- OneLot
  PriceTick <- OneTick
  Ids = {1, 2}
  DecisionIds = {1, 2, 3, 4}
  MaxRows = 4
  Decisions <- NoDecisions
  Quotes <- SteadyQuotes
  Sessions <- Day
  StatusInputs <- NoPermissions
  MaxQuoteAge = 0
  CashFloor = 61
  StartingCash = 100
  MaxTime = 2
  SlippageBps = 0
  CommNum = 1
  CommDen = 100
  OldState <- NoOldState
  OldOrder <- NoOldOrder
  MaxInt = 100000
  Views <- PricedViews
  EntrySizes <- OneSize
  Risk <- FloorRisk
SPECIFICATION CycleSpec
INVARIANT FloorKept
CHECK_DEADLOCK FALSE
