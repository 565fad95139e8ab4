SPECIFICATION FairSpec
CONSTANTS
  share = share
  bond = bond
  d1 = d1
  d2 = d2
  d3 = d3
  d4 = d4
  NoOrder = NoOrder
  Instruments = {share, bond}
  Lot <- MCLot
  PriceTick <- MCTick
  Ids = {1, 2, 3, 4}
  DecisionIds = {d1, d2, d3, d4}
  Decisions <- RecoveryDecisions
  Quotes <- MCQuotes
  Sessions <- Day1
  StatusInputs <- Suspended
  MaxQuoteAge = 1
  CashFloor = 20
  StartingCash = 100
  MaxTime = 2
  SlippageBps = 500
  CommNum = 1
  CommDen = 100
  OldState <- RemnantState
  OldOrder <- RemnantOrder
INVARIANTS NoneStranded
PROPERTIES QuotesComplete DayOrdersEnd
