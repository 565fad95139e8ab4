SPECIFICATION MCSpec
CONSTANTS
  share = share
  bond = bond
  d1 = d1
  d2 = d2
  d3 = d3
  d4 = d4
  NoOrder = NoOrder
  Instruments = {share}
  Lot <- MCLot
  PriceTick <- MCTick
  Ids = {1, 2, 3}
  DecisionIds = {d1, d2, d3}
  Decisions <- AllDecisions
  Quotes <- MCQuotes
  Sessions <- Day1
  StatusInputs <- NoPermissions
  MaxQuoteAge = 1
  CashFloor = 20
  StartingCash = 100
  MaxTime = 3
  SlippageBps = 500
  CommNum = 1
  CommDen = 100
  OldState <- NoOldState
  OldOrder <- NoOldOrder
SYMMETRY DecisionSymmetry
INVARIANTS TypeOK FillsMatchIntents FloorBreachHalts  OneIntentPerDecision BooksBalance
  RealizedPnLReconciles
PROPERTIES OutcomesAreFinal ExpiryIsComplete ImplementsContract
