CONSTANTS
  share = share
  bond = bond
  Uids = {share}
  QueueSize = 1
  LookbackBars = 2
  Faults = {"call", "garbled", "late", "upsert", "read", "quote"}
  Ends = {"RESOLVE", "BREAKER"}
  QuoteTimes = {1, 2}
  MaxBar = 3
  MaxBreaks = 2
  MaxQuotes = 2
  MaxCrashes = 1
SPECIFICATION MCSpec
INVARIANTS WatermarkStored HeardBarsSettle
PROPERTIES CompleteStays QuotesStayWhole
CHECK_DEADLOCK FALSE
