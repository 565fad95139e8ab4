CONSTANTS
  share = share
  bond = bond
  Uids = {share}
  QueueSize = 1
  LookbackBars = 2
  Faults = {}
  Ends = {"RESOLVE", "BREAKER"}
  QuoteTimes = {1, 2}
  MaxBar = 3
  MaxBreaks = 1
  MaxQuotes = 0
  MaxCrashes = 0
SPECIFICATION MCSpec
INVARIANTS GapsAreFilled
CHECK_DEADLOCK FALSE
