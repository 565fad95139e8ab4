CONSTANTS
  share = share
  bond = bond
  Uids = {share, bond}
  MaxInt = 1023
  Answers <- MCAnswers
  Request <- MCRequest
  States <- MCStates
  Limits <- MCLimits
SPECIFICATION CheckSpec
INVARIANTS
  ExposureWithinLimits
  CashAboveFloor
  SellsCovered
  ExitsSurvive
  AuditComplete
  CheckIsStable
  GatedAreInvisible
PROPERTY CutsAreTight
CHECK_DEADLOCK FALSE
