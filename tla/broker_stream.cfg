CONSTANTS
  share = share
  bond = bond
  NoEvent = NoEvent
  Uids = {share, bond}
  Frames <- MCFrames
  Exits = {"other", "usage"}
  QueueSize = 1
  MaxFast = 1
  MaxFrames = 3
  MaxAttempts = 1
SPECIFICATION FairStreamSpec
INVARIANTS NothingLost ArrivalOrder QueueBounded EndIsTold DoneMeansReaped
PROPERTIES AllDelivered
CHECK_DEADLOCK FALSE
