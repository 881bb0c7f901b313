SPECIFICATION FairSpec
CONSTANTS
  Conn = {c1, c2}
  QueueCap = 1
  WireCap = 1
  MaxSnapshots = 1
INVARIANTS TypeOK InitFirst NoSilentLoss
PROPERTIES FeedSpec ViewersServed
CHECK_DEADLOCK FALSE
