CONSTANTS
  b1 = b1
  b2 = b2
  e1 = e1
  e2 = e2
  e3 = e3
  Browsers = {b1}
  Exchanges = {e1, e2, e3}
  Kind <- MCKind
  Room = 1
SPECIFICATION FairSpec
INVARIANTS
  TypeOK
  NoPacketMissed
  NoWriteAfterClose
PROPERTIES
  FeedSpec
  BroadcastsEnd
  GoneAreForgotten
CHECK_DEADLOCK FALSE
