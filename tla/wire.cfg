CONSTANTS
  CAPACITY = 8
  kMaximumSegmentSize = 6
  HeaderSize = 2
  StoneSize = 1
  CellSize = 1
  ServerWord = 1
  ClientWord = 1
  Window = 2
  Second = 2
  Naps = {2, 3}
  LeftOver = {1}
  MaxRequests = 2
  MaxStones = 1
  MaxTicks = 2
SPECIFICATION FairSpec
INVARIANTS
  WireTypeOK
  StreamIntact
  FramingKept
  ReadsFit
  RecvHasRoom
  BuffersHold
  NoTimeTooMany
PROPERTIES
  DeliversPackets
  EveryPacketArrives
  ClockKeepsGoing
CHECK_DEADLOCK FALSE
