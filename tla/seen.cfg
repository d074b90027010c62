CONSTANTS
  c1 = c1
  c2 = c2
  c3 = c3
  Clients = {c1, c2}
  Leavers = {}
  Clickers = {c1, c2}
  Hasty = {}
  MaxPending = 1
  MaxTicks = 1
  MaxX = 2
  MaxY = 0
  Five = 2
SPECIFICATION FairSpec
PROPERTIES
  MovesAreLegal
  PlaysMatches
  EveryMoveIsSeen
  ResultIsSeen
  TimeNeverRunsBack
