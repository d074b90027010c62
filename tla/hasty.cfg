CONSTANTS
  c1 = c1
  c2 = c2
  c3 = c3
  Clients = {c1, c2}
  Leavers = {}
  Clickers = {c1, c2}
  Hasty = {c2}
  MaxPending = 2
  MaxTicks = 0
  MaxX = 2
  MaxY = 0
  Five = 2
SPECIFICATION Spec
INVARIANTS
  SameOrder
  ReplicasAgree
  ReplicasFollowGame
  SeatsDiffer
  GameOverIsJustified
