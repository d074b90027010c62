CONSTANTS
  c1 = c1
  c2 = c2
  c3 = c3
  Clients = {c1, c2, c3}
  Leavers = {c1, c2, c3}
  Clickers = {c1, c2, c3}
  Hasty = {}
  MaxPending = 1
  MaxTicks = 0
  MaxX = 2
  MaxY = 0
  Five = 2
SPECIFICATION Spec
SYMMETRY Symmetric
INVARIANTS
  TypeOK
  SessionsMatchSockets
  OnePlaceAtATime
  ParseNeverCrashes
  ColourComesFirst
  RequestsOwnColour
  SameOrder
