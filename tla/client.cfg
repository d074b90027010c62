CONSTANTS
  Points <- MCPoints
  Played <- MCPlayed
  Missing <- MCMissing
  MaxPresses = 4
  MaxBoxes = 2
SPECIFICATION Spec
INVARIANTS
  ProgramTypeOK
  FirstVisitIsSafe
  CrashNeedsMissingFile
  OnePressOneAction
  GdiBounded
CHECK_DEADLOCK FALSE
