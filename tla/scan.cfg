CONSTANTS
  MaxX = 2
  MaxY = 2
  Five = 2
SPECIFICATION FairScanSpec
INVARIANTS
  ScanTypeOK
  CountsTheRow
  ScanDecides
  CountingStaysInside
PROPERTY ScanEnds
CHECK_DEADLOCK FALSE
