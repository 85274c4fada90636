CONSTANTS
  Boards <- TestBoards
  Settle = 1
  Collect = 1
  Core0 = TRUE
SPECIFICATION FairSpec
INVARIANTS
  TypeOK
  CountIsSane
PROPERTIES
  CleanRunCovers
  CalibrationEnds
