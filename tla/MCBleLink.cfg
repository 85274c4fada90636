CONSTANTS
  Cap = 4
  Chunk = 2
  Settle = 1
  RawCap = 1
  OutCap = 1
  Pool = 2
  ConsoleFloor = 1
  TeleFloor = 2
SPECIFICATION FairSpec
INVARIANTS
 NeverReallocates
 LogsLeaveRoom
PROPERTY BacklogMoves
