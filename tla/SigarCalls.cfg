SPECIFICATION CallsSpec
CONSTANTS
  Chunk = 1
  MaxTurns = 2
CONSTRAINT FewKept
INVARIANTS
  NothingLost
  NothingStale
  RowsFit
  HandleClosed
CHECK_DEADLOCK FALSE
