SPECIFICATION MCSpec
CONSTANTS
  Msg <- Frame
  WriteLimit = 2
  RetryTimes = 1
  ShouldReconnect = TRUE
  File = {f1, f2}
  Block = 2
  Sizes = {0, 4, 5}
  MaxSize = 5
  MaxGen = 2
  MaxTransfers = 2
INVARIANTS
  SyncTypeOK
  ParkedIsSuspended
  FlagMatchesParked
  NoLostWakeup
  OnlyEmptyFilesStall
  BlocksInOrder
  FinishedIsWhole
CHECK_DEADLOCK FALSE
SYMMETRY Symmetry
