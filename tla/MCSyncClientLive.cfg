SPECIFICATION FairSpec
CONSTANTS
  Msg <- Frame
  WriteLimit = 1
  RetryTimes = 1
  ShouldReconnect = TRUE
  File = {f1, f2}
  Block = 1
  Sizes = {2}
  MaxSize = 2
  MaxGen = 1
  MaxTransfers = 2
PROPERTIES
  UVSpec
  TransferEnds
CHECK_DEADLOCK FALSE
