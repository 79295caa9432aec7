SPECIFICATION FairSpec
CONSTANTS
  Msg <- Frame
  WriteLimit = 2
  RetryTimes = 1
  ShouldReconnect = TRUE
  File = {f1}
  Block = 2
  Sizes = {0, 3}
  MaxSize = 3
  MaxGen = 1
  MaxTransfers = 2
PROPERTY TransferEnds
CHECK_DEADLOCK FALSE
