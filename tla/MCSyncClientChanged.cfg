SPECIFICATION Spec
CONSTANTS
  Msg <- Frame
  WriteLimit = 2
  RetryTimes = 1
  ShouldReconnect = TRUE
  File = {f1}
  Block = 2
  Sizes = {1, 3}
  MaxSize = 3
  MaxGen = 1
  MaxTransfers = 2
INVARIANT ChangedIsSent
CHECK_DEADLOCK FALSE
