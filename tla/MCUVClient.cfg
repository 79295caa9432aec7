SPECIFICATION MCFairSpec
CONSTANTS
  Msg = {m1, m2}
  WriteLimit = 2
  RetryTimes = 2
  ShouldReconnect = TRUE
  MaxFrames = 6
INVARIANTS
  TypeOK
  InflightBacked
  ChainsTile
  BackPressure
  NeverAborts
  StartsAfresh
  GivesUpOnlyAfterRetries
PROPERTIES
  NoReinitOfLiveHandle
  IsFrameQueue
  OutageEnds
  FramesLeave
CHECK_DEADLOCK FALSE
