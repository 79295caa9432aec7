SPECIFICATION Spec
CONSTANTS
  Prefix = 2
  BodyLen = {3, 4}
  Garbage <- Spelled
  MaxMsgs = 2
  MaxConn = 2
INVARIANT BrokenIsError
CHECK_DEADLOCK FALSE
