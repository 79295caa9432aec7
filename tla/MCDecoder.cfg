SPECIFICATION Spec
CONSTANTS
  Prefix = 2
  BodyLen = {3, 4}
  Garbage <- Spelled
  MaxMsgs = 3
  MaxConn = 2
INVARIANTS
  TypeOK
  InOrder
  NothingCompleteWaits
PROPERTY CallbackReturns
CHECK_DEADLOCK FALSE
