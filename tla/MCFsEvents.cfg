SPECIFICATION Spec
CONSTANTS
  Dir = {d1}
  File = {f1, f2}
  Gap = 2
  Interval = 4
  Work = 1
  MaxSleep = 6
  Horizon = 8
INVARIANT TypeOK
PROPERTIES
  NeverEarly
  HeldBriefly
  EventuallyHanded
CHECK_DEADLOCK FALSE
