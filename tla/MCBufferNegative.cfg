SPECIFICATION ReadsSpec
CONSTANTS
  Request <- SignedLengths
  ChainSize = 2
  MaxExpand = 2
  Fraction = 4
  Hint = 1
  Width = 8
  MaxBytes = 3
  Text <- LoneLF
  LF = LF
  CR = CR
  NUL = NUL
INVARIANT NegativeMeansAll
