SPECIFICATION ReadsSpec
CONSTANTS
  Request <- Lengths
  ChainSize = 2
  MaxExpand = 2
  Fraction = 4
  Hint = 1
  Width = 8
  MaxBytes = 7
  Text <- Lines
  LF = LF
  CR = CR
  NUL = NUL
INVARIANT FirstOnesAreLinked
