CONSTANTS
  Widths = {2, 9}
  MaxVals = 13
SPECIFICATION Spec
INVARIANT NoValueLost
