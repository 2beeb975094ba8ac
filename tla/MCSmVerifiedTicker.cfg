SPECIFICATION FairSpec
CONSTANTS
  W = 4
  MaxIndex = 1
  Bound = 4
  NullVal = NullVal
  Programs <- TickerOnly
PROPERTY AllReachClosed
