SPECIFICATION TSpec
CONSTANTS
  W = 4
  MaxIndex = 2
  Programs <- ConnectionOnly
INVARIANT SameVerdict
