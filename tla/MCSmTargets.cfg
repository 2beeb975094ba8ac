SPECIFICATION TSpec
CONSTANTS
  W = 4
  MaxIndex = 2
  Programs <- PortablePrograms
INVARIANTS SameMachine SameVerdict
PROPERTY CErrorIsAtomic
