SPECIFICATION Spec
CONSTANTS
  W = 4
  MaxIndex = 1
  Bound = 4
  NullVal = NullVal
  Programs <- VerifiablePrograms
PROPERTY CodeIsModelled
