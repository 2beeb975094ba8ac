CONSTANTS
  ByteBits = 2
  IntBits = 4
  WordBits = 8
  MaxGroupBytes = 8
  MaxCases = 2
  MaxNesting = 2
  MaxInput <- EarlyInputs
  MaxOutput = 16
  SerializeBy <- Serialized
  LengthBy <- SerializedLen
  Profile = "extended"
  Schemas <- EarlySchemas
SPECIFICATION Spec
INVARIANT ReadsAreBound
CHECK_DEADLOCK FALSE
