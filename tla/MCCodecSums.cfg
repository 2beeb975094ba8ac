CONSTANTS
  ByteBits = 2
  IntBits = 4
  WordBits = 8
  MaxGroupBytes = 8
  MaxCases = 2
  MaxNesting = 2
  MaxInput <- SumInputs
  MaxOutput = 16
  SerializeBy <- Serialized
  LengthBy <- SerializedLen
  Profile = "extended"
  Schemas <- SumSchemas
SPECIFICATION Spec
INVARIANT HarnessIsQuiet
CHECK_DEADLOCK FALSE
