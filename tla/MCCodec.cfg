CONSTANTS
  ByteBits = 2
  IntBits = 4
  WordBits = 8
  MaxGroupBytes = 8
  MaxCases = 2
  MaxNesting = 2
  MaxInput <- SoundInputs
  MaxOutput = 16
  SerializeBy <- Serialized
  LengthBy <- SerializedLen
  Profile = "extended"
  Schemas <- SoundSchemas
SPECIFICATION Spec
INVARIANTS TypeOK RoundTrips ValueSurvives BackendsAgree LengthIsExact ViewsInScope NothingBehindIsRead ReadsAreBound
CHECK_DEADLOCK FALSE
