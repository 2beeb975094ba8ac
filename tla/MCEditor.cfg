SPECIFICATION ESpec
CONSTANTS
  Chars <- MCChars
  MaxChars = 5
INVARIANTS
  EditorTypeOK
  NothingInsideACharacter
  PositionsRoundTrip
  CommentsAgree
  DeltasDecode
