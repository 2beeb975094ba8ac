SPECIFICATION CSpec
CONSTANTS
  Projects <- Names
  AliasDepth = 2
CHECK_DEADLOCK FALSE
INVARIANT StructNamesAreDefined
