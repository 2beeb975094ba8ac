SPECIFICATION Spec
CONSTANTS
  W = 4
  MaxIndex = 2
  Programs <- MCPrograms
INVARIANT TypeOK
PROPERTIES
  ErrorIsAtomic
  TerminalIsFinal
  ConcreteWins
  FieldsAssigned
  DelegateTouchesOneSlot
  ParentMovesOnlyWithChild
  NotificationNotLost
