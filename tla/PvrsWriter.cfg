SPECIFICATION Spec
CONSTANTS
  ConflictNames <- MCConflictNames
  FuncNames <- MCFuncNames
  Decks <- MCDecks
INVARIANTS WriterTypeOK WrittenAsMeant CorrectAccepted DefinedBefore
PROPERTY Termination
CHECK_DEADLOCK FALSE
