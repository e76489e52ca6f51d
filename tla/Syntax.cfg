SPECIFICATION Spec
CONSTANTS
  a = a
  b = b
  m = m
  x = x
  r = r
  NoName = NoName
  Names <- MCNames
  ParaSizes <- MCParaSizes
  Decks <- AllDecks
  Regular <- RegularDecks
  Numbered <- Later
INVARIANTS TypeOK NodesTypeOK OneNodePerStatement RegularAccepted SameBranch DefinedOnce
PROPERTIES Forward Termination
CHECK_DEADLOCK FALSE
