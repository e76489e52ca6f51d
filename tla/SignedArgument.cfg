SPECIFICATION Spec
CONSTANTS
  a = a
  b = b
  m = m
  x = x
  r = r
  NoName = NoName
  Names <- MCNames
  ParaSizes <- MCParaSizes
  Decks <- SignDecks
  Regular <- SignDecks
  Numbered <- Later
INVARIANTS OneNodePerStatement
CHECK_DEADLOCK FALSE
