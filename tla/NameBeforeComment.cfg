SPECIFICATION Spec
CONSTANTS
  a = a
  b = b
  m = m
  x = x
  r = r
  NoName = NoName
  Names <- MCNames
  ParaSizes <- MCParaSizes
  Decks <- CommentDecks
  Regular <- CommentDecks
  Numbered <- Later
INVARIANTS RegularAccepted
CHECK_DEADLOCK FALSE
