SPECIFICATION Spec
CONSTANTS
  NoName = NoName
  Names <- MCNames
  Lower <- MCLower
  ValidNames <- MCValidNames
  Decks <- UpperDecks
  Flatten <- True
INVARIANTS RecursionCaught
