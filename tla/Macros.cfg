SPECIFICATION Spec
CONSTANTS
  NoName = NoName
  Names <- MCNames
  Lower <- MCLower
  ValidNames <- MCValidNames
  Decks <- AllDecks
  Flatten <- Both
INVARIANTS TypeOK Substitution FreshScopes ScopesNest RecursionStopped LayersSpelledAlike
PROPERTIES Termination
