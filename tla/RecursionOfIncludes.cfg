SPECIFICATION Spec
CONSTANTS
  NoPlace = NoPlace
  MaxDepth = 4
  MaxConversions = 0
  Words <- MCWords
  Names <- MCNames
  Deck <- MCDeck
  SwitchFile <- MCSwitch
  OutFile <- MCOut
  Unwritable <- Locked
  Starts <- IncludeStarts
INVARIANTS RecursionReported
