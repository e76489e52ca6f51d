SPECIFICATION Spec
CONSTANTS
  NoPlace = NoPlace
  MaxDepth = 4
  MaxConversions = 2
  Words <- MCWords
  Names <- MCNames
  Deck <- MCDeck
  SwitchFile <- MCSwitch
  OutFile <- MCOut
  Unwritable <- Locked
  Starts <- AllStarts
INVARIANTS TypeOK OwnOutput InputRecovered AllConverted ErrorPlace EveryErrorReported FatalEndsRun TempRemoved StreamsClosed
PROPERTIES Termination
