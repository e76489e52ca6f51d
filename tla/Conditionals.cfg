SPECIFICATION Spec
CONSTANTS
  Root = "deck"
  EmptyValue = ""
  NoName = NoName
  NoValue = NoValue
  Files <- MCFiles
  Paths <- MCPaths
  FileOf <- MCFileOf
  PathVar <- MCPathVar
  Names <- MCNames
  DollarNames <- MCDollarNames
  Values <- MCValues
  Env <- MCEnv
  Disks <- ConditionalDisks
  Modes <- DefaultMode
INVARIANTS TypeOK EffectivePath SkippedStaysSkipped
PROPERTIES ImplementsBlocks
