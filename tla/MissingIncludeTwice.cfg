SPECIFICATION Spec
CONSTANTS
  Root = "deck"
  EmptyValue = ""
  NoName = NoName
  NoValue = NoValue
  Files <- MCFiles
  Paths <- MCPaths
  FileOf <- MCFileOf
  PathVar <- MCPathVar
  Names <- MCNames
  DollarNames <- MCDollarNames
  Values <- MCValues
  Env <- MCEnv
  Disks <- IncludeDisks
  Modes <- DefaultMode
INVARIANTS RecursionOnlyIfOpen
