SPECIFICATION Spec
CONSTANTS
  SummaryLimit = 2
  IntegerWords = {"5"}
  Workspace <- MCWorkspace
  Paths <- MCPaths
  Pieces <- MCPieces
  MaxPieces = 3
  Settings <- MCSettings
INVARIANT
  FixedFileParses
CHECK_DEADLOCK FALSE
