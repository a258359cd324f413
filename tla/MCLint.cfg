SPECIFICATION Spec
CONSTANTS
  SummaryLimit = 2
  IntegerWords = {"5"}
  Workspace <- MCWorkspace
  Paths <- MCPaths
  Pieces <- MCPieces
  MaxPieces = 3
  Settings <- MCSettings
INVARIANTS
  FindingsExact
  FixesSettle
  SuppressionsAccounted
  CleanExitIsEarned
CHECK_DEADLOCK FALSE
