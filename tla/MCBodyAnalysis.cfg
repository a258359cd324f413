SPECIFICATION Spec
CONSTANTS
  ShellPieces <- MCShellPieces
  PythonPieces <- MCPythonPieces
  MaxPieces <- MCMaxPieces
INVARIANTS
  ValidBodyIsClean
  BrokenBodyIsReported
  
CHECK_DEADLOCK FALSE
