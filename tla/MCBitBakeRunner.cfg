SPECIFICATION FairSpec
CONSTANTS
  parse = parse
  recipe = recipe
  Invocations <- MCInvocations
  MaxCommands = 2
  MaxRecipeQueries = 1
  Limit = 1
  MaxSent <- MCStdout
  MaxCalls = 3
INVARIANTS
  EndedOnce
  OutputComplete
  BudgetsHeld
  CacheHoldsSuccesses
PROPERTY
  CallsReturn
CHECK_DEADLOCK FALSE
