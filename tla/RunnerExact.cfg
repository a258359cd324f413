SPECIFICATION Spec
CONSTANTS
  parse = parse
  recipe = recipe
  Invocations <- MCInvocations
  MaxCommands = 2
  MaxRecipeQueries = 2
  Limit = 1
  MaxSent <- MCStderr
  MaxCalls = 1
INVARIANT
  OutputExact
CHECK_DEADLOCK FALSE
