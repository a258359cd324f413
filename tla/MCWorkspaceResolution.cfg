SPECIFICATION Spec
CONSTANTS
  r1 = r1
  r2 = r2
  r3 = r3
  class = class
  conf = conf
  Recipes = {r1, r2, r3}
  Includes = {class, conf}
  Size <- MCSize
  MaxFiles = 4
  MaxBytes = 4
  MaxRecipeQueries = 2
  MaxVanishing = 1
  Worlds <- MCWorlds
INVARIANTS
  IndexComplete
  LimitsHeldFirst
  AnsweredOnce
CHECK_DEADLOCK FALSE
