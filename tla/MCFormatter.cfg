SPECIFICATION Spec
CONSTANTS
  Blocks <- MCBlocks
  MaxBlocks = 3
  Options <- MCOptions
INVARIANTS
  LayoutKept
  Idempotent
  MeaningKept
CHECK_DEADLOCK FALSE
