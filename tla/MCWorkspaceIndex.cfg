SPECIFICATION Spec
CONSTANTS
  Worlds <- MCWorlds
  Rank <- RankOf
  MaxRetained = 2
INVARIANTS
  EdgesAsSearched
  Ranked
  CyclesExact
CHECK_DEADLOCK FALSE
