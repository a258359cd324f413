SPECIFICATION FairSpec
CONSTANTS
  f1 = f1
  f2 = f2
  f3 = f3
  Files = {f1, f2, f3}
  Edits = {edited}
  RequestLists <- MCRequestLists
  MaxEdits = 2
  MaxFaults = 2
INVARIANTS
  TypeOK
  OriginalKept
  ReportsTrue
  NothingHidden
  AllOrNothing
PROPERTIES
  EarlierEditsSurvive
  ImplementsBatch
  Termination
CHECK_DEADLOCK FALSE
