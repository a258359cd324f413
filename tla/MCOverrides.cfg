SPECIFICATION Spec
CONSTANTS
  RefTo <- MCRefTo
  Pool <- MCPool
  Contexts <- MCContexts
  MaxAssignments = 3
INVARIANTS
  EvaluationsAgree
  LayoutIgnored
  AcyclicSettles
  RemovedStaysRemoved
CHECK_DEADLOCK FALSE
