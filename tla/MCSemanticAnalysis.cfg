SPECIFICATION Spec
CONSTANTS
  dot = dot
  buildlist = buildlist
  Targets <- MCTargets
  Artifacts = {dot, buildlist}
  Sections = {"graph", "dryrun", "inventory", "packages"}
  MaxFaults = 2
INVARIANTS
  ReportComplete
  BuildDirRestored
  TargetsKeptApart
CHECK_DEADLOCK FALSE
