CONSTANTS
  r1 = r1
  r2 = r2
  r3 = r3
  Run = {r1, r2}
  Key = {1, 2, Workspace}
  TTL = 1
  MaxClock = 1
  Free = Free
  Untried = Untried
  Done = Done
  LastSlice = 2
  Workspace = Workspace
  Mortal = {r1, r2}
  Orphans = TRUE
  Halts = TRUE
  HandMarks = "between"
  Torn = Torn
  Unbound = Unbound
CHECK_DEADLOCK FALSE
SPECIFICATION Spec
INVARIANTS BindingsAreEarned BuiltOnEvidence OverlapIsExplained NothingKept
PROPERTY UpdateLossIsExplained
SYMMETRY SameRuns
