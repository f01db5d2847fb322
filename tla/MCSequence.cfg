CONSTANTS
  r1 = r1
  r2 = r2
  Run = {r1, r2}
  Direct = {r2}
  Key = {1, 2, Workspace}
  TTL = 1
  MaxClock = 0
  MaxStarts = 2
  Free = Free
  Untried = Untried
  Done = Done
  LastSlice = 2
  Workspace = Workspace
  Mortal = {r2}
  Orphans = FALSE
  Halts = TRUE
  HandMarks = "never"
  Torn = Torn
  Unbound = Unbound
  NoSlice = NoSlice
CHECK_DEADLOCK FALSE
SPECIFICATION FairSeqSpec
INVARIANTS OneLiveRun NeverSkips CompleteIsEarned MarksAreBound
PROPERTIES NeverSpins SequenceEnds LaunchEnds
