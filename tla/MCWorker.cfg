CONSTANTS
  Call = {c1, c2}
  Cwd <- MCCwd
  Project <- MCProject
  Repo <- MCRepo
  HaltDir <- MCHaltDir
  Scope <- MCScope
  Wanted <- MCWanted
  NoDir = NoDir
  NewLine = NewLine
  MaxReplaced = 1
  MaxUnits = 4
  NoCall = NoCall
  Criterion = {a, b}
  NoRecord = NoRecord
CHECK_DEADLOCK FALSE
SPECIFICATION Spec
CONSTRAINT Apart
SYMMETRY CallsAlike
INVARIANTS RanWasAllowed ShownInOrder RefusalsAreTold StatementTellsTheRun
