CONSTANTS
  r1 = r1
  r2 = r2
  r3 = r3
  Run = {r1, r2}
  Tries = 3
  Exclusive = FALSE
  Mortal = {r1, r2}
  NoEntry = NoEntry
  Absent = Absent
  Garbled = Garbled
CHECK_DEADLOCK FALSE
SPECIFICATION Spec
INVARIANTS NamesItsPredecessor DeclarationFirst
PROPERTY AppendOnly
SYMMETRY SameRuns
