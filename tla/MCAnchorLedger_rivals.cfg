CONSTANTS
  r1 = r1
  r2 = r2
  r3 = r3
  Run = {r1, r2}
  Tries = 3
  Exclusive = FALSE
  Mortal = {}
  NoEntry = NoEntry
  Absent = Absent
  Garbled = Garbled
CHECK_DEADLOCK FALSE
SPECIFICATION Spec
INVARIANT AnchorsOwnDigest
SYMMETRY SameRuns
