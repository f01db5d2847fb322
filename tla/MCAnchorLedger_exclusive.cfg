CONSTANTS
  r1 = r1
  r2 = r2
  r3 = r3
  Run = {r1, r2, r3}
  Tries = 3
  Exclusive = TRUE
  Mortal = {r1, r2, r3}
  NoEntry = NoEntry
  Absent = Absent
  Garbled = Garbled
CHECK_DEADLOCK FALSE
SPECIFICATION Spec
INVARIANTS RecordsVerify
PROPERTY LedgerSpec
SYMMETRY SameRuns
