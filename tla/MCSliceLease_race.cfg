CONSTANTS
  r1 = r1
  r2 = r2
  r3 = r3
  Run = {r1, r2}
  Key = {slice}
  Mortal = {r1}
  TTL = 1
  MaxClock = 2
  Retries = 1
  MaxInFlight = 2
  HostOf <- OneHost
  Free = Free
  Untried = Untried
  Done = Done
  Unreadable = Unreadable
  NoKey = NoKey
CHECK_DEADLOCK FALSE
SPECIFICATION FairSpec
INVARIANTS LockIsComplete
PROPERTIES DatedAfterBreak LossIsAStaleRead HelperReturns NoStrandedKey
