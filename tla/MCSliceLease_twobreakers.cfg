CONSTANTS
  r1 = r1
  r2 = r2
  r3 = r3
  Run = {r1, r2, r3}
  Key = {slice}
  Mortal = {r1}
  TTL = 2
  MaxClock = 1
  Retries = 1
  MaxInFlight = 3
  HostOf <- OneHost
  Free = Free
  Untried = Untried
  Done = Done
  Unreadable = Unreadable
  NoKey = NoKey
CHECK_DEADLOCK FALSE
SPECIFICATION Spec
INVARIANT MutualExclusion
