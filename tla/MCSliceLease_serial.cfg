CONSTANTS
  r1 = r1
  r2 = r2
  r3 = r3
  Run = {r1, r2, r3}
  Key = {slice, workspace}
  Mortal = {r2}
  TTL = 1
  MaxClock = 1
  Retries = 0
  MaxInFlight = 1
  HostOf <- TwoHosts
  Free = Free
  Untried = Untried
  Done = Done
  Unreadable = Unreadable
  NoKey = NoKey
CHECK_DEADLOCK FALSE
SPECIFICATION Spec
INVARIANTS MutualExclusion
PROPERTY PromiseSpec
