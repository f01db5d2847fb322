CONSTANTS
  Receipt = {1, 2}
  Frail = {2}
  Threshold = 1
  MaxActs = 3
  NoName = NoName
  Unreadable = Unreadable
CHECK_DEADLOCK FALSE
SPECIFICATION DashSpec
INVARIANTS CommittedVerifies ArchivedAsHashed QuietIsConsistent UnionIsJoined AlarmIsEarned
PROPERTIES CommittedLog
