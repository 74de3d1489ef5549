CONSTANTS
  Kinds <- MCKinds
  MinPoll = 2
  MaxPoll = 3
  PollCap = 3
  Shift = 2
  ReachBits = 2
  Unreach = 2
  Retry = 2
  IBurst = 3
  MinPkt = 2
  Calm = 0
  Beacon = 2
  TTLMax = 2
  MaxOwed = 2
  MaxRestarts = 1
SPECIFICATION Spec
INVARIANTS TypeOK GuardTime Throttled UnansweredLoad OneBurst TossedWhenSilent
CHECK_DEADLOCK FALSE
