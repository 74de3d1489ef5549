CONSTANTS
  Kinds <- MCPeers
  MinPoll = 3
  MaxPoll = 3
  PollCap = 3
  Shift = 1
  ReachBits = 2
  Unreach = 2
  Retry = 2
  IBurst = 5
  MinPkt = 2
  Calm = 4
  Beacon = 0
  TTLMax = 2
  MaxOwed = 1
  MaxRestarts = 0
SPECIFICATION FairSpec
INVARIANTS Paced
PROPERTIES PollsAgain EphemeralTimeout
CHECK_DEADLOCK FALSE
