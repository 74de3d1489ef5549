CONSTANTS
  none = none
  Peers <- MCPeers
  NoPeer = none
  MinStep = 2
  Limit = 2
  OrphWait = 1
  Month = 3
  Day = 2
  KernelLoop = FALSE
SPECIFICATION FairSpec
INVARIANTS LeapBits OrphanAlone
PROPERTIES SpikeSuppressed PanicOnce Settles
CHECK_DEADLOCK FALSE
