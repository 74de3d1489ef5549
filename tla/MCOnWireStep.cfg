CONSTANTS
  A = a
  B = b
  Configs <- MCInterleaved
  Epoch = 100
  MaxTime = 113
  MaxDelay = 3
  MinPkt = 6
  MaxFaults = 1
SPECIFICATION Spec
PROPERTIES StepFlushes
CHECK_DEADLOCK FALSE
