CONSTANTS
  A = a
  B = b
  Configs <- MCSymmetric
  Epoch = 100
  MaxTime = 112
  MaxDelay = 3
  MinPkt = 6
  MaxFaults = 2
SPECIFICATION Spec
INVARIANTS SamplesAreMeasured
CHECK_DEADLOCK FALSE
