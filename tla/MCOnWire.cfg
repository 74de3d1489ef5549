CONSTANTS
  A = a
  B = b
  Configs <- MCConfigs
  Epoch = 100
  MaxTime = 113
  MaxDelay = 3
  MinPkt = 6
  MaxFaults = 1
SPECIFICATION Spec
INVARIANTS TypeOK BasicSound SymmetricSound BroadcastSound OneSamplePerPoll
CHECK_DEADLOCK FALSE
PROPERTIES BasicStepFlushes
