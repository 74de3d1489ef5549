CONSTANTS
  N = 3
  Casts <- MCCasts
  MinDisp = 2
  MinClock = 2
  HopMax = 3
SPECIFICATION FairSpec
INVARIANTS Intersects StatusAgrees
PROPERTIES HopsToTruechimer SysPeerLeaves
CHECK_DEADLOCK FALSE
