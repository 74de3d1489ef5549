CONSTANTS
  a = a
  b = b
  c = c
  Requests <- MCRequests
  Persistent <- MCPersistent
  WorkInc = 2
  RespInc = 2
  MaxAlloc = 4
SPECIFICATION FairSpec
INVARIANTS Accounted IdleWhenArmed InsistReq
PROPERTIES ImplementsResolver Completed SentPacking
CHECK_DEADLOCK FALSE
