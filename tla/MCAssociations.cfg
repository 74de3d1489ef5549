SPECIFICATION Spec
CONSTANTS
  lo = lo
  d1 = d1
  d2 = d2
  g = g
  h1 = h1
  clock = clock
  pool = pool
  None = None
  Hosts = {h1}
  Clocks = {clock}
  Pools = {pool}
  Manycasts = {}
  Endpoints = {lo, d1, d2}
  Loopback = lo
  Groups = {g}
  Requests <- MCRequests
  Packets <- MCPackets
  Volley = TRUE
  Authenticate = FALSE
  AddrHash <- MCHash
  HashSize = 2
  InitPeerAlloc = 1
  IncPeerAlloc = 2
  AssocIdMax = 3
  FirstId = 2
  MaxClock = 1
  MaxMobilized = 3
  MaxSolicited = 1
INVARIANTS TypeOK ListsAgree Counted FoundById NearlyUnique ConfiguredStay
CHECK_DEADLOCK FALSE
