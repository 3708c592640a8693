CONSTANTS
  Requests = {r1, r2}
  Brokers = {"k1", "k2"}
  Endpoints = {"buy", "get"}
  Bundles = {1, 2, 3}
  Profile <- MCProfile
  NoBroker = "none"
  None = None
  MaxFaults = 1
  c1 = c1
  c2 = c2
  k1 = k1
  k2 = k2
  RingSize = 2
  Callers = {c1, c2}
  Clients = {k1}
  MaxLogs = 6
SPECIFICATION OrdersSpec
INVARIANTS
  TrailExplainsOrders
  MetricsBehindTrail
  OrdersAudited
  RecentIsTail
  DropsAccounted
  NoSilentGap
  BacklogContiguous
PROPERTIES ShutdownEnds TailCatchesUp
CHECK_DEADLOCK FALSE
