SPECIFICATION ServerFairSpec
CONSTANTS
  Dispatchers = {d1}
  Responsive = {}
  NumEvents = 1
  MaxAttempts = 2
  Logger = FALSE
  Watchers = {w1, w2}
  Enabled = {"http", "mcp"}
  MaxSignals = 1
  MaxRequests = 1
INVARIANTS
  ServerTypeOK
  IdleConnectionsClosed
  RequestsDrained
PROPERTIES
  ShutdownEnds
CHECK_DEADLOCK FALSE
