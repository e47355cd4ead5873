SPECIFICATION Spec
CONSTANTS
  c1 = c1
  c2 = c2
  Viewers = {v1, v2}
  AutoViewers = {v1}
  Admins = {a1}
  Cids = {c1, c2}
  Wanted = {c1}
  Infohashes = {c1, c2}
  Infohash <- MCInfohash
  NumSessions = 2
  MaxConnections = 2
  MaxChannels = 1
  MaxOrders = 1
  None = None
CHECK_DEADLOCK FALSE
INVARIANTS TypeOK CountsAreReturned PinnedRequestStays
PROPERTY RequestsAreAnswered
