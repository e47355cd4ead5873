SPECIFICATION FairSpec
CONSTANTS
  Stores = {"plugins", "favourites", "logos", "filters"}
  Slugs = {s1, s2}
  Cids = {c1}
  Defaults = {s1}
  Threads = {t1, t2}
  Nobody = Nobody
  Absent = Absent
  Torn = Torn
  MaxRequests = 2
  MaxCrashes = 1
  Ordered = {s2}
  MaxVisits = 1
INVARIANTS WorkerTypeOK Recoverable DiskFollowsMemory
PROPERTIES AskedForIsProbed
CHECK_DEADLOCK FALSE
