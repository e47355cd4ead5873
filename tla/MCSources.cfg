SPECIFICATION FairSpec
CONSTANTS
  Kinds = {"custom", "elcano", "newera", "acepl", "af1c1onados"}
  Addresses = {a1, a2}
  UrlsOf <- MCUrlsOf
  NoUrl <- MCNoUrl
  none = none
  Objects = {o1, o2}
  NoObject = NoObject
  Workers = {w1}
  Admins = {d1, d2}
  Nobody = Nobody
  a1 = a1
  a2 = a2
  MaxRequests <- MCMaxRequests
INVARIANTS TypeOK InUseIsAlive
PROPERTIES SettledListFollows RemovalEnds
CHECK_DEADLOCK FALSE
