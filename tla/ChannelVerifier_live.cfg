SPECIFICATION FairSpec
CONSTANTS
  Calls = {k1, k2}
  Contents = {c1}
  Workers = {w1, w2}
  Slots = 1
  Engines = {modern}
  Modern = modern
  Loopback = modern
  NoCall = NoCall
  NoEngine = NoEngine
  NoContent = NoContent
PROPERTIES TasksAreDone SyncCallsReturn
CHECK_DEADLOCK FALSE
