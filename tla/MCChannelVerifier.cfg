SPECIFICATION Spec
CONSTANTS
  Calls = {k1, k2, k3}
  Contents = {c1}
  Workers = {w1, w2}
  Slots = 1
  Engines = {modern, loopback}
  Modern = modern
  Loopback = loopback
  NoCall = NoCall
  NoEngine = NoEngine
  NoContent = NoContent
INVARIANTS TypeOK PendingIsWorkedOn QueueIsAttended TaskInOnePlace SlotsAreReturned DestroyedIsDrained
CHECK_DEADLOCK FALSE
SYMMETRY Symmetry
