SPECIFICATION FairSpec
CONSTANTS
  Handlers = {h1, h2}
  Contents = {c1, c2}
  NoContent = NoContent
  Hosts = {e1, e2}
  NoHost = NoHost
  Nobody = Nobody
  MaxLines = 2
INVARIANTS TypeOK AnswersAreOwn IdleIsOnSelected
PROPERTIES IdleMutexIsReturned SessionIsReleased
CHECK_DEADLOCK FALSE
