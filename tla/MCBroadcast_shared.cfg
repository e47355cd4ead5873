SPECIFICATION Spec
CONSTANTS
 Handlers = {h1, h2}
 AutoHandlers = {h1}
 Closers = {main}
 Reaper = reaper
 Sessions = {b1}
 Infohashes = {i1}
 Linger = 1
 Startup = 1
 NoSession = NoSession
 NoHash = NoHash
 NoThread = NoThread
INVARIANTS TypeOK StoppedIsUnlisted StopSparesSettled NoOvercount
CHECK_DEADLOCK FALSE
