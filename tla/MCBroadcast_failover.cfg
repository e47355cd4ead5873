SPECIFICATION Spec
CONSTANTS
 Handlers = {h1}
 AutoHandlers = {h1}
 Closers = {}
 Reaper = reaper
 Sessions = {b1, b2}
 Infohashes = {i1, i2}
 Linger = 1
 Startup = 1
 NoSession = NoSession
 NoHash = NoHash
 NoThread = NoThread
INVARIANT NoOvercount
CHECK_DEADLOCK FALSE
SYMMETRY Symmetry
ACTION_CONSTRAINT CallsAreShort
