SPECIFICATION FairSpec
CONSTANTS
 Handlers = {h1}
 AutoHandlers = {h1}
 Closers = {main}
 Reaper = reaper
 Sessions = {b1}
 Infohashes = {i1}
 Linger = 1
 Startup = 1
 NoSession = NoSession
 NoHash = NoHash
 NoThread = NoThread
PROPERTY AbandonedIsReleased
