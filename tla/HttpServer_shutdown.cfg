SPECIFICATION FairSpec
CONSTANTS
 Connections = {c1}
 Workers = {w1}
 MaxQueue = 1
 NoWorker = NoWorker
 NoConnection = NoConnection
PROPERTIES ShutdownReturns
CHECK_DEADLOCK FALSE
