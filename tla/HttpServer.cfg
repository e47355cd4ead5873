SPECIFICATION FairSpec
CONSTANTS
 Connections = {c1, c2, c3, c4}
 Workers = {w1, w2}
 MaxQueue = 2
 NoWorker = NoWorker
 NoConnection = NoConnection
INVARIANTS TypeOK NoTaskIsOverlooked ShutdownDropsNothing
PROPERTIES AcceptedIsAnswered
CHECK_DEADLOCK FALSE
