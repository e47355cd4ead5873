SPECIFICATION Spec
CONSTANTS
 Producers = {p1, p2}
 Consumers = {c1, c2}
 Patient = {c1}
 Sizes = {1, 2, 4}
 MaxChunks = 2
 MaxBytes = 3
 MaxPushes = 4
 NoChunk = NoChunk
INVARIANTS TypeOK NoLostWakeup ClosedReleases
PROPERTY ImplementsChannel
CHECK_DEADLOCK FALSE
