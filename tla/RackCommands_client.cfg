SPECIFICATION FairSpec
CONSTANTS
    Racks = {r1}
    MaxCommands = 3
    MaxFaces = 1
    MaxEpochs = 1
    QueueCap = 2
    FifoCap = 1
    MaxUnplug = 1
INVARIANTS EachCommandOnce OldestGoFirst AtMostOneStranded
PROPERTIES CatchUpOrReport
CHECK_DEADLOCK FALSE
