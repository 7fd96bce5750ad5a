SPECIFICATION Spec
CONSTANTS
    Racks = {1}
    Granted = {1}
    Thresholds = {{1}}
    MaxEpochs = 2
    MaxCommands = 2
    MaxFaces = 1
    QueueCap = 1
    LineCap = 1
INVARIANTS CodecsInStep
PROPERTIES SessionComes
