SPECIFICATION DiagramSpec
CONSTANTS
    MaxEpochs = 2
    MaxEvents = 1
    MaxCommands = 2
INVARIANTS DiagramInv
PROPERTIES DiagramFollows
