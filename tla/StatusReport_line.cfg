SPECIFICATION FairSpec
CONSTANTS
    MaxReadings = 3
    MaxEpochs = 2
    FifoCap = 2
    LineCap = 2
INVARIANTS BufferInv
PROPERTIES ReportsArrive
