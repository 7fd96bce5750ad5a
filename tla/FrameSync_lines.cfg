SPECIFICATION FairLineSpec
CONSTANTS
    FrameSize = 4
    Frames <- MCFrames
    Noise = {"A5", "5A", "x", "y"}
    MaxFaults = 2
    MaxInner = 1
    ChunkCap = 2
INVARIANTS FramingInv
PROPERTIES Resync
