SPECIFICATION CardSpec
CONSTANTS
    Users = {"kim", "stranger"}
    Registered = {"kim"}
    MaxTcpEvents = 2
    MaxFaces = 2
    MaxPages = 1
    Fresh = 1
    Deadline = 1
    Seconds = 2
    MotionFrames = 3
INVARIANTS CardInv
PROPERTIES CardFollows
