SPECIFICATION FairRouterSpec
CONSTANTS
    Keys = {K0, K1, K2}
    MASTER_KEY = K0
    Rounds = 3
    Steps = 6
    Data = {a, b}
    DEPTH = 2
    NoWrite = NoWrite
INVARIANTS KeyHeld KeyInstalled GrantedWriteLands
PROPERTIES ImplementsQueue InstallEnds
