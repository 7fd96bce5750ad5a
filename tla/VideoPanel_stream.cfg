SPECIFICATION PanelSpec
CONSTANTS
    MaxR = 2
    MaxRepeats = 1
    MaxFrames = 2
    MaxFaults = 1
    MaxInputs = 4
INVARIANTS ScreenInv
PROPERTIES OnlyWithCause ScreenFollows
CHECK_DEADLOCK FALSE
