SPECIFICATION TimedSpec
CONSTANTS
  Epochs = 3
  Commands = {"OPEN"}
  FaceCap = 1
  Restarts = 1
INVARIANTS SessionIsShared KeysMoveForward NothingSwallowed SwitchFollowsR
PROPERTIES EpochServed
