CONSTANTS
  NoRandom = NoRandom
  Randoms = {r1, r2, r3}
  UartCap = 3
  Collisions = TRUE
SPECIFICATION Spec
SYMMETRY Symmetry
INVARIANTS IInv RunAgreement SwitchOrder HonestFramesAuthenticate AckedRoundsAreReal
PROPERTIES ImplementsSession
