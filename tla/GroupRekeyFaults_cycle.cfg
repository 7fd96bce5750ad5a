CONSTANTS
  NoRandom = NoRandom
  Randoms = {r1, r2}
  UartCap = 2
  Collisions = TRUE
  MaxRestarts = 1
  MaxResets = 1
SPECIFICATION FairFaultsSpec
INVARIANTS FaultsContained
PROPERTIES NoCodecStartsAgain DomainHeals
