SPECIFICATION ChainSpec
CONSTANTS
  b1 = b1
  b2 = b2
  Bodies <- MCBodies
  Genesis = Genesis
  Foreign = Foreign
  MaxWritten = 3
  MaxEdits = 3
INVARIANTS
  VerifiedIsPrefix
  GenesisIsPinned
CHECK_DEADLOCK FALSE
