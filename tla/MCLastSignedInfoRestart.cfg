SPECIFICATION Spec
CONSTANTS
  MaxHeight = 1
  MaxRound = 1
  MaxRestarts = 1
  MaxSignatures = 3
  b1 = b1
  b2 = b2
  None = None
  Blocks <- MCBlocks
  Timestamps <- MCTimestamps
INVARIANTS
  NoDoubleSignAcrossRestarts
CHECK_DEADLOCK FALSE
