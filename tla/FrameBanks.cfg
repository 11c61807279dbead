SPECIFICATION FairSpec
CONSTANTS
  B = 2
  F = 2
  W = 4
  MaxLag = 1
  None = None
INVARIANTS
  LentChunkIntact
  ScratchExclusive
PROPERTIES
  ImplementsFairQueue
  PauseEnds
