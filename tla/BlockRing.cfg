SPECIFICATION FairSpec
CONSTANTS
  N = 2
  F = 3
  W = 4
  Sequences <- MCSequences
  None = None
INVARIANTS
  WriteLeaseIsFresh
  LeasedChunkIntact
  ScratchExclusive
PROPERTIES
  PauseEnds
  ImplementsFairQueue
