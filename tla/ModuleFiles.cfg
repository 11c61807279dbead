SPECIFICATION FairSpec
CONSTANTS
  T = 1
  M = 2
  Kinds = {"distance", "parameters", "state"}
  MaxBlocks = 2
  MaxLine = 2
INVARIANTS
  
  
  CloseIsNotSwallowed
PROPERTIES
  ImplementsFileService
  ScratchComesBack
