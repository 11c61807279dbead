SPECIFICATION FairSpec
CONSTANTS
  Profiles = {"256", "384"}
  F = 2
  K = 2
  Frames = 2
  Calm = {TRUE, FALSE}
  PauseUnready = FALSE
  MaxFaults = 2
INVARIANTS
  PublishedIsWhole
  Consistent

  
