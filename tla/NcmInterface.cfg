SPECIFICATION Spec
CONSTANTS
  RecvN = 1
  XmitN = 1
  Datagrams = 2
  Budget = 1
  Attempts = 2
  Frames = {0}
  HostDoes = {"reset", "suspend", "deselect", "alternate", "clear_halt", "bad_block"}
  MaxEvents = 3
  Unhurried = FALSE
  None = None
INVARIANTS
  Consistent
  
  CompletionHasBlock
  LinkFollowsBus
