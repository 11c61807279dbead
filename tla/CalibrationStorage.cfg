SPECIFICATION Spec
CONSTANTS
  Packages = {p1, p2}
  Parts <- MCParts
  Half = 2
  None = None
  Magic = Magic
  Blank = Blank
  Torn = Torn
INVARIANTS
  ActiveIsSaved
  SelectedIsServedOrNext
PROPERTIES
  BootNeverBusy
  ImplementsStore
