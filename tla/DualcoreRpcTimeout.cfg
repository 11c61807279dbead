SPECIFICATION FairSpec
CONSTANTS
  W = 3
  T = 2
  None = None
PROPERTIES
  TimedOutCallerLeavesNoLease
