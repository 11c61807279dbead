SPECIFICATION FairSpec
CONSTANTS
  W = 3
  T = 2
  None = None
INVARIANTS
  HandedPointerIsLent
  MailboxIsStable
PROPERTIES
  NoLateAcquisition
  MailboxRecovers
