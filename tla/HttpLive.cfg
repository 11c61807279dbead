SPECIFICATION FairSpec
CONSTANTS
  N = 1
  Pcbs = {p1, p2}
  Requests = {"page", "stream", "read", "data"}
  Length = 2
  Parts = 1
  SndBuf = 1
  IdleLimit = 2
  DrainBudget = 1
  CloseResults = {"ERR_OK"}
  OutputResults = {"ok"}
  Depth = 1
  F = 1
  MayMute = {p1}
  None = None
PROPERTIES
  SilentPeerIsDropped
  DownloadEnds
