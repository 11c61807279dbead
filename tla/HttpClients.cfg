SPECIFICATION Spec
CONSTANTS
  N = 2
  Pcbs = {p1, p2, p3}
  Requests = {"small", "stream", "status", "read", "abort", "data"}
  Length = 2
  Parts = 1
  SndBuf = 2
  IdleLimit = 2
  DrainBudget = 1
  CloseResults = {"ERR_OK", "ERR_MEM"}
  OutputResults = {"ok", "fail"}
  Depth = 1
  F = 2
  MayMute = {}
  None = None
SYMMETRY Symmetry
INVARIANTS
  Consistent
  LeasesAreAccounted
  StreamIsFramed
  DownloadsReportedHonestly
  
