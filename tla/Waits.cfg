SPECIFICATION FairSpec
CONSTANTS
  Pids = {p1, p2}
  NoPid = NoPid
  Codes = {0}
  MaxJobs = 1
  MaxProcs = 2
  MaxStops = 2
  MaxConts = 2
  PendingMax = 256
  ForkMayFail = FALSE
PROPERTIES
  LaunchedWaitEnds
