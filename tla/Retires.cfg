SPECIFICATION BusySpec
CONSTANTS
  Pids = {p1, p2, p3}
  NoPid = NoPid
  Codes = {0}
  MaxJobs = 2
  MaxProcs = 2
  MaxStops = 0
  MaxConts = 0
  PendingMax = 256
  ForkMayFail = FALSE
PROPERTIES
  JobIsRetired
