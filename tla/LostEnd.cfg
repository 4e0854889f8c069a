SPECIFICATION Spec
CONSTANTS
  Pids = {p1, p2}
  NoPid = NoPid
  Codes = {0}
  MaxJobs = 2
  MaxProcs = 1
  MaxStops = 0
  MaxConts = 0
  PendingMax = 256
  ForkMayFail = FALSE
SYMMETRY PidSymmetry
INVARIANTS
  NoEndIsLost
