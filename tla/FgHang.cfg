SPECIFICATION Spec
CONSTANTS
  Pids = {p1}
  NoPid = NoPid
  Codes = {0}
  MaxJobs = 1
  MaxProcs = 1
  MaxStops = 1
  MaxConts = 0
  PendingMax = 256
  ForkMayFail = FALSE
SYMMETRY PidSymmetry
INVARIANTS
  FgResumes
