SPECIFICATION Spec
CONSTANTS
  Pids = {p1, p2, p3}
  NoPid = NoPid
  Codes = {0, 3}
  MaxJobs = 2
  MaxProcs = 2
  MaxStops = 1
  MaxConts = 0
  PendingMax = 256
  ForkMayFail = TRUE
SYMMETRY PidSymmetry
INVARIANTS
  TypeOK
  CompletedIsReaped
  EndIsAccounted
  QueueIsFresh
  QueueIsShort
  QueueIsAnnounced
  LaunchKeepsStatuses
  LiveIsListed
  GroupIsJoinable
  NoEmptyGroup
  HangUpReachesAll
  StoppedIsStopped
  PromptIsRestored
  StatusIsLastCommand
PROPERTIES
  LedgerSpec
