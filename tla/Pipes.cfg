SPECIFICATION FairSpec
CONSTANTS
  NumProcs = 3
  Capacity = 1
  MaxFd = 9
INVARIANTS
  TypeOK
  WiredAsTyped
  NothingLeftOpen
PROPERTIES
  ChainSpec
  EofArrives
  WriterIsTold
