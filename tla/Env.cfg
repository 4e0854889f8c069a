SPECIFICATION Spec
CHECK_DEADLOCK FALSE
CONSTANTS
  a = a
  b = b
  c = c
  bad = bad
  Names <- MCNames
  Valid <- MCValid
  Hash <- MCHash
  TableSize = 2
  Values = {e, v}
  Empty = e
  Lost = Lost
  None = None
  MaxArgs = 2
  MaxFailures = 1
INVARIANTS
  TypeOK
  ChainsAreSound
  HandedOnce
PROPERTIES
  MapSpec
