SPECIFICATION Spec
CHECK_DEADLOCK FALSE
CONSTANTS
  a = a
  b = b
  c = c
  bad = bad
  Names <- MCNames
  Valid <- MCValid
  Hash <- MCHash
  TableSize = 2
  Values = {e, v}
  Empty = e
  Lost = Lost
  None = None
  MaxArgs = 1
  MaxFailures = 0
PROPERTIES
  ExportKeepsValue
