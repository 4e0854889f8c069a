SPECIFICATION Spec
CONSTANT
  MaxKids = 2
INVARIANTS
  TypeOK
  OnlyRaceEndsShell
PROPERTIES
  EofIsHeard
CHECK_DEADLOCK FALSE
