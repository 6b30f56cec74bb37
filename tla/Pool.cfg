\* Two callers contend for two helpers; three workers share four elements, so
\* one worker's chunk is empty.
CONSTANTS
  N = 2
  Callers = {c1, c2}
  Length = 4
  MaxRegions = 2
  MaxPanics = 1
  MaxSpurious = 1
  NoRegion = none
SPECIFICATION Spec
INVARIANTS HandoffInv OutputsExact
PROPERTIES RegionsFinish
CHECK_DEADLOCK FALSE
