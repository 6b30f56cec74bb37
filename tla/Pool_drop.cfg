\* One helper, one region, then Drop.
CONSTANTS
  N = 1
  Callers = {c1}
  Length = 1
  MaxRegions = 1
  MaxPanics = 0
  MaxSpurious = 0
  NoRegion = none
SPECIFICATION Spec
PROPERTIES DropReturns
CHECK_DEADLOCK FALSE
