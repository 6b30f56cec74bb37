\* One entry is allowed; the boundary's worker and another one insert.
CONSTANTS
  JitRequests <- AskedRequests
  CacheCapacity = 1
  BoundaryBound = 1
  Others = {"o"}
  MaxAsks = 2
  MaxOther = 2
SPECIFICATION JitSpec
INVARIANT CapacityBoundsEntries
CHECK_DEADLOCK FALSE
