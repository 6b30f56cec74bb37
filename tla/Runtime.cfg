\* Channel: thirteen sends, so the eight index values wrap and every slot is reused three
\* times; the threshold is half the ring.  Fork/join: three workers, deques of two.
CONSTANTS
  Capacity = 4
  Wrap = 8
  TYPED_BATCH_THRESHOLD = 8
  BatchSizes = {2, 3}
  MaxSend = 13
  N = 3
  Limit = 2
  MaxJobs = 4
  MaxPanics = 1
  Mains = {"m1", "m2"}
  PoolHelpers = {"h1"}
  Spawnable <- SpawnNames
  MaxCalls = 3
  MaxNesting = 2
  RingCapacity = 4
  RingWrap = 8
  DrainBuffer = 2
  MaxEmit = 9
  BumpWrap = 16
  BumpCapacity = 7
  BumpBases = {16, 18, 19}
  Layouts <- BumpLayouts
  TASK_FUEL_UNITS = 3
  FuelMax = 7
  Burns = {1, 3, 6}
  MaxTaskOps = 5
  JitRequests <- AskedRequests
  CacheCapacity = 1
  BoundaryBound = 1
  Others = {"o"}
  MaxAsks = 2
  MaxOther = 2
SPECIFICATION RuntimeSpec
INVARIANTS
  Inv NoSlotRace NoMutualBlock
  CreditInv RegionComplete
  NestedCallsNeverHang
  EventsAccounted
  TaskServicesExact
   CacheAccounted
PROPERTIES
  ImplementsChannel ChannelProgress RegionTerminates RingIsChannel AnsweredUnlessStopped
CHECK_DEADLOCK FALSE
