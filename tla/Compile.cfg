CONSTANTS
  Programs <- MCPrograms
  Budgets = {5, 64}
  IntArgs <- MCIntArgs
  FloatArgs <- MCFloatArgs
  NodeCapacity = 3
  RegionCapacity = 2
  GenWrap = 8
  MaxInserts = 3
  MaxVersion = 2
  MAX_NEST = 2
  TextCapacity = 8
  MaxReads = 2
  TextPrograms <- TextSamples
  Ops <- SampleOps
  Types <- SampleTypes
  MaxNodes = 2
  MaxBodies = 1
  MaxFrees = 1
  Unvisited = 3
  MaxRegions = 6
  UfCapacity = 5
  MaxUnions = 3
  KernelParams <- ParamSets
  MaxKernels = 2
  Arenas <- BackendArenas
  SharedBudget = 60
  RegisterBudget = 30
  RegisterBytes = 16
  TileRequests <- TileRequestSet
  CacheLine = 64
  MaxClusters = 2
  SuperArenas <- SearchArenas
  hw <- Machine
  SearchWorkers = 2
  MAX_SCHED_OPS = 2
  MAX_CAND_PER_WORKER = 9
  MAX_EXPANSIONS_PER_WORKER = 4
  CHANNEL_CAP = 2
  DRAIN_BATCH = 2
  SendBatch = 1
  AnchorPeriod = 2
  ANCHOR_SAT = 10
  FrontierCap = 2
  TopK = 2
  SeedPrograms <- Seeds
  Bands = 2
  ItersPerBand = 3
  WordBits = 3
  ParamCount = 1
SPECIFICATION CompilerSpec
INVARIANTS
  OptimisedMeansSource SaturationSound PassesKeepLegal
  ArenasSound TextFaithful FingerprintTellsNodes DominanceSound RootIsLeast
  KernelsMeanTensors PlansSound SearchSound SearchKeepsMeaning
PROPERTIES
  CommitTakesWholeLog FusingNeverRaisesScore
