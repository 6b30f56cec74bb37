\* Two workers and a merger; the bounds of the compile run.
CONSTANTS
  SuperArenas <- SearchArenas
  hw <- Machine
  SearchWorkers = 2
  MAX_SCHED_OPS = 2
  MAX_CAND_PER_WORKER = 9
  MAX_EXPANSIONS_PER_WORKER = 4
  CHANNEL_CAP = 2
  DRAIN_BATCH = 2
  SendBatch = 1
  AnchorPeriod = 2
  ANCHOR_SAT = 30
  FrontierCap = 2
  TopK = 2
INIT SuperInit
NEXT SuperNext
INVARIANT FinalDrainSeesAll
CHECK_DEADLOCK FALSE
