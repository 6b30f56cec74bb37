\* Two readers and a writer ask for two slots; a reader against two overlapping collects,
\* one inside retire_box and one called directly.
CONSTANTS
  Readers = {r1, r2}
  Writers = {w1}
  Collectors = {k1}
  MAX_EBR_SLOTS = 2
  Threshold = 1
  MaxObj = 3
  MaxEpoch = 3
  BufferDepth = 1
  Nothing = nothing
SPECIFICATION EbrSpec
SYMMETRY Symmetry
INVARIANTS CoveredReferenceLive GarbageInv
CHECK_DEADLOCK FALSE
