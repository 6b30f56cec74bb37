\* One reader, one writer that retires one allocation and then collects.
CONSTANTS
  Readers = {r1}
  Writers = {w1}
  Collectors = {w1}
  MAX_EBR_SLOTS = 2
  Threshold = 1
  MaxObj = 2
  MaxEpoch = 3
  BufferDepth = 1
  Nothing = none
SPECIFICATION EbrSpec
INVARIANTS PinnedReferenceLive
CHECK_DEADLOCK FALSE
