\* The slot of a removed key is reused for another key under a reader.
CONSTANTS
  MapReaders = {r1}
  Keys = {1, 2, 3}
  Cap = 2
  MaxInsert = 4
  MaxRemove = 2
  MaxTables = 2
SPECIFICATION MapSpec
INVARIANTS GetReturnsOwnValue
CHECK_DEADLOCK FALSE
