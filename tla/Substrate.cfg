\* Deque: four slots and five pushes, so index 4 reuses slot 0 while a stealer may still
\* read it, and three tasks may be queued.  Map: three keys on two slots, of which two
\* share a home: tombstone reuse, full probe cycles and one resize, against one reader.
CONSTANTS
  Capacity = 4
  Stealers = {s1, s2}
  Owner = owner
  None = none
  MaxPush = 5
  MapReaders = {r1}
  Keys = {1, 2, 3}
  Cap = 2
  MaxInsert = 4
  MaxRemove = 2
  MaxTables = 2
SPECIFICATION SubstrateSpec
INVARIANTS
  HandedOutOnce DequeInv
  TableIsMap StableKeyFound OwnershipInv
PROPERTIES ImplementsWorkDeque
CHECK_DEADLOCK FALSE
