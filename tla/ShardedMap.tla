----------------------------- MODULE ShardedMap -----------------------------
(***************************************************************************)
(* One shard of the lock-free-read map of crates/anvil/src/sharded.rs: an  *)
(* open-addressing table that one writer at a time (the try-lock) changes  *)
(* store by store, while readers probe it without a lock, possibly in a    *)
(* table that a resize has already replaced.                               *)
(*                                                                         *)
(* The writer's own probes read what only it changes, so they share a step *)
(* with its first store; a second writer gets Busy and changes nothing.    *)
(* Reclamation of retired values and tables is Ebr's.  A value stands for  *)
(* the insert that made it: value v was inserted under keyOf[v].           *)
(***************************************************************************)
EXTENDS Integers, Sequences, FiniteSets

CONSTANTS
  MapReaders, \* threads that call get
  Keys,       \* a set of numbers: their own hashes
  Cap,        \* slots of the first table
  MaxInsert,  \* bound: insert calls, one fresh value each
  MaxRemove,  \* bound: remove calls that find their key
  MaxTables   \* bound: tables, MaxTables - 1 resizes

ASSUME ShardedMapAssumption ==
  /\ Keys \subseteq Nat /\ IsFiniteSet(Keys)
  /\ Cap \in Nat \ {0} /\ MaxInsert \in Nat /\ MaxRemove \in Nat /\ MaxTables \in Nat \ {0}

Null    == 0            \* the null pointer, an absent value
Values  == 1..MaxInsert
Tables  == 1..MaxTables
Free    == [state |-> "Empty", key |-> 0, value |-> Null]
Sizes[t \in Tables] == IF t = 1 THEN Cap ELSE 2 * Sizes[t - 1]   \* a resize doubles
Size(t) == Sizes[t]
SlotsOf(t) == 0..(Size(t) - 1)

VARIABLES
  table,     \* table id -> slot -> [state, key, value]
  current,   \* the shard's table pointer
  len,       \* entries
  wpc,       \* where the lock holder stands; "idle": the lock is free
  wkey, wval, wslot,   \* its key, its value, the slot it works on
  moved,     \* resize: old slots already moved
  fresh,     \* resize: the private new table
  inserts, removes,    \* calls so far
  keyOf,     \* ghost: value -> the key it was inserted under
  map,       \* ghost: key -> the value bound to it, or Null
  rpc, rkey, rtable, rslot, rcount, result,   \* reader -> its get
  stable     \* ghost: reader -> the binding of rkey since the get began, or Null

writer == <<wpc, wkey, wval, wslot, moved, fresh, inserts, removes>>
reader == <<rpc, rkey, rtable, rslot, rcount, result>>
map_vars == <<table, current, len, writer, keyOf, map, reader, stable>>

MapInit ==
  /\ table = [t \in Tables |-> [s \in SlotsOf(t) |-> Free]]
  /\ current = 1 /\ len = 0
  /\ wpc = "idle" /\ wkey = 0 /\ wval = Null /\ wslot = 0 /\ moved = 0 /\ fresh = <<>>
  /\ inserts = 0 /\ removes = 0
  /\ keyOf = [v \in Values |-> 0]
  /\ map = [k \in Keys |-> Null]
  /\ rpc = [r \in MapReaders |-> "idle"]
  /\ rkey = [r \in MapReaders |-> 0] /\ rtable = [r \in MapReaders |-> 1]
  /\ rslot = [r \in MapReaders |-> 0] /\ rcount = [r \in MapReaders |-> 0]
  /\ result = [r \in MapReaders |-> Null]
  /\ stable = [r \in MapReaders |-> Null]

-----------------------------------------------------------------------------
(* Linear probing *)

Home(k, t) == k % Size(t)
Nth(k, t, n) == (Home(k, t) + n) % Size(t)

\* The probe of a table from the key's home ends at the first Empty slot, or
\* after a full cycle.
ProbeLength(tab, k, t) ==
  IF \E n \in SlotsOf(t) : tab[Nth(k, t, n)].state = "Empty"
  THEN CHOOSE n \in SlotsOf(t) :
         /\ tab[Nth(k, t, n)].state = "Empty"
         /\ \A m \in 0..(n - 1) : tab[Nth(k, t, m)].state # "Empty"
  ELSE Size(t)

\* Offsets at which the probe meets the key, tombstones, or the first of a set.
Hits(tab, k, t) ==
  {n \in 0..(ProbeLength(tab, k, t) - 1) :
     tab[Nth(k, t, n)].state = "Full" /\ tab[Nth(k, t, n)].key = k}
Graves(tab, k, t) ==
  {n \in 0..(ProbeLength(tab, k, t) - 1) : tab[Nth(k, t, n)].state = "Tombstone"}
First(S) == CHOOSE n \in S : \A m \in S : n <= m

Found(k) == Hits(table[current], k, current) # {}
FoundSlot(k) == Nth(k, current, First(Hits(table[current], k, current)))

\* Where a new key goes: the first tombstone, else the Empty slot, else nowhere.
InsertionSlot(k) ==
  LET graves == Graves(table[current], k, current)
      stop   == ProbeLength(table[current], k, current)
  IN IF graves # {} THEN {Nth(k, current, First(graves))}
     ELSE IF stop < Size(current) THEN {Nth(k, current, stop)}
     ELSE {}

SetSlot(s, field, v) == table' = [table EXCEPT ![current][s][field] = v]

\* A write to key k ends the stability of every get of k.
Touch(ks) == stable' = [r \in MapReaders |-> IF rkey[r] \in ks THEN Null ELSE stable[r]]

-----------------------------------------------------------------------------
(* insert *)

InsertLock(k) ==
  /\ wpc = "idle" /\ inserts < MaxInsert
  /\ inserts' = inserts + 1
  /\ wkey' = k /\ wval' = inserts + 1
  /\ keyOf' = [keyOf EXCEPT ![inserts + 1] = k]
  /\ wpc' = "insert"
  /\ UNCHANGED <<table, current, len, wslot, moved, fresh, removes, map, reader, stable>>

\* Fault model: the probe of insert_locked ends at the first tombstone.
StopsAtGrave(k) ==
  \E n \in Hits(table[current], k, current) :
    \A g \in Graves(table[current], k, current) : n < g

KeyPresent(k) == Found(k)

\* The key is present: its value pointer is swapped, the old value retired.
InsertOverwrite ==
  /\ wpc = "insert" /\ KeyPresent(wkey)
  /\ SetSlot(FoundSlot(wkey), "value", wval)
  /\ map' = [map EXCEPT ![wkey] = wval]
  /\ Touch({wkey})
  /\ wpc' = "idle"
  /\ UNCHANGED <<current, len, wkey, wval, wslot, moved, fresh, inserts, removes, keyOf, reader>>

\* occupy_slot: Reserved, key, value, Full, each visible on its own.
OccupyReserve ==
  /\ wpc = "insert" /\ ~KeyPresent(wkey)
  /\ \E s \in InsertionSlot(wkey) : wslot' = s /\ SetSlot(s, "state", "Reserved")
  /\ wpc' = "key"
  /\ UNCHANGED <<current, len, wkey, wval, moved, fresh, inserts, removes, keyOf, map, reader,
                 stable>>

OccupyKey ==
  /\ wpc = "key"
  /\ SetSlot(wslot, "key", wkey)
  /\ wpc' = "value"
  /\ UNCHANGED <<current, len, wkey, wval, wslot, moved, fresh, inserts, removes, keyOf, map,
                 reader, stable>>

OccupyValue ==
  /\ wpc = "value"
  /\ SetSlot(wslot, "value", wval)
  /\ wpc' = "full"
  /\ UNCHANGED <<current, len, wkey, wval, wslot, moved, fresh, inserts, removes, keyOf, map,
                 reader, stable>>

OccupyFull ==
  /\ wpc = "full"
  /\ SetSlot(wslot, "state", "Full")
  /\ len' = len + 1
  /\ map' = [map EXCEPT ![wkey] = wval]
  /\ Touch({wkey})
  /\ wpc' = "idle"
  /\ UNCHANGED <<current, wkey, wval, wslot, moved, fresh, inserts, removes, keyOf, reader>>

-----------------------------------------------------------------------------
(* resize_locked: neither an Empty slot nor a tombstone in a full cycle *)

ResizeStart ==
  /\ wpc = "insert" /\ ~KeyPresent(wkey) /\ InsertionSlot(wkey) = {}
  /\ current < MaxTables
  /\ wpc' = "resize" /\ moved' = 0
  /\ fresh' = [s \in SlotsOf(current + 1) |-> Free]
  /\ Touch(Keys)
  /\ UNCHANGED <<table, current, len, wkey, wval, wslot, inserts, removes, keyOf, map, reader>>

\* Fault model: the moved pointer is copied, so the old table owns it as well.
ValueCopied(v) == v

ValueTaken(v) == Null

\* One slot is moved: its pointer is swapped out of the old table and stored at
\* the first Empty slot of the new one.
ResizeMove ==
  /\ wpc = "resize" /\ moved < Size(current)
  /\ moved' = moved + 1
  /\ LET old == table[current][moved]
         n   == ProbeLength(fresh, old.key, current + 1)
     IN IF old.state = "Full" /\ old.value # Null
        THEN /\ SetSlot(moved, "value", ValueTaken(old.value))
             /\ fresh' = [fresh EXCEPT ![Nth(old.key, current + 1, n)] =
                            [state |-> "Full", key |-> old.key, value |-> old.value]]
        ELSE UNCHANGED <<table, fresh>>
  /\ UNCHANGED <<current, len, wpc, wkey, wval, wslot, inserts, removes, keyOf, map, reader,
                 stable>>

\* The new table is published, the old one retired, and the insert starts over.
ResizePublish ==
  /\ wpc = "resize" /\ moved = Size(current)
  /\ current' = current + 1
  /\ table' = [table EXCEPT ![current + 1] = fresh]
  /\ fresh' = <<>>
  /\ wpc' = "insert"
  /\ UNCHANGED <<len, wkey, wval, wslot, moved, inserts, removes, keyOf, map, reader, stable>>

-----------------------------------------------------------------------------
(* remove; a call that does not find its key changes nothing *)

RemoveTake(k) ==
  /\ wpc = "idle" /\ removes < MaxRemove /\ Found(k)
  /\ removes' = removes + 1
  /\ wkey' = k /\ wslot' = FoundSlot(k)
  /\ SetSlot(FoundSlot(k), "value", Null)
  /\ map' = [map EXCEPT ![k] = Null]
  /\ Touch({k})
  /\ wpc' = "tombstone"
  /\ UNCHANGED <<current, len, wval, moved, fresh, inserts, keyOf, reader>>

\* Fault model: the freed slot is marked Empty.
MarkedEmpty == "Empty"

MarkedTombstone == "Tombstone"

RemoveTombstone ==
  /\ wpc = "tombstone"
  /\ SetSlot(wslot, "state", MarkedTombstone)
  /\ len' = len - 1
  /\ wpc' = "idle"
  /\ UNCHANGED <<current, wkey, wval, wslot, moved, fresh, inserts, removes, keyOf, map, reader,
                 stable>>

-----------------------------------------------------------------------------
(* get *)

RSet(f, r, v) == f' = [f EXCEPT ![r] = v]
RSlot(r) == table[rtable[r]][rslot[r]]

GetStart(r, k) ==
  /\ rpc[r] = "idle"
  /\ RSet(rkey, r, k) /\ RSet(rtable, r, current) /\ RSet(rslot, r, Home(k, current))
  /\ RSet(rcount, r, 0) /\ RSet(result, r, Null)
  /\ RSet(stable, r, IF wpc = "resize" THEN Null ELSE map[k])
  /\ RSet(rpc, r, "state")
  /\ UNCHANGED <<table, current, len, writer, keyOf, map>>

\* Fault model: the probe runs past the last slot.
NoWrapAround(s, t) == s + 1

NextSlot(s, t) == (s + 1) % Size(t)

\* The probe moves on, or has been round the table.
Advance(r) ==
  /\ RSet(rslot, r, NextSlot(rslot[r], rtable[r]))
  /\ RSet(rcount, r, rcount[r] + 1)
  /\ RSet(rpc, r, IF rcount[r] + 1 = Size(rtable[r]) THEN "done" ELSE "state")

GetState(r) ==
  /\ rpc[r] = "state"
  /\ \/ /\ RSlot(r).state = "Empty"
        /\ RSet(rpc, r, "done") /\ UNCHANGED <<rslot, rcount>>
     \/ /\ RSlot(r).state = "Full"
        /\ RSet(rpc, r, "key") /\ UNCHANGED <<rslot, rcount>>
     \/ /\ RSlot(r).state \in {"Reserved", "Tombstone"}
        /\ Advance(r)
  /\ UNCHANGED <<table, current, len, writer, keyOf, map, rkey, rtable, result, stable>>

GetKey(r) ==
  /\ rpc[r] = "key"
  /\ IF RSlot(r).key = rkey[r]
     THEN RSet(rpc, r, "value") /\ UNCHANGED <<rslot, rcount>>
     ELSE Advance(r)
  /\ UNCHANGED <<table, current, len, writer, keyOf, map, rkey, rtable, result, stable>>

\* A null pointer is a miss.
GetValue(r) ==
  /\ rpc[r] = "value"
  /\ RSet(result, r, RSlot(r).value)
  /\ RSet(rpc, r, "done")
  /\ UNCHANGED <<table, current, len, writer, keyOf, map, rkey, rtable, rslot, rcount, stable>>

GetReturn(r) ==
  /\ rpc[r] = "done"
  /\ RSet(rpc, r, "idle")
  /\ UNCHANGED <<table, current, len, writer, keyOf, map, rkey, rtable, rslot, rcount, result,
                 stable>>

-----------------------------------------------------------------------------
WriterStep ==
  \/ \E k \in Keys : InsertLock(k) \/ RemoveTake(k)
  \/ InsertOverwrite \/ OccupyReserve \/ OccupyKey \/ OccupyValue \/ OccupyFull
  \/ ResizeStart \/ ResizeMove \/ ResizePublish \/ RemoveTombstone
ReaderStep(r) ==
  (\E k \in Keys : GetStart(r, k)) \/ GetState(r) \/ GetKey(r) \/ GetValue(r) \/ GetReturn(r)

MapNext == WriterStep \/ \E r \in MapReaders : ReaderStep(r)

MapSpec == MapInit /\ [][MapNext]_map_vars

-----------------------------------------------------------------------------
(* Properties *)

SlotType == [state : {"Empty", "Reserved", "Full", "Tombstone"}, key : Keys \union {0},
             value : Values \union {Null}]

\* The variables hold values of their types.
MapTypeOK ==
  /\ \A t \in Tables : table[t] \in [SlotsOf(t) -> SlotType]
  /\ current \in Tables /\ len \in 0..Cardinality(Keys)
  /\ wpc \in {"idle", "insert", "key", "value", "full", "resize", "tombstone"}
  /\ wkey \in Keys \union {0} /\ wval \in Values \union {Null} /\ wslot \in SlotsOf(MaxTables)
  /\ moved \in 0..Size(MaxTables) /\ inserts \in 0..MaxInsert /\ removes \in 0..MaxRemove
  /\ keyOf \in [Values -> Keys \union {0}] /\ map \in [Keys -> Values \union {Null}]
  /\ rpc \in [MapReaders -> {"idle", "state", "key", "value", "done"}]
  /\ rkey \in [MapReaders -> Keys \union {0}] /\ rtable \in [MapReaders -> Tables]
  /\ \A r \in MapReaders : rslot[r] \in SlotsOf(rtable[r]) /\ rcount[r] \in 0..Size(rtable[r])
  /\ result \in [MapReaders -> Values \union {Null}]
  /\ stable \in [MapReaders -> Values \union {Null}]

Lookup(k) == IF Found(k) THEN table[current][FoundSlot(k)].value ELSE Null

\* Between writes the published table is the map: every key is found exactly
\* where its binding is, through tombstone reuse, overwrites and resizes, and
\* `len` counts the bindings.
TableIsMap ==
  wpc = "idle" =>
    /\ \A k \in Keys : Lookup(k) = map[k]
    /\ len = Cardinality({k \in Keys : map[k] # Null})
    /\ \A k \in Keys : Cardinality({s \in SlotsOf(current) :
         table[current][s].state = "Full" /\ table[current][s].key = k}) <= 1

\* The lock-free probe: a get of a key whose binding does not change and that
\* overlaps no resize returns that binding, whatever happens to other keys.
StableKeyFound ==
  \A r \in MapReaders : rpc[r] = "done" /\ stable[r] # Null => result[r] = stable[r]

\* Table::drop frees every pointer a retired table still holds, so a replaced
\* table must hold none: the new one owns them.
OldTablesOwnNothing ==
  \A t \in 1..(current - 1) : \A s \in SlotsOf(t) : table[t][s].value = Null

\* get's comment: "a same-key match is only possible for the reinsert's
\* Release-published value", so what a get returns was inserted under its key.
GetReturnsOwnValue ==
  \A r \in MapReaders : rpc[r] = "done" /\ result[r] # Null => keyOf[result[r]] = rkey[r]

\* The tables: types, and one owner for every value.
OwnershipInv == MapTypeOK /\ OldTablesOwnNothing
=============================================================================
