-------------------------------- MODULE Ebr ---------------------------------
(***************************************************************************)
(* Epoch-based reclamation, crates/anvil/src/ebr.rs.  A guard publishes    *)
(* epoch + 1 in its thread's slot; a writer unlinks an allocation, stamps  *)
(* it with the epoch and queues it; collect advances the epoch when every  *)
(* slot is unpinned or current and frees garbage two epochs old.           *)
(*                                                                         *)
(* The protected structure is one published pointer, `cell`, as the slots  *)
(* of ShardedMap use it: a reader loads it under a guard, a writer swaps   *)
(* it under a guard and retires the old target.                            *)
(*                                                                         *)
(* On the x86_64 target a Release store waits in the thread's FIFO store   *)
(* buffer until it is flushed or the thread executes a locked instruction  *)
(* (fetch_add, swap, compare_exchange); a SeqCst store would wait for the  *)
(* flush.  The only buffered stores here are those of the own slot.        *)
(***************************************************************************)
EXTENDS Integers, Sequences, SequencesExt, FiniteSets

CONSTANTS
  Readers,        \* threads that look the cell up under a guard
  Writers,        \* threads that replace it and retire the old target
  Collectors,     \* threads that call collect themselves, which needs no slot
  MAX_EBR_SLOTS,  \* preallocated slots
  Threshold,      \* EBR_RETIRE_THRESHOLD
  MaxObj,         \* bound: allocations of a behaviour
  MaxEpoch,       \* bound: the highest epoch reached
  BufferDepth,    \* stores a thread's store buffer holds
  Nothing         \* no slot, no object

EbrThreads == Readers \union Writers \union Collectors
Objects    == 1..MaxObj
EbrSlots   == 0..(MAX_EBR_SLOTS - 1)

ASSUME EbrAssumption ==
  /\ IsFiniteSet(EbrThreads)
  /\ MAX_EBR_SLOTS \in Nat \ {0} /\ Threshold \in Nat \ {0}
  /\ MaxObj \in Nat \ {0} /\ MaxEpoch \in Nat
  /\ BufferDepth \in Nat \ {0}
  /\ Nothing \notin Objects /\ Nothing \notin EbrSlots

VARIABLES
  global_epoch, slots, next_slot, garbage, retires_since_collect,  \* Collector
  cell,      \* the published pointer
  pin_sb,    \* thread -> buffered stores to its slot, oldest first
  slot,      \* thread -> its registered slot, or Nothing
  epc,       \* thread -> where it stands
  ret,       \* thread -> where its last call of collect returns to
  epoch,     \* thread -> epoch that pin, retire or collect loaded last
  held,      \* thread -> object it references under its guard, or unlinked
  scan,      \* thread -> slots collect has still to load
  kept,      \* thread -> garbage its sweep has still to re-queue
  allocated, \* objects 1..allocated exist
  freed,     \* object -> how often its destructor ran
  covered    \* ghost: thread -> its slot store was visible when it loaded cell

collector == <<global_epoch, slots, next_slot, garbage, retires_since_collect>>
ebr_vars == <<collector, cell, pin_sb, slot, epc, ret, epoch, held, scan, kept, allocated, freed,
              covered>>

EbrInit ==
  /\ global_epoch = 0 /\ slots = [s \in EbrSlots |-> 0] /\ next_slot = 0
  /\ garbage = {} /\ retires_since_collect = 0
  /\ cell = 1 /\ allocated = 1
  /\ pin_sb = [th \in EbrThreads |-> <<>>]
  /\ slot = [th \in EbrThreads |-> Nothing]
  /\ epc = [th \in EbrThreads |-> IF th \in Readers \union Writers THEN "start" ELSE "idle"]
  /\ ret = [th \in EbrThreads |-> "idle"]
  /\ epoch = [th \in EbrThreads |-> 0]
  /\ held = [th \in EbrThreads |-> Nothing]
  /\ scan = [th \in EbrThreads |-> {}]
  /\ kept = [th \in EbrThreads |-> {}]
  /\ freed = [o \in Objects |-> 0]
  /\ covered = [th \in EbrThreads |-> FALSE]

EbrGoto(th, l) == epc' = [epc EXCEPT ![th] = l]
Set(f, th, v) == [f EXCEPT ![th] = v]

\* A locked instruction of th: its buffered stores reach memory first.
Drained(th) ==
  IF pin_sb[th] = <<>> THEN slots ELSE [slots EXCEPT ![slot[th]] = Last(pin_sb[th])]

\* What th loads from slot s: its own youngest buffered store, else memory.
SlotValue(th, s) == IF s = slot[th] /\ pin_sb[th] # <<>> THEN Last(pin_sb[th]) ELSE slots[s]

\* A full buffer stalls the thread until its oldest store is flushed.
StoreSlot(th, v) ==
  /\ Len(pin_sb[th]) < BufferDepth
  /\ pin_sb' = [pin_sb EXCEPT ![th] = Append(@, v)]

-----------------------------------------------------------------------------
(* register, pin, Guard::drop *)

\* Fault model: the bound on slots is off by one.
OneSlotTooMany(n) == n <= MAX_EBR_SLOTS

SlotAvailable(n) == n < MAX_EBR_SLOTS

Register(th) ==
  /\ epc[th] = "start"
  /\ next_slot' = next_slot + 1
  /\ IF SlotAvailable(next_slot)
     THEN slot' = Set(slot, th, next_slot) /\ EbrGoto(th, "idle")
     ELSE EbrGoto(th, "SlotsExhausted") /\ UNCHANGED slot
  /\ UNCHANGED <<global_epoch, slots, garbage, retires_since_collect, cell, pin_sb, epoch,
                 held, scan, kept, allocated, ret, freed, covered>>

PinLoad(th) ==
  /\ th \in Readers \union Writers /\ epc[th] = "idle"
  /\ epoch' = Set(epoch, th, global_epoch)
  /\ EbrGoto(th, "pin_store")
  /\ UNCHANGED <<collector, cell, pin_sb, slot, held, scan, kept, allocated, ret, freed, covered>>

PinStore(th) ==
  /\ epc[th] = "pin_store"
  /\ StoreSlot(th, epoch[th] + 1)
  /\ EbrGoto(th, "pinned")
  /\ UNCHANGED <<collector, cell, slot, epoch, held, scan, kept, allocated, ret, freed,
                 covered>>

\* The lookup: the reference it returns lives as long as the guard.
Read(th) ==
  /\ th \in Readers /\ epc[th] = "pinned" /\ held[th] = Nothing
  /\ held' = Set(held, th, cell)
  /\ covered' = Set(covered, th, pin_sb[th] = <<>>)
  /\ UNCHANGED <<collector, cell, pin_sb, slot, epc, epoch, scan, kept, allocated, ret, freed>>

Unpin(th) ==
  /\ epc[th] = "pinned"
  /\ StoreSlot(th, 0)
  /\ held' = Set(held, th, Nothing)
  /\ covered' = Set(covered, th, FALSE)
  /\ EbrGoto(th, "idle")
  /\ UNCHANGED <<collector, cell, slot, epoch, scan, kept, allocated, ret, freed>>

-----------------------------------------------------------------------------
(* retire_box *)

\* External: the structure unlinks an allocation (ShardedMap's value.swap).
Swap(th) ==
  /\ th \in Writers /\ epc[th] = "pinned" /\ held[th] = Nothing
  /\ allocated < MaxObj
  /\ allocated' = allocated + 1
  /\ cell' = allocated + 1
  /\ held' = Set(held, th, cell)
  /\ slots' = Drained(th) /\ pin_sb' = Set(pin_sb, th, <<>>)
  /\ EbrGoto(th, "retire_stamp")
  /\ UNCHANGED <<global_epoch, next_slot, garbage, retires_since_collect, slot, epoch,
                 scan, kept, ret, freed, covered>>

RetireStamp(th) ==
  /\ epc[th] = "retire_stamp"
  /\ epoch' = Set(epoch, th, global_epoch)
  /\ EbrGoto(th, "retire_push")
  /\ UNCHANGED <<collector, cell, pin_sb, slot, held, scan, kept, allocated, ret, freed, covered>>

\* The CAS loop ends with the node linked at whatever head it then finds; the
\* retirement is counted, and the count decides whether to collect.
RetirePush(th) ==
  /\ epc[th] = "retire_push"
  /\ garbage' = garbage \union {[obj |-> held[th], stamp |-> epoch[th]]}
  /\ held' = Set(held, th, Nothing)
  /\ retires_since_collect' = retires_since_collect + 1
  /\ EbrGoto(th, IF retires_since_collect + 1 >= Threshold THEN "collect" ELSE "pinned")
  /\ ret' = Set(ret, th, "pinned")
  /\ UNCHANGED <<global_epoch, slots, next_slot, cell, pin_sb, slot, epoch, scan, kept,
                 allocated, freed, covered>>

-----------------------------------------------------------------------------
(* collect: from retire_box by a pinned writer, or called directly *)

CollectCalled(th) ==
  /\ th \in Collectors /\ epc[th] = "idle"
  /\ EbrGoto(th, "collect") /\ ret' = Set(ret, th, "idle")
  /\ UNCHANGED <<collector, cell, pin_sb, slot, epoch, held, scan, kept, allocated, freed,
                 covered>>

CollectLoad(th) ==
  /\ epc[th] = "collect" /\ global_epoch < MaxEpoch
  /\ epoch' = Set(epoch, th, global_epoch)
  /\ scan' = Set(scan, th, EbrSlots)
  /\ EbrGoto(th, "scan")
  /\ UNCHANGED <<collector, cell, pin_sb, slot, held, kept, allocated, ret, freed, covered>>

\* Fault model: a pin of the previous epoch does not hold the epoch back.
StalePinIgnored(v, g) == v \in {0, g, g + 1}

AllowsAdvance(v, g) == v = 0 \/ v = g + 1

\* One slot load, in slot order; the first that forbids it ends the scan.
CollectScan(th) ==
  /\ epc[th] = "scan" /\ scan[th] # {}
  /\ \E s \in scan[th] :
       /\ \A r \in scan[th] : s <= r
       /\ IF AllowsAdvance(SlotValue(th, s), epoch[th])
          THEN scan' = Set(scan, th, scan[th] \ {s}) /\ UNCHANGED epc
          ELSE EbrGoto(th, "now") /\ scan' = Set(scan, th, {})
  /\ UNCHANGED <<collector, cell, pin_sb, slot, epoch, held, kept, allocated, ret, freed, covered>>

CollectAdvance(th) ==
  /\ epc[th] = "scan" /\ scan[th] = {}
  /\ slots' = Drained(th) /\ pin_sb' = Set(pin_sb, th, <<>>)
  /\ global_epoch' = IF global_epoch = epoch[th] THEN epoch[th] + 1 ELSE global_epoch
  /\ EbrGoto(th, "now")
  /\ UNCHANGED <<next_slot, garbage, retires_since_collect, cell, slot, epoch, held, scan,
                 kept, allocated, ret, freed, covered>>

CollectNow(th) ==
  /\ epc[th] = "now"
  /\ epoch' = Set(epoch, th, global_epoch)
  /\ EbrGoto(th, "sweep")
  /\ UNCHANGED <<collector, cell, pin_sb, slot, held, scan, kept, allocated, ret, freed, covered>>

\* Fault model: one epoch of lag is taken to be enough.
OneEpochLag(stamp, n) == n >= stamp + 1

TwoEpochLag(stamp, n) == n >= stamp + 2

\* Fault model: the sweep walks the shared list instead of taking it.
ListNotTaken == garbage

ListTaken == {}

\* The whole list is taken; what is old enough is destroyed.
CollectSweep(th) ==
  /\ epc[th] = "sweep"
  /\ slots' = Drained(th) /\ pin_sb' = Set(pin_sb, th, <<>>)
  /\ LET old == {r \in garbage : TwoEpochLag(r.stamp, epoch[th])} IN
       /\ freed' = [o \in Objects |-> freed[o] + Cardinality({r \in old : r.obj = o})]
       /\ kept' = Set(kept, th, garbage \ old)
  /\ garbage' = ListTaken
  /\ EbrGoto(th, "keep")
  /\ UNCHANGED <<global_epoch, next_slot, retires_since_collect, cell, slot, epoch, held,
                 scan, allocated, ret, covered>>

CollectKeep(th, r) ==
  /\ epc[th] = "keep" /\ r \in kept[th]
  /\ garbage' = garbage \union {r}
  /\ kept' = Set(kept, th, kept[th] \ {r})
  /\ UNCHANGED <<global_epoch, slots, next_slot, retires_since_collect, cell, pin_sb, slot, epc,
                 epoch, held, scan, allocated, ret, freed, covered>>

\* retire_box resets the count once its collect returns.
CollectDone(th) ==
  /\ epc[th] = "keep" /\ kept[th] = {}
  /\ retires_since_collect' = IF ret[th] = "pinned" THEN 0 ELSE retires_since_collect
  /\ EbrGoto(th, ret[th])
  /\ UNCHANGED <<global_epoch, slots, next_slot, garbage, cell, pin_sb, slot, epoch, held, scan,
                 kept, allocated, ret, freed, covered>>

-----------------------------------------------------------------------------
\* External: the memory system retires the oldest store of a thread's buffer.
FlushPin(th) ==
  /\ pin_sb[th] # <<>>
  /\ slots' = [slots EXCEPT ![slot[th]] = Head(pin_sb[th])]
  /\ pin_sb' = Set(pin_sb, th, Tail(pin_sb[th]))
  /\ UNCHANGED <<global_epoch, next_slot, garbage, retires_since_collect, cell, slot, epc,
                 epoch, held, scan, kept, allocated, ret, freed, covered>>

\* Dropping the Collector needs every guard and borrow gone.
DropCollector ==
  /\ \A th \in EbrThreads : epc[th] \in {"start", "idle", "SlotsExhausted"} /\ pin_sb[th] = <<>>
  /\ freed' = [o \in Objects |-> freed[o] + Cardinality({r \in garbage : r.obj = o})]
  /\ garbage' = {}
  /\ epc' = [th \in EbrThreads |-> "dropped"]
  /\ UNCHANGED <<global_epoch, slots, next_slot, retires_since_collect, cell, pin_sb, slot,
                 epoch, held, scan, kept, allocated, ret, covered>>

GuardStep(th) == PinLoad(th) \/ PinStore(th) \/ Read(th) \/ Unpin(th)
RetireStep(th) ==
  Swap(th) \/ RetireStamp(th) \/ RetirePush(th)
CollectStep(th) ==
  \/ CollectCalled(th) \/ CollectLoad(th) \/ CollectScan(th) \/ CollectAdvance(th)
  \/ CollectNow(th) \/ CollectSweep(th) \/ CollectDone(th)
  \/ \E r \in kept[th] : CollectKeep(th, r)

EbrNext ==
  \/ \E th \in EbrThreads :
       Register(th) \/ GuardStep(th) \/ RetireStep(th) \/ CollectStep(th) \/ FlushPin(th)
  \/ DropCollector

EbrSpec == EbrInit /\ [][EbrNext]_ebr_vars

-----------------------------------------------------------------------------
(* Properties *)

Retired == [obj : Objects, stamp : 0..MaxEpoch]

\* The variables hold values of their types.
EbrTypeOK ==
  /\ global_epoch \in 0..MaxEpoch /\ slots \in [EbrSlots -> 0..(MaxEpoch + 1)]
  /\ next_slot \in 0..Cardinality(EbrThreads)
  /\ garbage \subseteq Retired /\ retires_since_collect \in 0..MaxObj
  /\ cell \in Objects /\ allocated \in Objects
  /\ pin_sb \in [EbrThreads -> Seq(0..(MaxEpoch + 1))]
  /\ \A th \in EbrThreads : Len(pin_sb[th]) <= BufferDepth
  /\ slot \in [EbrThreads -> EbrSlots \union {Nothing}]
  /\ epc \in [EbrThreads -> {"start", "idle", "SlotsExhausted", "pin_store", "pinned",
               "retire_stamp", "retire_push", "collect", "scan", "now", "sweep", "keep",
               "dropped"}]
  /\ ret \in [EbrThreads -> {"pinned", "idle"}]
  /\ epoch \in [EbrThreads -> 0..MaxEpoch]
  /\ held \in [EbrThreads -> Objects \union {Nothing}]
  /\ scan \in [EbrThreads -> SUBSET EbrSlots]
  /\ kept \in [EbrThreads -> SUBSET Retired]
  /\ freed \in [Objects -> Nat]
  /\ covered \in [EbrThreads -> BOOLEAN]

\* A reference loaded under a guard whose slot store had reached memory stays
\* allocated until the guard is dropped: the advance rule and the two-epoch lag
\* suffice against any number of concurrent collectors.
CoveredReferenceLive ==
  \A th \in Readers : covered[th] => freed[held[th]] = 0

\* Every unlinked allocation is destroyed exactly once, by a sweep or by the
\* collector's Drop, although sweeps take, split and re-queue the list.
FreedExactlyOnce ==
  /\ \A o \in Objects : freed[o] <= 1
  /\ freed[cell] = 0
  /\ (\A th \in EbrThreads : epc[th] = "dropped") =>
       \A o \in 1..allocated : o # cell => freed[o] = 1

\* pin's doc: while pinned, no retired allocation visible to this thread can be
\* destroyed.
PinnedReferenceLive ==
  \A th \in Readers : held[th] # Nothing /\ epc[th] = "pinned" => freed[held[th]] = 0

\* The list and the slots: types (no thread uses a slot it was refused) and one destruction
\* for every allocation.
GarbageInv == EbrTypeOK /\ FreedExactlyOnce
=============================================================================
