----------------------------- MODULE TaskLocal ------------------------------
(***************************************************************************)
(* The single-threaded services of a task: the bump arena                  *)
(* (crates/anvil/src/bump.rs), the fuel meter (crates/anvil/src/fuel.rs)   *)
(* and the CPU stream (crates/runtime/src/stream.rs), whose device runs a  *)
(* launch to its end.  Sizes and offsets are usize modulo BumpWrap; a Vec  *)
(* and a type are smaller than half of it.  Fuel is a u32 that saturates   *)
(* at FuelMax.                                                             *)
(***************************************************************************)
EXTENDS Integers, Sequences

CONSTANTS
  BumpWrap,       \* 2^64 in the code
  BumpCapacity,   \* bytes of the block
  BumpBases,      \* addresses the allocator may return for it
  Layouts,        \* [size, align] of the types allocated
  TASK_FUEL_UNITS, FuelMax, Burns,  \* budget, u32::MAX, units burnt at a time
  MaxTaskOps      \* bound: calls made

ASSUME TaskLocalAssumption ==
  /\ BumpWrap \in Nat /\ BumpCapacity \in 1..(BumpWrap \div 2 - 1) /\ BumpBases \subseteq Nat
  /\ \A l \in Layouts :    \* an alignment is a power of two and divides the size
       /\ l.align \in Nat \ {0} /\ (BumpWrap \div 2) % l.align = 0
       /\ l.size \in 0..(BumpWrap \div 2 - 1) /\ l.size % l.align = 0
  /\ FuelMax \in Nat /\ TASK_FUEL_UNITS \in 1..FuelMax /\ Burns \subseteq Nat

VARIABLES
  base, offset, blocks,       \* the arena; ghost: blocks handed out since the last reset
  spent, burnt,               \* the meter; ghost: units burnt since the last refill
  launches, events, waited,   \* the stream; ghost: the last event waited for
  task_ops

task_vars == <<base, offset, blocks, spent, burnt, launches, events, waited, task_ops>>

TaskInit ==
  /\ base = 0 /\ offset = 0 /\ blocks = <<>>
  /\ spent = 0 /\ burnt = 0
  /\ launches = 0 /\ events = <<>> /\ waited = [id |-> 0, after_launch |-> 0]
  /\ task_ops = 0

Call == task_ops < MaxTaskOps /\ task_ops' = task_ops + 1

\* Fault model: the end is computed from the unaligned offset.
EndFromOffset(l) == (offset + l.size) % BumpWrap

\* Fault model: the offset is taken as it is.
NoPadding(l) == offset

\* The padding is computed for the offset; the address of the block plays no part in it.
AlignUp(from, align) == LET up == (from + align - 1) % BumpWrap IN up - (up % align)

AlignedStart(l) == AlignUp(offset, l.align)

AllocEnd(l) == (AlignedStart(l) + l.size) % BumpWrap

\* The allocator returns memory at some address.
new_arena ==
  /\ base = 0 /\ Call
  /\ base' \in BumpBases
  /\ UNCHANGED <<offset, blocks, spent, burnt, launches, events, waited>>

\* Exhausted and Alignment change nothing.
alloc(l) ==
  /\ base # 0 /\ Call /\ AllocEnd(l) <= BumpCapacity
  /\ blocks' = Append(blocks, [start |-> AlignedStart(l), size |-> l.size, align |-> l.align])
  /\ offset' = AllocEnd(l)
  /\ UNCHANGED <<base, spent, burnt, launches, events, waited>>

reset ==
  /\ Call
  /\ offset' = 0 /\ blocks' = <<>>
  /\ UNCHANGED <<base, spent, burnt, launches, events, waited>>

\* Fault model: the addition wraps.
WrappingFuel(units) == (spent + units) % (FuelMax + 1)

SaturatingFuel(units) == IF spent + units > FuelMax THEN FuelMax ELSE spent + units

burn(units) ==
  /\ Call
  /\ spent' = SaturatingFuel(units)
  /\ burnt' = burnt + units
  /\ UNCHANGED <<base, offset, blocks, launches, events, waited>>

should_defer == spent >= TASK_FUEL_UNITS

refill ==
  /\ Call
  /\ spent' = 0 /\ burnt' = 0
  /\ UNCHANGED <<base, offset, blocks, launches, events, waited>>

\* A launch that fails is not counted.
launch ==
  /\ Call
  /\ launches' = launches + 1
  /\ UNCHANGED <<base, offset, blocks, spent, burnt, events, waited>>

record ==
  /\ Call
  /\ events' = Append(events, [id |-> Len(events), after_launch |-> launches])
  /\ UNCHANGED <<base, offset, blocks, spent, burnt, launches, waited>>

\* Fault model: the event is looked up by its number alone.
KnownId(ev) == ev.id < Len(events)

Recorded(ev) == ev.id < Len(events) /\ events[ev.id + 1] = ev

\* The event may have been recorded by another stream.
wait_for(ev) ==
  /\ Call /\ Recorded(ev)
  /\ waited' = ev
  /\ UNCHANGED <<base, offset, blocks, spent, burnt, launches, events>>

TaskNext ==
  \/ \E l \in Layouts : alloc(l)
  \/ \E u \in Burns : burn(u)
  \/ new_arena \/ reset \/ refill \/ launch \/ record
  \/ \E i, n \in 0..(MaxTaskOps - 1) : wait_for([id |-> i, after_launch |-> n])

TaskSpec == TaskInit /\ [][TaskNext]_task_vars

(***************************************************************************)
(* Properties.                                                             *)
(***************************************************************************)
Bytes(b) == b.start..(b.start + b.size - 1)

\* Blocks handed out between two resets lie inside the arena and no two of them share a
\* byte, whatever sizes and alignments follow each other, zero-sized types included
\* (BumpArena::alloc).
BlocksDisjoint ==
  /\ \A i \in DOMAIN blocks : Bytes(blocks[i]) \subseteq 0..(BumpCapacity - 1)
  /\ \A i, j \in DOMAIN blocks : i # j => Bytes(blocks[i]) \cap Bytes(blocks[j]) = {}

\* An arena whose base suits a type hands out blocks that suit it: the padding is computed
\* right (BumpArena::alloc).  Nothing makes the base suit the type: see MisalignedBlock in MCTask.
AlignedWithBase ==
  \A i \in DOMAIN blocks :
    base % blocks[i].align = 0 => (base + blocks[i].start) % blocks[i].align = 0

\* A task defers exactly when it has burnt its budget since the last refill, however far
\* past the budget it went (FuelMeter::burn saturates).
DefersOnBudget == should_defer <=> burnt >= TASK_FUEL_UNITS

\* A wait that succeeds waited for launches this stream has made, whichever stream the
\* event came from (CpuStream::wait_for).
WaitedForLaunched == waited.after_launch <= launches

\* The services of a task keep their promises whatever the order of the calls: the arena its
\* blocks apart, the meter its budget, the stream its events.
TaskServicesExact == BlocksDisjoint /\ AlignedWithBase /\ DefersOnBudget /\ WaitedForLaunched
=============================================================================
