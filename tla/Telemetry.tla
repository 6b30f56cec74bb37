----------------------------- MODULE Telemetry ------------------------------
(***************************************************************************)
(* The unbatched ring of crates/anvil/src/spsc.rs and its main user, the   *)
(* telemetry bus of crates/anvil/src/telemetry.rs: one ring per worker,    *)
(* which the worker fills with emit and a consumer empties with drain, and *)
(* a shared count of the events that found the ring full or had no ring.   *)
(*                                                                         *)
(* One ring is modelled; emit is also called with an index that has no     *)
(* ring.  Each end writes its own index and reads the other's, so every    *)
(* load and store of an index or a slot is a step of its own and no store  *)
(* buffer is needed.                                                       *)
(***************************************************************************)
EXTENDS Integers, Sequences

CONSTANTS
  RingCapacity,   \* slots: TELEMETRY_CAPACITY, a power of two
  RingWrap,       \* 2^64 in the code: the modulus of head and tail
  DrainBuffer,    \* length of drain's buffer: 64 in the code
  MaxEmit         \* bound: calls of emit

ASSUME TelemetryAssumption ==
  /\ RingCapacity \in Nat /\ RingCapacity >= 2
  /\ RingWrap \in Nat /\ RingWrap > RingCapacity /\ RingWrap % RingCapacity = 0
  /\ DrainBuffer \in Nat \ {0}
  /\ MaxEmit \in Nat

VARIABLES
  rhead, rtail,   \* the published indices
  rbuf,           \* slot -> event; -1 is uninitialised storage
  emitter,        \* the worker: [at, h]
  drainer,        \* the consumer: [at, t, n, got, fresh]
  dropped,        \* TelemetryBus::dropped
  attempts,       \* ghost: calls of emit
  rsent,          \* ghost: events accepted, numbered from 0
  rgot,           \* what the last pop_batch returned
  rout            \* everything drained or dropped with the ring, in order

telemetry_vars ==
  <<rhead, rtail, rbuf, emitter, drainer, dropped, attempts, rsent, rgot, rout>>

RingMask == RingCapacity - 1
RAdd(a, b) == (a + b) % RingWrap
RSub(a, b) == (a - b) % RingWrap
RSlot(i) == i % RingCapacity

TelemetryInit ==
  /\ rhead = 0 /\ rtail = 0
  /\ rbuf = [i \in 0..RingMask |-> -1]
  /\ emitter = [at |-> "idle", h |-> 0]
  /\ drainer = [at |-> "idle", t |-> 0, n |-> 0, got |-> <<>>, fresh |-> 0]
  /\ dropped = 0 /\ attempts = 0 /\ rsent = 0
  /\ rgot = <<>> /\ rout = <<>>

Open == drainer.at # "gone"

(***************************************************************************)
(* emit and push.                                                          *)
(***************************************************************************)
\* An index without a ring: counted, nothing else happens.
EmitNoRing ==
  /\ Open /\ attempts < MaxEmit /\ emitter.at = "idle"
  /\ attempts' = attempts + 1
  /\ dropped' = dropped + 1
  /\ UNCHANGED <<rhead, rtail, rbuf, emitter, drainer, rsent, rgot, rout>>

\* push loads its own tail and the consumer's head.
EmitLoad ==
  /\ Open /\ attempts < MaxEmit /\ emitter.at = "idle"
  /\ attempts' = attempts + 1
  /\ emitter' = [at |-> "check", h |-> rhead]
  /\ UNCHANGED <<rhead, rtail, rbuf, drainer, dropped, rsent, rgot, rout>>

\* Fault model: a ring with every slot in use still accepts.
AcceptsOneMore == RSub(rtail, emitter.h) > RingMask + 1

RingFull == RSub(rtail, emitter.h) > RingMask

\* Fault model: an event that found the ring full is not counted.
ForgetDrop ==
  /\ emitter.at = "check" /\ RingFull
  /\ emitter' = [emitter EXCEPT !.at = "idle"]
  /\ UNCHANGED <<rhead, rtail, rbuf, drainer, dropped, attempts, rsent, rgot, rout>>

EmitDrop ==
  /\ emitter.at = "check" /\ RingFull
  /\ dropped' = dropped + 1
  /\ emitter' = [emitter EXCEPT !.at = "idle"]
  /\ UNCHANGED <<rhead, rtail, rbuf, drainer, attempts, rsent, rgot, rout>>

PushWrite ==
  /\ emitter.at = "check" /\ ~RingFull
  /\ rbuf' = [rbuf EXCEPT ![RSlot(rtail)] = rsent]
  /\ emitter' = [emitter EXCEPT !.at = "publish"]
  /\ UNCHANGED <<rhead, rtail, drainer, dropped, attempts, rsent, rgot, rout>>

PushPublish ==
  /\ emitter.at = "publish"
  /\ rtail' = RAdd(rtail, 1)
  /\ rsent' = rsent + 1
  /\ emitter' = [emitter EXCEPT !.at = "idle"]
  /\ UNCHANGED <<rhead, rbuf, drainer, dropped, attempts, rgot, rout>>

(***************************************************************************)
(* drain: pop_batch until one comes back short.                            *)
(***************************************************************************)
DrainStart ==
  /\ drainer.at = "idle"
  /\ drainer' = [drainer EXCEPT !.at = "load", !.fresh = rsent]
  /\ UNCHANGED <<rhead, rtail, rbuf, emitter, dropped, attempts, rsent, rgot, rout>>

\* Loads the producer's tail; n events fit and are visible.
BatchLoad ==
  /\ drainer.at = "load"
  /\ LET visible == RSub(rtail, rhead)
         n == IF visible < DrainBuffer THEN visible ELSE DrainBuffer
     IN  drainer' = [drainer EXCEPT !.at = IF n = 0 THEN "done" ELSE "read",
                                    !.t = rtail, !.n = n, !.got = <<>>]
  /\ UNCHANGED <<rhead, rtail, rbuf, emitter, dropped, attempts, rsent, rgot, rout>>

BatchRead ==
  /\ drainer.at = "read" /\ Len(drainer.got) < drainer.n
  /\ drainer' = [drainer EXCEPT
       !.got = Append(@, rbuf[RSlot(RAdd(rhead, Len(drainer.got)))])]
  /\ UNCHANGED <<rhead, rtail, rbuf, emitter, dropped, attempts, rsent, rgot, rout>>

\* Fault model: drain stops after its first batch.
StopAfterOne(n) == TRUE

\* A short batch ends the drain.
ShortBatch(n) == n < DrainBuffer

\* One head store releases the batch's slots.
BatchRelease ==
  /\ drainer.at = "read" /\ Len(drainer.got) = drainer.n
  /\ rhead' = RAdd(rhead, drainer.n)
  /\ rgot' = drainer.got
  /\ rout' = rout \o drainer.got
  /\ drainer' = [drainer EXCEPT !.at = IF ShortBatch(drainer.n) THEN "done" ELSE "load"]
  /\ UNCHANGED <<rtail, rbuf, emitter, dropped, attempts, rsent>>

DrainReturn ==
  /\ drainer.at = "done"
  /\ drainer' = [drainer EXCEPT !.at = "idle"]
  /\ UNCHANGED <<rhead, rtail, rbuf, emitter, dropped, attempts, rsent, rgot, rout>>

\* Fault model: the last element is left in its slot.
LeaveLast(n) == IF n = 0 THEN 0 ELSE n - 1

\* drop walks i from head until it meets tail.
Undelivered(n) == n

\* Dropping the ring drops what is still in it; both ends are gone by then.
RingDrop ==
  /\ attempts = MaxEmit
  /\ emitter.at = "idle" /\ drainer.at = "idle"
  /\ LET n == Undelivered(RSub(rtail, rhead))
         rest == [i \in 1..n |-> rbuf[RSlot(RAdd(rhead, i - 1))]]
     IN  /\ rout' = rout \o rest
         /\ rgot' = IF n = 0 THEN rgot ELSE rest
  /\ rhead' = rtail
  /\ drainer' = [drainer EXCEPT !.at = "gone"]
  /\ UNCHANGED <<rtail, rbuf, emitter, dropped, attempts, rsent>>

TelemetryNext ==
  \/ EmitNoRing \/ EmitLoad \/ EmitDrop \/ PushWrite \/ PushPublish
  \/ DrainStart \/ BatchLoad \/ BatchRead \/ BatchRelease \/ DrainReturn \/ RingDrop

TelemetrySpec == TelemetryInit /\ [][TelemetryNext]_telemetry_vars

(***************************************************************************)
(* Properties.                                                             *)
(***************************************************************************)
\* The consumer receives the accepted events in emission order, each once and none torn
\* (push, pop_batch); what is still in the ring is dropped with it, once (Drop).
DrainedInOrder ==
  /\ rout = [i \in 1..Len(rout) |-> i - 1]
  /\ Len(rout) <= rsent
  /\ ~Open => Len(rout) = rsent

\* No event vanishes uncounted: every finished emit was accepted or counted in
\* dropped_count, however emit and drain interleave.
DropsAccounted ==
  attempts = rsent + dropped + (IF emitter.at = "idle" THEN 0 ELSE 1)

\* A drain takes at least every event accepted before it started, across as many batches
\* as that needs; the consumer that drains at the end of a region misses nothing.
DrainComplete == drainer.at = "done" => Len(rout) >= drainer.fresh

RingQueue == [i \in 1..RSub(rtail, rhead) |-> rbuf[RSlot(RAdd(rhead, i - 1))]]
RingChannel == INSTANCE Channel WITH
  Bound <- RingCapacity, queue <- RingQueue, sent <- rsent, got <- rgot

\* The untyped ring, single pops and batches alike, is a bounded FIFO of its slots.
RingIsChannel == RingChannel!Spec

\* Every event emitted is drained once, in order, or counted as dropped.
EventsAccounted == DrainedInOrder /\ DropsAccounted /\ DrainComplete
=============================================================================
