----------------------------- MODULE TypedSpsc ------------------------------
(***************************************************************************)
(* The batched single-producer single-consumer channel of                  *)
(* crates/anvil/src/typed.rs.  Each end keeps a private index and          *)
(* publishes it, to `tail` or `head`, only once `threshold` operations are *)
(* pending, on flush, or when it is dropped.  The indices are u64 that     *)
(* wrap modulo Wrap and address slot index & mask.                         *)
(*                                                                         *)
(* A check that finds the ring full or empty returns an error and changes  *)
(* nothing; send and recv repeat it.  Each end writes its own index and    *)
(* reads the other's, so in-order stores need no store buffer here: a      *)
(* delayed index store is a later flush.                                   *)
(***************************************************************************)
EXTENDS Integers, Sequences

CONSTANTS
  Capacity,               \* slots of the ring
  Wrap,                   \* 2^64 in the code: the modulus of the indices
  TYPED_BATCH_THRESHOLD,  \* SPSC_BATCH_OPS
  BatchSizes,             \* lengths of the slices try_recv_batch is given
  MaxSend                 \* bound: values the producer sends

ASSUME TypedSpscAssumption ==
  /\ Capacity \in Nat /\ Capacity >= 2
  /\ Wrap \in Nat /\ Wrap > Capacity /\ Wrap % Capacity = 0
  /\ TYPED_BATCH_THRESHOLD \in Nat \ {0}
  /\ BatchSizes \subseteq Nat \ {0}
  /\ MaxSend \in Nat

VARIABLES
  head, tail,          \* the published indices
  buffer,              \* slot -> value; -1 is uninitialised storage
  next_write, ppending, ppc,              \* TypedProducer
  next_read, cpending, cpc, want, batch,  \* TypedConsumer
  got,                 \* the values the last receive returned
  sent, pub, rcvd, rel \* ghosts: values written, published, read, released

producer == <<next_write, ppending, ppc>>
consumer == <<next_read, cpending, cpc, want, batch>>
vars == <<head, tail, buffer, producer, consumer, got, sent, pub, rcvd, rel>>

Slots == 0..(Capacity - 1)
mask  == Capacity - 1

\* Fault model: the sum is not wrapped.
PlainAdd(a, b) == a + b

WrapAdd(a, b) == (a + b) % Wrap
WrapSub(a, b) == (a - b) % Wrap
SlotOf(i) == i % Capacity
Least(a, b) == IF a <= b THEN a ELSE b

\* Fault model: batches as large as the ring.
WholeRingThreshold == Least(Capacity, TYPED_BATCH_THRESHOLD)

\* Batches of at most half the ring.
effective_threshold ==
  IF Capacity \div 2 = 0 THEN 1 ELSE Least(Capacity \div 2, TYPED_BATCH_THRESHOLD)

Init ==
  /\ head = 0 /\ tail = 0
  /\ buffer = [s \in Slots |-> -1]
  /\ next_write = 0 /\ ppending = 0 /\ ppc = "idle"
  /\ next_read = 0 /\ cpending = 0 /\ cpc = "idle" /\ want = 0 /\ batch = FALSE
  /\ got = <<>>
  /\ sent = 0 /\ pub = 0 /\ rcvd = 0 /\ rel = 0

-----------------------------------------------------------------------------
(* TypedProducer: try_send, flush, drop *)

\* Fault model: one value too many fits.
FullOffByOne == WrapSub(next_write, head) > mask + 1

Full == WrapSub(next_write, head) > mask

SendCheck ==
  /\ ppc = "idle" /\ sent < MaxSend
  /\ ~Full
  /\ ppc' = "write"
  /\ UNCHANGED <<head, tail, buffer, next_write, ppending, consumer, got, sent, pub, rcvd, rel>>

SendWrite ==
  /\ ppc = "write"
  /\ buffer' = [buffer EXCEPT ![SlotOf(next_write)] = sent]
  /\ next_write' = WrapAdd(next_write, 1)
  /\ ppending' = ppending + 1
  /\ ppc' = IF ppending + 1 >= effective_threshold THEN "flush" ELSE "idle"
  /\ sent' = sent + 1
  /\ UNCHANGED <<head, tail, consumer, got, pub, rcvd, rel>>

\* Fault model: the producer publishes one slot ahead of its writes.
PublishAhead == WrapAdd(next_write, 1)

PublishedTail == next_write

ProducerPublish(then) ==
  /\ tail' = PublishedTail
  /\ pub' = sent
  /\ ppending' = 0
  /\ ppc' = then
  /\ UNCHANGED <<head, buffer, next_write, consumer, got, sent, rcvd, rel>>

\* flush at the end of a batch, or called by the user.
ProducerFlush ==
  /\ ppc = "flush" \/ (ppc = "idle" /\ ppending > 0)
  /\ ProducerPublish("idle")

\* Fault model: drop does not flush.
DropSilently == FALSE

DropFlushes == ppending > 0

ProducerDrop ==
  /\ ppc = "idle"
  /\ IF DropFlushes THEN ProducerPublish("dropped")
     ELSE /\ ppc' = "dropped"
          /\ UNCHANGED <<head, tail, buffer, next_write, ppending, consumer, got, sent, pub,
                         rcvd, rel>>

-----------------------------------------------------------------------------
(* TypedConsumer: try_recv, try_recv_batch, flush, drop *)

Available == WrapSub(tail, next_read)

RecvCheck ==
  /\ cpc = "idle"
  /\ next_read # tail
  /\ cpc' = "read" /\ want' = 1 /\ batch' = FALSE
  /\ UNCHANGED <<head, tail, buffer, producer, next_read, cpending, got, sent, pub, rcvd, rel>>

RecvBatchCheck(len) ==
  /\ cpc = "idle"
  /\ Available # 0
  /\ cpc' = "read" /\ want' = Least(Available, len) /\ batch' = TRUE
  /\ UNCHANGED <<head, tail, buffer, producer, next_read, cpending, got, sent, pub, rcvd, rel>>

\* A batch always ends in a store of `head`, a single receive only at threshold.
RecvRead ==
  /\ cpc = "read"
  /\ got' = [i \in 1..want |-> buffer[SlotOf(WrapAdd(next_read, i - 1))]]
  /\ next_read' = WrapAdd(next_read, want)
  /\ rcvd' = rcvd + want
  /\ cpending' = IF batch THEN cpending ELSE cpending + 1
  /\ cpc' = IF batch \/ cpending + 1 >= effective_threshold THEN "flush" ELSE "idle"
  /\ UNCHANGED <<head, tail, buffer, producer, want, batch, sent, pub, rel>>

\* Fault model: the consumer hands back slots it has yet to read.
ReleaseAll == tail

ReleasedHead == next_read

ConsumerPublish(then) ==
  /\ head' = ReleasedHead
  /\ rel' = rcvd
  /\ cpending' = 0
  /\ cpc' = then
  /\ UNCHANGED <<tail, buffer, producer, next_read, want, batch, got, sent, pub, rcvd>>

ConsumerFlush ==
  /\ cpc = "flush" \/ (cpc = "idle" /\ cpending > 0)
  /\ ConsumerPublish("idle")

ConsumerDrop ==
  /\ cpc = "idle"
  /\ IF cpending > 0 THEN ConsumerPublish("dropped")
     ELSE /\ cpc' = "dropped"
          /\ UNCHANGED <<head, tail, buffer, producer, next_read, cpending, want, batch, got,
                         sent, pub, rcvd, rel>>

-----------------------------------------------------------------------------
Next ==
  \/ SendCheck \/ SendWrite \/ ProducerFlush \/ ProducerDrop
  \/ RecvCheck \/ (\E len \in BatchSizes : RecvBatchCheck(len)) \/ RecvRead
  \/ ConsumerFlush \/ ConsumerDrop

\* send and recv spin: a check that can succeed and an operation under way are
\* eventually executed.  Flushes and drops the user may never call are not.
SendStep == SendCheck \/ SendWrite \/ (ppc = "flush" /\ ProducerFlush)
RecvStep == RecvCheck \/ RecvRead \/ (cpc = "flush" /\ ConsumerFlush)
Fairness == WF_vars(SendStep) /\ WF_vars(RecvStep)

Spec == Init /\ [][Next]_vars /\ Fairness

-----------------------------------------------------------------------------
(* Properties *)

\* The variables hold values of their types.
TypeOK ==
  /\ head \in 0..(Wrap - 1) /\ tail \in 0..(Wrap - 1)
  /\ buffer \in [Slots -> Int]
  /\ next_write \in 0..(Wrap - 1) /\ ppending \in Nat
  /\ ppc \in {"idle", "write", "flush", "dropped"}
  /\ next_read \in 0..(Wrap - 1) /\ cpending \in Nat
  /\ cpc \in {"idle", "read", "flush", "dropped"}
  /\ want \in Nat /\ batch \in BOOLEAN
  /\ got \in Seq(Int)
  /\ sent \in Nat /\ pub \in Nat /\ rcvd \in Nat /\ rel \in Nat

\* The wrapped indices stand for the counters, and the counters are ordered.
IndicesOrdered ==
  /\ head = rel % Wrap /\ next_read = rcvd % Wrap
  /\ tail = pub % Wrap /\ next_write = sent % Wrap
  /\ rel <= rcvd /\ rcvd <= pub /\ pub <= sent /\ sent <= rel + Capacity
  /\ ppc = "write" => sent < rel + Capacity
  /\ cpc = "read" => want >= 1 /\ rcvd + want <= pub

\* What each end has not published yet stays below the threshold between calls.
PendingBelowThreshold ==
  /\ sent - pub = ppending
  /\ ppc # "flush" => ppending < effective_threshold
  /\ (~batch \/ cpc # "flush") => rcvd - rel = cpending
  /\ cpc # "flush" => cpending < effective_threshold
  /\ (cpc = "read" /\ ~batch) => want = 1

\* Every slot from the oldest unreleased value to the youngest sent one holds
\* its value.
WindowIntact == \A i \in rel..(sent - 1) : buffer[SlotOf(i)] = i

\* Receives return exactly the next values, in order, also when the indices
\* wrap and batches straddle the end of the ring.
DeliveredInOrder == \A i \in 1..Len(got) : got[i] = rcvd - Len(got) + i - 1

\* The inductive invariant the safety properties follow from.
Inv ==
  TypeOK /\ IndicesOrdered /\ PendingBelowThreshold /\ WindowIntact /\ DeliveredInOrder

\* The producer never writes a slot the consumer is about to read: the
\* unsynchronised slot accesses do not race.
NoSlotRace ==
  ppc = "write" /\ cpc = "read" =>
    \A i \in 0..(want - 1) : SlotOf(next_write) # SlotOf(WrapAdd(next_read, i))

\* Withheld publications never block both ends at once: half-ring batches leave
\* either a free slot for the producer or a visible value for the consumer.
NoMutualBlock ==
  (ppc = "idle" /\ cpc = "idle") => ~(Full /\ next_read = tail)

Queue == [i \in 1..(sent - rcvd) |-> rcvd + i - 1]
Abstract == INSTANCE Channel WITH Bound <- Capacity, queue <- Queue

\* The channel is a bounded FIFO of its slots.
ImplementsChannel == Abstract!Spec

\* A spinning send gets through while the consumer keeps receiving: every value is sent,
\* unless an end is dropped.
SendProgress == <>(sent = MaxSend \/ ppc = "dropped" \/ cpc = "dropped")

\* What was sent before the producer was dropped is received.
DropDelivers == (ppc = "dropped") ~> (rcvd = sent \/ cpc = "dropped")

\* Nobody waits for ever, neither for space nor for what a dropped producer had withheld.
ChannelProgress == SendProgress /\ DropDelivers
=============================================================================
