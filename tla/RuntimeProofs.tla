--------------------------- MODULE RuntimeProofs ----------------------------
(***************************************************************************)
(* Proofs about the services of the runtime, one section per module, for     *)
(* every value of their constants.                                           *)
(*                                                                           *)
(* TypedSpsc: from the inductive invariant Inv, in-order delivery, the       *)
(* absence of slot races and of mutual blocking, and that the channel        *)
(* implements the bounded FIFO of Channel.                                   *)
(*                                                                           *)
(* Telemetry: RingInv says which counter each wrapped index stands for:      *)
(* `rtail` the events accepted, `rhead` the events drained, and the head     *)
(* that emit loaded some earlier number of events drained, which is why a    *)
(* push that acts on it never overwrites an undrained slot.  Every event     *)
(* is drained once, in order, or counted as dropped, and the unbatched       *)
(* ring implements Channel too.                                              *)
(*                                                                           *)
(* TaskLocal: the blocks of the bump arena, the fuel meter and the events    *)
(* of a stream.  JitService: JitInv relates the shared cache, its count and  *)
(* its try-lock to where the workers are, and the answers under way to the   *)
(* requests asked; the key of a kernel tells requests apart.  Nesting: every *)
(* thread that waits does so for one of higher Rank.                         *)
(***************************************************************************)
EXTENDS TypedSpsc, Telemetry, TaskLocal, JitService, Nesting,
        IndexArithmetic, FiniteSetTheorems, SequenceTheorems, TLAPS

-----------------------------------------------------------------------------
(* TypedSpsc: the typed channel *)

\* The constants, in the form the arithmetic lemmas use them.
LEMMA Constants ==
  /\ Capacity \in Nat \ {0} /\ Wrap \in Nat \ {0} /\ Capacity < Wrap /\ Wrap % Capacity = 0
  /\ effective_threshold \in Nat \ {0}
  /\ 2 * (effective_threshold - 1) < Capacity
<1>1. Capacity \div 2 \in Nat /\ Capacity \div 2 >= 1 /\ 2 * (Capacity \div 2) <= Capacity
  BY TypedSpscAssumption
<1> QED BY <1>1, TypedSpscAssumption DEF effective_threshold, Least

\* Index arithmetic of the channel in terms of the counters.
LEMMA Counters ==
  /\ \A a, b \in Int : b <= a /\ a <= b + Capacity => WrapSub(a % Wrap, b % Wrap) = a - b
  /\ \A a, k \in Int : WrapAdd(a % Wrap, k) = (a + k) % Wrap
  /\ \A a \in Int : SlotOf(a % Wrap) = SlotOf(a) /\ SlotOf(a) \in Slots
  /\ \A a \in Int : a % Wrap \in 0..(Wrap - 1)
  /\ \A a, b \in Int : a < b /\ b < a + Capacity => SlotOf(a) # SlotOf(b)
<1>1. ASSUME NEW a \in Int, NEW b \in Int, b <= a, a <= b + Capacity
      PROVE  WrapSub(a % Wrap, b % Wrap) = a - b
  <2>1. a - b < Wrap
    BY <1>1, Constants
  <2> QED BY <1>1, <2>1, Constants, WrappedDistance DEF WrapSub
<1>2. ASSUME NEW a \in Int, NEW k \in Int PROVE WrapAdd(a % Wrap, k) = (a + k) % Wrap
  BY Constants, WrappedSum DEF WrapAdd
<1>3. ASSUME NEW a \in Int PROVE SlotOf(a % Wrap) = SlotOf(a)
  BY Constants, WrappedSlot DEF SlotOf
<1>4. ASSUME NEW a \in Int PROVE SlotOf(a) \in Slots
  BY Constants, DivMod DEF SlotOf, Slots
<1>5. ASSUME NEW a \in Int PROVE a % Wrap \in 0..(Wrap - 1)
  BY Constants, DivMod
<1>6. ASSUME NEW a \in Int, NEW b \in Int, a < b, b < a + Capacity
      PROVE  SlotOf(a) # SlotOf(b)
  BY <1>6, Constants, DistinctSlots DEF SlotOf
<1> QED BY <1>1, <1>2, <1>3, <1>4, <1>5, <1>6

\* The full check of try_send sees the slots not yet released, the batch check of
\* try_recv_batch the values not yet read.
LEMMA Distances ==
  ASSUME TypeOK, IndicesOrdered
  PROVE  /\ WrapSub(next_write, head) = sent - rel
         /\ Available = pub - rcvd
         /\ (next_read = tail) <=> (pub = rcvd)
<1>1. WrapSub(next_write, head) = sent - rel
  <2>1. sent \in Int /\ rel \in Int /\ rel <= sent /\ sent <= rel + Capacity
    BY Constants DEF TypeOK, IndicesOrdered
  <2>2. WrapSub(sent % Wrap, rel % Wrap) = sent - rel
    BY <2>1, Counters
  <2> QED BY <2>2 DEF IndicesOrdered
<1>2. Available = pub - rcvd
  <2>1. rcvd \in Int /\ pub \in Int /\ rcvd <= pub /\ pub <= rcvd + Capacity
    BY Constants DEF TypeOK, IndicesOrdered
  <2>2. WrapSub(pub % Wrap, rcvd % Wrap) = pub - rcvd
    BY <2>1, Counters
  <2> QED BY <2>2 DEF IndicesOrdered, Available
<1>3. next_read = tail => pub = rcvd
  <2>1. WrapSub(tail, tail) = 0
    BY Constants DEF TypeOK, WrapSub
  <2> QED BY <2>1, <1>2 DEF TypeOK, Available
<1>4. pub = rcvd => next_read = tail
  BY DEF IndicesOrdered
<1> QED BY <1>1, <1>2, <1>3, <1>4

-----------------------------------------------------------------------------
(* The inductive invariant *)

\* A new channel satisfies it.
LEMMA InitInv == Init => Inv
<1> SUFFICES ASSUME Init PROVE Inv
  OBVIOUS
<1> USE DEF Init
<1>1. 0 % Wrap = 0
  BY Constants
<1>2. TypeOK
  <2>1. buffer \in [Slots -> Int]
    OBVIOUS
  <2>2. got \in Seq(Int)
    OBVIOUS
  <2>3. 0 \in 0..(Wrap - 1)
    BY Constants
  <2>4. 0 \in Nat /\ batch \in BOOLEAN
    OBVIOUS
  <2> QED BY <2>1, <2>2, <2>3, <2>4 DEF TypeOK
<1>3. IndicesOrdered
  BY <1>1, Constants DEF IndicesOrdered
<1>4. PendingBelowThreshold
  BY Constants DEF PendingBelowThreshold
<1>5. WindowIntact /\ DeliveredInOrder
  BY DEF WindowIntact, DeliveredInOrder
<1> QED BY <1>2, <1>3, <1>4, <1>5 DEF Inv

\* try_send's check of `head`.
LEMMA SendCheckInv == Inv /\ SendCheck => Inv'
<1> SUFFICES ASSUME Inv, SendCheck PROVE Inv'
  OBVIOUS
<1> USE DEF Inv, SendCheck, consumer
<1>1. sent < rel + Capacity
  BY Distances, Constants DEF Full, mask, TypeOK
<1>2. TypeOK'
  BY DEF TypeOK
<1>3. IndicesOrdered'
  BY <1>1 DEF IndicesOrdered
<1>4. PendingBelowThreshold'
  BY DEF PendingBelowThreshold, effective_threshold
<1>5. WindowIntact' /\ DeliveredInOrder'
  BY DEF WindowIntact, DeliveredInOrder, SlotOf
<1> QED BY <1>2, <1>3, <1>4, <1>5

\* try_send's write of the slot.
LEMMA SendWriteInv == Inv /\ SendWrite => Inv'
<1> SUFFICES ASSUME Inv, SendWrite PROVE Inv'
  OBVIOUS
<1> USE DEF Inv, SendWrite, consumer
<1>0. sent \in Int /\ sent + 1 \in Int /\ 1 \in Int
  BY DEF TypeOK
<1>1. next_write' = (sent + 1) % Wrap /\ next_write' \in 0..(Wrap - 1)
  <2>1. WrapAdd(sent % Wrap, 1) = (sent + 1) % Wrap /\ (sent + 1) % Wrap \in 0..(Wrap - 1)
    BY <1>0, Counters
  <2> QED BY <2>1 DEF IndicesOrdered
<1>2. buffer' = [buffer EXCEPT ![SlotOf(sent)] = sent] /\ SlotOf(sent) \in Slots
  <2>1. SlotOf(sent % Wrap) = SlotOf(sent) /\ SlotOf(sent) \in Slots
    BY <1>0, Counters
  <2> QED BY <2>1 DEF IndicesOrdered
<1>3. TypeOK'
  <2>1. buffer' \in [Slots -> Int]
    BY <1>0, <1>2 DEF TypeOK
  <2> QED BY <1>1, <2>1 DEF TypeOK
<1>4. IndicesOrdered'
  <2>1. next_write' = sent' % Wrap
    BY <1>1
  <2>2. /\ rel <= rcvd /\ rcvd <= pub /\ pub <= sent + 1 /\ sent + 1 <= rel + Capacity
        /\ ppc' # "write"
    BY Constants DEF TypeOK, IndicesOrdered
  <2> QED BY <2>1, <2>2 DEF IndicesOrdered
<1>5. PendingBelowThreshold'
  <2>1. effective_threshold' = effective_threshold
    BY DEF effective_threshold
  <2>2. ppc' # "flush" => ppending' < effective_threshold
    BY Constants DEF TypeOK
  <2> QED BY <2>1, <2>2 DEF TypeOK, PendingBelowThreshold
<1>6. WindowIntact'
  <2> SUFFICES ASSUME NEW i \in rel..sent PROVE buffer'[SlotOf(i)] = i
    BY DEF TypeOK, WindowIntact, SlotOf
  <2>1. CASE i = sent
    BY <2>1, <1>2 DEF TypeOK
  <2>2. CASE i < sent
    <3>0. i \in Int /\ i < sent /\ sent < i + Capacity
      BY <2>2, Constants DEF TypeOK, IndicesOrdered
    <3>1. SlotOf(i) # SlotOf(sent) /\ SlotOf(i) \in Slots
      BY <1>0, <3>0, Counters
    <3> QED BY <2>2, <3>1, <1>2 DEF TypeOK, WindowIntact
  <2> QED BY <2>1, <2>2 DEF TypeOK
<1>7. DeliveredInOrder'
  BY DEF DeliveredInOrder
<1> QED BY <1>3, <1>4, <1>5, <1>6, <1>7

\* The producer's store of `tail`, in flush and in drop.
LEMMA ProducerPublishInv ==
  ASSUME Inv, NEW then \in {"idle", "dropped"}, ProducerPublish(then)
  PROVE  Inv'
<1> USE DEF Inv, ProducerPublish, PublishedTail, consumer
<1>1. TypeOK'
  BY DEF TypeOK
<1>2. IndicesOrdered'
  BY DEF TypeOK, IndicesOrdered
<1>3. PendingBelowThreshold'
  <2>1. effective_threshold' = effective_threshold
    BY DEF effective_threshold
  <2> QED BY <2>1, Constants DEF TypeOK, PendingBelowThreshold
<1>4. WindowIntact' /\ DeliveredInOrder'
  BY DEF WindowIntact, DeliveredInOrder, SlotOf
<1> QED BY <1>1, <1>2, <1>3, <1>4

\* The producer's drop.
LEMMA ProducerDropInv == Inv /\ ProducerDrop => Inv'
<1> SUFFICES ASSUME Inv, ProducerDrop PROVE Inv'
  OBVIOUS
<1>1. CASE ProducerPublish("dropped")
  BY <1>1, ProducerPublishInv
<1>2. CASE /\ ppc' = "dropped"
           /\ UNCHANGED <<head, tail, buffer, next_write, ppending, consumer, got, sent,
                          pub, rcvd, rel>>
  <2> USE <1>2 DEF Inv, consumer
  <2>1. ppc = "idle"
    BY DEF ProducerDrop
  <2>2. TypeOK' /\ IndicesOrdered'
    BY DEF TypeOK, IndicesOrdered
  <2>3. PendingBelowThreshold'
    BY <2>1 DEF PendingBelowThreshold, effective_threshold
  <2>4. WindowIntact' /\ DeliveredInOrder'
    BY DEF WindowIntact, DeliveredInOrder, SlotOf
  <2> QED BY <2>2, <2>3, <2>4
<1> QED BY <1>1, <1>2 DEF ProducerDrop

\* try_recv's and try_recv_batch's checks of `tail`: they take on values that are
\* published and unread.
LEMMA RecvChecksInv ==
  ASSUME Inv, RecvCheck \/ \E len \in BatchSizes : RecvBatchCheck(len)
  PROVE  Inv'
<1> USE DEF Inv
<1>1. /\ cpc = "idle" /\ cpc' = "read"
      /\ want' \in Nat /\ want' >= 1 /\ rcvd + want' <= pub /\ batch' \in BOOLEAN
      /\ ~batch' => want' = 1
      /\ UNCHANGED <<head, tail, buffer, producer, next_read, cpending, got, sent, pub,
                     rcvd, rel>>
  <2>1. CASE RecvCheck
    <3>1. pub # rcvd
      BY <2>1, Distances DEF RecvCheck
    <3>2. rcvd + 1 <= pub
      BY <3>1 DEF TypeOK, IndicesOrdered
    <3>3. want' = 1
      BY <2>1 DEF RecvCheck
    <3>4. want' \in Nat /\ want' >= 1 /\ rcvd + want' <= pub
      BY <3>2, <3>3
    <3>5. batch' \in BOOLEAN /\ ~batch' => want' = 1
      BY <2>1, <3>3 DEF RecvCheck
    <3> QED BY <2>1, <3>3, <3>4, <3>5 DEF RecvCheck
  <2>2. ASSUME NEW len \in BatchSizes, RecvBatchCheck(len)
        PROVE  /\ cpc = "idle" /\ cpc' = "read"
               /\ want' \in Nat /\ want' >= 1 /\ rcvd + want' <= pub /\ batch' \in BOOLEAN
               /\ ~batch' => want' = 1
               /\ UNCHANGED <<head, tail, buffer, producer, next_read, cpending, got, sent,
                              pub, rcvd, rel>>
    <3>1. Available = pub - rcvd /\ Available # 0
      BY <2>2, Distances DEF RecvBatchCheck
    <3>2. len \in Nat /\ len >= 1
      BY TypedSpscAssumption
    <3>3. pub \in Nat /\ rcvd \in Nat /\ rcvd <= pub
      BY DEF TypeOK, IndicesOrdered
    <3>4. want' = Least(Available, len)
      BY <2>2 DEF RecvBatchCheck
    <3>5. want' \in Nat /\ want' >= 1 /\ rcvd + want' <= pub
      BY <3>1, <3>2, <3>3, <3>4 DEF Least
    <3> QED BY <2>2, <3>5 DEF RecvBatchCheck
  <2> QED BY <2>1, <2>2
<1> USE <1>1 DEF producer
<1>2. TypeOK'
  BY DEF TypeOK
<1>3. IndicesOrdered'
  BY DEF IndicesOrdered
<1>4. PendingBelowThreshold'
  BY DEF PendingBelowThreshold, effective_threshold
<1>5. WindowIntact' /\ DeliveredInOrder'
  BY DEF WindowIntact, DeliveredInOrder, SlotOf
<1> QED BY <1>2, <1>3, <1>4, <1>5

\* The read of the slots returns the values the window holds.
LEMMA RecvReadInv == Inv /\ RecvRead => Inv'
<1> SUFFICES ASSUME Inv, RecvRead PROVE Inv'
  OBVIOUS
<1> USE DEF Inv, RecvRead, producer
<1>0. /\ rcvd \in Int /\ want \in Int /\ want >= 1 /\ rcvd + want <= pub
      /\ rel <= rcvd /\ pub <= sent /\ rcvd + want \in Int
  BY DEF TypeOK, IndicesOrdered
<1>1. next_read' = (rcvd + want) % Wrap /\ next_read' \in 0..(Wrap - 1)
  <2>1. WrapAdd(rcvd % Wrap, want) = (rcvd + want) % Wrap
        /\ (rcvd + want) % Wrap \in 0..(Wrap - 1)
    BY <1>0, Counters
  <2> QED BY <2>1 DEF IndicesOrdered
<1>2. \A i \in 1..want : buffer[SlotOf(WrapAdd(next_read, i - 1))] = rcvd + i - 1
  <2> SUFFICES ASSUME NEW i \in 1..want
               PROVE  buffer[SlotOf(WrapAdd(next_read, i - 1))] = rcvd + i - 1
    OBVIOUS
  <2>1. i - 1 \in Int /\ rcvd + (i - 1) \in Int /\ rcvd + (i - 1) = rcvd + i - 1
    BY <1>0
  <2>2. WrapAdd(rcvd % Wrap, i - 1) = (rcvd + (i - 1)) % Wrap
    BY <1>0, <2>1, Counters
  <2>3. SlotOf((rcvd + (i - 1)) % Wrap) = SlotOf(rcvd + (i - 1))
    BY <2>1, Counters
  <2>4. rcvd + (i - 1) \in rel..(sent - 1)
    BY <1>0 DEF TypeOK
  <2>5. buffer[SlotOf(rcvd + (i - 1))] = rcvd + (i - 1)
    BY <2>4 DEF WindowIntact
  <2> QED BY <2>1, <2>2, <2>3, <2>5 DEF IndicesOrdered
<1>3. got' = [i \in 1..want |-> rcvd + i - 1]
  BY <1>2
<1>4. got' \in Seq(Int) /\ Len(got') = want
  <2>1. want \in Nat /\ \A i \in 1..want : rcvd + i - 1 \in Int
    BY <1>0
  <2> DEFINE values == [i \in 1..want |-> rcvd + i - 1]
  <2>2. values \in Seq(Int) /\ Len(values) = want
    BY <2>1
  <2> QED BY <1>3, <2>2
<1>5. TypeOK'
  BY <1>0, <1>1, <1>4 DEF TypeOK
<1>6. IndicesOrdered'
  <2>1. next_read' = rcvd' % Wrap
    BY <1>1
  <2>2. rel <= rcvd + want /\ cpc' # "read"
    BY <1>0 DEF TypeOK
  <2> QED BY <2>1, <2>2, <1>0 DEF IndicesOrdered
<1>7. PendingBelowThreshold'
  <2>1. effective_threshold' = effective_threshold
    BY DEF effective_threshold
  <2>2. CASE batch
    BY <2>1, <2>2, Constants DEF TypeOK, PendingBelowThreshold
  <2>3. CASE ~batch
    <3>1. want = 1
      BY <2>3 DEF PendingBelowThreshold
    <3> QED BY <2>1, <2>3, <3>1, Constants DEF TypeOK, PendingBelowThreshold
  <2> QED BY <2>2, <2>3
<1>8. WindowIntact'
  BY DEF WindowIntact, SlotOf
<1>9. DeliveredInOrder'
  <2> SUFFICES ASSUME NEW i \in 1..want PROVE got'[i] = (rcvd + want) - want + i - 1
    BY <1>4 DEF DeliveredInOrder
  <2>1. got'[i] = rcvd + i - 1
    BY <1>3
  <2>2. rcvd + i - 1 = (rcvd + want) - want + i - 1
    BY <1>0
  <2> QED BY <2>1, <2>2
<1> QED BY <1>5, <1>6, <1>7, <1>8, <1>9

\* The consumer's store of `head`, in flush, at the end of a batch and in drop.
LEMMA ConsumerPublishInv ==
  ASSUME Inv, NEW then \in {"idle", "dropped"}, ConsumerPublish(then)
  PROVE  Inv'
<1> USE DEF Inv, ConsumerPublish, ReleasedHead, producer
<1>1. TypeOK'
  BY DEF TypeOK
<1>2. IndicesOrdered'
  <2>1. /\ sent <= rcvd + Capacity /\ (ppc = "write" => sent < rcvd + Capacity)
        /\ rcvd <= rcvd /\ cpc' # "read"
    BY Constants DEF TypeOK, IndicesOrdered
  <2> QED BY <2>1 DEF IndicesOrdered
<1>3. PendingBelowThreshold'
  <2>1. effective_threshold' = effective_threshold
    BY DEF effective_threshold
  <2> QED BY <2>1, Constants DEF TypeOK, PendingBelowThreshold
<1>4. WindowIntact'
  <2> SUFFICES ASSUME NEW i \in rcvd..(sent - 1) PROVE buffer[SlotOf(i)] = i
    BY DEF WindowIntact, SlotOf
  <2>1. i \in rel..(sent - 1)
    BY DEF TypeOK, IndicesOrdered
  <2> QED BY <2>1 DEF WindowIntact
<1>5. DeliveredInOrder'
  BY DEF DeliveredInOrder
<1> QED BY <1>1, <1>2, <1>3, <1>4, <1>5

\* The consumer's drop.
LEMMA ConsumerDropInv == Inv /\ ConsumerDrop => Inv'
<1> SUFFICES ASSUME Inv, ConsumerDrop PROVE Inv'
  OBVIOUS
<1>1. CASE ConsumerPublish("dropped")
  BY <1>1, ConsumerPublishInv
<1>2. CASE /\ cpc' = "dropped"
           /\ UNCHANGED <<head, tail, buffer, producer, next_read, cpending, want, batch,
                          got, sent, pub, rcvd, rel>>
  <2> USE <1>2 DEF Inv, producer
  <2>1. cpc = "idle"
    BY DEF ConsumerDrop
  <2>2. TypeOK' /\ IndicesOrdered'
    BY DEF TypeOK, IndicesOrdered
  <2>3. PendingBelowThreshold'
    BY <2>1 DEF PendingBelowThreshold, effective_threshold
  <2>4. WindowIntact' /\ DeliveredInOrder'
    BY DEF WindowIntact, DeliveredInOrder, SlotOf
  <2> QED BY <2>2, <2>3, <2>4
<1> QED BY <1>1, <1>2 DEF ConsumerDrop

\* Every step preserves the invariant.
LEMMA NextInv == Inv /\ [Next]_vars => Inv'
<1> SUFFICES ASSUME Inv, [Next]_vars PROVE Inv'
  OBVIOUS
<1>1. CASE SendCheck
  BY <1>1, SendCheckInv
<1>2. CASE SendWrite
  BY <1>2, SendWriteInv
<1>3. CASE ProducerFlush
  BY <1>3, ProducerPublishInv DEF ProducerFlush
<1>4. CASE ProducerDrop
  BY <1>4, ProducerDropInv
<1>5. CASE RecvCheck \/ \E len \in BatchSizes : RecvBatchCheck(len)
  BY <1>5, RecvChecksInv
<1>6. CASE RecvRead
  BY <1>6, RecvReadInv
<1>7. CASE ConsumerFlush
  BY <1>7, ConsumerPublishInv DEF ConsumerFlush
<1>8. CASE ConsumerDrop
  BY <1>8, ConsumerDropInv
<1>9. CASE UNCHANGED vars
  BY <1>9 DEF vars, producer, consumer, Inv, TypeOK, IndicesOrdered, PendingBelowThreshold,
    WindowIntact, DeliveredInOrder, effective_threshold, SlotOf
<1> QED BY <1>1, <1>2, <1>3, <1>4, <1>5, <1>6, <1>7, <1>8, <1>9 DEF Next

\* The invariant of the channel holds in every reachable state, for every
\* capacity, index width, threshold and batch length.
THEOREM InvHolds == Spec => []Inv
BY InitInv, NextInv, PTL DEF Spec

\* Type correctness of the channel's state.
THEOREM TypeCorrect == Spec => []TypeOK
<1>1. Inv => TypeOK
  BY DEF Inv
<1> QED BY InvHolds, <1>1, PTL

\* Receives return the values in sending order, whatever wraps.
THEOREM InOrder == Spec => []DeliveredInOrder
<1>1. Inv => DeliveredInOrder
  BY DEF Inv
<1> QED BY InvHolds, <1>1, PTL

\* The producer and the consumer never access one slot at the same time.
THEOREM RaceFree == Spec => []NoSlotRace
<1>1. Inv => NoSlotRace
  <2> SUFFICES ASSUME Inv, ppc = "write", cpc = "read", NEW i \in 0..(want - 1)
               PROVE  SlotOf(next_write) # SlotOf(WrapAdd(next_read, i))
    BY DEF NoSlotRace
  <2> USE DEF Inv
  <2>1. /\ sent \in Int /\ rcvd \in Int /\ i \in Int /\ rcvd + i \in Int
        /\ rcvd + i < sent /\ sent < rcvd + i + Capacity
    BY Constants DEF TypeOK, IndicesOrdered
  <2>2. SlotOf(rcvd + i) # SlotOf(sent)
    BY <2>1, Counters
  <2>3. WrapAdd(rcvd % Wrap, i) = (rcvd + i) % Wrap
    BY <2>1, Counters
  <2>4. SlotOf((rcvd + i) % Wrap) = SlotOf(rcvd + i) /\ SlotOf(sent % Wrap) = SlotOf(sent)
    BY <2>1, Counters
  <2> QED BY <2>2, <2>3, <2>4 DEF IndicesOrdered
<1> QED BY InvHolds, <1>1, PTL

\* Withheld publications never leave the producer with a full ring and the
\* consumer with an empty one.
THEOREM NeverBothBlocked == Spec => []NoMutualBlock
<1>1. Inv => NoMutualBlock
  <2> SUFFICES ASSUME Inv, ppc = "idle", cpc = "idle", Full, next_read = tail
               PROVE  FALSE
    BY DEF NoMutualBlock
  <2> USE DEF Inv
  <2>1. sent - rel >= Capacity /\ pub = rcvd
    BY Distances, Constants DEF Full, mask, TypeOK
  <2>2. sent - pub < effective_threshold /\ rcvd - rel < effective_threshold
    BY DEF PendingBelowThreshold
  <2> QED BY <2>1, <2>2, Constants DEF TypeOK
<1> QED BY InvHolds, <1>1, PTL

-----------------------------------------------------------------------------
(* The refinement of Channel *)

\* What is in flight is a run of numbers.
LEMMA QueueIsRun ==
  ASSUME TypeOK, IndicesOrdered
  PROVE  /\ Queue = Counting(rcvd, sent - rcvd) /\ Len(Queue) = sent - rcvd
         /\ rcvd \in Int /\ sent - rcvd \in Nat
<1>1. rcvd \in Int /\ sent - rcvd \in Nat
  BY DEF TypeOK, IndicesOrdered
<1>2. Queue = Counting(rcvd, sent - rcvd)
  BY DEF Queue, Counting
<1> QED BY <1>1, <1>2, CountingType

\* A new channel is an empty FIFO.
LEMMA InitRefines == Init => Abstract!Init
<1> SUFFICES ASSUME Init PROVE Queue = <<>>
  BY DEF Init, Abstract!Init
<1> QED BY DEF Init, Queue

\* The slot write of try_send is the FIFO's Send: below the bound, at the right end.
LEMMA SendWriteRefines == Inv /\ Inv' /\ SendWrite => Abstract!Send
<1> SUFFICES ASSUME Inv, Inv', SendWrite PROVE Abstract!Send
  OBVIOUS
<1>1. /\ Queue = Counting(rcvd, sent - rcvd) /\ Len(Queue) = sent - rcvd
      /\ rcvd \in Int /\ sent - rcvd \in Nat
  BY QueueIsRun DEF Inv
<1>2. Queue' = Counting(rcvd', sent' - rcvd')
  BY QueueIsRun DEF Inv, Queue, Counting, TypeOK, IndicesOrdered
<1>3. rcvd' = rcvd /\ sent' = sent + 1 /\ got' = got /\ sent \in Int
  BY DEF SendWrite, Inv, TypeOK
<1>4. Len(Queue) < Capacity
  BY <1>1, TypedSpscAssumption DEF SendWrite, Inv, TypeOK, IndicesOrdered
<1>5. Append(Counting(rcvd, sent - rcvd), rcvd + (sent - rcvd)) = Counting(rcvd, (sent - rcvd) + 1)
  BY <1>1, CountingAppend
<1>6. rcvd + (sent - rcvd) = sent /\ (sent - rcvd) + 1 = sent' - rcvd'
  BY <1>1, <1>3
<1>7. Queue' = Append(Queue, sent)
  BY <1>1, <1>2, <1>3, <1>5, <1>6
<1> QED BY <1>3, <1>4, <1>7 DEF Abstract!Send

\* The slot reads of try_recv and try_recv_batch are the FIFO's Receive of `want` values.
LEMMA RecvReadRefines == Inv /\ Inv' /\ RecvRead => Abstract!Receive
<1> SUFFICES ASSUME Inv, Inv', RecvRead PROVE Abstract!Receive
  OBVIOUS
<1> DEFINE n == sent - rcvd
<1>1. Queue = Counting(rcvd, n) /\ Len(Queue) = n /\ rcvd \in Int /\ n \in Nat
  BY QueueIsRun DEF Inv
<1>2. Queue' = Counting(rcvd', sent' - rcvd')
  BY QueueIsRun DEF Inv, Queue, Counting, TypeOK, IndicesOrdered
<1>3. /\ rcvd' = rcvd + want /\ sent' = sent /\ sent \in Int
      /\ want \in Nat /\ want >= 1 /\ want <= n
  BY DEF RecvRead, producer, Inv, TypeOK, IndicesOrdered
<1>4. want \in 0..n
  BY <1>1, <1>3
<1>5. got' = Counting(rcvd, want)
  <2>1. Len(got') = want
    BY <1>3 DEF RecvRead
  <2>2. \A i \in 1..want : got'[i] = rcvd + i - 1
    <3>1. \A i \in 1..want : got'[i] = (rcvd + want) - want + i - 1
      BY <2>1, <1>3 DEF Inv, DeliveredInOrder
    <3> QED BY <3>1, <1>1, <1>3
  <2>3. got' \in Seq(Int)
    BY DEF Inv, TypeOK
  <2> QED BY <2>1, <2>2, <2>3, <1>1, <1>3, SameElements
<1>6. /\ SubSeq(Counting(rcvd, n), 1, want) = Counting(rcvd, want)
      /\ SubSeq(Counting(rcvd, n), want + 1, n) = Counting(rcvd + want, n - want)
  BY <1>1, <1>4, CountingSplit
<1>7. got' = SubSeq(Queue, 1, want)
  BY <1>1, <1>5, <1>6
<1>8. Queue' = SubSeq(Queue, want + 1, Len(Queue))
  <2>1. sent' - rcvd' = n - want
    BY <1>1, <1>3
  <2> QED BY <2>1, <1>1, <1>2, <1>3, <1>6
<1>9. want \in 1..Len(Queue)
  BY <1>1, <1>3
<1> QED BY <1>3, <1>7, <1>8, <1>9 DEF Abstract!Receive

\* Every step of the channel is a step of the FIFO or leaves it alone: the checks, the
\* publications and the drops of either end are invisible to it.
LEMMA NextRefines ==
  Inv /\ Inv' /\ [Next]_vars => [Abstract!Next]_<<Queue, sent, got>>
<1> SUFFICES ASSUME Inv, Inv', [Next]_vars
             PROVE  Abstract!Next \/ UNCHANGED <<Queue, sent, got>>
  OBVIOUS
<1> USE DEF producer, consumer
<1>1. CASE SendWrite
  BY <1>1, SendWriteRefines DEF Abstract!Next
<1>2. CASE RecvRead
  BY <1>2, RecvReadRefines DEF Abstract!Next
<1>3. CASE UNCHANGED <<sent, rcvd, got>>
  BY <1>3 DEF Queue
<1>4. CASE SendCheck \/ ProducerFlush \/ ProducerDrop
  <2>1. UNCHANGED <<sent, rcvd, got>>
    BY <1>4 DEF SendCheck, ProducerFlush, ProducerDrop, ProducerPublish
  <2> QED BY <2>1, <1>3
<1>5. CASE RecvCheck \/ \E len \in BatchSizes : RecvBatchCheck(len)
  <2>1. UNCHANGED <<sent, rcvd, got>>
    BY <1>5 DEF RecvCheck, RecvBatchCheck
  <2> QED BY <2>1, <1>3
<1>6. CASE ConsumerFlush \/ ConsumerDrop
  <2>1. UNCHANGED <<sent, rcvd, got>>
    BY <1>6 DEF ConsumerFlush, ConsumerDrop, ConsumerPublish
  <2> QED BY <2>1, <1>3
<1>7. CASE UNCHANGED vars
  BY <1>7, <1>3 DEF vars
<1> QED BY <1>1, <1>2, <1>4, <1>5, <1>6, <1>7 DEF Next

\* The batched channel implements the bounded FIFO, for every capacity, index width,
\* threshold and batch length: a value leaves in the order it entered, and at most
\* Capacity values are in flight, although each end works with stale indices.
THEOREM ChannelRefined == Spec => ImplementsChannel
<1>1. Init => Abstract!Init
  BY InitRefines
<1>2. Inv /\ Inv' /\ [Next]_vars => [Abstract!Next]_<<Queue, sent, got>>
  BY NextRefines
<1> QED BY <1>1, <1>2, InvHolds, PTL DEF Spec, ImplementsChannel, Abstract!Spec

-----------------------------------------------------------------------------
(* Telemetry: the untyped ring and the drain *)

\* Events drained so far.
Drained == Len(rout)

\* The variables hold values of their types.
TelemetryTypeOK ==
  /\ rhead \in 0..(RingWrap - 1) /\ rtail \in 0..(RingWrap - 1)
  /\ rbuf \in [0..RingMask -> Int]
  /\ emitter \in [at : {"idle", "check", "publish"}, h : 0..(RingWrap - 1)]
  /\ drainer \in [at : {"idle", "load", "read", "done", "gone"}, t : 0..(RingWrap - 1),
                  n : Nat, got : Seq(Int), fresh : Nat]
  /\ dropped \in Nat /\ attempts \in Nat /\ rsent \in Nat
  /\ rgot \in Seq(Int) /\ rout \in Seq(Int)

\* The indices stand for the counters, also the one emit has loaded.
RingIndices ==
  /\ rtail = rsent % RingWrap /\ rhead = Drained % RingWrap
  /\ Drained <= rsent /\ rsent <= Drained + RingCapacity
  /\ emitter.at = "check" =>
       \E seen \in 0..Drained : emitter.h = seen % RingWrap /\ rsent <= seen + RingCapacity
  /\ emitter.at = "publish" => rsent < Drained + RingCapacity

\* Every undrained slot holds its event, the one written and not yet published too.
RingHolds ==
  /\ \A i \in Drained..(rsent - 1) : rbuf[RSlot(i)] = i
  /\ emitter.at = "publish" => rbuf[RSlot(rsent)] = rsent

\* The batch under way: events that are published, read in order.
BatchUnderWay ==
  drainer.at = "read" =>
    /\ drainer.n >= 1 /\ Drained + drainer.n <= rsent
    /\ Len(drainer.got) <= drainer.n
    /\ drainer.got = Counting(Drained, Len(drainer.got))

\* What a drain still owes its caller.
DrainOwes ==
  /\ drainer.fresh <= rsent
  /\ drainer.at = "read" /\ drainer.n < DrainBuffer => Drained + drainer.n >= drainer.fresh

\* A dropped ring stays as it is.
Gone == ~Open => emitter.at = "idle"

RingInv ==
  /\ TelemetryTypeOK /\ RingIndices /\ RingHolds /\ BatchUnderWay /\ DrainOwes /\ Gone
  /\ EventsAccounted

-----------------------------------------------------------------------------
(* Index arithmetic *)

\* The constants, in the form the arithmetic lemmas use them.
LEMMA RingConstants ==
  /\ RingCapacity \in Nat \ {0} /\ RingWrap \in Nat \ {0} /\ RingCapacity < RingWrap
  /\ RingWrap % RingCapacity = 0 /\ RingMask = RingCapacity - 1 /\ DrainBuffer \in Nat \ {0}
BY TelemetryAssumption DEF RingMask

\* Index arithmetic of the ring in terms of the counters.
LEMMA RingCounters ==
  /\ \A a, b \in Int : b <= a /\ a <= b + RingCapacity => RSub(a % RingWrap, b % RingWrap) = a - b
  /\ \A a, k \in Int : RAdd(a % RingWrap, k) = (a + k) % RingWrap
  /\ \A a \in Int : RSlot(a % RingWrap) = RSlot(a) /\ RSlot(a) \in 0..RingMask
  /\ \A a \in Int : a % RingWrap \in 0..(RingWrap - 1)
  /\ \A a, b \in Int : a < b /\ b < a + RingCapacity => RSlot(a) # RSlot(b)
<1>1. ASSUME NEW a \in Int, NEW b \in Int, b <= a, a <= b + RingCapacity
      PROVE  RSub(a % RingWrap, b % RingWrap) = a - b
  <2>1. a - b < RingWrap
    BY <1>1, RingConstants
  <2> QED BY <1>1, <2>1, RingConstants, WrappedDistance DEF RSub
<1>2. ASSUME NEW a \in Int, NEW k \in Int PROVE RAdd(a % RingWrap, k) = (a + k) % RingWrap
  BY RingConstants, WrappedSum DEF RAdd
<1>3. ASSUME NEW a \in Int PROVE RSlot(a % RingWrap) = RSlot(a)
  BY RingConstants, WrappedSlot DEF RSlot
<1>4. ASSUME NEW a \in Int PROVE RSlot(a) \in 0..RingMask
  BY RingConstants, DivMod DEF RSlot
<1>5. ASSUME NEW a \in Int PROVE a % RingWrap \in 0..(RingWrap - 1)
  BY RingConstants, DivMod
<1>6. ASSUME NEW a \in Int, NEW b \in Int, a < b, b < a + RingCapacity
      PROVE  RSlot(a) # RSlot(b)
  BY <1>6, RingConstants, DistinctSlots DEF RSlot
<1> QED BY <1>1, <1>2, <1>3, <1>4, <1>5, <1>6

\* The counters are numbers, and `tail` less `head` counts the undrained events.
LEMMA RingDistance ==
  ASSUME RingInv
  PROVE  /\ Drained \in Nat /\ rsent \in Nat /\ Drained <= rsent /\ rsent <= Drained + RingCapacity
         /\ RSub(rtail, rhead) = rsent - Drained
<1>1. Drained \in Nat /\ rsent \in Nat /\ Drained <= rsent /\ rsent <= Drained + RingCapacity
  BY DEF RingInv, TelemetryTypeOK, RingIndices, Drained
<1>2. RSub(rsent % RingWrap, Drained % RingWrap) = rsent - Drained
  <2>1. rsent \in Int /\ Drained \in Int
    BY <1>1
  <2> QED BY <1>1, <2>1, RingCounters
<1> QED BY <1>1, <1>2 DEF RingInv, RingIndices

\* Event i of the undrained ones is what the slot `head` + i holds.
LEMMA RingSlot ==
  ASSUME RingInv, NEW i \in 0..(rsent - Drained - 1)
  PROVE  rbuf[RSlot(RAdd(rhead, i))] = Drained + i
<1>1. Drained \in Nat /\ rsent \in Nat /\ i \in Int /\ Drained + i \in Int
      /\ Drained + i \in Drained..(rsent - 1)
  BY RingDistance
<1>2. RAdd(Drained % RingWrap, i) = (Drained + i) % RingWrap
  BY <1>1, RingCounters
<1>3. RSlot((Drained + i) % RingWrap) = RSlot(Drained + i)
  BY <1>1, RingCounters
<1>4. rbuf[RSlot(Drained + i)] = Drained + i
  BY <1>1 DEF RingInv, RingHolds
<1> QED BY <1>2, <1>3, <1>4 DEF RingInv, RingIndices

\* The ring's contents are a run of numbers.
LEMMA RingQueueIsRun ==
  ASSUME RingInv
  PROVE  RingQueue = Counting(Drained, rsent - Drained)
<1>1. RSub(rtail, rhead) = rsent - Drained /\ Drained \in Nat /\ rsent - Drained \in Nat
  BY RingDistance
<1>2. \A i \in 1..(rsent - Drained) : rbuf[RSlot(RAdd(rhead, i - 1))] = Drained + i - 1
  <2> SUFFICES ASSUME NEW i \in 1..(rsent - Drained)
               PROVE  rbuf[RSlot(RAdd(rhead, i - 1))] = Drained + i - 1
    OBVIOUS
  <2>1. i - 1 \in 0..(rsent - Drained - 1) /\ Drained + (i - 1) = Drained + i - 1
    BY <1>1
  <2> QED BY <2>1, RingSlot
<1> QED BY <1>1, <1>2 DEF RingQueue, Counting

-----------------------------------------------------------------------------
(* The inductive invariant *)

\* A new bus satisfies it.
LEMMA RingInitInv == TelemetryInit => RingInv
<1> SUFFICES ASSUME TelemetryInit PROVE RingInv
  OBVIOUS
<1> USE DEF TelemetryInit
<1>1. Drained = 0 /\ 0 % RingWrap = 0 /\ 0 \in 0..(RingWrap - 1)
  BY RingConstants DEF Drained
<1>2. TelemetryTypeOK
  <2>1. rbuf \in [0..RingMask -> Int]
    OBVIOUS
  <2>2. drainer.got \in Seq(Int) /\ rgot \in Seq(Int) /\ rout \in Seq(Int)
    OBVIOUS
  <2>3. 0 \in Nat
    OBVIOUS
  <2> QED BY <1>1, <2>1, <2>2, <2>3 DEF TelemetryTypeOK
<1>3. RingIndices /\ RingHolds /\ BatchUnderWay /\ DrainOwes /\ Gone
  BY <1>1, RingConstants DEF RingIndices, RingHolds, BatchUnderWay, DrainOwes, Gone
<1>4. DrainedInOrder
  <2>1. [i \in 1..0 |-> i - 1] = <<>>
    OBVIOUS
  <2> QED BY <2>1, <1>1 DEF DrainedInOrder, Open, Drained
<1>5. DropsAccounted /\ DrainComplete
  BY DEF DropsAccounted, DrainComplete
<1> QED BY <1>2, <1>3, <1>4, <1>5 DEF RingInv, EventsAccounted

\* emit without a ring, its loads, and an event that is counted as dropped.
LEMMA EmitInv == RingInv /\ (EmitNoRing \/ EmitLoad \/ EmitDrop) => RingInv'
<1> SUFFICES ASSUME RingInv, EmitNoRing \/ EmitLoad \/ EmitDrop PROVE RingInv'
  OBVIOUS
<1>1. UNCHANGED <<rhead, rtail, rbuf, drainer, rsent, rgot, rout>>
  BY DEF EmitNoRing, EmitLoad, EmitDrop
<1>2. Drained' = Drained /\ Drained \in Nat /\ rsent \in Nat
  BY <1>1, RingDistance DEF Drained
<1>3. TelemetryTypeOK'
  <2>0. dropped \in Nat /\ attempts \in Nat
    BY DEF RingInv, TelemetryTypeOK
  <2>1. dropped' \in Nat /\ attempts' \in Nat
    BY <2>0 DEF EmitNoRing, EmitLoad, EmitDrop
  <2>2. emitter' \in [at : {"idle", "check", "publish"}, h : 0..(RingWrap - 1)]
    BY DEF RingInv, TelemetryTypeOK, EmitNoRing, EmitLoad, EmitDrop
  <2> QED BY <1>1, <2>1, <2>2 DEF RingInv, TelemetryTypeOK
<1>4. RingIndices'
  <2>1. CASE EmitNoRing
    BY <2>1, <1>1, <1>2 DEF RingInv, RingIndices, EmitNoRing
  <2>2. CASE EmitLoad
    <3>1. Drained \in 0..Drained /\ emitter' = [at |-> "check", h |-> rhead]
      BY <2>2, <1>2 DEF EmitLoad
    <3> QED BY <3>1, <1>1, <1>2 DEF RingInv, RingIndices
  <2>3. CASE EmitDrop
    <3>1. emitter'.at = "idle"
      BY <2>3 DEF EmitDrop, RingInv, TelemetryTypeOK
    <3> QED BY <3>1, <1>1, <1>2 DEF RingInv, RingIndices
  <2> QED BY <2>1, <2>2, <2>3
<1>5. RingHolds'
  <2>1. emitter'.at = "publish" => emitter.at = "publish"
    BY DEF RingInv, TelemetryTypeOK, EmitNoRing, EmitLoad, EmitDrop
  <2> QED BY <1>1, <1>2, <2>1 DEF RingInv, RingHolds, RSlot
<1>6. BatchUnderWay' /\ DrainOwes'
  BY <1>1, <1>2 DEF RingInv, BatchUnderWay, DrainOwes, Counting
<1>7. Gone'
  BY <1>1 DEF RingInv, TelemetryTypeOK, Gone, Open, EmitNoRing, EmitLoad, EmitDrop
<1>8. DrainedInOrder' /\ DrainComplete'
  BY <1>1 DEF RingInv, EventsAccounted, DrainedInOrder, DrainComplete, Open
<1>9. DropsAccounted'
  <2>1. /\ dropped \in Nat /\ attempts \in Nat /\ rsent \in Nat /\ DropsAccounted
        /\ emitter \in [at : {"idle", "check", "publish"}, h : 0..(RingWrap - 1)]
    BY <1>2 DEF RingInv, TelemetryTypeOK, EventsAccounted
  <2>2. CASE EmitNoRing
    BY <2>1, <2>2 DEF DropsAccounted, EmitNoRing
  <2>3. CASE EmitLoad
    BY <2>1, <2>3 DEF DropsAccounted, EmitLoad
  <2>4. CASE EmitDrop
    <3>1. emitter'.at = "idle"
      BY <2>1, <2>4 DEF EmitDrop
    <3> QED BY <2>1, <2>4, <3>1 DEF DropsAccounted, EmitDrop
  <2> QED BY <2>2, <2>3, <2>4
<1> QED BY <1>3, <1>4, <1>5, <1>6, <1>7, <1>8, <1>9 DEF RingInv, EventsAccounted

\* push's write: the head it goes by is at most as far as the real one, so the slot is free.
LEMMA PushWriteInv == RingInv /\ PushWrite => RingInv'
<1> SUFFICES ASSUME RingInv, PushWrite PROVE RingInv'
  OBVIOUS
<1>1. /\ UNCHANGED <<rhead, rtail, drainer, dropped, attempts, rsent, rgot, rout>>
      /\ emitter.at = "check" /\ emitter' = [emitter EXCEPT !.at = "publish"]
  BY DEF PushWrite
<1>2. Drained' = Drained /\ Drained \in Nat /\ rsent \in Nat /\ Drained <= rsent
  BY <1>1, RingDistance DEF Drained
<1>3. rsent < Drained + RingCapacity
  <2>1. PICK seen \in 0..Drained : emitter.h = seen % RingWrap /\ rsent <= seen + RingCapacity
    BY <1>1 DEF RingInv, RingIndices
  <2>2. seen \in Int /\ seen <= rsent /\ rsent \in Int
    BY <1>2
  <2>3. RSub(rsent % RingWrap, seen % RingWrap) = rsent - seen
    BY <2>1, <2>2, RingCounters
  <2>4. ~(rsent - seen > RingMask)
    BY <2>1, <2>3 DEF PushWrite, RingFull, RingInv, RingIndices
  <2> QED BY <2>2, <2>4, <1>2, RingConstants
<1>4. rbuf' = [rbuf EXCEPT ![RSlot(rsent)] = rsent] /\ RSlot(rsent) \in 0..RingMask
  <2>1. RSlot(rsent % RingWrap) = RSlot(rsent) /\ RSlot(rsent) \in 0..RingMask
    BY <1>2, RingCounters
  <2> QED BY <2>1 DEF PushWrite, RingInv, RingIndices
<1>5. TelemetryTypeOK'
  <2>1. rbuf' \in [0..RingMask -> Int]
    BY <1>2, <1>4 DEF RingInv, TelemetryTypeOK
  <2> QED BY <2>1, <1>1 DEF RingInv, TelemetryTypeOK
<1>6. emitter'.at = "publish"
  BY <1>1 DEF RingInv, TelemetryTypeOK
<1>7. RingIndices'
  BY <1>1, <1>2, <1>3, <1>6 DEF RingInv, RingIndices
<1>8. RingHolds'
  <2>1. rbuf'[RSlot(rsent)] = rsent
    BY <1>4 DEF RingInv, TelemetryTypeOK
  <2>2. ASSUME NEW i \in Drained..(rsent - 1) PROVE rbuf'[RSlot(i)] = i
    <3>1. i \in Int /\ i < rsent /\ rsent < i + RingCapacity
      BY <1>2, <1>3, RingConstants
    <3>2. RSlot(i) # RSlot(rsent) /\ RSlot(i) \in 0..RingMask
      BY <3>1, <1>2, RingCounters
    <3> QED BY <3>2, <1>4 DEF RingInv, TelemetryTypeOK, RingHolds
  <2> QED BY <2>1, <2>2, <1>1, <1>2 DEF RingHolds, RSlot
<1>9. BatchUnderWay' /\ DrainOwes' /\ Gone'
  BY <1>1, <1>2 DEF RingInv, BatchUnderWay, DrainOwes, Gone, Counting, Open
<1>10. EventsAccounted'
  BY <1>1, <1>6 DEF RingInv, EventsAccounted, DrainedInOrder, DropsAccounted, DrainComplete, Open
<1> QED BY <1>5, <1>7, <1>8, <1>9, <1>10 DEF RingInv

\* push's store of `tail`.
LEMMA PushPublishInv == RingInv /\ PushPublish => RingInv'
<1> SUFFICES ASSUME RingInv, PushPublish PROVE RingInv'
  OBVIOUS
<1>1. /\ UNCHANGED <<rhead, rbuf, drainer, dropped, attempts, rgot, rout>>
      /\ emitter.at = "publish" /\ emitter' = [emitter EXCEPT !.at = "idle"]
      /\ rsent' = rsent + 1
  BY DEF PushPublish
<1>2. Drained' = Drained /\ Drained \in Nat /\ rsent \in Nat /\ Drained <= rsent
  BY <1>1, RingDistance DEF Drained
<1>3. rtail' = rsent' % RingWrap /\ rtail' \in 0..(RingWrap - 1)
  <2>1. /\ RAdd(rsent % RingWrap, 1) = (rsent + 1) % RingWrap
        /\ (rsent + 1) % RingWrap \in 0..(RingWrap - 1)
    BY <1>2, RingCounters
  <2> QED BY <2>1, <1>1 DEF PushPublish, RingInv, RingIndices
<1>4. emitter'.at = "idle"
  BY <1>1 DEF RingInv, TelemetryTypeOK
<1>5. TelemetryTypeOK'
  <2>1. emitter' \in [at : {"idle", "check", "publish"}, h : 0..(RingWrap - 1)]
    BY <1>1 DEF RingInv, TelemetryTypeOK
  <2>2. rsent' \in Nat
    BY <1>1, <1>2
  <2> QED BY <1>1, <1>3, <2>1, <2>2 DEF RingInv, TelemetryTypeOK
<1>6. RingIndices'
  BY <1>1, <1>2, <1>3, <1>4, RingConstants DEF RingInv, RingIndices
<1>7. RingHolds'
  BY <1>1, <1>2, <1>4 DEF RingInv, RingHolds, RSlot
<1>8. BatchUnderWay'
  BY <1>1, <1>2 DEF RingInv, TelemetryTypeOK, BatchUnderWay, Counting
<1>9. DrainOwes' /\ Gone'
  BY <1>1, <1>2, <1>4 DEF RingInv, TelemetryTypeOK, DrainOwes, Gone
<1>10. EventsAccounted'
  <2>1. Open
    BY <1>1 DEF RingInv, Gone
  <2> QED BY <2>1, <1>1, <1>2, <1>4 DEF RingInv, TelemetryTypeOK, EventsAccounted, DrainedInOrder,
        DropsAccounted, DrainComplete, Open, Drained
<1> QED BY <1>5, <1>6, <1>7, <1>8, <1>9, <1>10 DEF RingInv

\* drain's start, its return, and pop_batch's load of `tail`: a batch is what is visible
\* and fits.
LEMMA DrainInv == RingInv /\ (DrainStart \/ BatchLoad \/ DrainReturn) => RingInv'
<1> SUFFICES ASSUME RingInv, DrainStart \/ BatchLoad \/ DrainReturn PROVE RingInv'
  OBVIOUS
<1>1. UNCHANGED <<rhead, rtail, rbuf, emitter, dropped, attempts, rsent, rgot, rout>>
  BY DEF DrainStart, BatchLoad, DrainReturn
<1>2. /\ Drained' = Drained /\ Drained \in Nat /\ rsent \in Nat /\ Drained <= rsent
      /\ RSub(rtail, rhead) = rsent - Drained
  BY <1>1, RingDistance DEF Drained
<1>3. /\ drainer' \in [at : {"idle", "load", "read", "done", "gone"}, t : 0..(RingWrap - 1),
                       n : Nat, got : Seq(Int), fresh : Nat]
      /\ drainer'.fresh <= rsent
      /\ drainer.at # "gone" /\ drainer'.at # "gone"
      /\ drainer'.at = "done" => Drained >= drainer'.fresh
      /\ drainer'.at = "read" =>
           /\ drainer'.n >= 1 /\ Drained + drainer'.n <= rsent /\ drainer'.got = <<>>
           /\ drainer'.n < DrainBuffer => Drained + drainer'.n >= drainer'.fresh
  <2>0. /\ drainer \in [at : {"idle", "load", "read", "done", "gone"}, t : 0..(RingWrap - 1),
                        n : Nat, got : Seq(Int), fresh : Nat]
        /\ drainer.fresh <= rsent /\ rtail \in 0..(RingWrap - 1)
    BY DEF RingInv, TelemetryTypeOK, DrainOwes
  <2>1. CASE DrainStart
    <3>1. drainer' = [drainer EXCEPT !.at = "load", !.fresh = rsent] /\ drainer.at = "idle"
      BY <2>1 DEF DrainStart
    <3>2. drainer'.at = "load" /\ drainer'.fresh = rsent
      BY <2>0, <3>1
    <3>3. drainer' \in [at : {"idle", "load", "read", "done", "gone"}, t : 0..(RingWrap - 1),
                        n : Nat, got : Seq(Int), fresh : Nat]
      BY <2>0, <3>1, <1>2
    <3> QED BY <3>1, <3>2, <3>3, <1>2
  <2>2. CASE DrainReturn
    BY <2>0, <2>2, <1>2 DEF DrainReturn
  <2>3. CASE BatchLoad
    <3> DEFINE n == IF rsent - Drained < DrainBuffer THEN rsent - Drained ELSE DrainBuffer
    <3>1. drainer.at = "load"
          /\ drainer' = [drainer EXCEPT !.at = IF n = 0 THEN "done" ELSE "read",
                                        !.t = rtail, !.n = n, !.got = <<>>]
      BY <2>3, <1>2 DEF BatchLoad
    <3>2. /\ n \in Nat /\ Drained + n <= rsent /\ (n = 0 => Drained = rsent)
          /\ n < DrainBuffer => Drained + n = rsent
      BY <1>2, RingConstants
    <3> HIDE DEF n
    <3>3. <<>> \in Seq(Int)
      OBVIOUS
    <3>4. /\ drainer'.at = (IF n = 0 THEN "done" ELSE "read") /\ drainer'.n = n
          /\ drainer'.got = <<>> /\ drainer'.fresh = drainer.fresh
      BY <2>0, <3>1
    <3>5. drainer' \in [at : {"idle", "load", "read", "done", "gone"}, t : 0..(RingWrap - 1),
                        n : Nat, got : Seq(Int), fresh : Nat]
      BY <2>0, <3>1, <3>2, <3>3
    <3>6. drainer.fresh \in Nat
      BY <2>0
    <3>7. n # 0 => n >= 1
      BY <3>2
    <3> QED BY <2>0, <3>1, <3>2, <3>4, <3>5, <3>6, <3>7, <1>2
  <2> QED BY <2>1, <2>2, <2>3
<1>4. TelemetryTypeOK'
  BY <1>1, <1>3 DEF RingInv, TelemetryTypeOK
<1>5. RingIndices' /\ RingHolds' /\ Gone'
  BY <1>1, <1>2, <1>3 DEF RingInv, RingIndices, RingHolds, RSlot, Gone, Open
<1>6. BatchUnderWay'
  <2>1. Len(<<>>) = 0 /\ Counting(Drained, 0) = <<>>
    BY DEF Counting
  <2> QED BY <2>1, <1>1, <1>2, <1>3 DEF BatchUnderWay
<1>7. DrainOwes'
  BY <1>1, <1>2, <1>3 DEF DrainOwes
<1>8. EventsAccounted'
  BY <1>1, <1>2, <1>3 DEF RingInv, EventsAccounted, DrainedInOrder, DropsAccounted, DrainComplete,
    Open, Drained
<1> QED BY <1>4, <1>5, <1>6, <1>7, <1>8 DEF RingInv

\* pop_batch's read of one slot: the next event.
LEMMA BatchReadInv == RingInv /\ BatchRead => RingInv'
<1> SUFFICES ASSUME RingInv, BatchRead PROVE RingInv'
  OBVIOUS
<1> DEFINE m == Len(drainer.got)
<1>1. UNCHANGED <<rhead, rtail, rbuf, emitter, dropped, attempts, rsent, rgot, rout>>
  BY DEF BatchRead
<1>2. Drained' = Drained /\ Drained \in Nat /\ rsent \in Nat /\ Drained <= rsent
  BY <1>1, RingDistance DEF Drained
<1>3. /\ drainer.at = "read" /\ drainer.got \in Seq(Int) /\ m \in Nat /\ m < drainer.n
      /\ drainer.n \in Nat /\ Drained + drainer.n <= rsent
      /\ drainer.got = Counting(Drained, m)
  BY DEF RingInv, TelemetryTypeOK, BatchUnderWay, BatchRead
<1>4. rbuf[RSlot(RAdd(rhead, m))] = Drained + m
  <2>1. m \in 0..(rsent - Drained - 1)
    BY <1>2, <1>3
  <2> QED BY <2>1, RingSlot
<1>5. drainer' = [drainer EXCEPT !.got = Counting(Drained, m + 1)]
  <2>1. Append(Counting(Drained, m), Drained + m) = Counting(Drained, m + 1)
    <3>1. Drained \in Int
      BY <1>2
    <3> HIDE DEF m
    <3> QED BY <3>1, <1>3, CountingAppend
  <2> QED BY <1>3, <1>4, <2>1 DEF BatchRead
<1>6. Counting(Drained, m + 1) \in Seq(Int) /\ Len(Counting(Drained, m + 1)) = m + 1
  <2>1. Drained \in Int /\ m + 1 \in Nat
    BY <1>2, <1>3
  <2> HIDE DEF m
  <2> QED BY <2>1, CountingType
<1> HIDE DEF m
<1>7. TelemetryTypeOK'
  <2>1. drainer' \in [at : {"idle", "load", "read", "done", "gone"}, t : 0..(RingWrap - 1),
                      n : Nat, got : Seq(Int), fresh : Nat]
    BY <1>5, <1>6 DEF RingInv, TelemetryTypeOK
  <2> QED BY <1>1, <2>1 DEF RingInv, TelemetryTypeOK
<1>8. /\ drainer'.got = Counting(Drained, m + 1) /\ drainer'.n = drainer.n
      /\ drainer'.at = drainer.at /\ drainer'.fresh = drainer.fresh
  BY <1>5 DEF RingInv, TelemetryTypeOK
<1>9. RingIndices' /\ RingHolds' /\ Gone' /\ DrainOwes'
  BY <1>1, <1>2, <1>8 DEF RingInv, RingIndices, RingHolds, RSlot, Gone, Open, DrainOwes
<1>10. BatchUnderWay'
  BY <1>1, <1>2, <1>3, <1>6, <1>8 DEF BatchUnderWay
<1>11. EventsAccounted'
  BY <1>1, <1>8 DEF RingInv, EventsAccounted, DrainedInOrder, DropsAccounted, DrainComplete, Open
<1> QED BY <1>7, <1>9, <1>10, <1>11 DEF RingInv

\* Events numbered in order that leave the ring extend what was drained before.
LEMMA OutExtends ==
  ASSUME RingInv, NEW n \in 0..(rsent - Drained)
  PROVE  /\ rout = Counting(0, Drained)
         /\ rout \o Counting(Drained, n) = Counting(0, Drained + n)
         /\ rout \o Counting(Drained, n) \in Seq(Int)
         /\ Len(rout \o Counting(Drained, n)) = Drained + n
         /\ rout \o Counting(Drained, n) = [i \in 1..(Drained + n) |-> i - 1]
<1>1. Drained \in Nat /\ n \in Nat /\ 0 + Drained = Drained /\ Drained + n \in Nat
  BY RingDistance
<1>2. \A k \in Nat : Counting(0, k) = [i \in 1..k |-> i - 1]
  BY DEF Counting
<1>3. rout = Counting(0, Drained)
  BY <1>1, <1>2 DEF RingInv, EventsAccounted, DrainedInOrder, Drained
<1>4. Counting(0, Drained) \o Counting(Drained, n) = Counting(0, Drained + n)
  <2> HIDE DEF Drained
  <2>1. PICK z \in Int : z = 0
    OBVIOUS
  <2>2. Counting(z, Drained) \o Counting(z + Drained, n) = Counting(z, Drained + n)
    BY <1>1, CountingConcat
  <2>3. z + Drained = Drained
    BY <1>1, <2>1
  <2> QED BY <2>1, <2>2, <2>3
<1>5. Counting(0, Drained + n) \in Seq(Int) /\ Len(Counting(0, Drained + n)) = Drained + n
  BY <1>1, CountingType
<1>6. rout \o Counting(Drained, n) = Counting(0, Drained + n)
  BY <1>1, <1>3, <1>4
<1> QED BY <1>1, <1>2, <1>3, <1>5, <1>6

\* What a step that takes n events out of the ring leaves of the indices and the slots.
LEMMA TakenOut ==
  ASSUME RingInv, NEW n \in 0..(rsent - Drained),
         rout' = rout \o Counting(Drained, n), rhead' = (Drained + n) % RingWrap,
         UNCHANGED <<rtail, rbuf, emitter, rsent>>
  PROVE  /\ Drained' = Drained + n /\ rhead' \in 0..(RingWrap - 1) /\ rout' \in Seq(Int)
         /\ RingIndices' /\ RingHolds'
         /\ rout' = [i \in 1..Len(rout') |-> i - 1] /\ Len(rout') <= rsent
<1>1. /\ Drained \in Nat /\ rsent \in Nat /\ n \in Nat /\ Drained + n <= rsent
      /\ rsent <= Drained + RingCapacity /\ Drained + n \in Int
  BY RingDistance
<1>2. /\ rout' \in Seq(Int) /\ Len(rout') = Drained + n /\ rout' = [i \in 1..(Drained + n) |-> i - 1]
  BY OutExtends
<1>3. Drained' = Drained + n
  BY <1>2 DEF Drained
<1>4. rhead' \in 0..(RingWrap - 1)
  BY <1>1, RingCounters
<1>5. RingIndices'
  <2>1. emitter.at = "check" => \E seen \in 0..(Drained + n) :
          emitter.h = seen % RingWrap /\ rsent <= seen + RingCapacity
    BY <1>1 DEF RingInv, RingIndices
  <2>2. emitter.at = "publish" => rsent < (Drained + n) + RingCapacity
    BY <1>1, RingConstants DEF RingInv, RingIndices
  <2>3. rsent <= (Drained + n) + RingCapacity
    BY <1>1, RingConstants
  <2> QED BY <2>1, <2>2, <2>3, <1>1, <1>3 DEF RingInv, RingIndices
<1>6. RingHolds'
  <2>1. \A i \in (Drained + n)..(rsent - 1) : i \in Drained..(rsent - 1)
    BY <1>1
  <2> QED BY <2>1, <1>3 DEF RingInv, RingHolds, RSlot
<1> QED BY <1>1, <1>2, <1>3, <1>4, <1>5, <1>6

\* pop_batch's store of `head`.
LEMMA BatchReleaseInv == RingInv /\ BatchRelease => RingInv'
<1> SUFFICES ASSUME RingInv, BatchRelease PROVE RingInv'
  OBVIOUS
<1>1. /\ drainer.at = "read" /\ Len(drainer.got) = drainer.n
      /\ UNCHANGED <<rtail, rbuf, emitter, dropped, attempts, rsent>>
      /\ rgot' = drainer.got /\ rout' = rout \o drainer.got
      /\ drainer' = [drainer EXCEPT !.at = IF drainer.n < DrainBuffer THEN "done" ELSE "load"]
  BY DEF BatchRelease, ShortBatch
<1>2. /\ drainer.n \in 0..(rsent - Drained) /\ drainer.got = Counting(Drained, drainer.n)
      /\ drainer.n \in Int /\ Drained \in Int /\ drainer.got \in Seq(Int)
  <2>1. TelemetryTypeOK /\ BatchUnderWay
    BY DEF RingInv
  <2>2. drainer.got \in Seq(Int) /\ Drained \in Int /\ drainer.n \in Nat /\ rsent \in Nat
    BY <2>1, RingDistance DEF TelemetryTypeOK
  <2>3. Drained + drainer.n <= rsent /\ drainer.got = Counting(Drained, drainer.n)
    BY <1>1, <2>1 DEF BatchUnderWay
  <2> QED BY <2>2, <2>3
<1>3. rhead' = (Drained + drainer.n) % RingWrap
  <2>1. RAdd(Drained % RingWrap, drainer.n) = (Drained + drainer.n) % RingWrap
    BY <1>2, RingCounters
  <2> QED BY <2>1 DEF BatchRelease, RingInv, RingIndices
<1>4. /\ Drained' = Drained + drainer.n /\ rhead' \in 0..(RingWrap - 1) /\ rout' \in Seq(Int)
      /\ RingIndices' /\ RingHolds'
      /\ rout' = [i \in 1..Len(rout') |-> i - 1] /\ Len(rout') <= rsent
  BY <1>1, <1>2, <1>3, TakenOut
<1>5. /\ drainer' \in [at : {"idle", "load", "read", "done", "gone"}, t : 0..(RingWrap - 1),
                       n : Nat, got : Seq(Int), fresh : Nat]
      /\ drainer'.at = (IF drainer.n < DrainBuffer THEN "done" ELSE "load")
      /\ drainer'.fresh = drainer.fresh
  BY <1>1 DEF RingInv, TelemetryTypeOK
<1>6. TelemetryTypeOK'
  BY <1>1, <1>2, <1>4, <1>5 DEF RingInv, TelemetryTypeOK
<1>7. BatchUnderWay' /\ DrainOwes' /\ Gone'
  BY <1>1, <1>5 DEF RingInv, BatchUnderWay, DrainOwes, Gone, Open
<1>8. DrainedInOrder' /\ DropsAccounted'
  BY <1>1, <1>4, <1>5 DEF RingInv, EventsAccounted, DrainedInOrder, DropsAccounted, Open
<1>9. DrainComplete'
  <2>1. Len(rout') = Drained + drainer.n
    BY <1>4 DEF Drained
  <2> QED BY <2>1, <1>1, <1>2, <1>5 DEF RingInv, DrainOwes, DrainComplete
<1> QED BY <1>4, <1>6, <1>7, <1>8, <1>9 DEF RingInv, EventsAccounted

\* The ring's drop takes all that is left.
LEMMA RingDropInv ==
  RingInv /\ RingDrop =>
    /\ RingInv'
    /\ rout' = rout \o Counting(Drained, rsent - Drained)
    /\ rgot' = IF rsent = Drained THEN rgot ELSE Counting(Drained, rsent - Drained)
<1> SUFFICES ASSUME RingInv, RingDrop
             PROVE  /\ RingInv'
                    /\ rout' = rout \o Counting(Drained, rsent - Drained)
                    /\ rgot' = IF rsent = Drained THEN rgot ELSE Counting(Drained, rsent - Drained)
  OBVIOUS
<1> DEFINE n == rsent - Drained
<1>1. /\ Drained \in Nat /\ rsent \in Nat /\ n \in Nat /\ RSub(rtail, rhead) = n
      /\ n \in 0..(rsent - Drained) /\ Drained + n = rsent /\ Drained \in Int
  BY RingDistance
<1>2. RingQueue = Counting(Drained, n)
  BY RingQueueIsRun
<1>3. /\ emitter.at = "idle"
      /\ UNCHANGED <<rtail, rbuf, emitter, dropped, attempts, rsent>>
      /\ rout' = rout \o RingQueue
      /\ rgot' = (IF n = 0 THEN rgot ELSE RingQueue)
      /\ rhead' = rtail
      /\ drainer' = [drainer EXCEPT !.at = "gone"]
  BY <1>1 DEF RingDrop, Undelivered, RingQueue
<1>4. rhead' = (Drained + n) % RingWrap
  BY <1>1, <1>3 DEF RingInv, RingIndices
<1>5. /\ Drained' = Drained + n /\ rhead' \in 0..(RingWrap - 1) /\ rout' \in Seq(Int)
      /\ RingIndices' /\ RingHolds'
      /\ rout' = [i \in 1..Len(rout') |-> i - 1] /\ Len(rout') <= rsent
  BY <1>1, <1>2, <1>3, <1>4, TakenOut
<1>6. /\ drainer' \in [at : {"idle", "load", "read", "done", "gone"}, t : 0..(RingWrap - 1),
                       n : Nat, got : Seq(Int), fresh : Nat]
      /\ drainer'.at = "gone" /\ drainer'.fresh = drainer.fresh
  BY <1>3 DEF RingInv, TelemetryTypeOK
<1>7. rgot' \in Seq(Int)
  <2>1. Counting(Drained, n) \in Seq(Int)
    BY <1>1, CountingType
  <2> QED BY <2>1, <1>2, <1>3 DEF RingInv, TelemetryTypeOK
<1>8. TelemetryTypeOK'
  BY <1>3, <1>5, <1>6, <1>7 DEF RingInv, TelemetryTypeOK
<1>9. BatchUnderWay' /\ DrainOwes' /\ Gone'
  BY <1>3, <1>6 DEF RingInv, BatchUnderWay, DrainOwes, Gone
<1>10. Len(rout') = rsent
  BY <1>1, <1>5 DEF Drained
<1>11. EventsAccounted'
  BY <1>3, <1>5, <1>6, <1>10 DEF RingInv, EventsAccounted, DrainedInOrder, DropsAccounted,
    DrainComplete
<1>12. (n = 0) <=> (rsent = Drained)
  BY <1>1
<1> QED BY <1>2, <1>3, <1>5, <1>8, <1>9, <1>11, <1>12 DEF RingInv

\* Every step preserves the invariant.
LEMMA RingNextInv == RingInv /\ [TelemetryNext]_telemetry_vars => RingInv'
<1> SUFFICES ASSUME RingInv, [TelemetryNext]_telemetry_vars PROVE RingInv'
  OBVIOUS
<1>1. CASE EmitNoRing \/ EmitLoad \/ EmitDrop
  BY <1>1, EmitInv
<1>2. CASE PushWrite
  BY <1>2, PushWriteInv
<1>3. CASE PushPublish
  BY <1>3, PushPublishInv
<1>4. CASE DrainStart \/ BatchLoad \/ DrainReturn
  BY <1>4, DrainInv
<1>5. CASE BatchRead
  BY <1>5, BatchReadInv
<1>6. CASE BatchRelease
  BY <1>6, BatchReleaseInv
<1>7. CASE RingDrop
  BY <1>7, RingDropInv
<1>8. CASE UNCHANGED telemetry_vars
  BY <1>8 DEF telemetry_vars, RingInv, TelemetryTypeOK, RingIndices, RingHolds, BatchUnderWay,
    DrainOwes, Gone, EventsAccounted, DrainedInOrder, DropsAccounted, DrainComplete, Open,
    Drained, RSlot, Counting
<1> QED BY <1>1, <1>2, <1>3, <1>4, <1>5, <1>6, <1>7, <1>8 DEF TelemetryNext

\* The indices, the slots and the drain under way agree in every reachable state.
THEOREM RingInvHolds == TelemetrySpec => []RingInv
BY RingInitInv, RingNextInv, PTL DEF TelemetrySpec

\* Every emitted event is drained once and in order, or counted in dropped_count, and a
\* drain misses nothing accepted before it began, for every capacity, index width and
\* buffer length.
THEOREM EveryEventAccounted == TelemetrySpec => []EventsAccounted
<1>1. RingInv => EventsAccounted
  BY DEF RingInv
<1> QED BY RingInvHolds, <1>1, PTL

-----------------------------------------------------------------------------
(* The refinement of Channel *)

\* The ring's contents after a step.
LEMMA RunAfterStep == RingInv' => RingQueue' = Counting(Drained', rsent' - Drained')
<1>1. RingInv => RingQueue = Counting(Drained, rsent - Drained)
  BY RingQueueIsRun
<1>2. RingInv' => (RingQueue = Counting(Drained, rsent - Drained))'
  BY <1>1, PTL
<1> QED BY <1>2 DEF Counting

\* The ring's contents and their number before and after a step.
LEMMA RunsOfStep ==
  ASSUME RingInv, RingInv'
  PROVE  /\ RingQueue = Counting(Drained, rsent - Drained)
         /\ Len(RingQueue) = rsent - Drained
         /\ RingQueue' = Counting(Drained', rsent' - Drained')
         /\ Drained \in Int /\ rsent \in Int /\ rsent - Drained \in Nat
<1>1. RingQueue = Counting(Drained, rsent - Drained) /\ Drained \in Nat /\ rsent - Drained \in Nat
      /\ Drained \in Int /\ rsent \in Int
  BY RingQueueIsRun, RingDistance
<1>2. Len(Counting(Drained, rsent - Drained)) = rsent - Drained
  BY <1>1, CountingType
<1> QED BY <1>1, <1>2, RunAfterStep

\* The store of `tail` is the FIFO's Send: below the bound, at the right end.
LEMMA PublishRefines == RingInv /\ RingInv' /\ PushPublish => RingChannel!Send
<1> SUFFICES ASSUME RingInv, RingInv', PushPublish PROVE RingChannel!Send
  OBVIOUS
<1> DEFINE n == rsent - Drained
<1>1. /\ RingQueue = Counting(Drained, n) /\ Len(RingQueue) = n
      /\ RingQueue' = Counting(Drained', rsent' - Drained')
      /\ Drained \in Int /\ rsent \in Int /\ n \in Nat
  BY RunsOfStep
<1>2. rsent' = rsent + 1 /\ rgot' = rgot /\ Drained' = Drained
  BY DEF PushPublish, Drained
<1>3. Len(RingQueue) < RingCapacity
  BY <1>1, RingConstants DEF PushPublish, RingInv, RingIndices
<1>4. Drained + n = rsent /\ n + 1 = rsent' - Drained'
  BY <1>1, <1>2
<1> HIDE DEF n
<1>5. Append(Counting(Drained, n), Drained + n) = Counting(Drained, n + 1)
  BY <1>1, CountingAppend
<1>6. RingQueue' = Append(RingQueue, rsent)
  BY <1>1, <1>2, <1>4, <1>5
<1> QED BY <1>2, <1>3, <1>6 DEF RingChannel!Send

\* A step that takes n events out of the ring and returns them is the FIFO's Receive.
LEMMA TakeRefines ==
  ASSUME RingInv, RingInv', NEW n \in 1..(rsent - Drained),
         rout' = rout \o Counting(Drained, n), rgot' = Counting(Drained, n), rsent' = rsent
  PROVE  RingChannel!Receive
<1> DEFINE k == rsent - Drained
<1>1. /\ RingQueue = Counting(Drained, k) /\ Len(RingQueue) = k
      /\ RingQueue' = Counting(Drained', rsent' - Drained')
      /\ Drained \in Int /\ rsent \in Int /\ k \in Nat
  BY RunsOfStep
<1>2. n \in 0..k /\ n \in 1..k
  BY <1>1
<1>3. Drained' = Drained + n
  BY <1>2, OutExtends DEF Drained
<1>4. rsent' - Drained' = k - n
  BY <1>1, <1>2, <1>3
<1> HIDE DEF k
<1>5. /\ SubSeq(Counting(Drained, k), 1, n) = Counting(Drained, n)
      /\ SubSeq(Counting(Drained, k), n + 1, k) = Counting(Drained + n, k - n)
  BY <1>1, <1>2, CountingSplit
<1>6. rgot' = SubSeq(RingQueue, 1, n)
  BY <1>1, <1>5
<1>7. RingQueue' = SubSeq(RingQueue, n + 1, Len(RingQueue))
  BY <1>1, <1>3, <1>4, <1>5
<1> QED BY <1>1, <1>2, <1>6, <1>7 DEF RingChannel!Receive

\* Every step of the ring is a step of the FIFO or leaves it alone.
LEMMA RingNextRefines ==
  RingInv /\ RingInv' /\ [TelemetryNext]_telemetry_vars =>
    [RingChannel!Next]_<<RingQueue, rsent, rgot>>
<1> SUFFICES ASSUME RingInv, RingInv', [TelemetryNext]_telemetry_vars
             PROVE  RingChannel!Next \/ UNCHANGED <<RingQueue, rsent, rgot>>
  OBVIOUS
<1>1. CASE PushPublish
  BY <1>1, PublishRefines DEF RingChannel!Next
<1>2. CASE BatchRelease
  <2>1. drainer.n \in 1..(rsent - Drained) /\ drainer.got = Counting(Drained, drainer.n)
    <3>1. /\ drainer.n \in Nat /\ drainer.n >= 1 /\ Drained + drainer.n <= rsent
          /\ drainer.got = Counting(Drained, Len(drainer.got)) /\ Len(drainer.got) = drainer.n
      BY <1>2 DEF BatchRelease, RingInv, TelemetryTypeOK, BatchUnderWay
    <3>2. Drained \in Nat /\ rsent \in Nat
      BY RingDistance
    <3> QED BY <3>1, <3>2
  <2>2. RingChannel!Receive
    BY <2>1, <1>2, TakeRefines DEF BatchRelease
  <2> QED BY <2>2 DEF RingChannel!Next
<1>3. CASE RingDrop
  <2>1. /\ rout' = rout \o Counting(Drained, rsent - Drained) /\ rsent' = rsent
        /\ rgot' = IF rsent = Drained THEN rgot ELSE Counting(Drained, rsent - Drained)
    BY <1>3, RingDropInv DEF RingDrop
  <2>2. Drained \in Nat /\ rsent \in Nat /\ Drained <= rsent
    BY RingDistance
  <2>3. CASE rsent = Drained
    <3>1. rsent - Drained = 0 /\ 0 \in 0..(rsent - Drained) /\ Drained + 0 = Drained
      BY <2>2, <2>3
    <3>2. Len(rout \o Counting(Drained, 0)) = Drained + 0
      BY <3>1, OutExtends
    <3>3. Drained' = Drained
      BY <2>1, <3>1, <3>2 DEF Drained
    <3>4. UNCHANGED <<RingQueue, rsent, rgot>>
      BY <2>1, <2>3, <3>3, RunsOfStep
    <3> QED BY <3>4
  <2>4. CASE rsent # Drained
    <3>1. rsent - Drained \in 1..(rsent - Drained)
      BY <2>2, <2>4
    <3>2. RingChannel!Receive
      BY <2>1, <2>4, <3>1, TakeRefines
    <3> QED BY <3>2 DEF RingChannel!Next
  <2> QED BY <2>3, <2>4
<1>4. CASE UNCHANGED <<rout, rsent, rgot>>
  <2>1. Drained' = Drained
    BY <1>4 DEF Drained
  <2> QED BY <1>4, <2>1, RunsOfStep
<1>5. CASE EmitNoRing \/ EmitLoad \/ EmitDrop \/ PushWrite
  BY <1>4, <1>5 DEF EmitNoRing, EmitLoad, EmitDrop, PushWrite
<1>6. CASE DrainStart \/ BatchLoad \/ BatchRead \/ DrainReturn
  BY <1>4, <1>6 DEF DrainStart, BatchLoad, BatchRead, DrainReturn
<1>7. CASE UNCHANGED telemetry_vars
  BY <1>4, <1>7 DEF telemetry_vars
<1> QED BY <1>1, <1>2, <1>3, <1>5, <1>6, <1>7 DEF TelemetryNext

\* The unbatched ring implements the bounded FIFO of Channel, for every capacity and index
\* width: pushes that go by a stale head and batches that go by a stale tail neither
\* lose, repeat nor reorder an event.
THEOREM RingRefined == TelemetrySpec => RingIsChannel
<1>1. TelemetryInit => RingChannel!Init
  <2> SUFFICES ASSUME TelemetryInit PROVE RingChannel!Init
    OBVIOUS
  <2>1. RingInv
    BY RingInitInv
  <2>2. RSub(rtail, rhead) = 0
    BY <2>1, RingDistance DEF TelemetryInit, Drained
  <2>3. RingQueue = <<>>
    BY <2>2 DEF RingQueue
  <2> QED BY <2>3 DEF TelemetryInit, RingChannel!Init
<1>2. RingInv /\ RingInv' /\ [TelemetryNext]_telemetry_vars =>
        [RingChannel!Next]_<<RingQueue, rsent, rgot>>
  BY RingNextRefines
<1> QED BY <1>1, <1>2, RingInvHolds, PTL DEF TelemetrySpec, RingIsChannel, RingChannel!Spec

-----------------------------------------------------------------------------
(* The services of a task *)

\* The offset is within the arena, and every block ends at or before it, at a multiple of its
\* alignment.
BlocksBelow ==
  /\ base \in Nat /\ offset \in 0..BumpCapacity
  /\ blocks \in Seq([start : Nat, size : Nat, align : Nat \ {0}])
  /\ \A i \in 1..Len(blocks) :
       /\ blocks[i].start % blocks[i].align = 0
       /\ blocks[i].start + blocks[i].size <= offset

\* A block starts behind the blocks handed out before it.
BlocksApart ==
  \A i, j \in 1..Len(blocks) : i < j => blocks[i].start + blocks[i].size <= blocks[j].start

\* The meter holds what was burnt, up to its limit.
MeterExact ==
  /\ burnt \in Nat
  /\ spent = IF burnt > FuelMax THEN FuelMax ELSE burnt

\* Events carry launch counts the stream has reached.
EventsPast ==
  /\ launches \in Nat /\ waited.after_launch \in 0..launches
  /\ Len(events) \in Nat /\ events \in Seq([id : Nat, after_launch : 0..launches])

TaskInv == BlocksBelow /\ BlocksApart /\ MeterExact /\ EventsPast

\* Initially nothing has been allocated, burnt or launched.
LEMMA TaskInvInit == TaskInit => TaskInv
BY TaskLocalAssumption DEF TaskInit, TaskInv, BlocksBelow, BlocksApart, MeterExact, EventsPast

\* A multiple of a that is less than a above h, when h is one too, is at most h.
LEMMA MultipleAtMost ==
  ASSUME NEW a \in Nat \ {0}, NEW p \in Int, NEW q \in Int, a * p < a * q + a
  PROVE  a * p <= a * q
<1>1. a * (p - q) < a
  OBVIOUS
<1>2. CASE p - q >= 1
  <2>1. a * (p - q - 1) >= 0
    BY <1>2
  <2> QED BY <2>1, <1>1
<1>3. CASE p - q <= 0
  <2>1. a * (q - p) >= 0
    BY <1>3
  <2> QED BY <2>1
<1> QED BY <1>2, <1>3

\* alloc's arithmetic does not wrap: the block starts at the next multiple of its alignment
\* and ends behind it.
LEMMA AllocPlace ==
  ASSUME NEW l \in Layouts, offset \in 0..BumpCapacity
  PROVE  /\ l.size \in Nat /\ l.align \in Nat \ {0}
         /\ AlignedStart(l) \in Nat /\ AlignedStart(l) % l.align = 0
         /\ offset <= AlignedStart(l)
         /\ AllocEnd(l) = AlignedStart(l) + l.size
<1> DEFINE a == l.align
           h == BumpWrap \div 2
           up == offset + a - 1
           q == up \div a
           p == h \div a
<1>1. a \in Nat \ {0} /\ h \in Nat /\ 2 * h <= BumpWrap /\ BumpWrap \in Nat \ {0}
      /\ l.size \in 0..(h - 1) /\ offset \in 0..(h - 1) /\ h % a = 0
  <2>1. BumpWrap = 2 * h + (BumpWrap % 2) /\ BumpWrap % 2 \in 0..1 /\ h \in Int
    BY TaskLocalAssumption, DivMod
  <2>2. BumpWrap \in Nat /\ BumpCapacity \in 1..(h - 1) /\ a \in Nat \ {0} /\ h % a = 0 /\ l.size \in 0..(h - 1)
    BY TaskLocalAssumption
  <2> HIDE DEF a, h
  <2> QED BY <2>1, <2>2
<1>2. h = a * p /\ p \in Int /\ q \in Int
      /\ up = a * q + (up % a) /\ up % a \in 0..(a - 1)
  <2>1. up \in Int
    BY <1>1
  <2> HIDE DEF a, h, up
  <2> QED BY <1>1, <2>1, DivMod
<1>3. a <= h
  <2>1. p >= 1
    <3>1. CASE p <= 0
      <4>1. a * (-p) >= 0
        <5> HIDE DEF a, p
        <5> QED BY <3>1, <1>1, <1>2
      <4> HIDE DEF a, h, p
      <4> QED BY <4>1, <1>1, <1>2
    <3> HIDE DEF a, h, p
    <3> QED BY <3>1, <1>2
  <2>2. a * (p - 1) >= 0
    <3> HIDE DEF a, h, p
    <3> QED BY <2>1, <1>1, <1>2
  <2> HIDE DEF a, h, p
  <2> QED BY <2>2, <1>1, <1>2
<1>4. up \in 0..(BumpWrap - 1) /\ up % BumpWrap = up
  <2> HIDE DEF a, h, p, q
  <2>1. up \in 0..(BumpWrap - 1)
    BY <1>1, <1>3
  <2> HIDE DEF up
  <2> QED BY <2>1, <1>1, SmallMod
<1>5. AlignedStart(l) = a * q /\ a * q \in Int
  <2>1. AlignedStart(l) = up - (up % a)
    BY <1>4 DEF AlignedStart, AlignUp
  <2> HIDE DEF a, h, p, q, up
  <2> QED BY <2>1, <1>1, <1>2
<1>6. offset <= a * q /\ a * q <= up
  <2> HIDE DEF h, p, q, a
  <2>1. up = offset + a - 1
    OBVIOUS
  <2> HIDE DEF up
  <2> QED BY <2>1, <1>1, <1>2
<1>7. a * q <= h
  <2>1. a * q < a * p + a
    <3> HIDE DEF a, h, p, q
    <3> QED BY <1>1, <1>2, <1>6
  <2> HIDE DEF a, h, p, q, up
  <2> QED BY <2>1, <1>1, <1>2, MultipleAtMost
<1>8. (a * q) % a = 0
  <2> HIDE DEF a, h, p, q, up
  <2>1. a * q + 0 = a * q /\ 0 \in 0..(a - 1)
    BY <1>1, <1>2
  <2>2. (a * q + 0) % a = 0
    BY <2>1, <1>1, <1>2, ModUnique
  <2> QED BY <2>1, <2>2
<1>9. AllocEnd(l) = AlignedStart(l) + l.size
  <2>1. a * q + l.size \in 0..(BumpWrap - 1)
    <3> HIDE DEF a, h, p, q, up
    <3> QED BY <1>1, <1>2, <1>5, <1>6, <1>7
  <2>2. (a * q + l.size) % BumpWrap = a * q + l.size
    <3> HIDE DEF a, h, p, q, up
    <3> QED BY <2>1, <1>1, SmallMod
  <2> HIDE DEF a, h, p, q, up
  <2> QED BY <2>2, <1>5 DEF AllocEnd
<1> HIDE DEF a, h, p, q, up
<1>10. l.align = a
  BY DEF a
<1> QED BY <1>1, <1>5, <1>6, <1>8, <1>9, <1>10

\* What the invariant says of one block.
LEMMA TaskBlock ==
  ASSUME TaskInv, NEW i \in DOMAIN blocks
  PROVE  /\ i \in 1..Len(blocks) /\ Len(blocks) \in Nat /\ offset \in 0..BumpCapacity
         /\ blocks[i].start \in Nat /\ blocks[i].size \in Nat /\ blocks[i].align \in Nat \ {0}
         /\ blocks[i].start % blocks[i].align = 0 /\ blocks[i].start + blocks[i].size <= offset
<1> DEFINE Blocks == [start : Nat, size : Nat, align : Nat \ {0}]
<1>1. blocks \in Seq(Blocks)
  BY DEF TaskInv, BlocksBelow
<1>2. DOMAIN blocks = 1..Len(blocks) /\ Len(blocks) \in Nat /\ i \in 1..Len(blocks)
  <2> HIDE DEF Blocks
  <2> QED BY <1>1
<1>3. blocks[i] \in Blocks
  <2> HIDE DEF Blocks
  <2> QED BY <1>1, <1>2
<1>4. blocks[i].start \in Nat /\ blocks[i].size \in Nat /\ blocks[i].align \in Nat \ {0}
  BY <1>3
<1> QED BY <1>2, <1>4 DEF TaskInv, BlocksBelow

\* A block is allocated behind the blocks there are.
LEMMA TaskAlloc ==
  ASSUME TaskInv, NEW l \in Layouts, alloc(l)
  PROVE  TaskInv'
<1> DEFINE n == [start |-> AlignedStart(l), size |-> l.size, align |-> l.align]
<1>1. /\ n.start \in Nat /\ n.size \in Nat /\ n.align \in Nat \ {0}
      /\ n.start % n.align = 0 /\ offset <= n.start /\ offset' = n.start + n.size
      /\ offset' <= BumpCapacity
  <2>1. offset \in 0..BumpCapacity
    BY DEF TaskInv, BlocksBelow
  <2> QED BY <2>1, AllocPlace DEF alloc
<1>2. blocks' = Append(blocks, n) /\ base' = base /\ n \in [start : Nat, size : Nat, align : Nat \ {0}]
  BY <1>1 DEF alloc
<1> HIDE DEF n
<1>3. BumpCapacity \in Nat
  BY TaskLocalAssumption
<1>0. /\ blocks' \in Seq([start : Nat, size : Nat, align : Nat \ {0}])
      /\ Len(blocks) \in Nat /\ Len(blocks') = Len(blocks) + 1
      /\ \A i \in 1..Len(blocks) : blocks'[i] = blocks[i]
      /\ blocks'[Len(blocks) + 1] = n
  <2>1. blocks \in Seq([start : Nat, size : Nat, align : Nat \ {0}])
    BY DEF TaskInv, BlocksBelow
  <2> QED BY <1>2, <2>1
<1>7. ASSUME NEW i \in 1..Len(blocks)
      PROVE  /\ blocks[i].start % blocks[i].align = 0
             /\ blocks[i].start + blocks[i].size <= n.start /\ blocks[i].start + blocks[i].size <= offset'
  <2>1. i \in DOMAIN blocks
    BY DEF TaskInv, BlocksBelow
  <2> QED BY <1>1, <1>3, <2>1, TaskBlock
<1>4. BlocksBelow'
  <2>1. offset' \in 0..BumpCapacity /\ base' \in Nat
    BY <1>1, <1>2, <1>3 DEF TaskInv, BlocksBelow
  <2>2. ASSUME NEW i \in 1..Len(blocks')
        PROVE  /\ blocks'[i].start % blocks'[i].align = 0
               /\ blocks'[i].start + blocks'[i].size <= offset'
    <3>1. CASE i = Len(blocks) + 1
      BY <1>0, <1>1, <3>1
    <3>2. CASE i \in 1..Len(blocks)
      BY <1>0, <1>7, <3>2
    <3> QED BY <1>0, <3>1, <3>2
  <2> QED BY <1>0, <2>1, <2>2 DEF BlocksBelow
<1>5. BlocksApart'
  <2> SUFFICES ASSUME NEW i \in 1..Len(blocks'), NEW j \in 1..Len(blocks'), i < j
               PROVE  blocks'[i].start + blocks'[i].size <= blocks'[j].start
    BY DEF BlocksApart
  <2>1. i \in 1..Len(blocks)
    BY <1>0
  <2>2. CASE j = Len(blocks) + 1
    BY <1>0, <1>7, <2>1, <2>2
  <2>3. CASE j \in 1..Len(blocks)
    BY <1>0, <2>1, <2>3 DEF TaskInv, BlocksApart
  <2>4. j = Len(blocks) + 1 \/ j \in 1..Len(blocks)
    <3>1. Len(blocks) \in Nat /\ j \in 1..(Len(blocks) + 1)
      BY <1>0
    <3> QED BY <3>1
  <2> QED BY <2>2, <2>3, <2>4
<1>6. UNCHANGED <<spent, burnt, launches, events, waited>>
  BY DEF alloc
<1> QED BY <1>4, <1>5, <1>6 DEF TaskInv, MeterExact, EventsPast

\* The arena is made once and emptied by reset.
LEMMA TaskArena ==
  ASSUME TaskInv, new_arena \/ reset
  PROVE  TaskInv'
<1>1. base' \in Nat /\ UNCHANGED <<spent, burnt, launches, events, waited>>
  BY TaskLocalAssumption DEF TaskInv, BlocksBelow, new_arena, reset
<1>2. CASE new_arena
  BY <1>1, <1>2 DEF new_arena, TaskInv, BlocksBelow, BlocksApart, MeterExact, EventsPast
<1>3. CASE reset
  BY <1>1, <1>3, TaskLocalAssumption DEF reset, TaskInv, BlocksBelow, BlocksApart, MeterExact, EventsPast
<1> QED BY <1>2, <1>3

\* The meter saturates at the limit and is emptied by refill.
LEMMA TaskFuel ==
  ASSUME TaskInv, NEW u \in Burns, burn(u) \/ refill
  PROVE  TaskInv'
<1>1. UNCHANGED <<base, offset, blocks, launches, events, waited>>
  BY DEF burn, refill
<1>2. u \in Nat /\ FuelMax \in Nat
  BY TaskLocalAssumption
<1>3. CASE burn(u)
  <2>1. burnt' = burnt + u /\ spent' = IF spent + u > FuelMax THEN FuelMax ELSE spent + u
    BY <1>3 DEF burn, SaturatingFuel
  <2>2. MeterExact'
    BY <1>2, <2>1 DEF TaskInv, MeterExact
  <2> QED BY <1>1, <2>2 DEF TaskInv, BlocksBelow, BlocksApart, EventsPast
<1>4. CASE refill
  <2>1. MeterExact'
    BY <1>2, <1>4 DEF refill, MeterExact
  <2> QED BY <1>1, <2>1 DEF TaskInv, BlocksBelow, BlocksApart, EventsPast
<1> QED BY <1>3, <1>4

\* Launches go up, and an event records how many there were.
LEMMA TaskStream ==
  ASSUME TaskInv, NEW i \in Nat, NEW n \in Nat,
         launch \/ record \/ wait_for([id |-> i, after_launch |-> n])
  PROVE  TaskInv'
<1>1. UNCHANGED <<base, offset, blocks, spent, burnt>>
  BY DEF launch, record, wait_for
<1>2. EventsPast'
  <2>1. CASE launch
    <3>1. launches' = launches + 1 /\ events' = events /\ waited' = waited
      BY <2>1 DEF launch
    <3>2. waited.after_launch \in 0..launches /\ launches \in Nat
      BY DEF TaskInv, EventsPast
    <3>3. [id : Nat, after_launch : 0..launches] \subseteq [id : Nat, after_launch : 0..(launches + 1)]
      BY <3>2
    <3>4. events' \in Seq([id : Nat, after_launch : 0..(launches + 1)])
      BY <3>1, <3>3, SeqMonotonic DEF TaskInv, EventsPast
    <3>5. waited'.after_launch \in 0..(launches + 1)
      BY <3>1, <3>2
    <3> QED BY <3>1, <3>2, <3>4, <3>5 DEF TaskInv, EventsPast
  <2>2. CASE record
    <3>1. events' = Append(events, [id |-> Len(events), after_launch |-> launches]) /\ launches' = launches
          /\ waited' = waited
      BY <2>2 DEF record
    <3>2. [id |-> Len(events), after_launch |-> launches] \in [id : Nat, after_launch : 0..launches]
      BY DEF TaskInv, EventsPast
    <3> QED BY <3>1, <3>2 DEF TaskInv, EventsPast
  <2>3. CASE wait_for([id |-> i, after_launch |-> n])
    <3> DEFINE ev == [id |-> i, after_launch |-> n]
    <3>1. ev.id < Len(events) /\ events[ev.id + 1] = ev /\ waited' = ev /\ launches' = launches /\ events' = events
      BY <2>3 DEF wait_for, Recorded
    <3>2. ev \in [id : Nat, after_launch : 0..launches]
      <4>1. ev.id + 1 \in 1..Len(events)
        BY <3>1 DEF TaskInv, EventsPast
      <4> QED BY <3>1, <4>1 DEF TaskInv, EventsPast
    <3> QED BY <3>1, <3>2 DEF TaskInv, EventsPast
  <2> QED BY <2>1, <2>2, <2>3
<1> QED BY <1>1, <1>2 DEF TaskInv, BlocksBelow, BlocksApart, MeterExact

\* Every call of a task keeps the invariant.
LEMMA TaskInvNext == TaskInv /\ [TaskNext]_task_vars => TaskInv'
<1> SUFFICES ASSUME TaskInv, [TaskNext]_task_vars PROVE TaskInv'
  OBVIOUS
<1>1. ASSUME NEW l \in Layouts, alloc(l) PROVE TaskInv'
  BY <1>1, TaskAlloc
<1>2. CASE new_arena \/ reset
  BY <1>2, TaskArena
<1>3. ASSUME NEW u \in Burns, burn(u) PROVE TaskInv'
  BY <1>3, TaskFuel
<1>4. CASE refill
  <2>1. MeterExact' /\ UNCHANGED <<base, offset, blocks, launches, events, waited>>
    BY <1>4, TaskLocalAssumption DEF refill, MeterExact
  <2> QED BY <2>1 DEF TaskInv, BlocksBelow, BlocksApart, EventsPast
<1>5. CASE launch \/ record
  BY <1>5, TaskStream
<1>6. ASSUME NEW i \in 0..(MaxTaskOps - 1), NEW n \in 0..(MaxTaskOps - 1),
             wait_for([id |-> i, after_launch |-> n])
      PROVE  TaskInv'
  BY <1>6, TaskStream
<1>7. CASE UNCHANGED task_vars
  BY <1>7 DEF task_vars, TaskInv, BlocksBelow, BlocksApart, MeterExact, EventsPast
<1> QED BY <1>1, <1>2, <1>3, <1>4, <1>5, <1>6, <1>7 DEF TaskNext

\* A multiple of the alignment does not change what is aligned.
LEMMA MultipleShift ==
  ASSUME NEW a \in Nat \ {0}, NEW m \in Nat, m % a = 0, NEW x \in Nat
  PROVE  (x + m) % a = x % a
<1>1. m \div a \in Int /\ m = a * (m \div a) + (m % a)
  BY DivMod
<1>2. PICK q \in Int : m = a * q
  BY <1>1
<1>3. (x + a * q) % a = x % a
  <2>1. x \in Int
    OBVIOUS
  <2> QED BY <2>1, <1>2, ModShift, Zenon
<1> QED BY <1>2, <1>3

\* The invariant gives each service's promise.
LEMMA TaskInvGives == TaskInv => TaskServicesExact
<1> SUFFICES ASSUME TaskInv PROVE TaskServicesExact
  OBVIOUS
<1>1. BlocksDisjoint
  <2>1. \A i \in DOMAIN blocks : Bytes(blocks[i]) \subseteq 0..(BumpCapacity - 1)
    BY TaskBlock, TaskLocalAssumption DEF Bytes
  <2>2. ASSUME NEW i \in DOMAIN blocks, NEW j \in DOMAIN blocks, i < j
        PROVE  Bytes(blocks[i]) \cap Bytes(blocks[j]) = {}
    <3>1. blocks[i].start + blocks[i].size <= blocks[j].start
      BY TaskBlock, <2>2 DEF TaskInv, BlocksApart
    <3> QED BY TaskBlock, <3>1 DEF Bytes
  <2>3. ASSUME NEW i \in DOMAIN blocks, NEW j \in DOMAIN blocks, i # j
        PROVE  Bytes(blocks[i]) \cap Bytes(blocks[j]) = {}
    <3>1. i < j \/ j < i
      BY TaskBlock, <2>3
    <3> QED BY <2>2, <3>1
  <2> QED BY <2>1, <2>3 DEF BlocksDisjoint
<1>2. AlignedWithBase
  <2> SUFFICES ASSUME NEW i \in DOMAIN blocks, base % blocks[i].align = 0
               PROVE  (base + blocks[i].start) % blocks[i].align = 0
    BY DEF AlignedWithBase
  <2>1. base \in Nat
    BY DEF TaskInv, BlocksBelow
  <2> QED BY TaskBlock, <2>1, MultipleShift
<1>3. DefersOnBudget
  BY TaskLocalAssumption DEF TaskInv, MeterExact, DefersOnBudget, should_defer
<1>4. WaitedForLaunched
  BY DEF TaskInv, EventsPast, WaitedForLaunched
<1> QED BY <1>1, <1>2, <1>3, <1>4 DEF TaskServicesExact

\* For every arena size, address width, layout, budget and order of calls: blocks are
\* disjoint and inside the arena; the padding suits a type wherever the base does, which
\* nothing in the code ensures (MisalignedBlock in MCTask is the case where it does not); a
\* task defers exactly when its budget is burnt; a wait that succeeds waited for launches of
\* its stream.
THEOREM TaskServicesHold == TaskSpec => []TaskServicesExact
<1>1. TaskSpec => []TaskInv
  BY TaskInvInit, TaskInvNext, PTL DEF TaskSpec
<1> QED BY <1>1, TaskInvGives, PTL

-----------------------------------------------------------------------------
(* Flattened shapes *)

\* f is the table of FlattenSeq's partial concatenations of s, up to m.
IsFlat(f, s, m) == f = [i \in 1..m |-> IF i = 1 THEN s[i] ELSE f[i-1] \o s[i]]

FlatOf(s) == CHOOSE f : IsFlat(f, s, Len(s))

\* FlattenSeq by its table.
LEMMA FlattenIs ==
  \A s : FlattenSeq(s) = IF Len(s) = 0 THEN s ELSE FlatOf(s)[Len(s)]
BY Zenon DEF FlattenSeq, FlatOf, IsFlat

\* The table exists: one more entry extends a shorter table.
LEMMA FlatExists ==
  ASSUME NEW s, NEW n \in Nat
  PROVE  \E f : IsFlat(f, s, n)
<1> DEFINE S == {m \in Nat : \E f : IsFlat(f, s, m)}
<1>1. 0 \in S
  <2>1. IsFlat([i \in 1..0 |-> 0], s, 0)
    BY DEF IsFlat
  <2> QED BY <2>1
<1>2. ASSUME NEW m \in Nat, m \in S PROVE m + 1 \in S
  <2>1. PICK f : IsFlat(f, s, m)
    BY <1>2
  <2> DEFINE last == IF m + 1 = 1 THEN s[m + 1] ELSE f[m] \o s[m + 1]
             g == [i \in 1..(m + 1) |-> IF i = m + 1 THEN last ELSE f[i]]
  <2>2. ASSUME NEW i \in 1..(m + 1) PROVE g[i] = IF i = 1 THEN s[i] ELSE g[i-1] \o s[i]
    <3>1. CASE i = m + 1
      <4>1. g[i] = last
        BY <3>1
      <4>2. CASE m = 0
        BY <3>1, <4>1, <4>2
      <4>3. CASE m # 0
        <5>1. g[i - 1] = f[m]
          BY <3>1, <4>3
        <5> QED BY <3>1, <4>1, <4>3, <5>1
      <4> QED BY <4>2, <4>3
    <3>2. CASE i # m + 1
      <4>1. i \in 1..m /\ g[i] = f[i]
        BY <3>2
      <4>2. f[i] = IF i = 1 THEN s[i] ELSE f[i-1] \o s[i]
        BY <2>1, <4>1 DEF IsFlat
      <4>3. i # 1 => g[i - 1] = f[i - 1]
        BY <4>1
      <4> HIDE DEF g
      <4> QED BY <4>1, <4>2, <4>3
    <3> QED BY <3>1, <3>2
  <2>3. g = [i \in 1..(m + 1) |-> g[i]]
    OBVIOUS
  <2> HIDE DEF g
  <2>4. IsFlat(g, s, m + 1)
    BY <2>2, <2>3 DEF IsFlat
  <2> QED BY <2>4
<1> HIDE DEF S
<1>3. n \in S
  BY <1>1, <1>2, SetInduction
<1> QED BY <1>3 DEF S

\* Sequences with the same concatenation and second parts of one length are the same.
LEMMA ConcatCancel ==
  ASSUME NEW T, NEW a \in Seq(T), NEW b \in Seq(T), NEW c \in Seq(T), NEW d \in Seq(T),
         Len(b) = Len(d), a \o b = c \o d
  PROVE  a = c /\ b = d
<1>1. /\ Len(a \o b) = Len(a) + Len(b) /\ Len(c \o d) = Len(c) + Len(d)
      /\ \A i \in 1..(Len(a) + Len(b)) : (a \o b)[i] = IF i <= Len(a) THEN a[i] ELSE b[i - Len(a)]
      /\ \A i \in 1..(Len(c) + Len(d)) : (c \o d)[i] = IF i <= Len(c) THEN c[i] ELSE d[i - Len(c)]
  BY ConcatProperties
<1>2. Len(a) = Len(c)
  BY <1>1
<1>3. \A i \in 1..Len(a) : a[i] = c[i]
  <2> TAKE i \in 1..Len(a)
  <2>1. i \in 1..(Len(a) + Len(b)) /\ i <= Len(a) /\ i <= Len(c)
    BY <1>2
  <2> QED BY <1>1, <1>2, <2>1
<1>4. \A i \in 1..Len(b) : b[i] = d[i]
  <2> TAKE i \in 1..Len(b)
  <2>1. Len(a) + i \in 1..(Len(a) + Len(b)) /\ ~(Len(a) + i <= Len(a)) /\ (Len(a) + i) - Len(a) = i
    OBVIOUS
  <2>2. (a \o b)[Len(a) + i] = b[i] /\ (c \o d)[Len(a) + i] = d[i]
    BY <1>1, <1>2, <2>1
  <2> QED BY <2>2
<1>5. a = c
  BY <1>2, <1>3, SeqEqual
<1>6. b = d
  BY <1>4, SeqEqual
<1> QED BY <1>5, <1>6

\* Two ways to write a sequence of numbers as a concatenation.
SameConcat(a, b, c, d) ==
  /\ a \in Seq(Nat) /\ b \in Seq(Nat) /\ c \in Seq(Nat) /\ d \in Seq(Nat)
  /\ Len(b) = Len(d) /\ a \o b = c \o d

\* They are one.
LEMMA ConcatCancelAll == \A a, b, c, d : SameConcat(a, b, c, d) => a = c /\ b = d
<1>1. \A a, b, c, d \in Seq(Nat) : Len(b) = Len(d) /\ a \o b = c \o d => a = c /\ b = d
  BY ConcatCancel
<1> QED BY <1>1, Zenon DEF SameConcat

\* The entries of a table are the concatenations.
LEMMA FlatStep ==
  ASSUME NEW s \in Seq(Seq(Nat)), NEW f, IsFlat(f, s, Len(s))
  PROVE  /\ Len(s) > 0 => f[1] = s[1]
         /\ \A m \in Nat : m > 0 /\ m + 1 <= Len(s) => f[m + 1] = f[m] \o s[m + 1]
         /\ \A m \in Nat : m + 1 <= Len(s) => f[m + 1] \in Seq(Nat)
<1>1. \A i \in 1..Len(s) : f[i] = IF i = 1 THEN s[i] ELSE f[i-1] \o s[i]
  BY DEF IsFlat
<1>2. Len(s) > 0 => f[1] = s[1]
  BY <1>1
<1>3. ASSUME NEW m \in Nat, m > 0, m + 1 <= Len(s) PROVE f[m + 1] = f[m] \o s[m + 1]
  <2>1. m + 1 \in 1..Len(s) /\ (m + 1) - 1 = m /\ m + 1 # 1
    BY <1>3
  <2>2. f[m + 1] = IF m + 1 = 1 THEN s[m + 1] ELSE f[(m + 1) - 1] \o s[m + 1]
    BY <1>1, <2>1
  <2> QED BY <2>1, <2>2
<1> DEFINE S == {m \in Nat : m + 1 <= Len(s) => f[m + 1] \in Seq(Nat)}
<1>4. 0 \in S
  <2>1. Len(s) > 0 => s[1] \in Seq(Nat)
    OBVIOUS
  <2> QED BY <1>2, <2>1
<1>5. ASSUME NEW m \in Nat, m \in S PROVE m + 1 \in S
  <2> SUFFICES ASSUME (m + 1) + 1 <= Len(s) PROVE f[(m + 1) + 1] \in Seq(Nat)
    OBVIOUS
  <2>1. f[m + 1] \in Seq(Nat) /\ m + 1 \in Nat /\ m + 1 > 0
    BY <1>5
  <2>2. s[(m + 1) + 1] \in Seq(Nat)
    <3>1. (m + 1) + 1 \in 1..Len(s)
      OBVIOUS
    <3> QED BY <3>1
  <2>3. f[(m + 1) + 1] = f[m + 1] \o s[(m + 1) + 1]
    BY <1>3, <2>1
  <2> QED BY <2>1, <2>2, <2>3, ConcatProperties
<1> HIDE DEF S
<1>6. \A m \in Nat : m \in S
  BY <1>4, <1>5, SetInduction
<1> QED BY <1>2, <1>3, <1>6 DEF S

\* FlattenSeq's table is one.
LEMMA FlatIs ==
  ASSUME NEW s \in Seq(Seq(Nat))
  PROVE  IsFlat(FlatOf(s), s, Len(s))
<1>1. Len(s) \in Nat
  OBVIOUS
<1>2. \E f : IsFlat(f, s, Len(s))
  BY <1>1, FlatExists, Zenon
<1> QED BY <1>2, Zenon DEF FlatOf

\* Shapes of the same ranks with the same dimensions in a row are the same shapes.
LEMMA FlattenTells ==
  ASSUME NEW s \in Seq(Seq(Nat)), NEW t \in Seq(Seq(Nat)), Len(s) = Len(t),
         \A i \in 1..Len(s) : Len(s[i]) = Len(t[i]), FlattenSeq(s) = FlattenSeq(t)
  PROVE  s = t
<1>1. CASE Len(s) = 0
  <2>0. Len(t) = 0
    BY <1>1
  <2>1. s = <<>> /\ t = <<>>
    <3>1. s = <<>>
      BY <1>1
    <3>2. t = <<>>
      BY <2>0
    <3> QED BY <3>1, <3>2
  <2> QED BY <2>1
<1>2. CASE Len(s) # 0
  <2>1. PICK f : IsFlat(f, s, Len(s)) /\ FlattenSeq(s) = f[Len(s)]
    <3>1. IsFlat(FlatOf(s), s, Len(s))
      BY FlatIs
    <3> QED BY <1>2, <3>1, FlattenIs
  <2>2. PICK g : IsFlat(g, t, Len(t)) /\ FlattenSeq(t) = g[Len(t)]
    <3>1. IsFlat(FlatOf(t), t, Len(t))
      BY FlatIs
    <3> QED BY <1>2, <3>1, FlattenIs
  <2>3. /\ f[1] = s[1]
        /\ \A m \in Nat : m > 0 /\ m + 1 <= Len(s) => f[m + 1] = f[m] \o s[m + 1]
        /\ \A m \in Nat : m + 1 <= Len(s) => f[m + 1] \in Seq(Nat)
    <3>1. Len(s) > 0
      BY <1>2
    <3>2. IsFlat(f, s, Len(s))
      BY <2>1
    <3> QED BY <3>1, <3>2, FlatStep, Zenon
  <2>4. /\ g[1] = t[1]
        /\ \A m \in Nat : m > 0 /\ m + 1 <= Len(s) => g[m + 1] = g[m] \o t[m + 1]
        /\ \A m \in Nat : m + 1 <= Len(s) => g[m + 1] \in Seq(Nat)
    <3>1. Len(t) > 0 /\ Len(t) = Len(s)
      BY <1>2
    <3>2. IsFlat(g, t, Len(t))
      BY <2>2
    <3>3. /\ Len(t) > 0 => g[1] = t[1]
          /\ \A m \in Nat : m > 0 /\ m + 1 <= Len(t) => g[m + 1] = g[m] \o t[m + 1]
          /\ \A m \in Nat : m + 1 <= Len(t) => g[m + 1] \in Seq(Nat)
      BY <3>2, FlatStep, Zenon
    <3> QED BY <3>1, <3>3
  <2> DEFINE S == {m \in Nat : m + 1 <= Len(s) /\ f[m + 1] = g[m + 1]
                                 => \A i \in 1..(m + 1) : s[i] = t[i]}
  <2>5. 0 \in S
    BY <2>3, <2>4
  <2>6. ASSUME NEW m \in Nat, m \in S PROVE m + 1 \in S
    <3> SUFFICES ASSUME (m + 1) + 1 <= Len(s), f[(m + 1) + 1] = g[(m + 1) + 1]
                 PROVE  \A i \in 1..((m + 1) + 1) : s[i] = t[i]
      OBVIOUS
    <3> DEFINE a == s[(m + 1) + 1]
               b == t[(m + 1) + 1]
    <3>1. a \in Seq(Nat) /\ b \in Seq(Nat) /\ Len(a) = Len(b)
      <4>1. (m + 1) + 1 \in 1..Len(s)
        OBVIOUS
      <4> QED BY <4>1
    <3>2. f[m + 1] \o a = g[m + 1] \o b /\ f[m + 1] \in Seq(Nat) /\ g[m + 1] \in Seq(Nat)
      <4>1. m + 1 \in Nat /\ m + 1 > 0 /\ m + 1 <= Len(s)
        OBVIOUS
      <4> QED BY <4>1, <2>3, <2>4
    <3>3. f[m + 1] = g[m + 1] /\ a = b
      <4> HIDE DEF a, b
      <4>1. PICK x \in Seq(Nat), y \in Seq(Nat) : x = f[m + 1] /\ y = g[m + 1]
        BY <3>2
      <4>2. x \o a = y \o b
        BY <3>2, <4>1
      <4>3. a \in Seq(Nat) /\ b \in Seq(Nat) /\ Len(a) = Len(b)
        BY <3>1
      <4>4. SameConcat(x, a, y, b)
        BY <4>2, <4>3 DEF SameConcat
      <4>5. x = y /\ a = b
        BY <4>4, ConcatCancelAll, Zenon
      <4> QED BY <4>1, <4>5
    <3>4. \A i \in 1..(m + 1) : s[i] = t[i]
      BY <3>3, <2>6
    <3>5. \A i \in 1..((m + 1) + 1) : i \in 1..(m + 1) \/ i = (m + 1) + 1
      OBVIOUS
    <3> QED BY <3>3, <3>4, <3>5
  <2> HIDE DEF S
  <2>7. Len(s) - 1 \in S
    <3>1. Len(s) - 1 \in Nat
      BY <1>2
    <3> QED BY <2>5, <2>6, <3>1, SetInduction
  <2>8. \A i \in 1..Len(s) : s[i] = t[i]
    <3>1. (Len(s) - 1) + 1 = Len(s) /\ Len(s) <= Len(s)
      OBVIOUS
    <3>2. f[Len(s)] = g[Len(s)]
      BY <2>1, <2>2
    <3>3. (Len(s) - 1) + 1 <= Len(s) /\ f[(Len(s) - 1) + 1] = g[(Len(s) - 1) + 1]
            => \A i \in 1..((Len(s) - 1) + 1) : s[i] = t[i]
      BY <2>7 DEF S
    <3> QED BY <3>1, <3>2, <3>3
  <2> QED BY <2>8, SeqEqual
<1> QED BY <1>1, <1>2

\* Flattened shapes are a sequence of dimensions.
LEMMA FlattenType ==
  ASSUME NEW s \in Seq(Seq(Nat))
  PROVE  FlattenSeq(s) \in Seq(Nat)
<1>1. CASE Len(s) = 0
  <2>1. FlattenSeq(s) = s /\ s = <<>>
    BY <1>1, FlattenIs
  <2> QED BY <2>1
<1>2. CASE Len(s) # 0
  <2>1. IsFlat(FlatOf(s), s, Len(s))
    BY FlatIs
  <2>2. \A m \in Nat : m + 1 <= Len(s) => FlatOf(s)[m + 1] \in Seq(Nat)
    BY <2>1, FlatStep
  <2>3. Len(s) - 1 \in Nat /\ (Len(s) - 1) + 1 = Len(s)
    BY <1>2
  <2>4. FlatOf(s)[Len(s)] \in Seq(Nat)
    BY <2>2, <2>3
  <2> QED BY <1>2, <2>4, FlattenIs
<1> QED BY <1>1, <1>2

\* cache_key tells requests apart: the fingerprint fixes the ranks, the ranks tell the shapes
\* in the row of dimensions, and the tier ends the key.
LEMMA KeyTells ==
  ASSUME NEW r \in JitRequests, NEW q \in JitRequests, cache_key(r) = cache_key(q)
  PROVE  r = q
<1> DEFINE F == FlattenSeq(r.shapes)
           G == FlattenSeq(q.shapes)
<1>1. /\ r \in [fp : Nat, shapes : Seq(Seq(Nat)), tier : Nat]
      /\ q \in [fp : Nat, shapes : Seq(Seq(Nat)), tier : Nat]
  BY JitServiceAssumption
<1>2. F \in Seq(Nat) /\ G \in Seq(Nat)
  BY <1>1, FlattenType
<1>3. <<r.fp>> \in Seq(Nat) /\ <<q.fp>> \in Seq(Nat) /\ <<r.tier>> \in Seq(Nat) /\ <<q.tier>> \in Seq(Nat)
      /\ Len(<<r.tier>>) = Len(<<q.tier>>)
  BY <1>1
<1>4. <<r.fp>> \o F \in Seq(Nat) /\ <<q.fp>> \o G \in Seq(Nat)
  BY <1>2, <1>3, ConcatProperties
<1>5. (<<r.fp>> \o F) \o <<r.tier>> = (<<q.fp>> \o G) \o <<q.tier>>
  BY DEF cache_key
<1>6. <<r.fp>> \o F = <<q.fp>> \o G /\ <<r.tier>> = <<q.tier>>
  <2> DEFINE x == <<r.fp>> \o F
             y == <<q.fp>> \o G
             u == <<r.tier>>
             v == <<q.tier>>
  <2>1. x \in Seq(Nat) /\ y \in Seq(Nat) /\ u \in Seq(Nat) /\ v \in Seq(Nat) /\ Len(u) = Len(v) /\ x \o u = y \o v
    BY <1>3, <1>4, <1>5
  <2> HIDE DEF x, y, u, v
  <2>2. SameConcat(x, u, y, v)
    BY <2>1 DEF SameConcat
  <2>3. x = y /\ u = v
    BY <2>2, ConcatCancelAll, Zenon
  <2> QED BY <2>3 DEF x, y, u, v
<1>7. Len(F) = Len(G)
  <2>1. Len(<<r.fp>> \o F) = 1 + Len(F) /\ Len(<<q.fp>> \o G) = 1 + Len(G)
    <3> HIDE DEF F, G
    <3> QED BY <1>2, <1>3, ConcatProperties
  <2> HIDE DEF F, G
  <2> QED BY <1>2, <1>6, <2>1
<1>8. <<r.fp>> = <<q.fp>> /\ F = G
  <2> DEFINE u == <<r.fp>>
             v == <<q.fp>>
  <2>1. u \in Seq(Nat) /\ v \in Seq(Nat) /\ F \in Seq(Nat) /\ G \in Seq(Nat) /\ Len(F) = Len(G) /\ u \o F = v \o G
    BY <1>2, <1>3, <1>6, <1>7
  <2> HIDE DEF F, G, u, v
  <2>2. SameConcat(u, F, v, G)
    BY <2>1 DEF SameConcat
  <2>3. u = v /\ F = G
    BY <2>2, ConcatCancelAll, Zenon
  <2> QED BY <2>3 DEF u, v
<1>9. r.fp = q.fp /\ r.tier = q.tier
  BY <1>6, <1>8
<1>10. Len(r.shapes) = Len(q.shapes) /\ \A i \in 1..Len(r.shapes) : Len(r.shapes[i]) = Len(q.shapes[i])
  <2>1. DOMAIN r.shapes = 1..Len(r.shapes)
    BY <1>1
  <2> QED BY <1>9, <2>1, JitServiceAssumption
<1>11. r.shapes = q.shapes
  BY <1>1, <1>8, <1>10, FlattenTells
<1> QED BY <1>1, <1>9, <1>11

-----------------------------------------------------------------------------
(* The kernel cache and its boundary *)

Holding  == {"store", "count", "erase", "uncount", "unlock"}
Admitted == {"admitted", "store"}
JitSteps == {"idle", "compile", "insert", "remove", "stopped", "done", "admitted"} \cup Holding

JitTasks == [at : JitSteps, req : JitRequests \cup {NoRequest}]
JitKeys == {cache_key(r) : r \in JitRequests}

JitTypeOK ==
  /\ IsFiniteSet(DOMAIN jcache) /\ jlen \in Int
  /\ requests \in Seq(JitRequests) /\ asked \in Seq(JitRequests)
  /\ responses \in Seq([kernel_key : JitKeys, failed : BOOLEAN])
  /\ task \in [JitWorkers -> JitTasks]
  /\ \A w \in JitWorkers : task[w].at # "idle" => task[w].req \in JitRequests
  /\ exec.at = "miss" => exec.req \in JitRequests

\* The lock is held by the worker that changes the cache.
LockHeld == \A w \in JitWorkers : task[w].at \in Holding <=> jlock = w

\* The counter is the number of entries, but for the writer between an entry and its count.
CountFollows ==
  /\ CountExact
  /\ \A w \in JitWorkers :
       /\ task[w].at = "count" => jlen = Cardinality(DOMAIN jcache) - 1
       /\ task[w].at = "uncount" => jlen = Cardinality(DOMAIN jcache) + 1

\* Workers that have passed the saturation test and have not stored their entry.
Admits == {w \in JitWorkers : task[w].at \in Admitted}

\* Each of them is good for one entry.
RoomForAdmitted ==
  Cardinality(DOMAIN jcache) + Cardinality(Admits) <= CacheCapacity + Cardinality(Others)

\* An entry lies under the key of the request it was compiled for.
EntriesMatch ==
  \A k \in DOMAIN jcache : jcache[k] \in JitRequests /\ k = cache_key(jcache[k])

\* The accepted requests: answered, at the compiler, still in the ring.
AtCompiler == IF task["compiler"].at = "idle" THEN 0 ELSE 1
AnswersInOrder ==
  /\ Len(asked) = Len(responses) + AtCompiler + Len(requests)
  /\ \A i \in 1..Len(responses) : responses[i].kernel_key = cache_key(asked[i])
  /\ AtCompiler = 1 => asked[Len(responses) + 1] = task["compiler"].req
  /\ \A i \in 1..Len(requests) : requests[i] = asked[Len(responses) + AtCompiler + i]

CacheInv == LockHeld /\ CountFollows /\ RoomForAdmitted
JitInv == JitTypeOK /\ CacheInv /\ EntriesMatch /\ AnswersInOrder /\ ServedWhatWasAsked

\* Worker w goes on to x.
Stepped(w, x) == task' = [task EXCEPT ![w] = x]

\* The workers are the others and the compiler.
LEMMA WorkersFinite ==
  /\ IsFiniteSet(JitWorkers) /\ Cardinality(JitWorkers) = Cardinality(Others) + 1
  /\ Cardinality(Others) \in Nat /\ "none" \notin JitWorkers /\ "compiler" \in JitWorkers
<1>1. IsFiniteSet(Others) /\ "compiler" \notin Others /\ "none" \notin Others
  BY JitServiceAssumption
<1> QED BY <1>1, FS_AddElement, FS_CardinalityType DEF JitWorkers

\* One worker's step leaves the others alone.
LEMMA SteppedTask ==
  ASSUME JitTypeOK, NEW w \in JitWorkers, NEW x \in JitTasks, Stepped(w, x)
  PROVE  /\ task' \in [JitWorkers -> JitTasks] /\ task'[w] = x
         /\ \A v \in JitWorkers : v # w => task'[v] = task[v]
BY DEF JitTypeOK, Stepped

\* The workers with an admitted entry, before and after.
LEMMA AdmitsAfter ==
  ASSUME JitTypeOK, NEW w \in JitWorkers, NEW x \in JitTasks, Stepped(w, x)
  PROVE  /\ x.at \in Admitted => Admits' = Admits \cup {w}
         /\ x.at \notin Admitted => Admits' = Admits \ {w}
         /\ IsFiniteSet(Admits) /\ Cardinality(Admits) \in Nat /\ Admits \subseteq JitWorkers
         /\ Cardinality(DOMAIN jcache) \in Nat
<1>1. Admits \subseteq JitWorkers
  BY DEF Admits
<1>2. task'[w] = x /\ \A v \in JitWorkers : v # w => task'[v] = task[v]
  BY SteppedTask
<1>3. IsFiniteSet(Admits)
  BY <1>1, WorkersFinite, FS_Subset
<1>4. IsFiniteSet(DOMAIN jcache)
  BY DEF JitTypeOK
<1>5. x.at \in Admitted => Admits' = Admits \cup {w}
  BY <1>2 DEF Admits
<1>6. x.at \notin Admitted => Admits' = Admits \ {w}
  BY <1>2 DEF Admits
<1> QED BY <1>1, <1>3, <1>4, <1>5, <1>6, FS_CardinalityType

\* A step that is neither inside the lock nor past the test.
LEMMA CacheQuiet ==
  ASSUME JitTypeOK, CacheInv, NEW w \in JitWorkers, NEW x \in JitTasks, Stepped(w, x),
         task[w].at \notin Holding, task[w].at \notin Admitted,
         x.at \notin Holding, x.at \notin Admitted, UNCHANGED cache_vars
  PROVE  CacheInv'
<1>1. task'[w] = x /\ \A v \in JitWorkers : v # w => task'[v] = task[v]
  BY SteppedTask
<1>2. jlock' = jlock /\ jlen' = jlen /\ jcache' = jcache
  BY DEF cache_vars
<1>3. Admits' = Admits
  <2>1. w \notin Admits
    BY DEF Admits
  <2> QED BY <2>1, AdmitsAfter
<1>4. LockHeld'
  BY <1>1, <1>2 DEF CacheInv, LockHeld
<1>5. CountFollows'
  BY <1>1, <1>2 DEF CacheInv, CountFollows, CountExact, Holding
<1>6. RoomForAdmitted'
  BY <1>2, <1>3 DEF CacheInv, RoomForAdmitted
<1> QED BY <1>4, <1>5, <1>6 DEF CacheInv

\* A worker that passes the test read a counter below the capacity.
LEMMA CacheAdmit ==
  ASSUME JitTypeOK, CacheInv, NEW w \in JitWorkers, NEW x \in JitTasks, Stepped(w, x),
         task[w].at = "insert", x.at = "admitted", jlen < CacheCapacity, UNCHANGED cache_vars
  PROVE  CacheInv'
<1>1. task'[w] = x /\ \A v \in JitWorkers : v # w => task'[v] = task[v]
  BY SteppedTask
<1>2. jlock' = jlock /\ jlen' = jlen /\ jcache' = jcache
  BY DEF cache_vars
<1>3. LockHeld'
  BY <1>1, <1>2 DEF CacheInv, LockHeld, Holding
<1>4. CountFollows'
  BY <1>1, <1>2 DEF CacheInv, CountFollows, CountExact, Holding
<1>5. RoomForAdmitted'
  <2> DEFINE n == Cardinality(DOMAIN jcache)
  <2>1. Admits' = Admits \cup {w} /\ n \in Nat /\ Admits \subseteq JitWorkers
    BY AdmitsAfter DEF Admitted
  <2>2. jlen \in Int /\ CacheCapacity \in Nat
    BY JitServiceAssumption DEF JitTypeOK
  <2>3. CASE \E h \in JitWorkers : task[h].at = "count"
    <3>1. PICK h \in JitWorkers : task[h].at = "count"
      BY <2>3
    <3>2. n = jlen + 1
      BY <2>1, <2>2, <3>1 DEF CacheInv, CountFollows
    <3>3. Admits \cup {w} \subseteq JitWorkers \ {h}
      BY <2>1, <3>1 DEF Admits, Admitted
    <3>4. IsFiniteSet(JitWorkers \ {h}) /\ Cardinality(JitWorkers \ {h}) = Cardinality(Others)
      <4>1. IsFiniteSet(JitWorkers) /\ Cardinality(JitWorkers) = Cardinality(Others) + 1 /\ Cardinality(Others) \in Nat
        BY WorkersFinite
      <4>2. IsFiniteSet(JitWorkers \ {h}) /\ Cardinality(JitWorkers \ {h}) = Cardinality(JitWorkers) - 1
        BY <4>1, FS_RemoveElement
      <4> QED BY <4>1, <4>2
    <3>5. Cardinality(Admits \cup {w}) <= Cardinality(Others) /\ Cardinality(Admits \cup {w}) \in Nat
      BY <3>3, <3>4, FS_Subset, FS_CardinalityType
    <3>6. Cardinality(Others) \in Nat
      BY WorkersFinite
    <3>7. n + Cardinality(Admits \cup {w}) <= CacheCapacity + Cardinality(Others)
      <4> HIDE DEF n
      <4> QED BY <2>1, <2>2, <3>2, <3>5, <3>6
    <3> QED BY <1>2, <2>1, <3>7 DEF RoomForAdmitted
  <2>4. CASE ~\E h \in JitWorkers : task[h].at = "count"
    <3>1. n <= jlen
      <4>1. CASE \E h \in JitWorkers : task[h].at = "uncount"
        BY <4>1, <2>1, <2>2 DEF CacheInv, CountFollows
      <4>2. CASE ~\E h \in JitWorkers : task[h].at = "uncount"
        BY <4>2, <2>4, <2>1, <2>2 DEF CacheInv, CountFollows, CountExact
      <4> QED BY <4>1, <4>2
    <3>2. Admits \cup {w} \subseteq JitWorkers
      BY <2>1
    <3>3. Cardinality(Admits \cup {w}) <= Cardinality(Others) + 1 /\ Cardinality(Admits \cup {w}) \in Nat
      BY <3>2, WorkersFinite, FS_Subset, FS_CardinalityType
    <3>4. n + Cardinality(Admits \cup {w}) <= CacheCapacity + Cardinality(Others)
      <4> HIDE DEF n
      <4> QED BY <2>1, <2>2, <3>1, <3>3, WorkersFinite
    <3> QED BY <1>2, <2>1, <3>4 DEF RoomForAdmitted
  <2> QED BY <2>3, <2>4
<1> QED BY <1>3, <1>4, <1>5 DEF CacheInv

\* A worker that finds the lock taken gives its admission back.
LEMMA CacheWithdraw ==
  ASSUME JitTypeOK, CacheInv, NEW w \in JitWorkers, NEW x \in JitTasks, Stepped(w, x),
         task[w].at = "admitted", x.at \in {"stopped", "insert"}, UNCHANGED cache_vars
  PROVE  CacheInv'
<1>1. task'[w] = x /\ \A v \in JitWorkers : v # w => task'[v] = task[v]
  BY SteppedTask
<1>2. jlock' = jlock /\ jlen' = jlen /\ jcache' = jcache
  BY DEF cache_vars
<1>3. LockHeld'
  BY <1>1, <1>2 DEF CacheInv, LockHeld, Holding
<1>4. CountFollows'
  BY <1>1, <1>2 DEF CacheInv, CountFollows, CountExact
<1>5. RoomForAdmitted'
  <2>1. /\ Admits' = Admits \ {w} /\ IsFiniteSet(Admits) /\ Cardinality(Admits) \in Nat
        /\ Cardinality(DOMAIN jcache) \in Nat
    BY AdmitsAfter DEF Admitted
  <2>2. Cardinality(Admits') <= Cardinality(Admits) /\ Cardinality(Admits') \in Nat
    BY <2>1, FS_Subset, FS_CardinalityType
  <2>3. CacheCapacity \in Nat /\ Cardinality(Others) \in Nat
    BY WorkersFinite, JitServiceAssumption
  <2>4. Cardinality(DOMAIN jcache) + Cardinality(Admits) <= CacheCapacity + Cardinality(Others)
    BY DEF CacheInv, RoomForAdmitted
  <2>5. Cardinality(DOMAIN jcache) + Cardinality(Admits') <= CacheCapacity + Cardinality(Others)
    BY <2>1, <2>2, <2>3, <2>4
  <2> QED BY <1>2, <2>5 DEF RoomForAdmitted
<1> QED BY <1>3, <1>4, <1>5 DEF CacheInv

\* Taking the lock changes neither entries nor counter.
LEMMA CacheLock ==
  ASSUME JitTypeOK, CacheInv, NEW w \in JitWorkers, NEW x \in JitTasks, Stepped(w, x),
         \/ task[w].at = "admitted" /\ x.at = "store"
         \/ task[w].at = "remove" /\ x.at = "erase",
         jlock = "none", jlock' = w, UNCHANGED <<jcache, jlen>>
  PROVE  CacheInv'
<1>1. task'[w] = x /\ \A v \in JitWorkers : v # w => task'[v] = task[v]
  BY SteppedTask
<1>2. \A v \in JitWorkers : task[v].at \notin Holding
  BY WorkersFinite DEF CacheInv, LockHeld
<1>3. LockHeld'
  BY <1>1, <1>2 DEF LockHeld, Holding
<1>4. CountFollows'
  BY <1>1, <1>2 DEF CacheInv, CountFollows, CountExact, Holding
<1>5. Admits' = Admits
  BY AdmitsAfter DEF Admits, Admitted
<1> QED BY <1>3, <1>4, <1>5 DEF CacheInv, RoomForAdmitted

\* The lock holder is the only worker inside the lock.
LEMMA OneHolder ==
  ASSUME CacheInv, NEW w \in JitWorkers, task[w].at \in Holding
  PROVE  jlock = w /\ \A v \in JitWorkers : v # w => task[v].at \notin Holding
BY DEF CacheInv, LockHeld

\* An entry is stored; a new one is counted later.
LEMMA CacheStore ==
  ASSUME JitTypeOK, CacheInv, NEW w \in JitWorkers, NEW x \in JitTasks, Stepped(w, x),
         task[w].at = "store", NEW k, DOMAIN jcache' = DOMAIN jcache \cup {k},
         x.at = IF k \in DOMAIN jcache THEN "unlock" ELSE "count", UNCHANGED <<jlen, jlock>>
  PROVE  CacheInv'
<1>1. task'[w] = x /\ \A v \in JitWorkers : v # w => task'[v] = task[v]
  BY SteppedTask
<1>2. jlock = w /\ \A v \in JitWorkers : v # w => task[v].at \notin Holding
  BY OneHolder DEF Holding
<1>3. LockHeld'
  BY <1>1, <1>2 DEF LockHeld, Holding
<1>4. IsFiniteSet(DOMAIN jcache)
  BY DEF JitTypeOK
<1>5. Cardinality(DOMAIN jcache') = IF k \in DOMAIN jcache THEN Cardinality(DOMAIN jcache)
                                    ELSE Cardinality(DOMAIN jcache) + 1
  BY <1>4, FS_AddElement
<1>6. jlen = Cardinality(DOMAIN jcache)
  BY <1>2 DEF CacheInv, CountFollows, CountExact, Holding
<1>7. Cardinality(DOMAIN jcache) \in Nat
  BY <1>4, FS_CardinalityType
<1>8. CountFollows'
  BY <1>1, <1>2, <1>5, <1>6, <1>7 DEF CountFollows, CountExact, Holding
<1>9. RoomForAdmitted'
  <2>1. w \in Admits /\ Admits' = Admits \ {w} /\ IsFiniteSet(Admits) /\ Cardinality(Admits) \in Nat
    <3>1. x.at \notin Admitted
      BY DEF Admitted
    <3> QED BY <3>1, AdmitsAfter DEF Admits, Admitted
  <2>2. Cardinality(Admits') = Cardinality(Admits) - 1
    BY <2>1, FS_RemoveElement
  <2> QED BY <1>5, <1>7, <2>1, <2>2, WorkersFinite, JitServiceAssumption DEF CacheInv, RoomForAdmitted
<1> QED BY <1>3, <1>8, <1>9 DEF CacheInv

\* An entry is erased; one that was there is taken off the counter later.
LEMMA CacheErase ==
  ASSUME JitTypeOK, CacheInv, NEW w \in JitWorkers, NEW x \in JitTasks, Stepped(w, x),
         task[w].at = "erase", NEW k, DOMAIN jcache' = DOMAIN jcache \ {k},
         x.at = IF k \in DOMAIN jcache THEN "uncount" ELSE "unlock", UNCHANGED <<jlen, jlock>>
  PROVE  CacheInv'
<1>1. task'[w] = x /\ \A v \in JitWorkers : v # w => task'[v] = task[v]
  BY SteppedTask
<1>2. jlock = w /\ \A v \in JitWorkers : v # w => task[v].at \notin Holding
  BY OneHolder DEF Holding
<1>3. LockHeld'
  BY <1>1, <1>2 DEF LockHeld, Holding
<1>4. IsFiniteSet(DOMAIN jcache)
  BY DEF JitTypeOK
<1>5. Cardinality(DOMAIN jcache') = IF k \in DOMAIN jcache THEN Cardinality(DOMAIN jcache) - 1
                                    ELSE Cardinality(DOMAIN jcache)
  BY <1>4, FS_RemoveElement
<1>6. jlen = Cardinality(DOMAIN jcache)
  BY <1>2 DEF CacheInv, CountFollows, CountExact, Holding
<1>7. Cardinality(DOMAIN jcache) \in Nat
  BY <1>4, FS_CardinalityType
<1>8. CountFollows'
  <2>1. CASE k \in DOMAIN jcache
    <3>1. task'[w].at = "uncount" /\ jlen' = Cardinality(DOMAIN jcache') + 1
      BY <2>1, <1>1, <1>5, <1>6, <1>7
    <3> QED BY <3>1, <1>1, <1>2 DEF CountFollows, CountExact, Holding
  <2>2. CASE k \notin DOMAIN jcache
    <3>1. task'[w].at = "unlock" /\ jlen' = Cardinality(DOMAIN jcache')
      BY <2>2, <1>1, <1>5, <1>6, <1>7
    <3> QED BY <3>1, <1>1, <1>2 DEF CountFollows, CountExact, Holding
  <2> QED BY <2>1, <2>2
<1>9. RoomForAdmitted'
  <2>1. Admits' = Admits /\ Cardinality(Admits) \in Nat
    <3>1. x.at \notin Admitted /\ w \notin Admits
      BY DEF Admits, Admitted
    <3> QED BY <3>1, AdmitsAfter
  <2> QED BY <1>5, <1>7, <2>1, WorkersFinite, JitServiceAssumption DEF CacheInv, RoomForAdmitted
<1> QED BY <1>3, <1>8, <1>9 DEF CacheInv

\* The counter catches up, or the lock is given back.
LEMMA CacheCounted ==
  ASSUME JitTypeOK, CacheInv, NEW w \in JitWorkers, NEW x \in JitTasks, Stepped(w, x),
         UNCHANGED jcache,
         \/ task[w].at = "count" /\ x.at = "unlock" /\ jlen' = jlen + 1 /\ UNCHANGED jlock
         \/ task[w].at = "uncount" /\ x.at = "unlock" /\ jlen' = jlen - 1 /\ UNCHANGED jlock
         \/ task[w].at = "unlock" /\ x.at \in {"done", "idle"} /\ jlock' = "none" /\ UNCHANGED jlen
  PROVE  CacheInv'
<1>1. task'[w] = x /\ \A v \in JitWorkers : v # w => task'[v] = task[v]
  BY SteppedTask
<1>2. jlock = w /\ \A v \in JitWorkers : v # w => task[v].at \notin Holding
  BY OneHolder DEF Holding
<1>3. LockHeld'
  BY <1>1, <1>2, WorkersFinite DEF LockHeld, Holding
<1>4. IsFiniteSet(DOMAIN jcache) /\ jlen \in Int
  BY DEF JitTypeOK
<1>5. Cardinality(DOMAIN jcache) \in Nat
  BY <1>4, FS_CardinalityType
<1>6. jlen' = Cardinality(DOMAIN jcache)
  BY <1>2, <1>4, <1>5 DEF CacheInv, CountFollows, CountExact, Holding
<1>7. CountFollows'
  BY <1>1, <1>2, <1>6 DEF CountFollows, CountExact, Holding
<1>8. RoomForAdmitted'
  <2>1. x.at \notin Admitted /\ w \notin Admits
    BY DEF Admits, Admitted
  <2> QED BY <2>1, AdmitsAfter DEF CacheInv, RoomForAdmitted
<1> QED BY <1>3, <1>7, <1>8 DEF CacheInv

\* A worker that keeps its request and leaves the rings alone.
LEMMA WorkerMove ==
  ASSUME JitInv, NEW w \in JitWorkers, NEW x \in JitTasks, Stepped(w, x),
         UNCHANGED <<boundary_vars, exec, served>>,
         x.at # "idle" => x.req \in JitRequests,
         w = "compiler" => task[w].at # "idle" /\ x.at # "idle" /\ x.req = task[w].req,
         IsFiniteSet(DOMAIN jcache'), jlen' \in Int, CacheInv', EntriesMatch'
  PROVE  JitInv'
<1>1. task' \in [JitWorkers -> JitTasks] /\ task'[w] = x /\ \A v \in JitWorkers : v # w => task'[v] = task[v]
  BY SteppedTask DEF JitInv
<1>2. \A v \in JitWorkers : task'[v].at # "idle" => task'[v].req \in JitRequests
  BY <1>1 DEF JitInv, JitTypeOK
<1>3. UNCHANGED <<requests, responses, asked, exec, served>>
  BY DEF boundary_vars
<1>4. JitTypeOK'
  BY <1>1, <1>2, <1>3 DEF JitInv, JitTypeOK
<1>5. AnswersInOrder'
  <2>1. AtCompiler' = AtCompiler
    BY <1>1, WorkersFinite DEF AtCompiler
  <2>2. AtCompiler = 1 => task'["compiler"].req = task["compiler"].req
    BY <1>1, WorkersFinite DEF AtCompiler
  <2> QED BY <1>3, <2>1, <2>2 DEF JitInv, AnswersInOrder
<1> QED BY <1>3, <1>4, <1>5 DEF JitInv, ServedWhatWasAsked

\* Worker w is at a next, with its request.
MovedAt(w, a) == task' = [task EXCEPT ![w].at = a]
KeepsRequest(w, a) ==
  \E x \in JitTasks : Stepped(w, x) /\ x.at = a /\ x.req = task[w].req /\ x.req \in JitRequests

\* Moving on in the same task.
LEMMA MovesTo ==
  ASSUME JitTypeOK, NEW w \in JitWorkers, NEW a \in JitSteps, MovedAt(w, a), task[w].at # "idle"
  PROVE  KeepsRequest(w, a)
<1> DEFINE x == [at |-> a, req |-> task[w].req]
<1>1. task[w] \in JitTasks /\ task \in [JitWorkers -> JitTasks] /\ task[w].req \in JitRequests
  BY DEF JitTypeOK
<1>2. task[w] = [at |-> task[w].at, req |-> task[w].req] /\ x \in JitTasks
  BY <1>1 DEF JitTasks
<1>3. [task[w] EXCEPT !.at = a] = x
  BY <1>2
<1>4. Stepped(w, x)
  BY <1>1, <1>3 DEF Stepped, MovedAt
<1> QED BY <1>1, <1>2, <1>4 DEF KeepsRequest

\* The end of an operation.
LEMMA SettlesTo ==
  ASSUME JitTypeOK, NEW w \in JitWorkers, NEW a \in JitSteps \ {"idle"}, Settle(w, a), task[w].at # "idle"
  PROVE  \E x \in JitTasks :
           /\ Stepped(w, x) /\ x.at \in {a, "idle"} /\ (x.at # "idle" => x.req \in JitRequests)
           /\ w = "compiler" => x.at # "idle" /\ x.req = task[w].req
<1>1. CASE w = "compiler"
  <2> DEFINE x == [at |-> a, req |-> task[w].req]
  <2>1. task[w] \in JitTasks /\ task \in [JitWorkers -> JitTasks] /\ task[w].req \in JitRequests
    BY DEF JitTypeOK
  <2>2. task[w] = [at |-> task[w].at, req |-> task[w].req] /\ x \in JitTasks
    BY <2>1 DEF JitTasks
  <2>3. [task[w] EXCEPT !.at = a] = x
    BY <2>2
  <2>4. Stepped(w, x)
    BY <1>1, <2>1, <2>3 DEF Stepped, Settle
  <2> QED BY <1>1, <2>1, <2>2, <2>4
<1>2. CASE w # "compiler"
  <2>1. Stepped(w, NoTask) /\ NoTask.at = "idle" /\ NoTask \in JitTasks
    BY <1>2 DEF Settle, Stepped, NoTask, JitTasks, JitSteps
  <2> QED BY <1>2, <2>1
<1> QED BY <1>1, <1>2

\* Compilation, refusal and admission.
LEMMA JitOutside ==
  ASSUME JitInv, NEW w \in JitWorkers,
         \/ w = "compiler" /\ CompileRequest
         \/ InsertRefused(w) \/ InsertAdmitted(w) \/ InsertBusy(w)
  PROVE  JitInv'
<1>1. /\ UNCHANGED <<cache_vars, boundary_vars, exec, served>>
      /\ task[w].at \in {"compile", "insert", "admitted"}
  BY DEF CompileRequest, InsertRefused, InsertAdmitted, InsertBusy
<1>2. UNCHANGED <<jcache, jlen, jlock>>
  BY <1>1 DEF cache_vars
<1>3. IsFiniteSet(DOMAIN jcache') /\ jlen' \in Int /\ EntriesMatch'
  BY <1>2 DEF JitInv, JitTypeOK, EntriesMatch
<1>4. JitTypeOK /\ CacheInv
  BY DEF JitInv
<1>5. CASE w = "compiler" /\ CompileRequest
  <2>0. task[w].at = "compile"
    BY <1>5 DEF CompileRequest
  <2>1. PICK a \in {"insert", "stopped"} : task' = [task EXCEPT ![w].at = a]
    BY <1>5 DEF CompileRequest
  <2>2. PICK x \in JitTasks : Stepped(w, x) /\ x.at = a /\ x.req = task[w].req /\ x.req \in JitRequests
    <3>1. a \in JitSteps /\ task[w].at # "idle"
      BY <1>1, <2>1 DEF JitSteps
    <3>2. JitTypeOK /\ MovedAt(w, a)
      BY <1>4, <2>1 DEF MovedAt
    <3>3. KeepsRequest(w, a)
      BY <3>1, <3>2, MovesTo, Zenon
    <3> QED BY <3>3 DEF KeepsRequest
  <2>3. CacheInv'
    BY <1>1, <1>4, <2>0, <2>1, <2>2, CacheQuiet DEF Holding, Admitted
  <2> QED BY <1>1, <1>3, <2>1, <2>2, <2>3, WorkerMove
<1>6. CASE InsertRefused(w)
  <2>0. task[w].at = "insert"
    BY <1>6 DEF InsertRefused
  <2>1. PICK x \in JitTasks :
           /\ Stepped(w, x) /\ x.at \in {"stopped", "idle"} /\ (x.at # "idle" => x.req \in JitRequests)
           /\ w = "compiler" => x.at # "idle" /\ x.req = task[w].req
    <3>1. Settle(w, "stopped") /\ "stopped" \in JitSteps \ {"idle"}
      BY <1>6 DEF InsertRefused, JitSteps
    <3> QED BY <1>1, <1>4, <3>1, SettlesTo
  <2>2. CacheInv'
    BY <1>1, <1>4, <2>0, <2>1, CacheQuiet DEF Holding, Admitted
  <2> QED BY <1>1, <1>3, <2>1, <2>2, WorkerMove
<1>7. CASE InsertAdmitted(w)
  <2>1. PICK x \in JitTasks : Stepped(w, x) /\ x.at = "admitted" /\ x.req = task[w].req /\ x.req \in JitRequests
    <3>1. MovedAt(w, "admitted") /\ "admitted" \in JitSteps
      BY <1>7 DEF InsertAdmitted, JitSteps, MovedAt
    <3>2. task[w].at # "idle"
      BY <1>1
    <3>3. KeepsRequest(w, "admitted")
      BY <1>4, <3>1, <3>2, MovesTo, Zenon
    <3> QED BY <3>3 DEF KeepsRequest
  <2>2. jlen < CacheCapacity /\ task[w].at = "insert"
    BY <1>7, JitServiceAssumption DEF InsertAdmitted, Saturated, JitInv, JitTypeOK
  <2>3. CacheInv'
    BY <1>1, <1>4, <2>1, <2>2, CacheAdmit
  <2> QED BY <1>1, <1>3, <2>1, <2>2, <2>3, WorkerMove
<1>8. CASE InsertBusy(w)
  <2>1. PICK a \in {"stopped", "insert"} : task' = [task EXCEPT ![w].at = a]
    BY <1>8 DEF InsertBusy
  <2>2. PICK x \in JitTasks : Stepped(w, x) /\ x.at = a /\ x.req = task[w].req /\ x.req \in JitRequests
    <3>1. a \in JitSteps /\ task[w].at # "idle"
      BY <1>1, <2>1 DEF JitSteps
    <3>2. JitTypeOK /\ MovedAt(w, a)
      BY <1>4, <2>1 DEF MovedAt
    <3>3. KeepsRequest(w, a)
      BY <3>1, <3>2, MovesTo, Zenon
    <3> QED BY <3>3 DEF KeepsRequest
  <2>3. task[w].at = "admitted"
    BY <1>8 DEF InsertBusy
  <2>4. CacheInv'
    BY <1>1, <1>4, <2>1, <2>2, <2>3, CacheWithdraw
  <2> QED BY <1>1, <1>3, <2>1, <2>2, <2>4, WorkerMove
<1> QED BY <1>5, <1>6, <1>7, <1>8

\* The lock is taken, the counter moved, the lock given back.
LEMMA JitInside ==
  ASSUME JitInv, NEW w \in JitWorkers,
         LockInsert(w) \/ LockRemove(w) \/ CountEntry(w) \/ UncountEntry(w) \/ Unlock(w)
  PROVE  JitInv'
<1>1. UNCHANGED <<jcache, boundary_vars, exec, served>> /\ task[w].at # "idle"
  BY DEF LockInsert, LockRemove, TryLock, CountEntry, UncountEntry, Unlock
<1>2. jlen \in Int /\ jlen' \in Int
  BY DEF LockInsert, LockRemove, TryLock, CountEntry, UncountEntry, Unlock, JitInv, JitTypeOK
<1>3. IsFiniteSet(DOMAIN jcache') /\ EntriesMatch'
  BY <1>1 DEF JitInv, JitTypeOK, EntriesMatch
<1>4. JitTypeOK /\ CacheInv
  BY DEF JitInv
<1>5. CASE LockInsert(w) \/ LockRemove(w)
  <2>1. PICK a \in {"store", "erase"} :
           /\ task' = [task EXCEPT ![w].at = a] /\ jlock = "none" /\ jlock' = w /\ jlen' = jlen
           /\ \/ task[w].at = "admitted" /\ a = "store"
              \/ task[w].at = "remove" /\ a = "erase"
    BY <1>5 DEF LockInsert, LockRemove, TryLock
  <2>2. PICK x \in JitTasks : Stepped(w, x) /\ x.at = a /\ x.req = task[w].req /\ x.req \in JitRequests
    <3>1. a \in JitSteps /\ task[w].at # "idle"
      BY <1>1, <2>1 DEF JitSteps, Holding
    <3>2. JitTypeOK /\ MovedAt(w, a)
      BY <1>4, <2>1 DEF MovedAt
    <3>3. KeepsRequest(w, a)
      BY <3>1, <3>2, MovesTo, Zenon
    <3> QED BY <3>3 DEF KeepsRequest
  <2>3. CacheInv'
    BY <1>1, <1>4, <2>1, <2>2, CacheLock
  <2> QED BY <1>1, <1>2, <1>3, <2>1, <2>2, <2>3, WorkerMove
<1>6. CASE CountEntry(w) \/ UncountEntry(w)
  <2>1. /\ task' = [task EXCEPT ![w].at = "unlock"] /\ jlock' = jlock
        /\ \/ task[w].at = "count" /\ jlen' = jlen + 1
           \/ task[w].at = "uncount" /\ jlen' = jlen - 1
    BY <1>6 DEF CountEntry, UncountEntry
  <2>2. PICK x \in JitTasks : Stepped(w, x) /\ x.at = "unlock" /\ x.req = task[w].req /\ x.req \in JitRequests
    <3>1. "unlock" \in JitSteps /\ task[w].at # "idle"
      BY <1>1, <2>1 DEF JitSteps, Holding
    <3>2. JitTypeOK /\ MovedAt(w, "unlock")
      BY <1>4, <2>1 DEF MovedAt
    <3>3. KeepsRequest(w, "unlock")
      BY <3>1, <3>2, MovesTo, Zenon
    <3> QED BY <3>3 DEF KeepsRequest
  <2>3. CacheInv'
    BY <1>1, <1>4, <2>1, <2>2, CacheCounted
  <2> QED BY <1>1, <1>2, <1>3, <2>1, <2>2, <2>3, WorkerMove
<1>7. CASE Unlock(w)
  <2>1. PICK x \in JitTasks :
           /\ Stepped(w, x) /\ x.at \in {"done", "idle"} /\ (x.at # "idle" => x.req \in JitRequests)
           /\ w = "compiler" => x.at # "idle" /\ x.req = task[w].req
    <3>1. Settle(w, "done") /\ "done" \in JitSteps \ {"idle"}
      BY <1>7 DEF Unlock, JitSteps
    <3> QED BY <1>1, <1>4, <3>1, SettlesTo
  <2>2. task[w].at = "unlock" /\ jlock' = "none" /\ jlen' = jlen
    BY <1>7 DEF Unlock
  <2>3. CacheInv'
    BY <1>1, <1>4, <2>1, <2>2, CacheCounted
  <2> QED BY <1>1, <1>2, <1>3, <2>1, <2>2, <2>3, WorkerMove
<1> QED BY <1>5, <1>6, <1>7

\* An entry is stored under the key of its request, or erased.
LEMMA JitEntry ==
  ASSUME JitInv, NEW w \in JitWorkers, StoreEntry(w) \/ EraseEntry(w)
  PROVE  JitInv'
<1> DEFINE k == cache_key(task[w].req)
<1>1. UNCHANGED <<jlen, jlock, boundary_vars, exec, served>> /\ task[w].at # "idle"
  BY DEF StoreEntry, EraseEntry
<1>2. jlen' \in Int /\ IsFiniteSet(DOMAIN jcache)
  BY <1>1 DEF JitInv, JitTypeOK
<1>3. JitTypeOK /\ CacheInv
  BY DEF JitInv
<1>4. task[w].req \in JitRequests
  BY <1>1 DEF JitInv, JitTypeOK
<1>5. CASE StoreEntry(w)
  <2>1. jcache' = [y \in DOMAIN jcache \cup {k} |-> IF y = k THEN task[w].req ELSE jcache[y]]
    BY <1>5 DEF StoreEntry
  <2>2. PICK a \in {"unlock", "count"} : a = (IF k \in DOMAIN jcache THEN "unlock" ELSE "count")
                                         /\ task' = [task EXCEPT ![w].at = a]
    BY <1>5 DEF StoreEntry
  <2>3. task[w].at = "store"
    BY <1>5 DEF StoreEntry
  <2>4. PICK x \in JitTasks : Stepped(w, x) /\ x.at = a /\ x.req = task[w].req /\ x.req \in JitRequests
    <3>1. a \in JitSteps /\ task[w].at # "idle"
      BY <1>1, <2>2 DEF JitSteps, Holding
    <3>2. JitTypeOK /\ MovedAt(w, a)
      BY <1>3, <2>2 DEF MovedAt
    <3>3. KeepsRequest(w, a)
      BY <3>1, <3>2, MovesTo, Zenon
    <3> QED BY <3>3 DEF KeepsRequest
  <2>5. EntriesMatch'
    BY <1>4, <2>1 DEF JitInv, EntriesMatch
  <2> HIDE DEF k
  <2>6. DOMAIN jcache' = DOMAIN jcache \cup {k}
    BY <2>1
  <2>7. IsFiniteSet(DOMAIN jcache')
    BY <1>2, <2>6, FS_AddElement
  <2>8. CacheInv'
    BY <1>1, <1>3, <2>2, <2>3, <2>4, <2>6, CacheStore
  <2> QED BY <1>1, <1>2, <2>2, <2>4, <2>5, <2>7, <2>8, WorkerMove
<1>6. CASE EraseEntry(w)
  <2>1. jcache' = [y \in DOMAIN jcache \ {k} |-> jcache[y]]
    BY <1>6 DEF EraseEntry
  <2>2. PICK a \in {"uncount", "unlock"} : a = (IF k \in DOMAIN jcache THEN "uncount" ELSE "unlock")
                                         /\ task' = [task EXCEPT ![w].at = a]
    BY <1>6 DEF EraseEntry
  <2>3. task[w].at = "erase"
    BY <1>6 DEF EraseEntry
  <2>4. PICK x \in JitTasks : Stepped(w, x) /\ x.at = a /\ x.req = task[w].req /\ x.req \in JitRequests
    <3>1. a \in JitSteps /\ task[w].at # "idle"
      BY <1>1, <2>2 DEF JitSteps, Holding
    <3>2. JitTypeOK /\ MovedAt(w, a)
      BY <1>3, <2>2 DEF MovedAt
    <3>3. KeepsRequest(w, a)
      BY <3>1, <3>2, MovesTo, Zenon
    <3> QED BY <3>3 DEF KeepsRequest
  <2>5. EntriesMatch'
    BY <2>1 DEF JitInv, EntriesMatch
  <2> HIDE DEF k
  <2>6. DOMAIN jcache' = DOMAIN jcache \ {k}
    BY <2>1
  <2>7. IsFiniteSet(DOMAIN jcache')
    BY <1>2, <2>6, FS_RemoveElement
  <2>8. CacheInv'
    BY <1>1, <1>3, <2>2, <2>3, <2>4, <2>6, CacheErase
  <2> QED BY <1>1, <1>2, <2>2, <2>4, <2>5, <2>7, <2>8, WorkerMove
<1> QED BY <1>5, <1>6

\* Another worker takes up an operation.
LEMMA JitOther ==
  ASSUME JitInv, NEW w \in Others, NEW op \in {"insert", "remove"}, NEW r \in JitRequests,
         OtherOperation(w, op, r)
  PROVE  JitInv'
<1> DEFINE x == [at |-> op, req |-> r]
<1>1. w \in JitWorkers /\ w # "compiler" /\ x \in JitTasks /\ Stepped(w, x) /\ x.at = op /\ x.req = r
  BY JitServiceAssumption DEF OtherOperation, JitWorkers, JitTasks, JitSteps, Stepped
<1>2. UNCHANGED <<cache_vars, boundary_vars, exec, served>> /\ task[w].at = "idle"
  BY DEF OtherOperation
<1>3. IsFiniteSet(DOMAIN jcache') /\ jlen' \in Int /\ EntriesMatch'
  BY <1>2 DEF JitInv, JitTypeOK, EntriesMatch, cache_vars
<1> HIDE DEF x
<1>4. JitTypeOK /\ CacheInv
  BY DEF JitInv
<1>5. CacheInv'
  BY <1>1, <1>2, <1>4, CacheQuiet DEF Holding, Admitted
<1> QED BY <1>1, <1>2, <1>3, <1>5, WorkerMove

\* The compiler takes the oldest request.
LEMMA JitPopRequest ==
  ASSUME JitInv, PopRequest
  PROVE  JitInv'
<1> DEFINE x == [at |-> "compile", req |-> Head(requests)]
<1>1. requests \in Seq(JitRequests) /\ requests # <<>> /\ asked \in Seq(JitRequests)
      /\ responses \in Seq([kernel_key : JitKeys, failed : BOOLEAN])
  BY DEF PopRequest, JitInv, JitTypeOK
<1>2. Head(requests) = requests[1] /\ requests[1] \in JitRequests /\ Len(requests) \in Nat \ {0}
  BY <1>1
<1>3. requests' = Tail(requests) /\ requests' \in Seq(JitRequests) /\ Len(requests') = Len(requests) - 1
      /\ \A i \in 1..Len(requests') : requests'[i] = requests[i + 1]
  BY <1>1 DEF PopRequest
<1>4. UNCHANGED <<cache_vars, responses, asked, exec, served>> /\ task["compiler"].at = "idle"
  BY DEF PopRequest
<1>5. "compiler" \in JitWorkers /\ x \in JitTasks /\ Stepped("compiler", x) /\ x.at = "compile" /\ x.req = requests[1]
  BY <1>2, WorkersFinite DEF PopRequest, JitTasks, JitSteps, Stepped
<1> HIDE DEF x
<1>6. JitTypeOK /\ CacheInv
  BY DEF JitInv
<1>7. CacheInv'
  BY <1>4, <1>5, <1>6, CacheQuiet DEF Holding, Admitted
<1>8. /\ task' \in [JitWorkers -> JitTasks] /\ task'["compiler"] = x
      /\ \A v \in JitWorkers : v # "compiler" => task'[v] = task[v]
  BY <1>5, <1>6, SteppedTask
<1>9. JitTypeOK'
  <2>1. \A v \in JitWorkers : task'[v].at # "idle" => task'[v].req \in JitRequests
    BY <1>2, <1>5, <1>8 DEF JitInv, JitTypeOK
  <2> QED BY <1>3, <1>4, <1>8, <2>1 DEF JitInv, JitTypeOK, cache_vars
<1>10. AtCompiler = 0 /\ AtCompiler' = 1
  BY <1>4, <1>5, <1>8 DEF AtCompiler
<1>11. AnswersInOrder'
  <2>1. Len(asked) = Len(responses) + Len(requests)
        /\ \A i \in 1..Len(requests) : requests[i] = asked[Len(responses) + i]
    BY <1>1, <1>10 DEF JitInv, AnswersInOrder
  <2>2. asked[Len(responses) + 1] = requests[1]
    BY <1>2, <2>1
  <2>3. ASSUME NEW i \in 1..Len(requests') PROVE requests'[i] = asked[Len(responses) + 1 + i]
    <3>1. i + 1 \in 1..Len(requests) /\ Len(responses) + 1 + i = Len(responses) + (i + 1)
      BY <1>1, <1>2, <1>3
    <3> QED BY <1>3, <2>1, <3>1
  <2>4. Len(asked) = Len(responses) + 1 + Len(requests')
    BY <1>1, <1>2, <1>3, <2>1
  <2> QED BY <1>4, <1>5, <1>8, <1>10, <2>2, <2>3, <2>4 DEF JitInv, AnswersInOrder
<1> QED BY <1>4, <1>7, <1>9, <1>11 DEF JitInv, EntriesMatch, ServedWhatWasAsked, cache_vars

\* The compiler answers its request, the oldest that has no answer.
LEMMA JitAnswer ==
  ASSUME JitInv, PushResponse, Len(responses) < BoundaryBound
  PROVE  JitInv'
<1> DEFINE c == task["compiler"]
           resp == [kernel_key |-> cache_key(c.req), failed |-> FALSE]
<1>1. requests \in Seq(JitRequests) /\ asked \in Seq(JitRequests)
      /\ responses \in Seq([kernel_key : JitKeys, failed : BOOLEAN])
  BY DEF JitInv, JitTypeOK
<1>2. c.at = "done" /\ c.req \in JitRequests
  BY WorkersFinite DEF PushResponse, JitInv, JitTypeOK
<1>3. resp \in [kernel_key : JitKeys, failed : BOOLEAN] /\ resp.kernel_key = cache_key(c.req)
  BY <1>2 DEF JitKeys
<1>4. responses' = Append(responses, resp)
  BY DEF PushResponse, Answer
<1> HIDE DEF resp
<1>5. responses' \in Seq([kernel_key : JitKeys, failed : BOOLEAN]) /\ Len(responses') = Len(responses) + 1
      /\ (\A i \in 1..Len(responses) : responses'[i] = responses[i])
      /\ responses'[Len(responses) + 1] = resp
  BY <1>1, <1>3, <1>4
<1>6. UNCHANGED <<cache_vars, requests, asked, exec, served>>
  BY DEF PushResponse
<1>7. "compiler" \in JitWorkers /\ NoTask \in JitTasks /\ Stepped("compiler", NoTask) /\ NoTask.at = "idle"
  BY WorkersFinite DEF PushResponse, JitTasks, JitSteps, Stepped, NoTask
<1>8. JitTypeOK /\ CacheInv
  BY DEF JitInv
<1>9. CacheInv'
  BY <1>2, <1>6, <1>7, <1>8, CacheQuiet DEF Holding, Admitted
<1>10. /\ task' \in [JitWorkers -> JitTasks] /\ task'["compiler"] = NoTask
       /\ \A v \in JitWorkers : v # "compiler" => task'[v] = task[v]
  BY <1>7, <1>8, SteppedTask
<1>11. JitTypeOK'
  <2>1. \A v \in JitWorkers : task'[v].at # "idle" => task'[v].req \in JitRequests
    BY <1>7, <1>10 DEF JitInv, JitTypeOK
  <2> QED BY <1>5, <1>6, <1>10, <2>1 DEF JitInv, JitTypeOK, cache_vars
<1>12. AtCompiler = 1 /\ AtCompiler' = 0
  BY <1>2, <1>7, <1>10 DEF AtCompiler
<1>13. AnswersInOrder'
  <2>1. Len(asked) = Len(responses) + 1 + Len(requests) /\ asked[Len(responses) + 1] = c.req
        /\ (\A i \in 1..Len(responses) : responses[i].kernel_key = cache_key(asked[i]))
        /\ \A i \in 1..Len(requests) : requests[i] = asked[Len(responses) + 1 + i]
    BY <1>12 DEF JitInv, AnswersInOrder
  <2>2. ASSUME NEW i \in 1..Len(responses') PROVE responses'[i].kernel_key = cache_key(asked[i])
    <3>1. CASE i = Len(responses) + 1
      <4>1. responses'[i] = resp
        BY <1>5, <3>1
      <4>2. asked[i] = c.req
        BY <2>1, <3>1
      <4> QED BY <1>3, <4>1, <4>2
    <3>2. CASE i \in 1..Len(responses)
      BY <1>5, <2>1, <3>2
    <3> QED BY <1>1, <1>5, <3>1, <3>2
  <2>3. Len(asked) = Len(responses') + 0 + Len(requests)
    BY <1>1, <1>5, <2>1
  <2>4. \A i \in 1..Len(requests) : requests[i] = asked[Len(responses') + 0 + i]
    <3>1. Len(responses') + 0 = Len(responses) + 1
      BY <1>1, <1>5
    <3> QED BY <2>1, <3>1
  <2> QED BY <1>6, <1>12, <2>2, <2>3, <2>4 DEF AnswersInOrder
<1> QED BY <1>6, <1>9, <1>11, <1>13 DEF JitInv, EntriesMatch, ServedWhatWasAsked, cache_vars

\* Or it stops and keeps its request, which stays the oldest that has no answer.
LEMMA JitPushResponse ==
  ASSUME JitInv, PushResponse
  PROVE  JitInv'
<1>1. CASE Len(responses) < BoundaryBound
  BY <1>1, JitAnswer
<1>2. CASE ~(Len(responses) < BoundaryBound)
  <2> DEFINE w == "compiler"
  <2>1. /\ UNCHANGED <<cache_vars, boundary_vars, exec, served>>
        /\ task[w].at = "done" /\ task' = [task EXCEPT ![w].at = "stopped"]
    BY <1>2 DEF PushResponse, boundary_vars
  <2>2. w \in JitWorkers /\ JitTypeOK /\ CacheInv
    BY WorkersFinite DEF JitInv
  <2>3. PICK x \in JitTasks : Stepped(w, x) /\ x.at = "stopped" /\ x.req = task[w].req /\ x.req \in JitRequests
    <3>1. "stopped" \in JitSteps /\ task[w].at # "idle"
      BY <2>1 DEF JitSteps
    <3>2. JitTypeOK /\ MovedAt(w, "stopped")
      BY <2>1, <2>2 DEF MovedAt
    <3>3. KeepsRequest(w, "stopped")
      BY <2>2, <3>1, <3>2, MovesTo, Zenon
    <3> QED BY <3>3 DEF KeepsRequest
  <2>4. CacheInv'
    BY <2>1, <2>2, <2>3, CacheQuiet DEF Holding, Admitted
  <2>5. IsFiniteSet(DOMAIN jcache') /\ jlen' \in Int /\ EntriesMatch'
    BY <2>1 DEF JitInv, JitTypeOK, EntriesMatch, cache_vars
  <2> QED BY <2>1, <2>2, <2>3, <2>4, <2>5, WorkerMove
<1> QED BY <1>1, <1>2

\* What lies under the key of a request was compiled for it.
LEMMA EntryOfKey ==
  ASSUME EntriesMatch, NEW r \in JitRequests, cache_key(r) \in DOMAIN jcache
  PROVE  jcache[cache_key(r)] = r
<1>1. jcache[cache_key(r)] \in JitRequests /\ cache_key(jcache[cache_key(r)]) = cache_key(r)
  BY DEF EntriesMatch
<1> QED BY <1>1, KeyTells

\* The parts of the invariant a step of the execution thread leaves alone.
LEMMA ExecMove ==
  ASSUME JitInv, UNCHANGED <<cache_vars, task>>, JitTypeOK', AnswersInOrder', ServedWhatWasAsked'
  PROVE  JitInv'
<1>1. UNCHANGED <<jcache, jlen, jlock, task>>
  BY DEF cache_vars
<1>2. LockHeld' /\ EntriesMatch'
  BY <1>1 DEF JitInv, CacheInv, LockHeld, EntriesMatch
<1>3. CountFollows'
  BY <1>1 DEF JitInv, CacheInv, CountFollows, CountExact
<1>4. RoomForAdmitted'
  BY <1>1 DEF JitInv, CacheInv, RoomForAdmitted, Admits
<1> QED BY <1>2, <1>3, <1>4 DEF JitInv, CacheInv

\* A hit is launched, a miss is asked for.
LEMMA JitLookup ==
  ASSUME JitInv, NEW r \in JitRequests, Lookup(r)
  PROVE  JitInv'
<1>1. UNCHANGED <<cache_vars, boundary_vars, task>>
  BY DEF Lookup
<1>2. ServedWhatWasAsked'
  <2>1. CASE cache_key(r) \in DOMAIN jcache
    <3>1. served' = [asked |-> r, kernel |-> jcache[cache_key(r)]]
      BY <2>1 DEF Lookup, Launch
    <3>2. jcache[cache_key(r)] = r
      BY <2>1, EntryOfKey DEF JitInv
    <3> QED BY <3>1, <3>2 DEF ServedWhatWasAsked
  <2>2. CASE cache_key(r) \notin DOMAIN jcache
    BY <2>2 DEF Lookup, JitInv, ServedWhatWasAsked
  <2> QED BY <2>1, <2>2
<1>3. exec'.at = "miss" => exec'.req \in JitRequests
  BY DEF Lookup, JitInv, JitTypeOK
<1>4. JitTypeOK'
  BY <1>1, <1>3 DEF JitInv, JitTypeOK, cache_vars, boundary_vars
<1>5. AnswersInOrder'
  BY <1>1 DEF JitInv, AnswersInOrder, AtCompiler, boundary_vars
<1> QED BY <1>1, <1>2, <1>4, <1>5, ExecMove

\* An accepted request is the youngest of its ring and of those asked.
LEMMA JitPushRequest ==
  ASSUME JitInv, PushRequest
  PROVE  JitInv'
<1>1. UNCHANGED <<cache_vars, responses, task, served>> /\ exec' = NoTask
  BY DEF PushRequest
<1>2. exec.req \in JitRequests /\ requests \in Seq(JitRequests) /\ asked \in Seq(JitRequests)
      /\ responses \in Seq([kernel_key : JitKeys, failed : BOOLEAN])
  BY DEF PushRequest, JitInv, JitTypeOK
<1>3. ServedWhatWasAsked'
  BY <1>1 DEF JitInv, ServedWhatWasAsked
<1>4. exec'.at # "miss"
  BY <1>1 DEF NoTask
<1>5. requests' = Append(requests, exec.req) /\ asked' = Append(asked, exec.req)
  BY DEF PushRequest
<1>6. /\ requests' \in Seq(JitRequests) /\ Len(requests') = Len(requests) + 1
      /\ \A i \in 1..Len(requests) : requests'[i] = requests[i]
      /\ requests'[Len(requests) + 1] = exec.req
  BY <1>2, <1>5
<1>7. /\ asked' \in Seq(JitRequests) /\ Len(asked') = Len(asked) + 1
      /\ \A i \in 1..Len(asked) : asked'[i] = asked[i]
      /\ asked'[Len(asked) + 1] = exec.req
  BY <1>2, <1>5
<1>8. JitTypeOK'
  BY <1>1, <1>4, <1>6, <1>7 DEF JitInv, JitTypeOK, cache_vars
<1>9. AtCompiler' = AtCompiler /\ AtCompiler \in {0, 1} /\ task'["compiler"] = task["compiler"]
  BY <1>1 DEF AtCompiler
<1>10. /\ Len(asked) = Len(responses) + AtCompiler + Len(requests)
       /\ \A i \in 1..Len(responses) : responses[i].kernel_key = cache_key(asked[i])
       /\ AtCompiler = 1 => asked[Len(responses) + 1] = task["compiler"].req
       /\ \A i \in 1..Len(requests) : requests[i] = asked[Len(responses) + AtCompiler + i]
  BY DEF JitInv, AnswersInOrder
<1>11. Len(responses) \in Nat /\ Len(requests) \in Nat /\ Len(asked) \in Nat
  BY <1>2
<1>12. \A i \in 1..Len(responses) : responses[i].kernel_key = cache_key(asked'[i])
  <2> TAKE i \in 1..Len(responses)
  <2>1. i \in 1..Len(asked)
    BY <1>9, <1>10, <1>11
  <2> QED BY <1>7, <1>10, <2>1
<1>13. AtCompiler = 1 => asked'[Len(responses) + 1] = task["compiler"].req
  <2> SUFFICES ASSUME AtCompiler = 1 PROVE asked'[Len(responses) + 1] = task["compiler"].req
    OBVIOUS
  <2>1. Len(responses) + 1 \in 1..Len(asked)
    BY <1>10, <1>11
  <2> QED BY <1>7, <1>10, <2>1
<1>14. \A i \in 1..Len(requests') : requests'[i] = asked'[Len(responses) + AtCompiler + i]
  <2> TAKE i \in 1..Len(requests')
  <2>1. CASE i \in 1..Len(requests)
    <3>1. Len(responses) + AtCompiler + i \in 1..Len(asked)
      BY <1>9, <1>10, <1>11, <2>1
    <3> QED BY <1>6, <1>7, <1>10, <2>1, <3>1
  <2>2. CASE i = Len(requests) + 1
    <3>1. Len(responses) + AtCompiler + i = Len(asked) + 1
      BY <1>9, <1>10, <1>11, <2>2
    <3> QED BY <1>6, <1>7, <2>2, <3>1
  <2> QED BY <1>6, <1>11, <2>1, <2>2
<1>15. Len(asked') = Len(responses) + AtCompiler + Len(requests')
  BY <1>6, <1>7, <1>9, <1>10, <1>11
<1>16. AnswersInOrder'
  BY <1>1, <1>9, <1>12, <1>13, <1>14, <1>15 DEF AnswersInOrder
<1> QED BY <1>1, <1>3, <1>8, <1>16, ExecMove

\* The oldest answer is for the oldest request.
LEMMA JitPopResponse ==
  ASSUME JitInv, PopResponse
  PROVE  JitInv'
<1>1. UNCHANGED <<cache_vars, requests, task, exec>> /\ responses # <<>>
      /\ responses' = Tail(responses) /\ asked' = Tail(asked)
  BY DEF PopResponse
<1>2. requests \in Seq(JitRequests) /\ asked \in Seq(JitRequests)
      /\ responses \in Seq([kernel_key : JitKeys, failed : BOOLEAN])
  BY DEF JitInv, JitTypeOK
<1>3. Len(responses) \in Nat \ {0} /\ Len(requests) \in Nat /\ Len(asked) \in Nat /\ Head(responses) = responses[1]
  BY <1>1, <1>2
<1>4. /\ Len(asked) = Len(responses) + AtCompiler + Len(requests)
      /\ \A i \in 1..Len(responses) : responses[i].kernel_key = cache_key(asked[i])
      /\ AtCompiler = 1 => asked[Len(responses) + 1] = task["compiler"].req
      /\ \A i \in 1..Len(requests) : requests[i] = asked[Len(responses) + AtCompiler + i]
  BY DEF JitInv, AnswersInOrder
<1>5. AtCompiler' = AtCompiler /\ AtCompiler \in {0, 1} /\ task'["compiler"] = task["compiler"]
  BY <1>1 DEF AtCompiler
<1>6. asked # <<>> /\ Len(asked) >= 1 /\ Head(asked) = asked[1] /\ asked[1] \in JitRequests
  <2>1. Len(asked) >= 1
    BY <1>3, <1>4, <1>5
  <2> QED BY <1>2, <2>1
<1>7. Head(responses).kernel_key = cache_key(Head(asked)) /\ Head(asked) \in JitRequests
  <2>1. 1 \in 1..Len(responses)
    BY <1>3
  <2> QED BY <1>3, <1>4, <1>6, <2>1
<1>8. ServedWhatWasAsked'
  <2> DEFINE resp == Head(responses)
  <2>1. CASE ~resp.failed /\ resp.kernel_key \in DOMAIN jcache
    <3>1. served' = [asked |-> Head(asked), kernel |-> jcache[resp.kernel_key]]
      BY <2>1 DEF PopResponse, Launch
    <3>2. jcache[resp.kernel_key] = Head(asked)
      BY <1>7, <2>1, EntryOfKey DEF JitInv
    <3> QED BY <3>1, <3>2 DEF ServedWhatWasAsked
  <2>2. CASE ~(~resp.failed /\ resp.kernel_key \in DOMAIN jcache)
    <3>1. served' = served
      BY <2>2 DEF PopResponse
    <3> QED BY <3>1 DEF JitInv, ServedWhatWasAsked
  <2> QED BY <2>1, <2>2
<1>9. /\ responses' \in Seq([kernel_key : JitKeys, failed : BOOLEAN]) /\ Len(responses') = Len(responses) - 1
      /\ \A i \in 1..Len(responses') : responses'[i] = responses[i + 1]
  BY <1>1, <1>2
<1>10. /\ asked' \in Seq(JitRequests) /\ Len(asked') = Len(asked) - 1
       /\ \A i \in 1..Len(asked') : asked'[i] = asked[i + 1]
  BY <1>1, <1>2, <1>6
<1>11. JitTypeOK'
  BY <1>1, <1>9, <1>10 DEF JitInv, JitTypeOK, cache_vars
<1>12. AnswersInOrder'
  <2>1. Len(asked') = Len(responses') + AtCompiler + Len(requests)
    BY <1>3, <1>4, <1>5, <1>9, <1>10
  <2>2. \A i \in 1..Len(responses') : responses'[i].kernel_key = cache_key(asked'[i])
    <3> TAKE i \in 1..Len(responses')
    <3>1. i + 1 \in 1..Len(responses) /\ i \in 1..Len(asked')
      BY <1>3, <1>4, <1>5, <1>9, <1>10
    <3> QED BY <1>4, <1>9, <1>10, <3>1
  <2>3. AtCompiler = 1 => asked'[Len(responses') + 1] = task["compiler"].req
    <3> SUFFICES ASSUME AtCompiler = 1 PROVE asked'[Len(responses') + 1] = task["compiler"].req
      OBVIOUS
    <3>1. Len(responses') + 1 \in 1..Len(asked') /\ Len(responses') + 1 + 1 = Len(responses) + 1
      BY <1>3, <1>9, <1>10, <2>1
    <3>2. asked'[Len(responses') + 1] = asked[Len(responses') + 1 + 1]
      BY <1>10, <3>1
    <3> QED BY <1>4, <3>1, <3>2
  <2>4. \A i \in 1..Len(requests) : requests[i] = asked'[Len(responses') + AtCompiler + i]
    <3> TAKE i \in 1..Len(requests)
    <3> DEFINE j == Len(responses') + AtCompiler + i
    <3>1. j \in 1..Len(asked') /\ j + 1 = Len(responses) + AtCompiler + i
      <4>1. /\ Len(responses') \in Nat /\ Len(responses') + 1 = Len(responses) /\ Len(responses) \in Nat
            /\ AtCompiler \in Nat /\ Len(requests) \in Nat /\ i \in Nat /\ 1 <= i /\ i <= Len(requests)
        BY <1>3, <1>5, <1>9
      <4>2. j \in Nat /\ 1 <= j /\ j <= Len(responses') + AtCompiler + Len(requests)
        BY <4>1
      <4>3. j + 1 = Len(responses) + AtCompiler + i
        BY <4>1
      <4> HIDE DEF j
      <4> QED BY <2>1, <4>1, <4>2, <4>3
    <3>2. asked'[j] = asked[j + 1]
      BY <1>10, <3>1
    <3> QED BY <1>4, <3>1, <3>2
  <2> QED BY <1>1, <1>5, <2>1, <2>2, <2>3, <2>4 DEF AnswersInOrder
<1> QED BY <1>1, <1>8, <1>11, <1>12, ExecMove

\* Initially the cache, the rings and the workers are empty.
LEMMA JitInvInit == JitInit => JitInv
<1> SUFFICES ASSUME JitInit PROVE JitInv
  OBVIOUS
<1>1. DOMAIN jcache = {} /\ jlen = 0 /\ jlock = "none" /\ requests = <<>> /\ responses = <<>> /\ asked = <<>>
      /\ task = [w \in JitWorkers |-> NoTask] /\ exec = NoTask /\ served.kernel = served.asked
  BY DEF JitInit
<1>2. Cardinality(DOMAIN jcache) = 0 /\ IsFiniteSet(DOMAIN jcache)
  BY <1>1, FS_EmptySet
<1>3. \A w \in JitWorkers : task[w].at = "idle" /\ task[w] \in JitTasks
  BY <1>1 DEF NoTask, JitTasks, JitSteps
<1>4. Admits = {}
  BY <1>3 DEF Admits, Admitted
<1>5. JitTypeOK
  BY <1>1, <1>2, <1>3 DEF JitTypeOK, NoTask
<1>6. CacheInv
  <2>1. LockHeld
    BY <1>1, <1>3, WorkersFinite DEF LockHeld, Holding
  <2>2. CountFollows
    BY <1>1, <1>2, <1>3 DEF CountFollows, CountExact
  <2>3. Cardinality(Admits) = 0
    BY <1>4, FS_EmptySet
  <2>4. RoomForAdmitted
    BY <1>2, <2>3, WorkersFinite, JitServiceAssumption DEF RoomForAdmitted
  <2> QED BY <2>1, <2>2, <2>4 DEF CacheInv
<1>7. AtCompiler = 0
  BY <1>3, WorkersFinite DEF AtCompiler
<1>8. AnswersInOrder
  BY <1>1, <1>7 DEF AnswersInOrder
<1> QED BY <1>1, <1>5, <1>6, <1>8 DEF JitInv, EntriesMatch, ServedWhatWasAsked

\* Every step of the service keeps the invariant.
LEMMA JitInvNext == JitInv /\ [JitNext]_jit_vars => JitInv'
<1> SUFFICES ASSUME JitInv, [JitNext]_jit_vars PROVE JitInv'
  OBVIOUS
<1>1. CASE CompilerStep
  <2>1. "compiler" \in JitWorkers
    BY WorkersFinite
  <2> QED BY <1>1, <2>1, JitPopRequest, JitPushResponse, JitOutside, JitInside, JitEntry DEF CompilerStep
<1>2. CASE ExecStep
  BY <1>2, JitLookup, JitPushRequest, JitPopResponse DEF ExecStep
<1>3. ASSUME NEW w \in Others, OtherStep(w) PROVE JitInv'
  <2>1. w \in JitWorkers
    BY DEF JitWorkers
  <2> QED BY <1>3, <2>1, JitOther, JitOutside, JitInside, JitEntry DEF OtherStep
<1>4. CASE UNCHANGED jit_vars
  <2>1. UNCHANGED <<cache_vars, boundary_vars, task, exec, served>>
    BY <1>4 DEF jit_vars
  <2>2. JitTypeOK'
    BY <2>1 DEF JitInv, JitTypeOK, cache_vars, boundary_vars
  <2>3. AnswersInOrder' /\ ServedWhatWasAsked'
    BY <2>1 DEF JitInv, AnswersInOrder, AtCompiler, boundary_vars, ServedWhatWasAsked
  <2> QED BY <2>1, <2>2, <2>3, ExecMove
<1> QED BY <1>1, <1>2, <1>3, <1>4 DEF JitNext

\* For every set of requests, workers, capacities and ring sizes the inductive invariant of the
\* service holds: lock, counter, admissions, entries under their keys, answers in order.
THEOREM JitInvHolds == JitSpec => []JitInv
BY JitInvInit, JitInvNext, PTL DEF JitSpec

\* What is launched was compiled for what was asked, whatever the workers fill, clear,
\* overwrite or refuse in between.
THEOREM KernelsServedAsAsked == JitSpec => []ServedWhatWasAsked
<1>1. JitInv => ServedWhatWasAsked
  BY DEF JitInv
<1> QED BY <1>1, JitInvHolds, PTL

\* The cache exceeds its capacity (run cache_capacity shows that it does) by at most the
\* number of other writers, and the counter is exact whenever nobody is between an entry and its count.
THEOREM CacheStaysBounded == JitSpec => []CacheAccounted
<1>1. JitInv => CacheAccounted
  <2> SUFFICES ASSUME JitInv PROVE CacheAccounted
    OBVIOUS
  <2>1. IsFiniteSet(Admits) /\ Cardinality(Admits) \in Nat /\ Cardinality(DOMAIN jcache) \in Nat
    <3>1. Admits \subseteq JitWorkers
      BY DEF Admits
    <3>2. IsFiniteSet(Admits) /\ IsFiniteSet(DOMAIN jcache)
      BY <3>1, WorkersFinite, FS_Subset DEF JitInv, JitTypeOK
    <3> QED BY <3>2, FS_CardinalityType
  <2>2. CacheCapacity \in Nat /\ Cardinality(Others) \in Nat
    BY WorkersFinite, JitServiceAssumption
  <2>3. OvershootBounded
    BY <2>1, <2>2 DEF JitInv, CacheInv, RoomForAdmitted, OvershootBounded
  <2> QED BY <2>3 DEF JitInv, CacheInv, CountFollows, CacheAccounted
<1> QED BY <1>1, JitInvHolds, PTL

-----------------------------------------------------------------------------
(* Nesting: who waits for whom *)

Frame(c, l) == [call |-> c, at |-> l]

\* A stack of one frame, and of a body that joins the scoped call it made.
One(s, c, l) == s = <<Frame(c, l)>>
Joining(s, c, d) == s = <<Frame(c, "body"), Frame(d, "join")>>

\* The stacks there are: only application threads go to the pool or wait without a body below.
Stack(t, s, n) ==
  \/ s = <<>>
  \/ \E c \in 1..n : One(s, c, "body")
  \/ \E c, d \in 1..n : c < d /\ Joining(s, c, d)
  \/ t \in Mains /\ \E c \in 1..n, l \in {"publish", "wait", "join"} : One(s, c, l)

BottomAt(s, l) == s # <<>> /\ s[1].at = l

\* The flag is set exactly where a body runs, and a call that waits for the slot does not hold it.
NestingInv ==
  /\ calls \in Nat /\ slot \in 0..calls
  /\ frames = [t \in NestThreads |-> frames[t]] /\ in_region \in [NestThreads -> BOOLEAN]
  /\ \A t \in NestThreads : Stack(t, frames[t], calls)
  /\ \A t \in NestThreads : in_region[t] <=> BottomAt(frames[t], "body")
  /\ \A t \in NestThreads : BottomAt(frames[t], "publish") =>
       /\ frames[t][1].call # slot
       /\ \A u \in NestThreads :
            BottomAt(frames[u], "publish") /\ frames[u][1].call = frames[t][1].call => u = t

\* Short sequences.
LEMMA ShortSequences ==
  ASSUME NEW x, NEW y
  PROVE  /\ Append(<<>>, x) = <<x>> /\ Append(<<x>>, y) = <<x, y>>
         /\ Front(<<x>>) = <<>> /\ Front(<<x, y>>) = <<x>>
         /\ Len(<<x>>) = 1 /\ Len(<<x, y>>) = 2 /\ <<x>>[1] = x /\ <<x, y>>[1] = x /\ <<x, y>>[2] = y
         /\ Last(<<x>>) = x /\ Last(<<x, y>>) = y
         /\ <<x>> # <<>> /\ <<x, y>> # <<>>
<1>1. Len(<<x>>) = 1 /\ Len(<<x, y>>) = 2 /\ <<x>>[1] = x /\ <<x, y>>[1] = x /\ <<x, y>>[2] = y /\ Len(<<>>) = 0
  OBVIOUS
<1>2. Append(<<>>, x) = <<x>> /\ Append(<<x>>, y) = <<x, y>>
  <2> DEFINE S == {x, y}
  <2>1. <<>> \in Seq(S) /\ <<x>> \in Seq(S) /\ <<x, y>> \in Seq(S)
    OBVIOUS
  <2>2. Append(<<>>, x) = <<x>>
    OBVIOUS
  <2>3. Append(<<x>>, y) = <<x, y>>
    <3>1. Append(<<x>>, y) \in Seq(S) /\ Len(Append(<<x>>, y)) = 2
      BY <1>1, <2>1
    <3>2. Append(<<x>>, y)[1] = x /\ Append(<<x>>, y)[2] = y
      BY <1>1, <2>1
    <3>3. \A i \in 1..2 : Append(<<x>>, y)[i] = <<x, y>>[i]
      BY <1>1, <3>2
    <3> QED BY <1>1, <2>1, <3>1, <3>3, SeqEqual
  <2> QED BY <2>2, <2>3
<1>3. Last(<<x>>) = x /\ Last(<<x, y>>) = y
  BY <1>1 DEF Last
<1>4. <<x>> # <<>> /\ <<x, y>> # <<>>
  BY <1>1
<1>5. Front(<<x>>) = <<>>
  BY <1>1 DEF Front
<1>6. Front(<<x, y>>) = <<x>>
  <2> DEFINE S == {x, y}
             f == SubSeq(<<x, y>>, 1, 1)
  <2>1. <<x>> \in Seq(S) /\ <<x, y>> \in Seq(S)
    OBVIOUS
  <2>2. f \in Seq(S) /\ Len(f) = 1 /\ f[1] = <<x, y>>[1]
    BY <1>1, <2>1
  <2>3. \A i \in 1..1 : f[i] = <<x>>[i]
    BY <1>1, <2>2
  <2>4. f = <<x>>
    BY <1>1, <2>1, <2>2, <2>3, SeqEqual
  <2> QED BY <1>1, <2>4 DEF Front
<1> QED BY <1>1, <1>2, <1>3, <1>4, <1>5, <1>6

\* A stack of one frame.
LEMMA OneFrame ==
  ASSUME NEW s, NEW c, NEW l, One(s, c, l)
  PROVE  /\ s # <<>> /\ Len(s) = 1 /\ s[1].call = c /\ s[1].at = l /\ DOMAIN s = {1}
         /\ Last(s).call = c /\ Last(s).at = l /\ Front(s) = <<>>
         /\ \A k : BottomAt(s, k) <=> k = l
<1>1. Frame(c, l).call = c /\ Frame(c, l).at = l
  BY DEF Frame
<1>2. s = <<Frame(c, l)>>
  BY DEF One
<1>3. DOMAIN s = {1}
  BY <1>2
<1>4. s # <<>> /\ Len(s) = 1 /\ s[1] = Frame(c, l) /\ Last(s) = Frame(c, l) /\ Front(s) = <<>>
  BY <1>2, ShortSequences
<1> QED BY <1>1, <1>3, <1>4 DEF BottomAt

\* A stack of two.
LEMMA TwoFrames ==
  ASSUME NEW s, NEW c, NEW d, Joining(s, c, d)
  PROVE  /\ s # <<>> /\ Len(s) = 2 /\ s[1].call = c /\ s[1].at = "body" /\ DOMAIN s = {1, 2}
         /\ s[2].call = d /\ s[2].at = "join"
         /\ Last(s).call = d /\ Last(s).at = "join" /\ One(Front(s), c, "body")
         /\ \A k : BottomAt(s, k) <=> k = "body"
<1>1. /\ Frame(c, "body").call = c /\ Frame(c, "body").at = "body"
      /\ Frame(d, "join").call = d /\ Frame(d, "join").at = "join"
  BY DEF Frame
<1>2. s = <<Frame(c, "body"), Frame(d, "join")>>
  BY DEF Joining
<1>3. DOMAIN s = {1, 2}
  BY <1>2
<1>4. /\ s # <<>> /\ Len(s) = 2 /\ s[1] = Frame(c, "body") /\ s[2] = Frame(d, "join")
      /\ Last(s) = Frame(d, "join") /\ Front(s) = <<Frame(c, "body")>>
  BY <1>2, ShortSequences
<1> QED BY <1>1, <1>3, <1>4 DEF BottomAt, One

\* Where a thread stands says which stack it has.
LEMMA StandsWhere ==
  ASSUME NestingInv, NEW t \in NestThreads
  PROVE  /\ StandsAt(t, "body") => \E c \in 1..calls : One(frames[t], c, "body") /\ Top(t).call = c
         /\ \A l \in {"publish", "wait"} : StandsAt(t, l) =>
              t \in Mains /\ \E c \in 1..calls : One(frames[t], c, l) /\ Top(t).call = c
         /\ StandsAt(t, "join") =>
              \E d \in 1..calls : /\ Top(t).call = d
                                   /\ \/ t \in Mains /\ One(frames[t], d, "join")
                                      \/ \E c \in 1..calls : c < d /\ Joining(frames[t], c, d)
<1>1. Stack(t, frames[t], calls)
  BY DEF NestingInv
<1>2. CASE frames[t] = <<>>
  BY <1>2 DEF StandsAt
<1>3. ASSUME NEW c \in 1..calls, NEW l, One(frames[t], c, l)
      PROVE  Top(t).call = c /\ Top(t).at = l /\ \A k : StandsAt(t, k) <=> k = l
  BY <1>3, OneFrame DEF StandsAt, Top
<1>4. ASSUME NEW c \in 1..calls, NEW d \in 1..calls, Joining(frames[t], c, d)
      PROVE  Top(t).call = d /\ Top(t).at = "join" /\ \A k : StandsAt(t, k) <=> k = "join"
  BY <1>4, TwoFrames DEF StandsAt, Top
<1>5. CASE \E c \in 1..calls : One(frames[t], c, "body")
  BY <1>3, <1>5
<1>6. CASE \E c, d \in 1..calls : c < d /\ Joining(frames[t], c, d)
  BY <1>4, <1>6
<1>7. CASE t \in Mains /\ \E c \in 1..calls, l \in {"publish", "wait", "join"} : One(frames[t], c, l)
  BY <1>3, <1>7
<1> QED BY <1>1, <1>2, <1>5, <1>6, <1>7 DEF Stack

\* A thread waits only for threads of a higher rank: those at the slot for its holder, the holder
\* for helpers, and a call for the bodies of calls made later.
Rank(t) ==
  IF StandsAt(t, "publish") THEN 0
  ELSE IF StandsAt(t, "wait") THEN 1
  ELSE IF StandsAt(t, "join") THEN 1 + Top(t).call
  ELSE calls + 2

\* Ranks are numbers up to calls + 2.
LEMMA RankType ==
  ASSUME NestingInv, NEW t \in NestThreads
  PROVE  Rank(t) \in 0..(calls + 2)
<1>1. calls \in Nat
  BY DEF NestingInv
<1>2. StandsAt(t, "join") => Top(t).call \in 1..calls
  BY StandsWhere
<1> QED BY <1>1, <1>2 DEF Rank

\* The threads of a scope's bodies have made later calls, if any.
LEMMA BodiesRank ==
  ASSUME NestingInv, NEW u \in NestThreads, NEW d \in 1..calls, u \in InBody(d)
  PROVE  Rank(u) > 1 + d
<1>1. calls \in Nat /\ Stack(u, frames[u], calls)
  BY DEF NestingInv
<1>2. PICK i \in DOMAIN frames[u] : frames[u][i] = [call |-> d, at |-> "body"]
  BY DEF InBody
<1>3. frames[u][i].call = d /\ frames[u][i].at = "body"
  BY <1>2
<1>4. ASSUME NEW c \in 1..calls, NEW l, One(frames[u], c, l) PROVE l = "body"
  <2>1. i = 1 /\ frames[u][1].at = l
    BY <1>2, <1>4, OneFrame
  <2> QED BY <1>3, <2>1
<1>5. CASE frames[u] = <<>>
  BY <1>2, <1>5
<1>6. CASE \E c \in 1..calls : One(frames[u], c, "body")
  <2>1. ~StandsAt(u, "publish") /\ ~StandsAt(u, "wait") /\ ~StandsAt(u, "join")
    BY <1>6, OneFrame DEF StandsAt, Top
  <2> QED BY <1>1, <2>1 DEF Rank
<1>7. CASE \E c, e \in 1..calls : c < e /\ Joining(frames[u], c, e)
  <2>1. PICK c \in 1..calls, e \in 1..calls : c < e /\ Joining(frames[u], c, e)
    BY <1>7
  <2>2. /\ DOMAIN frames[u] = {1, 2} /\ frames[u][1].call = c /\ frames[u][2].at = "join"
        /\ frames[u] # <<>> /\ Last(frames[u]).at = "join" /\ Last(frames[u]).call = e
    BY <2>1, TwoFrames
  <2>3. c = d
    BY <1>2, <1>3, <2>2
  <2>4. ~StandsAt(u, "publish") /\ ~StandsAt(u, "wait") /\ StandsAt(u, "join") /\ Top(u).call = e
    BY <2>2 DEF StandsAt, Top
  <2>5. Rank(u) = 1 + e
    BY <2>4 DEF Rank
  <2> QED BY <1>1, <2>1, <2>3, <2>5
<1>8. CASE u \in Mains /\ \E c \in 1..calls, l \in {"publish", "wait", "join"} : One(frames[u], c, l)
  BY <1>4, <1>8
<1> QED BY <1>1, <1>5, <1>6, <1>7, <1>8 DEF Stack

\* Waiting goes up.
LEMMA WaitsUp ==
  ASSUME NestingInv, NEW t \in NestThreads, NEW u \in NestThreads, u \in WaitsFor(t)
  PROVE  Rank(t) < Rank(u)
<1>1. calls \in Nat /\ Rank(t) \in 0..(calls + 2) /\ Rank(u) \in 0..(calls + 2)
  BY RankType DEF NestingInv
<1>2. \A k, l : StandsAt(t, k) /\ StandsAt(t, l) => k = l
  BY DEF StandsAt
<1>3. CASE StandsAt(t, "publish")
  <2>1. WaitsFor(t) = {v \in NestThreads : slot # NoCall /\ v \notin PoolHelpers
          /\ \E i \in DOMAIN frames[v] : frames[v][i].call = slot /\ frames[v][i].at # "join"}
    BY <1>2, <1>3 DEF WaitsFor
  <2>2. PICK i \in DOMAIN frames[u] : frames[u][i].call = slot /\ frames[u][i].at # "join"
    BY <2>1
  <2>3. ~StandsAt(u, "publish")
    <3> SUFFICES ASSUME StandsAt(u, "publish") PROVE FALSE
      OBVIOUS
    <3>1. PICK c \in 1..calls : One(frames[u], c, "publish")
      BY StandsWhere
    <3>2. i = 1 /\ BottomAt(frames[u], "publish")
      BY <2>2, <3>1, OneFrame
    <3> QED BY <2>2, <3>2 DEF NestingInv
  <2>4. Rank(t) = 0 /\ Rank(u) # 0
    <3>1. StandsAt(u, "join") => Top(u).call \in 1..calls
      BY StandsWhere
    <3> QED BY <1>1, <1>3, <2>3, <3>1 DEF Rank
  <2> QED BY <1>1, <2>4
<1>4. CASE StandsAt(t, "wait")
  <2>1. WaitsFor(t) = PoolHelpers \ checked_in
    BY <1>2, <1>4 DEF WaitsFor
  <2>2. u \notin Mains
    BY <2>1, NestingAssumption
  <2>3. ~StandsAt(u, "publish") /\ ~StandsAt(u, "wait")
    BY <2>2, StandsWhere
  <2>4. StandsAt(u, "join") => Top(u).call \in 1..calls
    BY StandsWhere
  <2>5. Rank(u) > 1
    BY <1>1, <2>3, <2>4 DEF Rank
  <2>6. Rank(t) = 1
    BY <1>2, <1>4 DEF Rank
  <2> QED BY <2>5, <2>6
<1>5. CASE StandsAt(t, "join")
  <2>1. WaitsFor(t) = InBody(Top(t).call) /\ Top(t).call \in 1..calls
    <3>1. Top(t).call \in 1..calls
      BY <1>5, StandsWhere
    <3> QED BY <1>2, <1>5, <3>1 DEF WaitsFor
  <2>2. Rank(u) > 1 + Top(t).call
    BY <2>1, BodiesRank
  <2>3. Rank(t) = 1 + Top(t).call
    BY <1>2, <1>5 DEF Rank
  <2> QED BY <2>2, <2>3
<1>6. CASE ~StandsAt(t, "publish") /\ ~StandsAt(t, "wait") /\ ~StandsAt(t, "join")
  <2>1. WaitsFor(t) = {}
    BY <1>6 DEF WaitsFor
  <2> QED BY <2>1
<1> QED BY <1>3, <1>4, <1>5, <1>6

\* So of any threads the one of the highest rank waits for none of them.
LEMMA InvNeverHangs == NestingInv => NestedCallsNeverHang
<1> SUFFICES ASSUME NestingInv, NEW S \in SUBSET NestThreads, S # {}
             PROVE  \E t \in S : WaitsFor(t) \cap S = {}
  BY DEF NestedCallsNeverHang
<1> DEFINE Low(t) == (calls + 2) - Rank(t)
           L == {Low(t) : t \in S}
<1>1. \A t \in S : Rank(t) \in 0..(calls + 2) /\ calls \in Nat
  BY RankType DEF NestingInv
<1>2. \A t \in S : Low(t) \in Nat
  BY <1>1
<1>3. L \subseteq Nat /\ L # {}
  BY <1>2
<1>4. PICK m \in L : \A k \in L : m <= k
  <2> HIDE DEF L
  <2> QED BY <1>3, LeastElement
<1>5. PICK t \in S : m = Low(t)
  BY <1>4
<1>6. ASSUME NEW u \in S, u \in WaitsFor(t) PROVE FALSE
  <2>1. Rank(t) < Rank(u)
    BY <1>6, WaitsUp
  <2>2. Low(t) <= Low(u)
    BY <1>4, <1>5
  <2> QED BY <1>1, <2>1, <2>2
<1> QED BY <1>6

\* A longer history of calls allows more stacks.
LEMMA StackStays ==
  ASSUME NEW n \in Nat, NEW m \in Nat, n <= m, NEW t, NEW s, Stack(t, s, n)
  PROVE  Stack(t, s, m)
<1>1. 1..n \subseteq 1..m
  OBVIOUS
<1> QED BY <1>1 DEF Stack

\* A call that waits for the slot has a number.
LEMMA PublisherNumber ==
  ASSUME NestingInv, NEW u \in NestThreads, BottomAt(frames[u], "publish")
  PROVE  frames[u][1].call \in 1..calls
<1>1. Stack(u, frames[u], calls)
  BY DEF NestingInv
<1>2. frames[u] # <<>>
  BY DEF BottomAt
<1>3. ~(\E c \in 1..calls : One(frames[u], c, "body"))
  BY OneFrame
<1>4. ~(\E c, d \in 1..calls : c < d /\ Joining(frames[u], c, d))
  BY TwoFrames
<1>5. PICK c \in 1..calls, l \in {"publish", "wait", "join"} : One(frames[u], c, l)
  BY <1>1, <1>2, <1>3, <1>4 DEF Stack
<1> QED BY <1>5, OneFrame

\* What a step has to show: the stacks, the flags, and a new number for a new call at the slot.
LEMMA NestingStep ==
  ASSUME NestingInv, NEW t \in NestThreads, calls' \in Nat, slot' \in 0..calls',
         frames' = [u \in NestThreads |-> frames'[u]], in_region' \in [NestThreads -> BOOLEAN],
         \A u \in NestThreads : Stack(u, frames'[u], calls'),
         \A u \in NestThreads : in_region'[u] <=> BottomAt(frames'[u], "body"),
         \A u \in NestThreads : BottomAt(frames'[u], "publish") =>
           /\ frames'[u][1].call # slot'
           /\ frames'[u] = frames[u] \/ (u = t /\ frames'[u][1].call = calls + 1)
  PROVE  NestingInv'
<1>1. ASSUME NEW u \in NestThreads, NEW v \in NestThreads, BottomAt(frames'[u], "publish"),
             BottomAt(frames'[v], "publish"), frames'[v][1].call = frames'[u][1].call
      PROVE  v = u
  <2>1. CASE frames'[u] = frames[u] /\ frames'[v] = frames[v]
    BY <1>1, <2>1 DEF NestingInv
  <2>2. CASE u = t /\ frames'[u][1].call = calls + 1 /\ frames'[v] = frames[v]
    <3>1. frames[v][1].call \in 1..calls
      BY <1>1, <2>2, PublisherNumber
    <3>2. calls \in Nat
      BY DEF NestingInv
    <3> QED BY <1>1, <2>2, <3>1, <3>2
  <2>3. CASE v = t /\ frames'[v][1].call = calls + 1 /\ frames'[u] = frames[u]
    <3>1. frames[u][1].call \in 1..calls
      BY <1>1, <2>3, PublisherNumber
    <3>2. calls \in Nat
      BY DEF NestingInv
    <3> QED BY <1>1, <2>3, <3>1, <3>2
  <2> QED BY <1>1, <2>1, <2>2, <2>3
<1> QED BY <1>1 DEF NestingInv

\* One thread's stack becomes s.
StackIs(t, s) ==
  /\ frames' = [u \in NestThreads |-> frames'[u]] /\ frames'[t] = s
  /\ \A u \in NestThreads : u # t => frames'[u] = frames[u]

\* A step of one thread that makes no call.
LEMMA QuietStep ==
  ASSUME NestingInv, NEW t \in NestThreads, NEW s, StackIs(t, s), calls' = calls, slot' \in 0..calls,
         Stack(t, s, calls), ~BottomAt(s, "publish"), in_region' \in [NestThreads -> BOOLEAN],
         in_region'[t] <=> BottomAt(s, "body"),
         \A u \in NestThreads : u # t => in_region'[u] = in_region[u],
         \A u \in NestThreads : u # t /\ BottomAt(frames[u], "publish") => frames[u][1].call # slot'
  PROVE  NestingInv'
<1>1. /\ frames' = [u \in NestThreads |-> frames'[u]] /\ frames'[t] = s
      /\ \A u \in NestThreads : u # t => frames'[u] = frames[u]
  BY DEF StackIs
<1>2. /\ calls \in Nat /\ \A u \in NestThreads : Stack(u, frames[u], calls)
      /\ \A u \in NestThreads : in_region[u] <=> BottomAt(frames[u], "body")
  BY DEF NestingInv
<1>3. \A u \in NestThreads : Stack(u, frames'[u], calls')
  BY <1>1, <1>2
<1>4. \A u \in NestThreads : in_region'[u] <=> BottomAt(frames'[u], "body")
  BY <1>1, <1>2
<1>5. ASSUME NEW u \in NestThreads, BottomAt(frames'[u], "publish")
      PROVE  frames'[u][1].call # slot' /\ frames'[u] = frames[u]
  <2>1. u # t
    BY <1>1, <1>5
  <2> QED BY <1>1, <1>5, <2>1
<1>6. calls' \in Nat /\ slot' \in 0..calls'
  BY <1>2
<1> QED BY <1>1, <1>3, <1>4, <1>5, <1>6, NestingStep

\* The operators on stacks.
LEMMA StackOps ==
  ASSUME NestingInv, NEW t \in NestThreads
  PROVE  /\ \A c, l : frames[t] = <<>> /\ frames' = Push(frames, t, c, l) =>
              StackIs(t, <<Frame(c, l)>>)
         /\ \A c, d : One(frames[t], c, "body") /\ frames' = Push(frames, t, d, "join") =>
              StackIs(t, <<Frame(c, "body"), Frame(d, "join")>>)
         /\ \A c, k, l : One(frames[t], c, k) /\ frames' = Now(frames, t, l) => StackIs(t, <<Frame(c, l)>>)
         /\ frames' = PopFrame(frames, t) => StackIs(t, Front(frames[t]))
<1>1. frames = [u \in NestThreads |-> frames[u]]
  BY DEF NestingInv
<1>2. ASSUME NEW s, frames' = [frames EXCEPT ![t] = s] PROVE StackIs(t, s)
  BY <1>1, <1>2 DEF StackIs
<1>3. ASSUME NEW c, NEW l, frames[t] = <<>>, frames' = Push(frames, t, c, l) PROVE StackIs(t, <<Frame(c, l)>>)
  <2>1. frames' = [frames EXCEPT ![t] = Append(frames[t], Frame(c, l))]
    BY <1>3 DEF Push, Frame
  <2>2. Append(frames[t], Frame(c, l)) = <<Frame(c, l)>>
    BY <1>3, ShortSequences
  <2> QED BY <1>2, <2>1, <2>2
<1>4. ASSUME NEW c, NEW d, One(frames[t], c, "body"), frames' = Push(frames, t, d, "join")
      PROVE  StackIs(t, <<Frame(c, "body"), Frame(d, "join")>>)
  <2>1. frames' = [frames EXCEPT ![t] = Append(frames[t], Frame(d, "join"))]
    BY <1>4 DEF Push, Frame
  <2>2. Append(<<Frame(c, "body")>>, Frame(d, "join")) = <<Frame(c, "body"), Frame(d, "join")>>
    BY ShortSequences
  <2>3. frames[t] = <<Frame(c, "body")>>
    BY <1>4 DEF One
  <2> QED BY <1>2, <2>1, <2>2, <2>3
<1>5. ASSUME NEW c, NEW k, NEW l, One(frames[t], c, k), frames' = Now(frames, t, l)
      PROVE  StackIs(t, <<Frame(c, l)>>)
  <2>1. frames[t] = <<Frame(c, k)>> /\ Len(frames[t]) = 1
    BY <1>5, OneFrame DEF One
  <2>2. frames' = [frames EXCEPT ![t] = [frames[t] EXCEPT ![1] = [frames[t][1] EXCEPT !.at = l]]]
    BY <1>5, <2>1 DEF Now
  <2>3. [Frame(c, k) EXCEPT !.at = l] = Frame(c, l)
    BY DEF Frame
  <2>4. [<<Frame(c, k)>> EXCEPT ![1] = Frame(c, l)] = <<Frame(c, l)>>
    OBVIOUS
  <2>5. <<Frame(c, k)>>[1] = Frame(c, k)
    OBVIOUS
  <2>6. [frames[t] EXCEPT ![1] = [frames[t][1] EXCEPT !.at = l]] = <<Frame(c, l)>>
    BY <2>1, <2>3, <2>4, <2>5
  <2> QED BY <1>2, <2>2, <2>6
<1>6. ASSUME frames' = PopFrame(frames, t) PROVE StackIs(t, Front(frames[t]))
  <2>1. frames' = [frames EXCEPT ![t] = Front(frames[t])]
    BY <1>6 DEF PopFrame
  <2> QED BY <1>2, <2>1
<1> QED BY <1>3, <1>4, <1>5, <1>6

\* What the moves of one thread have in common.
LEMMA NestingFacts ==
  ASSUME NestingInv
  PROVE  /\ calls \in Nat /\ slot \in 0..calls /\ in_region \in [NestThreads -> BOOLEAN]
         /\ \A u \in NestThreads : Stack(u, frames[u], calls)
         /\ \A u \in NestThreads : in_region[u] <=> BottomAt(frames[u], "body")
         /\ \A u \in NestThreads : BottomAt(frames[u], "publish") => frames[u][1].call # slot
BY DEF NestingInv

\* publish: the caller's number is the slot's now, and no other call has it.
LEMMA TakeRegionStep ==
  ASSUME NestingInv, NEW t \in NestThreads, TakeRegion(t)
  PROVE  NestingInv'
<1>1. /\ StandsAt(t, "publish") /\ slot' = Top(t).call /\ calls' = calls
      /\ frames' = Now(frames, t, "body") /\ in_region' = [in_region EXCEPT ![t] = TRUE]
  BY DEF TakeRegion
<1>2. PICK c \in 1..calls : One(frames[t], c, "publish") /\ Top(t).call = c
  BY <1>1, StandsWhere
<1>3. StackIs(t, <<Frame(c, "body")>>)
  BY <1>1, <1>2, StackOps
<1>4. One(<<Frame(c, "body")>>, c, "body")
  BY DEF One
<1>5. BottomAt(<<Frame(c, "body")>>, "body") /\ ~BottomAt(<<Frame(c, "body")>>, "publish")
  BY <1>4, OneFrame
<1>6. Stack(t, <<Frame(c, "body")>>, calls)
  BY <1>2, <1>4 DEF Stack
<1>7. frames[t][1].call = c /\ BottomAt(frames[t], "publish")
  BY <1>2, OneFrame
<1>8. \A u \in NestThreads : u # t /\ BottomAt(frames[u], "publish") => frames[u][1].call # c
  BY <1>7 DEF NestingInv
<1>9. slot' \in 0..calls
  BY <1>1, <1>2, NestingFacts
<1>10. /\ in_region' \in [NestThreads -> BOOLEAN] /\ in_region'[t]
       /\ \A u \in NestThreads : u # t => in_region'[u] = in_region[u]
  BY <1>1, NestingFacts
<1> QED BY <1>1, <1>2, <1>3, <1>5, <1>6, <1>8, <1>9, <1>10, QuietStep

\* A helper takes the slot's call.
LEMMA HelperTakesStep ==
  ASSUME NestingInv, NEW t \in NestThreads, HelperTakes(t)
  PROVE  NestingInv'
<1>1. /\ frames[t] = <<>> /\ slot # NoCall /\ slot' = slot /\ calls' = calls
      /\ frames' = Push(frames, t, slot, "body") /\ in_region' = [in_region EXCEPT ![t] = TRUE]
  BY DEF HelperTakes
<1>2. slot \in 1..calls
  BY <1>1, NestingFacts DEF NoCall
<1>3. StackIs(t, <<Frame(slot, "body")>>)
  BY <1>1, StackOps
<1>4. One(<<Frame(slot, "body")>>, slot, "body")
  BY DEF One
<1>5. BottomAt(<<Frame(slot, "body")>>, "body") /\ ~BottomAt(<<Frame(slot, "body")>>, "publish")
  BY <1>4, OneFrame
<1>6. Stack(t, <<Frame(slot, "body")>>, calls)
  BY <1>2, <1>4 DEF Stack
<1>7. /\ in_region' \in [NestThreads -> BOOLEAN] /\ in_region'[t]
      /\ \A u \in NestThreads : u # t => in_region'[u] = in_region[u]
  BY <1>1, NestingFacts
<1>8. \A u \in NestThreads : u # t /\ BottomAt(frames[u], "publish") => frames[u][1].call # slot'
  BY <1>1, NestingFacts
<1>9. slot' \in 0..calls
  BY <1>1, NestingFacts
<1> QED BY <1>1, <1>3, <1>5, <1>6, <1>7, <1>8, <1>9, QuietStep

\* The body of a call ends.
LEMMA EndBodyStep ==
  ASSUME NestingInv, NEW t \in NestThreads, EndBody(t)
  PROVE  NestingInv'
<1>1. /\ StandsAt(t, "body") /\ slot' = slot /\ calls' = calls
      /\ in_region' = [in_region EXCEPT ![t] = FALSE]
      /\ frames' = IF t \in PoolHelpers \/ (t \notin Mains /\ Len(frames[t]) = 1)
                   THEN PopFrame(frames, t) ELSE Now(frames, t, "wait")
  BY DEF EndBody
<1>2. PICK c \in 1..calls : One(frames[t], c, "body")
  BY <1>1, StandsWhere
<1>3. Len(frames[t]) = 1 /\ Front(frames[t]) = <<>>
  BY <1>2, OneFrame
<1>4. /\ in_region' \in [NestThreads -> BOOLEAN] /\ ~in_region'[t]
      /\ \A u \in NestThreads : u # t => in_region'[u] = in_region[u]
  BY <1>1, NestingFacts
<1>5. \A u \in NestThreads : u # t /\ BottomAt(frames[u], "publish") => frames[u][1].call # slot'
  BY <1>1, NestingFacts
<1>6. slot' \in 0..calls
  BY <1>1, NestingFacts
<1>7. CASE t \in PoolHelpers \/ t \notin Mains
  <2>1. frames' = PopFrame(frames, t)
    BY <1>1, <1>3, <1>7
  <2>2. StackIs(t, <<>>)
    BY <1>3, <2>1, StackOps
  <2>3. Stack(t, <<>>, calls) /\ ~BottomAt(<<>>, "body") /\ ~BottomAt(<<>>, "publish")
    BY DEF Stack, BottomAt
  <2> QED BY <1>1, <1>4, <1>5, <1>6, <2>2, <2>3, QuietStep
<1>8. CASE t \notin PoolHelpers /\ t \in Mains
  <2>1. frames' = Now(frames, t, "wait")
    BY <1>1, <1>8
  <2>2. StackIs(t, <<Frame(c, "wait")>>)
    BY <1>2, <2>1, StackOps
  <2>3. One(<<Frame(c, "wait")>>, c, "wait")
    BY DEF One
  <2>4. ~BottomAt(<<Frame(c, "wait")>>, "body") /\ ~BottomAt(<<Frame(c, "wait")>>, "publish")
    BY <2>3, OneFrame
  <2>5. Stack(t, <<Frame(c, "wait")>>, calls)
    BY <1>2, <1>8, <2>3 DEF Stack
  <2> QED BY <1>1, <1>4, <1>5, <1>6, <2>2, <2>4, <2>5, QuietStep
<1> QED BY <1>7, <1>8

\* wait_region gives the slot back.
LEMMA ReapRegionStep ==
  ASSUME NestingInv, NEW t \in NestThreads, ReapRegion(t)
  PROVE  NestingInv'
<1>1. /\ StandsAt(t, "wait") /\ slot' = NoCall /\ calls' = calls /\ in_region' = in_region
      /\ frames' = PopFrame(frames, t)
  BY DEF ReapRegion
<1>2. PICK c \in 1..calls : One(frames[t], c, "wait")
  BY <1>1, StandsWhere
<1>3. Front(frames[t]) = <<>> /\ ~BottomAt(frames[t], "body")
  BY <1>2, OneFrame
<1>4. StackIs(t, <<>>)
  BY <1>1, <1>3, StackOps
<1>5. Stack(t, <<>>, calls) /\ ~BottomAt(<<>>, "body") /\ ~BottomAt(<<>>, "publish")
  BY DEF Stack, BottomAt
<1>6. /\ in_region' \in [NestThreads -> BOOLEAN] /\ ~in_region'[t]
      /\ \A u \in NestThreads : u # t => in_region'[u] = in_region[u]
  BY <1>1, <1>3, NestingFacts
<1>7. ASSUME NEW u \in NestThreads, BottomAt(frames[u], "publish") PROVE frames[u][1].call # slot'
  <2>1. frames[u][1].call \in 1..calls
    BY <1>7, PublisherNumber
  <2> QED BY <1>1, <2>1, NestingFacts DEF NoCall
<1>8. slot' \in 0..calls
  BY <1>1, NestingFacts DEF NoCall
<1> QED BY <1>1, <1>4, <1>5, <1>6, <1>7, <1>8, QuietStep

\* The end of a scope.
LEMMA JoinScopeStep ==
  ASSUME NestingInv, NEW t \in NestThreads, JoinScope(t)
  PROVE  NestingInv'
<1>1. /\ StandsAt(t, "join") /\ slot' = slot /\ calls' = calls /\ in_region' = in_region
      /\ frames' = PopFrame(frames, t)
  BY DEF JoinScope
<1>2. /\ in_region' \in [NestThreads -> BOOLEAN] /\ in_region'[t] = in_region[t]
      /\ \A u \in NestThreads : u # t => in_region'[u] = in_region[u]
  BY <1>1, NestingFacts
<1>3. \A u \in NestThreads : u # t /\ BottomAt(frames[u], "publish") => frames[u][1].call # slot'
  BY <1>1, NestingFacts
<1>4. slot' \in 0..calls
  BY <1>1, NestingFacts
<1>5. StackIs(t, Front(frames[t]))
  BY <1>1, StackOps
<1>6. ASSUME NEW d \in 1..calls, One(frames[t], d, "join") PROVE NestingInv'
  <2>1. Front(frames[t]) = <<>> /\ ~BottomAt(frames[t], "body")
    BY <1>6, OneFrame
  <2>2. Stack(t, <<>>, calls) /\ ~BottomAt(<<>>, "body") /\ ~BottomAt(<<>>, "publish")
    BY DEF Stack, BottomAt
  <2>3. StackIs(t, <<>>) /\ ~in_region'[t]
    BY <1>2, <1>5, <2>1, NestingFacts
  <2> QED BY <1>1, <1>2, <1>3, <1>4, <2>2, <2>3, QuietStep
<1>7. ASSUME NEW c \in 1..calls, NEW d \in 1..calls, Joining(frames[t], c, d) PROVE NestingInv'
  <2> DEFINE s == Front(frames[t])
  <2>1. One(s, c, "body") /\ BottomAt(frames[t], "body")
    BY <1>7, TwoFrames
  <2>2. BottomAt(s, "body") /\ ~BottomAt(s, "publish")
    BY <2>1, OneFrame
  <2>3. Stack(t, s, calls) /\ in_region'[t]
    BY <1>2, <2>1, NestingFacts DEF Stack
  <2> HIDE DEF s
  <2> QED BY <1>1, <1>2, <1>3, <1>4, <1>5, <2>2, <2>3, QuietStep DEF s
<1> QED BY <1>1, <1>6, <1>7, StandsWhere

\* Which stack a thread that makes a call has: none, or a body's.
LEMMA CallerStack ==
  ASSUME NestingInv, NEW t \in NestThreads, MayCall(t)
  PROVE  \/ t \in Mains /\ frames[t] = <<>> /\ ~in_region[t]
         \/ in_region[t] /\ \E c \in 1..calls : One(frames[t], c, "body")
<1>1. CASE t \in Mains /\ frames[t] = <<>>
  BY <1>1, NestingFacts DEF BottomAt
<1>2. CASE StandsAt(t, "body")
  <2>1. PICK c \in 1..calls : One(frames[t], c, "body")
    BY <1>2, StandsWhere
  <2>2. BottomAt(frames[t], "body")
    BY <2>1, OneFrame
  <2> QED BY <2>1, <2>2, NestingFacts
<1> QED BY <1>1, <1>2 DEF MayCall

\* A call to the pool is made outside of every region.
LEMMA CallPoolStep ==
  ASSUME NestingInv, NEW t \in NestThreads, NEW n, CallPool(t, n)
  PROVE  NestingInv'
<1> DEFINE k == calls + 1
           s == <<Frame(k, "publish")>>
<1>1. /\ MayCall(t) /\ ~in_region[t] /\ calls' = k /\ slot' = slot /\ in_region' = in_region
      /\ frames' = Push(frames, t, k, "publish")
  BY DEF CallPool
<1>2. t \in Mains /\ frames[t] = <<>>
  BY <1>1, CallerStack
<1>3. calls \in Nat /\ slot \in 0..calls /\ k \in Nat /\ k \in 1..k /\ calls <= k /\ slot # k /\ slot \in 0..k
  BY NestingFacts
<1>4. StackIs(t, s)
  BY <1>1, <1>2, StackOps
<1>5. One(s, k, "publish")
  BY DEF One
<1>6. s[1].call = k /\ ~BottomAt(s, "body")
  <2> HIDE DEF s, k
  <2> QED BY <1>5, OneFrame
<1> HIDE DEF s, k
<1>7. Stack(t, s, k)
  BY <1>2, <1>3, <1>5 DEF Stack
<1>8. /\ frames' = [u \in NestThreads |-> frames'[u]] /\ frames'[t] = s
      /\ \A u \in NestThreads : u # t => frames'[u] = frames[u]
  BY <1>4 DEF StackIs
<1>9. \A u \in NestThreads : Stack(u, frames'[u], calls')
  <2>1. \A u \in NestThreads : Stack(u, frames[u], k)
    BY <1>3, NestingFacts, StackStays
  <2> QED BY <1>1, <1>7, <1>8, <2>1
<1>10. \A u \in NestThreads : in_region'[u] <=> BottomAt(frames'[u], "body")
  BY <1>1, <1>6, <1>8, NestingFacts
<1>11. \A u \in NestThreads : BottomAt(frames'[u], "publish") =>
           /\ frames'[u][1].call # slot'
           /\ frames'[u] = frames[u] \/ (u = t /\ frames'[u][1].call = calls + 1)
  BY <1>1, <1>3, <1>6, <1>8, NestingFacts DEF k
<1>12. calls' \in Nat /\ slot' \in 0..calls' /\ in_region' \in [NestThreads -> BOOLEAN]
  BY <1>1, <1>3, NestingFacts
<1> QED BY <1>8, <1>9, <1>10, <1>11, <1>12, NestingStep

\* A scoped call: each thread spawned runs the call's body inside a region, its maker joins.
LEMMA CallScopedStep ==
  ASSUME NestingInv, NEW t \in NestThreads, NEW n, CallScoped(t, n)
  PROVE  NestingInv'
<1> DEFINE k == calls + 1
           free == {i \in DOMAIN Spawnable : frames[Spawnable[i]] = <<>>}
           first == {i \in free : Cardinality({j \in free : j < i}) < n}
           spawned == {Spawnable[i] : i \in first}
           b == <<Frame(k, "body")>>
           s == Append(frames[t], Frame(k, "join"))
<1>1. /\ MayCall(t) /\ calls' = k /\ slot' = slot /\ in_region' = SpawnedFlags(spawned)
      /\ frames' = [u \in NestThreads |->
              IF u \in spawned THEN <<[call |-> calls + 1, at |-> "body"]>>
              ELSE Push(frames, t, calls + 1, "join")[u]]
  BY DEF CallScoped
<1>2. \A u \in spawned : frames[u] = <<>> /\ u \notin Mains
  <2>1. \A i \in DOMAIN Spawnable : Spawnable[i] \in ToSet(Spawnable)
    BY DEF ToSet
  <2> QED BY <2>1, NestingAssumption
<1>3. t \notin spawned
  <2>1. CASE t \in Mains
    BY <1>2, <2>1
  <2>2. CASE \E c \in 1..calls : One(frames[t], c, "body")
    BY <1>2, <2>2, OneFrame
  <2> QED BY <1>1, <2>1, <2>2, CallerStack
<1>4. /\ calls \in Nat /\ slot \in 0..calls /\ k \in Nat /\ k \in 1..k /\ calls <= k /\ slot \in 0..k
      /\ \A c \in 1..calls : c \in 1..k /\ c < k
  BY NestingFacts
<1>5. frames = [u \in NestThreads |-> frames[u]]
  BY DEF NestingInv
<1>6. /\ frames' = [u \in NestThreads |-> frames'[u]] /\ frames'[t] = s
      /\ \A u \in NestThreads : u \in spawned => frames'[u] = b
      /\ \A u \in NestThreads : u # t /\ u \notin spawned => frames'[u] = frames[u]
  <2>1. /\ Push(frames, t, calls + 1, "join")[t] = s
        /\ \A u \in NestThreads : u # t => Push(frames, t, calls + 1, "join")[u] = frames[u]
    BY <1>5 DEF Push, Frame
  <2> HIDE DEF spawned
  <2> QED BY <1>1, <1>3, <2>1 DEF Frame
<1>7. One(b, k, "body")
  BY DEF One
<1> HIDE DEF k, b
<1>8. BottomAt(b, "body") /\ ~BottomAt(b, "publish")
  BY <1>7, OneFrame
<1>9. \A u \in NestThreads : Stack(u, b, k)
  BY <1>4, <1>7 DEF Stack
<1>10. Stack(t, s, k) /\ ~BottomAt(s, "publish") /\ (BottomAt(s, "body") <=> in_region[t])
  <2>1. CASE t \in Mains /\ frames[t] = <<>> /\ ~in_region[t]
    <3>1. One(s, k, "join")
      BY <2>1, ShortSequences DEF One
    <3> HIDE DEF s
    <3>2. Stack(t, s, k)
      BY <1>4, <2>1, <3>1 DEF Stack
    <3>3. ~BottomAt(s, "publish") /\ ~BottomAt(s, "body")
      BY <3>1, OneFrame
    <3> QED BY <2>1, <3>2, <3>3
  <2>2. ASSUME in_region[t], NEW c \in 1..calls, One(frames[t], c, "body")
        PROVE  Stack(t, s, k) /\ ~BottomAt(s, "publish") /\ BottomAt(s, "body")
    <3>1. frames[t] = <<Frame(c, "body")>>
      BY <2>2 DEF One
    <3>2. Append(<<Frame(c, "body")>>, Frame(k, "join")) = <<Frame(c, "body"), Frame(k, "join")>>
      BY ShortSequences
    <3>3. Joining(s, c, k)
      BY <3>1, <3>2 DEF Joining
    <3> HIDE DEF s
    <3>4. Stack(t, s, k)
      BY <1>4, <3>3 DEF Stack
    <3>5. ~BottomAt(s, "publish") /\ BottomAt(s, "body")
      BY <3>3, TwoFrames
    <3> QED BY <3>4, <3>5
  <2> QED BY <1>1, <2>1, <2>2, CallerStack
<1> HIDE DEF s, spawned
<1>11. /\ in_region' \in [NestThreads -> BOOLEAN]
       /\ \A u \in NestThreads : in_region'[u] <=> (u \in spawned \/ in_region[u])
  BY <1>1, NestingFacts DEF SpawnedFlags
<1>12. \A u \in NestThreads : Stack(u, frames'[u], calls')
  <2>1. \A u \in NestThreads : Stack(u, frames[u], k)
    BY <1>4, NestingFacts, StackStays
  <2> QED BY <1>1, <1>6, <1>9, <1>10, <2>1
<1>13. \A u \in NestThreads : in_region'[u] <=> BottomAt(frames'[u], "body")
  <2>1. \A u \in NestThreads : u \in spawned => (in_region'[u] <=> BottomAt(frames'[u], "body"))
    BY <1>6, <1>8, <1>11
  <2>2. in_region'[t] <=> BottomAt(frames'[t], "body")
    BY <1>3, <1>6, <1>10, <1>11
  <2>3. \A u \in NestThreads : u # t /\ u \notin spawned => (in_region'[u] <=> BottomAt(frames'[u], "body"))
    BY <1>6, <1>11, NestingFacts
  <2> QED BY <2>1, <2>2, <2>3
<1>14. \A u \in NestThreads : BottomAt(frames'[u], "publish") =>
           /\ frames'[u][1].call # slot'
           /\ frames'[u] = frames[u] \/ (u = t /\ frames'[u][1].call = calls + 1)
  BY <1>1, <1>6, <1>8, <1>10, NestingFacts
<1>15. calls' \in Nat /\ slot' \in 0..calls'
  BY <1>1, <1>4
<1> QED BY <1>6, <1>11, <1>12, <1>13, <1>14, <1>15, NestingStep

\* Where the threads start.
LEMMA NestingInvInit == NestingInit => NestingInv
<1> SUFFICES ASSUME NestingInit PROVE NestingInv
  OBVIOUS
<1>1. /\ frames = [t \in NestThreads |-> <<>>] /\ in_region = [t \in NestThreads |-> FALSE]
      /\ slot = 0 /\ calls = 0
  BY DEF NestingInit, NoCall
<1>2. \A t \in NestThreads : frames[t] = <<>> /\ ~in_region[t]
  BY <1>1
<1>3. \A l : ~BottomAt(<<>>, l)
  BY DEF BottomAt
<1>4. \A t \in NestThreads : Stack(t, frames[t], calls)
  BY <1>2 DEF Stack
<1>5. frames = [t \in NestThreads |-> frames[t]] /\ in_region \in [NestThreads -> BOOLEAN]
  BY <1>1
<1> QED BY <1>1, <1>2, <1>3, <1>4, <1>5 DEF NestingInv

\* Every step keeps the invariant.
LEMMA NestingInvNext ==
  ASSUME NestingInv, [NestingNext]_nesting_vars
  PROVE  NestingInv'
<1>1. \A h \in PoolHelpers : h \in NestThreads
  BY DEF NestThreads
<1>2. CASE NestingNext
  BY <1>1, <1>2, CallPoolStep, CallScopedStep, TakeRegionStep, EndBodyStep, ReapRegionStep,
     JoinScopeStep, HelperTakesStep DEF NestingNext
<1>3. CASE UNCHANGED nesting_vars
  BY <1>3 DEF NestingInv, nesting_vars, Stack, One, Joining, BottomAt
<1> QED BY <1>2, <1>3

\* Every thread's stack is one the code can build, IN_REGION is set exactly where a body runs, and
\* no two calls at the slot have one number: whoever goes to the pool runs outside of every region.
THEOREM NestingInvHolds == NestingSpec => []NestingInv
BY NestingInvInit, NestingInvNext, PTL DEF NestingSpec

\* However calls nest, whatever the threads and the pool's size, of any threads one waits for none
\* of them: no circle of waiting, so no parallel call hangs on the pool it is served by.
THEOREM NoCircleOfWaiting == NestingSpec => []NestedCallsNeverHang
BY NestingInvHolds, InvNeverHangs, PTL
=============================================================================
