------------------------------ MODULE Channel -------------------------------
(***************************************************************************)
(* What the single-producer single-consumer queues of crates/anvil promise *)
(* their two ends: a bounded FIFO from which the consumer takes one value  *)
(* or a batch.  The values are the numbers 0, 1, 2, ... in sending order.  *)
(***************************************************************************)
EXTENDS Integers, Sequences

CONSTANT Bound   \* most values in flight

VARIABLES queue,  \* values sent and not yet received, oldest first
          sent,   \* values sent so far
          got     \* what the last receive returned

Init == queue = <<>> /\ sent = 0 /\ got = <<>>

Send ==
  /\ Len(queue) < Bound
  /\ queue' = Append(queue, sent)
  /\ sent' = sent + 1
  /\ UNCHANGED got

Receive ==
  \E n \in 1..Len(queue) :
    /\ got' = SubSeq(queue, 1, n)
    /\ queue' = SubSeq(queue, n + 1, Len(queue))
    /\ UNCHANGED sent

Next == Send \/ Receive

Spec == Init /\ [][Next]_<<queue, sent, got>>
=============================================================================
