----------------------------- MODULE WorkDeque ------------------------------
(***************************************************************************)
(* What the deque of crates/anvil/src/chase_lev.rs promises its callers:   *)
(* a bounded sequence of tasks, extended and shortened on the right by the *)
(* owner and shortened on the left by stealers, each removal handing out   *)
(* the removed task.  A failed operation changes nothing.                  *)
(***************************************************************************)
EXTENDS Integers, Sequences, SequencesExt

CONSTANTS Limit,   \* most tasks the deque holds
          MaxPush  \* bound: pushes of a behaviour

VARIABLES items,   \* queued tasks, oldest first
          pushed,  \* tasks pushed so far are 1..pushed
          out      \* task -> how often it was handed to a caller

HandOut(task) == out' = [out EXCEPT ![task] = @ + 1]

Init == items = <<>> /\ pushed = 0 /\ out = [x \in 1..MaxPush |-> 0]

Push ==
  /\ Len(items) < Limit
  /\ pushed' = pushed + 1
  /\ items' = Append(items, pushed + 1)
  /\ UNCHANGED out

PopRight ==
  /\ items # <<>>
  /\ HandOut(Last(items))
  /\ items' = Front(items)
  /\ UNCHANGED pushed

StealLeft ==
  /\ items # <<>>
  /\ HandOut(Head(items))
  /\ items' = Tail(items)
  /\ UNCHANGED pushed

\* Dropping the deque hands every queued task to its destructor at once.
DrainAll ==
  /\ items' = <<>>
  /\ out' = [x \in 1..MaxPush |-> out[x] + (IF x \in Range(items) THEN 1 ELSE 0)]
  /\ UNCHANGED pushed

Next == Push \/ PopRight \/ StealLeft \/ DrainAll

Spec == Init /\ [][Next]_<<items, pushed, out>>
=============================================================================
