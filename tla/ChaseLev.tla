------------------------------ MODULE ChaseLev ------------------------------
(***************************************************************************)
(* The bounded work-stealing deque of crates/anvil/src/chase_lev.rs: one   *)
(* owner pushes and pops at `bottom`, stealers take from `top` with a CAS, *)
(* and a FREE/FULL state per physical slot hands the slot's storage from   *)
(* the reader of index i to the push of index i + Capacity.                *)
(*                                                                         *)
(* Memory model: the build's reference target is x86_64, so every thread   *)
(* has a FIFO store buffer in front of memory (TSO).  Relaxed and Release  *)
(* stores enter the buffer, loads look through the thread's own buffer,    *)
(* fence(SeqCst) and compare_exchange wait until the buffer is empty.      *)
(* Stores into the own buffer and loads of locations nobody else writes    *)
(* are invisible to the other threads and share a step with the load that  *)
(* precedes them.                                                          *)
(***************************************************************************)
EXTENDS Integers, Sequences, FiniteSets, FiniteSetsExt

CONSTANTS
  Capacity,   \* physical slots, a power of two
  Stealers,   \* threads that call steal
  Owner,      \* the one thread that calls push and pop
  None,       \* bits of a slot that was never written, and "no result"
  MaxPush     \* bound: successful pushes of a behaviour

ASSUME ChaseLevAssumption ==
  /\ Capacity \in Nat /\ Capacity >= 2
  /\ MaxPush \in Nat
  /\ Owner \notin Stealers
  /\ IsFiniteSet(Stealers)
  /\ None \notin 1..MaxPush

VARIABLES
  top, bottom,   \* the two indices, as memory holds them
  states,        \* slot -> "FREE" | "FULL", as memory holds it
  buffer,        \* slot -> task bits, as memory holds them
  sb,            \* thread -> its store buffer, oldest store first
  pc,            \* thread -> next shared access of its operation
  t,             \* thread -> value of `top` its operation loaded
  b,             \* the owner's local `b`
  pushed,        \* ghost: tasks pushed so far are 1..pushed
  at,            \* ghost: index -> last task pushed at that index
  taken,         \* ghost: task -> how often its bits were handed out
  dropped        \* the deque has been dropped

vars == <<top, bottom, states, buffer, sb, pc, t, b, pushed, at, taken, dropped>>

Threads == Stealers \union {Owner}
Slots   == 0..(Capacity - 1)
Indices == 0..(MaxPush - 1)
Tasks   == 1..MaxPush
mask    == Capacity - 1
SlotOf(i) == i % Capacity

BottomStore(v)   == [loc |-> "bottom", slot |-> 0, val |-> v]
StateStore(s, v) == [loc |-> "state", slot |-> s, val |-> v]
DataStore(s, v)  == [loc |-> "data", slot |-> s, val |-> v]

\* What a load by thread th returns: its youngest buffered store, else memory.
Load(th, loc, s, memory) ==
  LET mine == {i \in DOMAIN sb[th] : sb[th][i].loc = loc /\ sb[th][i].slot = s}
  IN IF mine = {} THEN memory ELSE sb[th][Max(mine)].val

OwnerBottom == Load(Owner, "bottom", 0, bottom)

Issue(th, stores) == sb' = [sb EXCEPT ![th] = @ \o stores]

\* fence(SeqCst) and every locked instruction drain the store buffer first.
Fenced(th) == sb[th] = <<>>

Goto(th, l) == pc' = [pc EXCEPT ![th] = l]

Take(task) == taken' = [taken EXCEPT ![task] = @ + 1]

Init ==
  /\ top = 0 /\ bottom = 0
  /\ states = [s \in Slots |-> "FREE"]
  /\ buffer = [s \in Slots |-> None]
  /\ sb = [th \in Threads |-> <<>>]
  /\ pc = [th \in Threads |-> "idle"]
  /\ t = [th \in Threads |-> 0]
  /\ b = 0
  /\ pushed = 0
  /\ at = [i \in Indices |-> None]
  /\ taken = [x \in Tasks \union {None} |-> 0]
  /\ dropped = FALSE

-----------------------------------------------------------------------------
(* push *)

\* Fault model: the sentinel gap is lost by an off-by-one.
HasRoomOffByOne(bb, tt) == bb - tt <= mask

\* The capacity test: one slot stays empty as the sentinel gap.
HasRoom(bb, tt) == bb - tt < mask

PushLoad ==
  /\ pc[Owner] = "idle" /\ ~dropped /\ pushed < MaxPush
  /\ b' = OwnerBottom
  /\ Goto(Owner, IF HasRoom(OwnerBottom, top) THEN "push_slot" ELSE "idle")
  /\ UNCHANGED <<top, bottom, states, buffer, sb, t, pushed, at, taken, dropped>>

\* Fault model: push trusts the indices alone.
SlotNotChecked(s) == TRUE

\* The slot must have been released by the reader of its previous generation.
SlotIsFree(s) == Load(Owner, "state", s, states[s]) = "FREE"

\* Fault model: the index is published before the slot.
BottomStoredFirst(s, task) ==
  <<BottomStore(b + 1), DataStore(s, task), StateStore(s, "FULL")>>

PushStores(s, task) ==
  <<DataStore(s, task), StateStore(s, "FULL"), BottomStore(b + 1)>>

PushStore ==
  /\ pc[Owner] = "push_slot"
  /\ Goto(Owner, "idle")
  /\ IF SlotIsFree(SlotOf(b))
     THEN /\ Issue(Owner, PushStores(SlotOf(b), pushed + 1))
          /\ pushed' = pushed + 1
          /\ at' = [at EXCEPT ![b] = pushed + 1]
     ELSE UNCHANGED <<sb, pushed, at>>
  /\ UNCHANGED <<top, bottom, states, buffer, t, b, taken, dropped>>

-----------------------------------------------------------------------------
(* pop *)

PopReserve ==
  /\ pc[Owner] = "idle" /\ ~dropped
  /\ b' = OwnerBottom - 1
  /\ Issue(Owner, <<BottomStore(OwnerBottom - 1)>>)
  /\ Goto(Owner, "pop_top")
  /\ UNCHANGED <<top, bottom, states, buffer, t, pushed, at, taken, dropped>>

\* Fault model: pop without its fence(SeqCst).
NoPopFence == TRUE

PopFence == Fenced(Owner)

\* Fault model: a failed pop leaves `bottom` lowered.
BottomNotRestored == <<>>

RestoreBottom == <<BottomStore(b + 1)>>

\* The owner reads slot b and releases it; restore is the trailing store of
\* `bottom`, which only the last-element path makes.
PopTake(restore) ==
  /\ Take(buffer[SlotOf(b)])
  /\ Issue(Owner, <<StateStore(SlotOf(b), "FREE")>> \o restore)

PopLoadTop ==
  /\ pc[Owner] = "pop_top"
  /\ PopFence
  /\ t' = [t EXCEPT ![Owner] = top]
  /\ \/ /\ top < b
        /\ PopTake(<<>>)
        /\ Goto(Owner, "idle")
     \/ /\ top = b
        /\ Goto(Owner, "pop_cas")
        /\ UNCHANGED <<sb, taken>>
     \/ /\ top > b
        /\ Issue(Owner, RestoreBottom)
        /\ Goto(Owner, "idle")
        /\ UNCHANGED taken
  /\ UNCHANGED <<top, bottom, states, buffer, b, pushed, at, dropped>>

\* The last element is arbitrated on `top`: the owner wins it or a stealer has.
PopCas ==
  /\ pc[Owner] = "pop_cas"
  /\ Fenced(Owner)
  /\ IF top = t[Owner]
     THEN top' = top + 1 /\ PopTake(RestoreBottom)
     ELSE Issue(Owner, RestoreBottom) /\ UNCHANGED <<top, taken>>
  /\ Goto(Owner, "idle")
  /\ UNCHANGED <<bottom, states, buffer, t, b, pushed, at, dropped>>

-----------------------------------------------------------------------------
(* steal *)

StealLoadTop(s) ==
  /\ pc[s] = "idle" /\ ~dropped
  /\ t' = [t EXCEPT ![s] = top]
  /\ Goto(s, "steal_bottom")
  /\ UNCHANGED <<top, bottom, states, buffer, sb, b, pushed, at, taken, dropped>>

StealLoadBottom(s) ==
  /\ pc[s] = "steal_bottom"
  /\ Fenced(s)
  /\ Goto(s, IF t[s] >= bottom THEN "idle" ELSE "steal_cas")
  /\ UNCHANGED <<top, bottom, states, buffer, sb, t, b, pushed, at, taken, dropped>>

StealCas(s) ==
  /\ pc[s] = "steal_cas"
  /\ Fenced(s)
  /\ IF top = t[s]
     THEN top' = top + 1 /\ Goto(s, "steal_state")
     ELSE UNCHANGED top /\ Goto(s, "idle")
  /\ UNCHANGED <<bottom, states, buffer, sb, t, b, pushed, at, taken, dropped>>

\* The index is won; a slot that is not FULL is given up with `Busy`.
StealLoadState(s) ==
  /\ pc[s] = "steal_state"
  /\ Goto(s, IF states[SlotOf(t[s])] = "FULL" THEN "steal_read" ELSE "idle")
  /\ UNCHANGED <<top, bottom, states, buffer, sb, t, b, pushed, at, taken, dropped>>

StealRead(s) ==
  /\ pc[s] = "steal_read"
  /\ Take(buffer[SlotOf(t[s])])
  /\ Issue(s, <<StateStore(SlotOf(t[s]), "FREE")>>)
  /\ Goto(s, "idle")
  /\ UNCHANGED <<top, bottom, states, buffer, t, b, pushed, at, dropped>>

-----------------------------------------------------------------------------
\* External: the memory system retires the oldest store of a thread's buffer.
Flush(th) ==
  /\ sb[th] # <<>>
  /\ LET w == Head(sb[th]) IN
       /\ bottom' = IF w.loc = "bottom" THEN w.val ELSE bottom
       /\ states' = IF w.loc = "state" THEN [states EXCEPT ![w.slot] = w.val] ELSE states
       /\ buffer' = IF w.loc = "data" THEN [buffer EXCEPT ![w.slot] = w.val] ELSE buffer
  /\ sb' = [sb EXCEPT ![th] = Tail(@)]
  /\ UNCHANGED <<top, pc, t, b, pushed, at, taken, dropped>>

\* The executor joins every worker before it drops the deque.
Quiescent == \A th \in Threads : pc[th] = "idle" /\ sb[th] = <<>>

\* Drop for Deque: every index of [top, bottom) is read and destroyed.
Drop ==
  /\ Quiescent /\ ~dropped
  /\ dropped' = TRUE
  /\ LET left == {buffer[SlotOf(i)] : i \in top..(bottom - 1)}
     IN taken' = [x \in Tasks \union {None} |-> taken[x] + (IF x \in left THEN 1 ELSE 0)]
  /\ UNCHANGED <<top, bottom, states, buffer, sb, pc, t, b, pushed, at>>

OwnerStep == PushLoad \/ PushStore \/ PopReserve \/ PopLoadTop \/ PopCas
StealStep(s) ==
  StealLoadTop(s) \/ StealLoadBottom(s) \/ StealCas(s) \/ StealLoadState(s) \/ StealRead(s)

Next ==
  \/ OwnerStep
  \/ \E s \in Stealers : StealStep(s)
  \/ \E th \in Threads : Flush(th)
  \/ Drop

Spec == Init /\ [][Next]_vars

-----------------------------------------------------------------------------
(* Properties *)

StoreType ==
  [loc : {"bottom"}, slot : {0}, val : -1..MaxPush]
    \union [loc : {"state"}, slot : Slots, val : {"FREE", "FULL"}]
    \union [loc : {"data"}, slot : Slots, val : Tasks]

\* The variables hold values of their types.
TypeOK ==
  /\ top \in 0..MaxPush /\ bottom \in -1..MaxPush
  /\ states \in [Slots -> {"FREE", "FULL"}]
  /\ buffer \in [Slots -> Tasks \union {None}]
  /\ sb \in [Threads -> Seq(StoreType)]
  /\ pc \in [Threads -> {"idle", "push_slot", "pop_top", "pop_cas", "steal_bottom",
                         "steal_cas", "steal_state", "steal_read"}]
  /\ t \in [Threads -> 0..MaxPush] /\ b \in -1..MaxPush
  /\ pushed \in 0..MaxPush
  /\ at \in [Indices -> Tasks \union {None}]
  /\ taken \in [Tasks \union {None} -> Nat]
  /\ dropped \in BOOLEAN

\* No task is handed out twice and no never-written slot is read as a task,
\* whatever the race between pop, the stealers and index wraparound.
HandedOutOnce == taken[None] = 0 /\ \A x \in Tasks : taken[x] <= 1

\* Once the joined deque is dropped, every pushed task was handed out exactly
\* once, by pop, by steal or by the drain: none is stranded in a slot.
NothingLost == dropped => \A x \in 1..pushed : taken[x] = 1

\* A stealer that won index i finds slot i FULL with the task pushed at i, and
\* no store to that slot is in flight: the `!= SLOT_FULL` branch of steal is
\* unreachable, and no push overwrites the slot under the read.
WinnerOwnsSlot ==
  \A s \in Stealers : pc[s] \in {"steal_state", "steal_read"} =>
    /\ states[SlotOf(t[s])] = "FULL"
    /\ buffer[SlotOf(t[s])] = at[t[s]]
    /\ \A th \in Threads : \A i \in DOMAIN sb[th] :
         sb[th][i].loc # "bottom" => sb[th][i].slot # SlotOf(t[s])

\* The index one past the youngest element the deque holds: while pop has
\* lowered `bottom` but not yet decided, element b is still in the deque.
LogicalBottom == IF pc[Owner] \in {"pop_top", "pop_cas"} THEN b + 1 ELSE OwnerBottom

Winners(x) ==
  {s \in Stealers : pc[s] \in {"steal_state", "steal_read"} /\ at[t[s]] = x}

\* The deque's tasks, oldest first, and how often each task was handed out or won.
Items == IF dropped THEN <<>> ELSE [i \in 1..(LogicalBottom - top) |-> at[top + i - 1]]
Out   == [x \in Tasks |-> taken[x] + Cardinality(Winners(x))]

Abstract == INSTANCE WorkDeque WITH Limit <- mask, items <- Items, out <- Out

\* The deque implements a bounded double-ended task sequence: pop takes the
\* youngest task, a winning CAS takes the oldest, and each caller is handed
\* the bits of exactly the task its operation removed.
ImplementsWorkDeque == Abstract!Spec

\* What the operations keep true between them: types, every task accounted for at the drop,
\* and a winner that still owns its slot.
DequeInv == TypeOK /\ NothingLost /\ WinnerOwnsSlot
=============================================================================
