-------------------------------- MODULE Pool --------------------------------
(***************************************************************************)
(* The persistent worker pool of crates/anvil/src/pool.rs.  A caller lends *)
(* a raw pointer into its own stack frame to the helpers (publish), works  *)
(* as worker 0, and may return, ending the frame, only behind the done     *)
(* barrier (wait_region).  Callers, helpers and the thread that builds and *)
(* drops the pool interleave at every lock, wait and notify.               *)
(*                                                                         *)
(* One condition variable serves helpers, publishers and the barrier.  A   *)
(* wait releases the mutex and parks in one step; notify_all moves every   *)
(* parked thread to where it re-acquires the mutex.  Critical sections are *)
(* one step, except where the code reads `shutdown`, which Drop writes     *)
(* without the mutex.  The spin loops and their hints (pub_generation,     *)
(* done_hint) only shorten a wait: leaving one after any number of         *)
(* iterations covers them.                                                 *)
(***************************************************************************)
EXTENDS Integers, FiniteSets

CONSTANTS
  N,            \* helpers asked of Pool::new: workers 1..N, the caller is 0
  Callers,      \* threads that run regions on the shared pool
  Length,       \* elements of the partitioned slice
  MaxRegions,   \* bound: regions each caller runs
  MaxPanics,    \* bound: panicking trampolines of a behaviour
  MaxSpurious,  \* bound: spurious wakeups of a behaviour
  NoRegion      \* "no descriptor"

ASSUME PoolAssumption ==
  /\ N \in Nat /\ Length \in Nat /\ MaxRegions \in Nat /\ MaxPanics \in Nat
  /\ MaxSpurious \in Nat
  /\ IsFiniteSet(Callers) /\ Callers \cap 1..N = {}
  /\ NoRegion \notin Callers \union 1..N

Helpers  == 1..N
Elements == 0..(Length - 1)
Threads  == Callers \union Helpers

VARIABLES
  busy, generation, done, panicked, desc,   \* Handoff, under the mutex
  lock,          \* holder of the mutex across steps, or NoRegion
  shutdown,      \* AtomicBool
  helper_count,  \* helpers of the pool the callers hold: N, or 0 when solo
  pc,            \* thread -> where it stands
  seen,          \* helper -> last generation it checked in
  gen,           \* thread -> generation it works on
  ctx,           \* helper -> descriptor it copied out of the handoff
  caught,        \* thread -> its trampoline reported a panic
  frame,         \* caller -> writes its region's output slots received
  live,          \* callers whose lent frame is on the stack
  result,        \* caller -> outcome of its last region
  regions,       \* caller -> regions it has started
  panics,        \* panics so far
  spurious,      \* spurious wakeups so far
  main           \* the thread that builds and drops the pool

handoff == <<busy, generation, done, panicked, desc>>
vars == <<handoff, lock, shutdown, helper_count, pc, seen, gen, ctx, caught,
          frame, live, result, regions, panics, spurious, main>>

-----------------------------------------------------------------------------
(* Static partitioning: worker w owns chunks w, w + n, ... *)

workers == helper_count + 1
CeilDiv(a, n) == (a + n - 1) \div n

ChunkSize(n) == CeilDiv(Length, n)

\* The elements of chunk c, clipped to the slice.
Chunk(c, n) == {i \in Elements : c * ChunkSize(n) <= i /\ i < (c + 1) * ChunkSize(n)}

\* Chunk numbers worker w visits before its start passes the slice.
OwnedChunks(w, n) == {c \in 0..Length : c % n = w /\ c * ChunkSize(n) < Length}

Owned(w, n) == UNION {Chunk(c, n) : c \in OwnedChunks(w, n)}

\* What a trampoline may have written: everything it owns or, when f panics in
\* some chunk, a proper prefix of that chunk and the other chunks whole.
Written(w, n, fails) ==
  IF ~fails THEN {Owned(w, n)}
  ELSE {S \in SUBSET Owned(w, n) :
          /\ S # Owned(w, n)
          /\ \A c \in OwnedChunks(w, n) : \A i, j \in Chunk(c, n) :
               i < j /\ j \in S => i \in S}

Write(c, S) == frame' = [frame EXCEPT ![c] = [i \in Elements |-> @[i] + (IF i \in S THEN 1 ELSE 0)]]

Init ==
  /\ busy = FALSE /\ generation = 0 /\ done = 0 /\ panicked = FALSE /\ desc = NoRegion
  /\ lock = NoRegion /\ shutdown = FALSE
  /\ helper_count = N
  /\ pc = [th \in Threads |-> IF th \in Helpers THEN "unspawned" ELSE "idle"]
  /\ seen = [h \in Helpers |-> 0]
  /\ gen = [th \in Threads |-> 0]
  /\ ctx = [h \in Helpers |-> NoRegion]
  /\ caught = [th \in Threads |-> FALSE]
  /\ frame = [c \in Callers |-> [i \in Elements |-> 0]]
  /\ live = {}
  /\ result = [c \in Callers |-> "none"]
  /\ regions = [c \in Callers |-> 0]
  /\ panics = 0 /\ spurious = 0
  /\ main = "spawning"

Goto(th, l) == pc' = [pc EXCEPT ![th] = l]
Unlocked == lock = NoRegion

\* notify_all: whoever is parked goes on to re-acquire the mutex.
Woken(p) == [th \in Threads |->
  CASE p[th] = "parked_helper"  -> "relock"
    [] p[th] = "parked_publish" -> "publish"
    [] p[th] = "parked_wait"    -> "wait"
    [] OTHER                    -> p[th]]

-----------------------------------------------------------------------------
(* Pool::new, Pool::solo, Drop *)

Spawn(h) ==
  /\ main = "spawning" /\ pc[h] = "unspawned"
  /\ \A k \in 1..(h - 1) : pc[k] # "unspawned"
  /\ Goto(h, "spin")
  /\ UNCHANGED <<handoff, lock, shutdown, helper_count, seen, gen, ctx, caught, frame,
                 live, result, regions, panics, spurious, main>>

Built ==
  /\ main = "spawning" /\ \A h \in Helpers : pc[h] # "unspawned"
  /\ main' = "up"
  /\ UNCHANGED <<handoff, lock, shutdown, helper_count, pc, seen, gen, ctx, caught,
                 frame, live, result, regions, panics, spurious>>

\* The OS refuses a thread: the helpers started so far are shut down.
SpawnFailed ==
  /\ main = "spawning" /\ \E h \in Helpers : pc[h] = "unspawned"
  /\ main' = "undo_notify" /\ shutdown' = TRUE
  /\ UNCHANGED <<handoff, lock, helper_count, pc, seen, gen, ctx, caught, frame, live,
                 result, regions, panics, spurious>>

\* Drop needs &mut Pool: no caller is inside a region, none will start one.
DropStore ==
  /\ main = "up"
  /\ \A c \in Callers : pc[c] = "idle"
  /\ main' = "drop_notify" /\ shutdown' = TRUE
  /\ UNCHANGED <<handoff, lock, helper_count, pc, seen, gen, ctx, caught, frame, live,
                 result, regions, panics, spurious>>

ShutdownNotify ==
  /\ main \in {"undo_notify", "drop_notify"}
  /\ main' = IF main = "undo_notify" THEN "undo_join" ELSE "drop_join"
  /\ pc' = Woken(pc)
  /\ UNCHANGED <<handoff, lock, shutdown, helper_count, seen, gen, ctx, caught, frame,
                 live, result, regions, panics, spurious>>

\* join returns once every started helper has; new_or_solo then falls back to
\* a solo pool with a handoff of its own.
Joined ==
  /\ main \in {"undo_join", "drop_join"}
  /\ \A h \in Helpers : pc[h] \in {"unspawned", "exited"}
  /\ IF main = "undo_join"
     THEN main' = "up" /\ helper_count' = 0 /\ shutdown' = FALSE
     ELSE main' = "dropped" /\ UNCHANGED <<helper_count, shutdown>>
  /\ UNCHANGED <<handoff, lock, pc, seen, gen, ctx, caught, frame, live, result,
                 regions, panics, spurious>>

-----------------------------------------------------------------------------
(* run_partitioned: publish, worker 0, wait_region *)

Call(c) ==
  /\ main = "up" /\ pc[c] = "idle" /\ regions[c] < MaxRegions
  /\ regions' = [regions EXCEPT ![c] = @ + 1]
  /\ frame' = [frame EXCEPT ![c] = [i \in Elements |-> 0]]
  /\ live' = live \union {c}
  /\ Goto(c, "publish")
  /\ UNCHANGED <<handoff, lock, shutdown, helper_count, seen, gen, ctx, caught, result,
                 panics, spurious, main>>

\* Fault model: a publisher does not wait for the live region.
SlotAlwaysFree == TRUE

SlotFree == ~busy

Publish(c) ==
  /\ pc[c] = "publish" /\ Unlocked
  /\ IF SlotFree
     THEN /\ generation' = generation + 1
          /\ busy' = TRUE /\ done' = 0 /\ panicked' = FALSE /\ desc' = c
          /\ gen' = [gen EXCEPT ![c] = generation + 1]
          /\ Goto(c, "publish_notify")
     ELSE Goto(c, "parked_publish") /\ UNCHANGED <<handoff, gen>>
  /\ UNCHANGED <<lock, shutdown, helper_count, seen, ctx, caught, frame, live, result,
                 regions, panics, spurious, main>>

\* The broadcast comes after the mutex is released.
PublishNotify(c) ==
  /\ pc[c] = "publish_notify"
  /\ pc' = [Woken(pc) EXCEPT ![c] = "body"]
  /\ UNCHANGED <<handoff, lock, shutdown, helper_count, seen, gen, ctx, caught, frame,
                 live, result, regions, panics, spurious, main>>

\* The trampoline on thread th as worker w of caller c's region.
Body(th, w, c, next) ==
  \E fails \in BOOLEAN, S \in SUBSET Elements :
    /\ fails => panics < MaxPanics
    /\ S \in Written(w, workers, fails)
    /\ Write(c, S)
    /\ caught' = [caught EXCEPT ![th] = fails]
    /\ panics' = panics + (IF fails THEN 1 ELSE 0)
    /\ Goto(th, next)

CallerBody(c) ==
  /\ pc[c] = "body"
  /\ Body(c, 0, c, "wait")
  /\ UNCHANGED <<handoff, lock, shutdown, helper_count, seen, gen, ctx, live, result,
                 regions, spurious, main>>

\* Fault model: the barrier is satisfied one helper early.
BarrierOneShort == done + 1 >= helper_count

BarrierMet == done >= helper_count

\* Fault model: the reaper wakes nobody.
ReapSilently(c) == [pc EXCEPT ![c] = "idle"]

ReapNotify(c) == [Woken(pc) EXCEPT ![c] = "idle"]

\* The reaper clears the slot, wakes waiting publishers and returns to its
\* caller, whose frame dies.
WaitRegion(c) ==
  /\ pc[c] = "wait" /\ Unlocked
  /\ \/ /\ busy /\ generation = gen[c] /\ ~BarrierMet
        /\ Goto(c, "parked_wait")
        /\ UNCHANGED <<handoff, result, live>>
     \/ /\ ~(busy /\ generation = gen[c] /\ ~BarrierMet)
        /\ result' = [result EXCEPT ![c] = IF panicked \/ caught[c] THEN "JobPanicked" ELSE "Ok"]
        /\ live' = live \ {c}
        /\ IF busy /\ generation = gen[c] /\ BarrierMet
           THEN /\ busy' = FALSE /\ desc' = NoRegion /\ done' = 0 /\ panicked' = FALSE
                /\ pc' = ReapNotify(c)
                /\ UNCHANGED generation
           ELSE Goto(c, "idle") /\ UNCHANGED handoff
  /\ UNCHANGED <<lock, shutdown, helper_count, seen, gen, ctx, caught, frame, regions,
                 panics, spurious, main>>

-----------------------------------------------------------------------------
(* helper_loop *)

\* The last iteration of the spin phase: leave on shutdown, else go for the mutex.
HelperSpin(h) ==
  /\ pc[h] = "spin"
  /\ Goto(h, IF shutdown THEN "exited" ELSE "relock")
  /\ UNCHANGED <<handoff, lock, shutdown, helper_count, seen, gen, ctx, caught, frame,
                 live, result, regions, panics, spurious, main>>

\* With the mutex held, `shutdown` is read first ...
HelperCheckShutdown(h) ==
  /\ pc[h] = "relock" /\ Unlocked
  /\ IF shutdown
     THEN Goto(h, "exited") /\ UNCHANGED lock
     ELSE Goto(h, "check") /\ lock' = h
  /\ UNCHANGED <<handoff, shutdown, helper_count, seen, gen, ctx, caught, frame, live,
                 result, regions, panics, spurious, main>>

\* Fault model: a helper may re-enter the region it has checked in to.
AnyBusyRegion(h) == busy

FreshRegion(h) == busy /\ generation > seen[h]

\* ... then the region: the helper copies the descriptor out, or parks.
HelperCheckRegion(h) ==
  /\ pc[h] = "check" /\ lock = h
  /\ lock' = NoRegion
  /\ IF FreshRegion(h)
     THEN /\ gen' = [gen EXCEPT ![h] = generation]
          /\ ctx' = [ctx EXCEPT ![h] = desc]
          /\ Goto(h, "body")
     ELSE Goto(h, "parked_helper") /\ UNCHANGED <<gen, ctx>>
  /\ UNCHANGED <<handoff, shutdown, helper_count, seen, caught, frame, live, result,
                 regions, panics, spurious, main>>

HelperBody(h) ==
  /\ pc[h] = "body"
  /\ Body(h, h, ctx[h], "checkin")
  /\ UNCHANGED <<handoff, lock, shutdown, helper_count, seen, gen, ctx, live, result,
                 regions, spurious, main>>

\* Fault model: a helper's panic is not reported at the barrier.
PanicDropped(h) == panicked

PanicReported(h) == panicked \/ caught[h]

\* Only the last check-in broadcasts.
CheckIn(h) ==
  /\ pc[h] = "checkin" /\ Unlocked
  /\ seen' = [seen EXCEPT ![h] = gen[h]]
  /\ done' = done + 1
  /\ panicked' = PanicReported(h)
  /\ ctx' = [ctx EXCEPT ![h] = NoRegion]
  /\ pc' = [(IF done + 1 >= N THEN Woken(pc) ELSE pc) EXCEPT ![h] = "spin"]
  /\ UNCHANGED <<busy, generation, desc, lock, shutdown, helper_count, gen, caught,
                 frame, live, result, regions, panics, spurious, main>>

-----------------------------------------------------------------------------
\* External: Condvar::wait may return without a notification.
SpuriousWake(th) ==
  /\ pc[th] \in {"parked_helper", "parked_publish", "parked_wait"}
  /\ spurious < MaxSpurious
  /\ spurious' = spurious + 1
  /\ pc' = [pc EXCEPT ![th] = Woken(pc)[th]]
  /\ UNCHANGED <<handoff, lock, shutdown, helper_count, seen, gen, ctx, caught, frame,
                 live, result, regions, panics, main>>

CallerStep(c) ==
  Publish(c) \/ PublishNotify(c) \/ CallerBody(c) \/ WaitRegion(c)
HelperStep(h) ==
  HelperSpin(h) \/ HelperCheckShutdown(h) \/ HelperCheckRegion(h)
    \/ HelperBody(h) \/ CheckIn(h)
MainStep == (\E h \in Helpers : Spawn(h)) \/ Built \/ ShutdownNotify \/ Joined

Next ==
  \/ \E c \in Callers : Call(c) \/ CallerStep(c)
  \/ \E h \in Helpers : HelperStep(h)
  \/ MainStep \/ SpawnFailed \/ DropStore
  \/ \E th \in Threads : SpuriousWake(th)

\* Every thread that stays able to take a step eventually does: the scheduler
\* runs runnable threads.  No order of granting the mutex is assumed, and nothing
\* of callers that have not called, of spawn failures, of Drop or of spurious
\* wakeups.
Fairness ==
  /\ \A c \in Callers : WF_vars(CallerStep(c))
  /\ \A h \in Helpers : WF_vars(HelperStep(h))
  /\ WF_vars(MainStep)

Spec == Init /\ [][Next]_vars /\ Fairness

-----------------------------------------------------------------------------
(* Properties *)

\* The variables hold values of their types; in particular no check-in is
\* counted beyond the helpers there are.
TypeOK ==
  /\ busy \in BOOLEAN /\ generation \in Nat /\ panicked \in BOOLEAN
  /\ done \in 0..N /\ desc \in Callers \union {NoRegion}
  /\ lock \in Helpers \union {NoRegion} /\ shutdown \in BOOLEAN
  /\ helper_count \in {0, N}
  /\ pc \in [Threads -> {"unspawned", "spin", "relock", "check", "parked_helper", "body",
                         "checkin", "exited", "idle", "publish", "parked_publish",
                         "publish_notify", "wait", "parked_wait"}]
  /\ seen \in [Helpers -> Nat] /\ gen \in [Threads -> Nat]
  /\ ctx \in [Helpers -> Callers \union {NoRegion}]
  /\ caught \in [Threads -> BOOLEAN]
  /\ frame \in [Callers -> [Elements -> Nat]]
  /\ live \subseteq Callers
  /\ result \in [Callers -> {"none", "Ok", "JobPanicked"}]
  /\ regions \in [Callers -> 0..MaxRegions]
  /\ panics \in 0..MaxPanics /\ spurious \in 0..MaxSpurious
  /\ main \in {"spawning", "up", "undo_notify", "undo_join", "drop_notify", "drop_join",
               "dropped"}

\* The done-barrier argument on RegionDesc: a helper that holds a descriptor and
\* may dereference it does so for the very region whose frame is still lent.
LentFrameLive ==
  \A h \in Helpers : pc[h] = "body" =>
    ctx[h] \in live /\ gen[ctx[h]] = gen[h]

\* run_partitioned returns Ok exactly when every output slot was written by its
\* one owner before the return, and JobPanicked when some slot was skipped.
OutputsExact ==
  \A c \in Callers : pc[c] = "idle" /\ regions[c] > 0 =>
    /\ \A i \in Elements : frame[c][i] <= 1
    /\ (result[c] = "Ok") <=> (\A i \in Elements : frame[c][i] = 1)

\* While a region is published, `done` counts exactly the helpers that ran this
\* generation, and the slot holds the descriptor of a lent frame.
DoneCountsCheckIns ==
  busy => /\ done = Cardinality({h \in Helpers : seen[h] = generation})
          /\ desc \in live /\ gen[desc] = generation

\* A caller that asks for a region gets its result: publishers are not left
\* asleep by a reaped region nor barriers by the last check-in.
RegionsFinish == \A c \in Callers : (pc[c] = "publish") ~> (pc[c] = "idle")

\* Drop's doc: "a notify + join is sufficient and cannot hang on region work".
DropReturns == (main = "drop_notify") ~> (main = "dropped")

\* The handoff: types, frames that outlive their use, a barrier that counts this
\* generation's check-ins.
HandoffInv == TypeOK /\ LentFrameLive /\ DoneCountsCheckIns
=============================================================================
