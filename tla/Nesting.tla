------------------------------- MODULE Nesting ------------------------------
(***************************************************************************)
(* Parallel calls that make parallel calls (anvil/src/pool.rs,             *)
(* executor.rs).  A call is served by the one global pool, whose region    *)
(* slot it holds until every helper has checked in, or by threads spawned  *)
(* for it alone; a thread-local flag keeps code that runs inside a region  *)
(* off the pool, which would wait for itself.  Pool.tla has the handoff in *)
(* detail; here a region is taken, worked on and given back.               *)
(*                                                                         *)
(* A thread has a stack of frames [call, at]: it runs the body of a call   *)
(* ("body"), or has made it and waits for the region slot ("publish"), for *)
(* the helpers ("wait") or for the threads spawned ("join").  Partitioned  *)
(* and fork/join calls take the same route.                                *)
(***************************************************************************)
EXTENDS Integers, Sequences, SequencesExt, FiniteSets

CONSTANTS
  Mains,          \* application threads
  PoolHelpers,    \* helper threads of the global pool
  Spawnable,      \* a sequence of thread names for scoped threads, a bound
  MaxCalls,       \* bound: calls of a behaviour
  MaxNesting      \* bound: calls within calls

ASSUME NestingAssumption ==
  /\ Spawnable \in Seq(ToSet(Spawnable)) /\ MaxCalls \in Nat
  /\ Mains \cap PoolHelpers = {} /\ (Mains \cup PoolHelpers) \cap ToSet(Spawnable) = {}

NestThreads == Mains \cup PoolHelpers \cup ToSet(Spawnable)
PoolWorkers == Cardinality(PoolHelpers) + 1
NoCall == 0

VARIABLES
  frames,         \* thread -> its stack
  in_region,      \* thread -> the thread-local IN_REGION
  slot,           \* the call that holds the pool's region slot, or NoCall
  took,           \* helper -> the last call it took from the slot
  checked_in,     \* helpers that have checked in
  calls,          \* calls made
  depth           \* call -> how many calls it is nested in
nesting_vars == <<frames, in_region, slot, took, checked_in, calls, depth>>

NestingInit ==
  /\ frames = [t \in NestThreads |-> <<>>]
  /\ in_region = [t \in NestThreads |-> FALSE]
  /\ slot = NoCall /\ took = [h \in PoolHelpers |-> NoCall] /\ checked_in = {}
  /\ calls = 0 /\ depth = <<>>

Top(t) == Last(frames[t])
StandsAt(t, l) == frames[t] # <<>> /\ Top(t).at = l
Push(f, t, c, l) == [f EXCEPT ![t] = Append(@, [call |-> c, at |-> l])]
Now(f, t, l) == [f EXCEPT ![t][Len(f[t])].at = l]
PopFrame(f, t) == [f EXCEPT ![t] = Front(@)]

global_topology_matches(n) == n = PoolWorkers

\* The code that can make a call: an application thread, or the body of a call.
MayCall(t) ==
  /\ calls < MaxCalls
  /\ \/ t \in Mains /\ frames[t] = <<>>
     \/ StandsAt(t, "body") /\ depth[Top(t).call] < MaxNesting
Depth(t) == IF frames[t] = <<>> THEN 0 ELSE depth[Top(t).call] + 1

\* run_partitioned_pooled, run_fork_join_pooled: to the pool.
CallPool(t, n) ==
  /\ MayCall(t) /\ ~in_region[t] /\ global_topology_matches(n)
  /\ calls' = calls + 1 /\ depth' = Append(depth, Depth(t))
  /\ frames' = Push(frames, t, calls + 1, "publish")
  /\ UNCHANGED <<in_region, slot, took, checked_in>>

\* Fault model: the threads spawned for a call do not carry the flag.
SpawnedUnflagged(spawned) == in_region

SpawnedFlags(spawned) == [t \in NestThreads |-> t \in spawned \/ in_region[t]]

\* The scoped executor: n fresh threads, which run the body inside a region.
CallScoped(t, n) ==
  /\ MayCall(t) /\ (in_region[t] \/ ~global_topology_matches(n))
  /\ LET free == {i \in DOMAIN Spawnable : frames[Spawnable[i]] = <<>>}
         first == {i \in free : Cardinality({j \in free : j < i}) < n}
         spawned == {Spawnable[i] : i \in first}
     IN  /\ Cardinality(first) = n
         /\ frames' = [u \in NestThreads |->
              IF u \in spawned THEN <<[call |-> calls + 1, at |-> "body"]>>
              ELSE Push(frames, t, calls + 1, "join")[u]]
         /\ in_region' = SpawnedFlags(spawned)
  /\ calls' = calls + 1 /\ depth' = Append(depth, Depth(t))
  /\ UNCHANGED <<slot, took, checked_in>>

\* publish takes the slot when it is free; the caller goes on as worker 0.
TakeRegion(t) ==
  /\ StandsAt(t, "publish") /\ slot = NoCall
  /\ slot' = Top(t).call /\ checked_in' = {}
  /\ frames' = Now(frames, t, "body") /\ in_region' = [in_region EXCEPT ![t] = TRUE]
  /\ UNCHANGED <<took, calls, depth>>

HelperTakes(h) ==
  /\ frames[h] = <<>> /\ slot # NoCall /\ took[h] # slot
  /\ took' = [took EXCEPT ![h] = slot]
  /\ frames' = Push(frames, h, slot, "body") /\ in_region' = [in_region EXCEPT ![h] = TRUE]
  /\ UNCHANGED <<slot, checked_in, calls, depth>>

\* The body of a call ends on a thread: a helper checks in, the caller waits for the helpers,
\* a spawned thread ends.
EndBody(t) ==
  /\ StandsAt(t, "body")
  /\ in_region' = [in_region EXCEPT ![t] = FALSE]
  /\ checked_in' = IF t \in PoolHelpers THEN checked_in \cup {t} ELSE checked_in
  /\ frames' = IF t \in PoolHelpers \/ (t \notin Mains /\ Len(frames[t]) = 1)
               THEN PopFrame(frames, t) ELSE Now(frames, t, "wait")
  /\ UNCHANGED <<slot, took, calls, depth>>

\* wait_region.
ReapRegion(t) ==
  /\ StandsAt(t, "wait") /\ checked_in = PoolHelpers
  /\ slot' = NoCall /\ frames' = PopFrame(frames, t)
  /\ UNCHANGED <<in_region, took, checked_in, calls, depth>>

InBody(c) == {t \in NestThreads : \E i \in DOMAIN frames[t] : frames[t][i] = [call |-> c, at |-> "body"]}

\* The end of the scope joins its threads.
JoinScope(t) ==
  /\ StandsAt(t, "join") /\ InBody(Top(t).call) = {}
  /\ frames' = PopFrame(frames, t)
  /\ UNCHANGED <<in_region, slot, took, checked_in, calls, depth>>

NestingNext ==
  \/ \E t \in NestThreads, n \in {1, PoolWorkers} : CallPool(t, n) \/ CallScoped(t, n)
  \/ \E t \in NestThreads : TakeRegion(t) \/ EndBody(t) \/ ReapRegion(t) \/ JoinScope(t)
  \/ \E h \in PoolHelpers : HelperTakes(h)

NestingSpec == NestingInit /\ [][NestingNext]_nesting_vars

(***************************************************************************)
(* Properties.                                                             *)
(***************************************************************************)
\* Whom a thread waits for: the holder of the slot, the helpers that have not checked in, the
\* threads of its scope.
WaitsFor(t) ==
  CASE StandsAt(t, "publish") -> {u \in NestThreads : slot # NoCall /\ u \notin PoolHelpers
                              /\ \E i \in DOMAIN frames[u] : frames[u][i].call = slot /\ frames[u][i].at # "join"}
    [] StandsAt(t, "wait") -> PoolHelpers \ checked_in
    [] StandsAt(t, "join") -> InBody(Top(t).call)
    [] OTHER -> {}

\* However calls nest, and whichever threads make them, no threads wait for each other in a
\* circle: of any threads one waits for none of them, so no parallel call can hang on the pool
\* it is served by.
NestedCallsNeverHang ==
  \A S \in SUBSET NestThreads : S # {} => \E t \in S : WaitsFor(t) \cap S = {}
=============================================================================
