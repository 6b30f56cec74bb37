----------------------------- MODULE PoolProofs -----------------------------
(***************************************************************************)
(* Proofs about Pool for every number of helpers, callers and regions and  *)
(* every slice length: a helper never uses a dead frame, `done` counts the *)
(* check-ins of the live generation, and run_partitioned returns Ok        *)
(* exactly when every output slot was written once.                        *)
(*                                                                         *)
(* The caller that published holds the slot until the barrier; a helper in *)
(* a region works on the live generation and has not checked in to it; so  *)
(* at the barrier nobody is inside.  The elements are partitioned among    *)
(* the workers, and each worker's part of the lent frame is zero before    *)
(* its trampoline and exact after it.                                      *)
(***************************************************************************)
EXTENDS Pool, IndexArithmetic, FiniteSetTheorems, TLAPS

CallerPhases == {"idle", "publish", "parked_publish", "publish_notify", "body", "wait",
                 "parked_wait"}
HelperPhases == {"unspawned", "spin", "relock", "check", "parked_helper", "body",
                 "checkin", "exited"}
Inside       == {"publish_notify", "body", "wait", "parked_wait"}

\* Callers and helpers stay in their own code.
PhasesOK ==
  /\ \A c \in Callers : pc[c] \in CallerPhases
  /\ \A h \in Helpers : pc[h] \in HelperPhases

\* The caller inside a region owns the slot, and the frame it lent is on the stack.
OwnerInv ==
  /\ \A c \in Callers : pc[c] \in Inside <=> busy /\ desc = c
  /\ \A c \in Callers : pc[c] \in Inside => gen[c] = generation
  /\ \A c \in Callers : c \in live <=> pc[c] # "idle"
  /\ busy => desc \in Callers /\ generation > 0
  /\ ~busy => done = 0

\* A helper inside a region works on the live one and has yet to check in.
HelperInv ==
  /\ \A h \in Helpers : pc[h] \in {"body", "checkin"} =>
       busy /\ gen[h] = generation /\ ctx[h] = desc /\ seen[h] < generation
  /\ \A h \in Helpers : seen[h] <= generation

\* No region runs before the pool is up; the helpers of a pool that fell back to
\* solo never ran one.
BuildInv ==
  /\ main \in {"spawning", "undo_notify", "undo_join"} =>
       ~busy /\ generation = 0 /\ \A c \in Callers : pc[c] = "idle"
  /\ helper_count # N =>
       /\ main \notin {"spawning", "undo_notify", "undo_join"}
       /\ \A h \in Helpers : pc[h] \in {"unspawned", "exited"} /\ seen[h] = 0

\* Worker w's trampoline of the live region has returned, or has reported a panic.
RanBy(w) ==
  IF w = 0 THEN pc[desc] \in {"wait", "parked_wait"}
  ELSE pc[w] = "checkin" \/ seen[w] = generation

FailedBy(w) == IF w = 0 THEN caught[desc] ELSE caught[w]

\* The lent frame, worker by worker.
FrameInv ==
  busy => \A w \in 0..helper_count :
    /\ \A i \in Owned(w, workers) : frame[desc][i] \in {0, 1}
    /\ ~RanBy(w) => \A i \in Owned(w, workers) : frame[desc][i] = 0
    /\ RanBy(w) => (FailedBy(w) <=> \E i \in Owned(w, workers) : frame[desc][i] = 0)

\* The frame of a caller that waits for the slot is clean.
CleanFrames ==
  \A c \in Callers : pc[c] \in {"publish", "parked_publish"} =>
    \A i \in Elements : frame[c][i] = 0

\* `panicked` collects the panics of the helpers that checked in.
PanicInv == busy => (panicked <=> \E h \in Helpers : seen[h] = generation /\ caught[h])

PoolInv ==
  /\ TypeOK /\ PhasesOK /\ OwnerInv /\ HelperInv /\ BuildInv /\ DoneCountsCheckIns
  /\ FrameInv /\ CleanFrames /\ PanicInv /\ OutputsExact

-----------------------------------------------------------------------------
(* Static partitioning *)

\* A nonempty slice has nonempty chunks.
LEMMA ChunkSizePositive ==
  ASSUME NEW n \in Nat \ {0}, Length > 0
  PROVE  ChunkSize(n) \in Nat \ {0}
<1>1. PICK x \in Int : x = Length + n - 1
  BY PoolAssumption
<1>2. PICK q \in Int, r \in 0..(n - 1) : x \div n = q /\ x = n * q + r
  BY DivMod
<1>3. n * q >= 1
  BY <1>1, <1>2, PoolAssumption
<1>4. q >= 1
  <2> SUFFICES ASSUME q <= 0 PROVE FALSE
    OBVIOUS
  <2>1. n * (-q) >= 0
    OBVIOUS
  <2> QED BY <1>3, <2>1
<1> QED BY <1>1, <1>2, <1>4 DEF ChunkSize, CeilDiv

\* An element lies in one chunk, the quotient of its index by the chunk size.
LEMMA OneChunk ==
  ASSUME NEW n \in Nat \ {0}, NEW i \in Elements
  PROVE  \E c \in 0..Length :
           /\ i \in Chunk(c, n) /\ c * ChunkSize(n) < Length
           /\ \A d \in 0..Length : i \in Chunk(d, n) => d = c
<1>0. Length \in Nat /\ Length > 0 /\ i \in Nat /\ i < Length
  BY PoolAssumption DEF Elements
<1>1. PICK s \in Nat \ {0} : s = ChunkSize(n)
  BY <1>0, ChunkSizePositive
<1>2. PICK c \in Int, r \in 0..(s - 1) : i = s * c + r
  <2>1. i % s \in 0..(s - 1) /\ i \div s \in Int /\ i = s * (i \div s) + (i % s)
    BY <1>0, DivMod
  <2> QED BY <2>1
<1>3. c >= 0
  <2> SUFFICES ASSUME c <= -1 PROVE FALSE
    OBVIOUS
  <2>1. s * (-1 - c) >= 0
    OBVIOUS
  <2> QED BY <1>0, <1>2, <2>1
<1>4. c * s <= i /\ i < (c + 1) * s
  BY <1>0, <1>2
<1>5. c <= c * s
  <2>1. c * (s - 1) >= 0
    BY <1>3
  <2> QED BY <2>1
<1>6. c \in 0..Length /\ i \in Chunk(c, n) /\ c * ChunkSize(n) < Length
  BY <1>0, <1>1, <1>3, <1>4, <1>5 DEF Chunk
<1>7. ASSUME NEW d \in 0..Length, i \in Chunk(d, n) PROVE d = c
  <2>1. d \in Int /\ d * s <= i /\ i < (d + 1) * s
    BY <1>0, <1>1, <1>7 DEF Chunk
  <2>2. s * (d - c) = d * s - c * s /\ (d + 1) * s = d * s + s /\ (c + 1) * s = c * s + s
    BY <2>1
  <2>3. -s < s * (d - c) /\ s * (d - c) < s
    BY <1>0, <1>4, <2>1, <2>2
  <2>4. d - c \in Int
    BY <2>1
  <2>5. d - c = 0
    BY <2>3, <2>4, MultipleBound
  <2> QED BY <2>1, <2>5
<1> QED BY <1>6, <1>7

\* Every element has exactly one owner among the n workers.
LEMMA Partition ==
  ASSUME NEW n \in Nat \ {0}, NEW i \in Elements
  PROVE  \E w \in 0..(n - 1) : i \in Owned(w, n) /\ \A v : i \in Owned(v, n) => v = w
<1>1. PICK c \in 0..Length :
        /\ i \in Chunk(c, n) /\ c * ChunkSize(n) < Length
        /\ \A d \in 0..Length : i \in Chunk(d, n) => d = c
  BY OneChunk
<1>2. c % n \in 0..(n - 1)
  BY DivMod, PoolAssumption
<1>3. i \in Owned(c % n, n)
  BY <1>1 DEF Owned, OwnedChunks
<1>4. ASSUME NEW v, i \in Owned(v, n) PROVE v = c % n
  BY <1>1, <1>4 DEF Owned, OwnedChunks
<1> QED BY <1>2, <1>3, <1>4

\* What a worker owns are elements.
LEMMA OwnedElements ==
  ASSUME NEW w, NEW n
  PROVE  Owned(w, n) \subseteq Elements
BY DEF Owned, Chunk

-----------------------------------------------------------------------------
(* Steps that only move threads *)

\* Threads move without entering or leaving a region, a trampoline or a check-in.
QuietPhases ==
  /\ \A c \in Callers :
       /\ pc'[c] \in CallerPhases /\ (pc'[c] = "idle" <=> pc[c] = "idle")
       /\ pc'[c] \in Inside <=> pc[c] \in Inside
       /\ pc'[c] \in {"wait", "parked_wait"} <=> pc[c] \in {"wait", "parked_wait"}
  /\ \A h \in Helpers :
       /\ pc'[h] \in HelperPhases /\ (pc'[h] = "body" <=> pc[h] = "body")
       /\ pc'[h] = "checkin" <=> pc[h] = "checkin"

Quiet ==
  /\ QuietPhases
  /\ UNCHANGED <<handoff, helper_count, seen, gen, ctx, caught, frame, live, result, regions>>

\* Such a step keeps the invariant, given the pool's own state.
LEMMA QuietKeeps ==
  ASSUME PoolInv, Quiet, TypeOK', BuildInv'
  PROVE  PoolInv'
<1>1. /\ UNCHANGED <<busy, generation, done, panicked, desc>>
      /\ UNCHANGED <<helper_count, seen, gen, ctx, caught, frame, live, result, regions>>
  BY DEF Quiet, handoff
<1>2. QuietPhases
  BY DEF Quiet
<1>3. PhasesOK'
  BY <1>2 DEF QuietPhases, PhasesOK
<1>4. OwnerInv'
  BY <1>1, <1>2 DEF PoolInv, QuietPhases, OwnerInv
<1>5. HelperInv'
  BY <1>1, <1>2 DEF PoolInv, QuietPhases, HelperInv
<1>6. DoneCountsCheckIns'
  BY <1>1 DEF PoolInv, DoneCountsCheckIns
<1>7. FrameInv'
  <2>1. ASSUME busy, NEW w \in 0..helper_count
        PROVE  RanBy(w)' = RanBy(w) /\ FailedBy(w)' = FailedBy(w)
    <3>0. desc \in Callers /\ helper_count \in {0, N}
      <4>1. OwnerInv /\ TypeOK
        BY DEF PoolInv
      <4> QED BY <2>1, <4>1 DEF OwnerInv, TypeOK
    <3>1. desc \in Callers /\ (w # 0 => w \in Helpers)
      BY <3>0, PoolAssumption DEF Helpers
    <3> QED BY <1>1, <1>2, <3>1 DEF QuietPhases, RanBy, FailedBy
  <2>2. \A w : Owned(w, workers)' = Owned(w, workers)
    BY <1>1 DEF workers, Owned, OwnedChunks, Chunk, ChunkSize, CeilDiv
  <2> QED BY <1>1, <2>1, <2>2 DEF PoolInv, FrameInv
<1>8. CleanFrames'
  BY <1>1, <1>2 DEF PoolInv, CleanFrames, QuietPhases, PhasesOK, CallerPhases, Inside
<1>9. PanicInv'
  BY <1>1 DEF PoolInv, PanicInv
<1>10. OutputsExact'
  BY <1>1, <1>2 DEF PoolInv, OutputsExact, QuietPhases
<1> QED BY <1>3, <1>4, <1>5, <1>6, <1>7, <1>8, <1>9, <1>10 DEF PoolInv

\* notify_all keeps every thread in its part of the code.
LEMMA WokenPhases ==
  ASSUME TypeOK, PhasesOK, NEW th \in Threads
  PROVE  /\ th \in Callers => /\ Woken(pc)[th] \in CallerPhases
                              /\ Woken(pc)[th] = "idle" <=> pc[th] = "idle"
                              /\ Woken(pc)[th] \in Inside <=> pc[th] \in Inside
                              /\ Woken(pc)[th] \in {"wait", "parked_wait"}
                                   <=> pc[th] \in {"wait", "parked_wait"}
         /\ th \in Helpers => /\ Woken(pc)[th] \in HelperPhases
                              /\ Woken(pc)[th] = "body" <=> pc[th] = "body"
                              /\ Woken(pc)[th] = "checkin" <=> pc[th] = "checkin"
                              /\ pc[th] \in {"unspawned", "exited"} => Woken(pc)[th] = pc[th]
<1>1. Woken(pc)[th] = CASE pc[th] = "parked_helper"  -> "relock"
                        [] pc[th] = "parked_publish" -> "publish"
                        [] pc[th] = "parked_wait"    -> "wait"
                        [] OTHER                     -> pc[th]
  BY DEF Woken
<1>2. th \in Callers => pc[th] \in CallerPhases
  BY DEF PhasesOK
<1>3. th \in Helpers => pc[th] \in HelperPhases
  BY DEF PhasesOK
<1>4. CASE th \in Callers
  BY <1>1, <1>2, <1>4, PoolAssumption DEF CallerPhases, Inside, Helpers
<1>5. CASE th \in Helpers
  BY <1>1, <1>3, <1>5, PoolAssumption DEF HelperPhases, Helpers
<1> QED BY <1>4, <1>5 DEF Threads

\* A thread in its own code has a program counter of the type.
LEMMA PhasesType ==
  ASSUME NEW p, p = [th \in Threads |-> p[th]],
         \A c \in Callers : p[c] \in CallerPhases, \A h \in Helpers : p[h] \in HelperPhases
  PROVE  p \in [Threads -> {"unspawned", "spin", "relock", "check", "parked_helper", "body",
                            "checkin", "exited", "idle", "publish", "parked_publish",
                            "publish_notify", "wait", "parked_wait"}]
BY DEF Threads, CallerPhases, HelperPhases

\* A quiet step with the mutex, the flags and the bounds in their types.
LEMMA QuietType ==
  ASSUME PoolInv, Quiet, pc' = [th \in Threads |-> pc'[th]],
         lock' \in Helpers \union {NoRegion}, shutdown' \in BOOLEAN,
         panics' = panics, spurious' \in 0..MaxSpurious,
         main' \in {"spawning", "up", "undo_notify", "undo_join", "drop_notify", "drop_join",
                    "dropped"}
  PROVE  TypeOK'
<1>1. \A c \in Callers : pc'[c] \in CallerPhases
  BY DEF Quiet, QuietPhases
<1>2. \A h \in Helpers : pc'[h] \in HelperPhases
  BY DEF Quiet, QuietPhases
<1>3. pc' \in [Threads -> {"unspawned", "spin", "relock", "check", "parked_helper", "body",
                            "checkin", "exited", "idle", "publish", "parked_publish",
                            "publish_notify", "wait", "parked_wait"}]
  BY <1>1, <1>2, PhasesType
<1>4. TypeOK
  BY DEF PoolInv
<1> QED BY <1>3, <1>4 DEF TypeOK, Quiet, handoff

\* The pool's own state survives a quiet step that starts no helper and leaves
\* main's progress alone.
LEMMA QuietBuild ==
  ASSUME PoolInv, Quiet, main' = main,
         \A h \in Helpers : pc[h] \in {"unspawned", "exited"} => pc'[h] \in {"unspawned", "exited"}
  PROVE  BuildInv'
BY DEF PoolInv, BuildInv, Quiet, QuietPhases, handoff

\* One thread moves quietly.
LEMMA GotoQuiet ==
  ASSUME PoolInv, NEW th \in Threads, NEW l, Goto(th, l),
         th \in Callers => /\ l \in CallerPhases /\ (l = "idle" <=> pc[th] = "idle")
                           /\ l \in Inside <=> pc[th] \in Inside
                           /\ l \in {"wait", "parked_wait"} <=> pc[th] \in {"wait", "parked_wait"},
         th \in Helpers => /\ l \in HelperPhases /\ (l = "body" <=> pc[th] = "body")
                           /\ l = "checkin" <=> pc[th] = "checkin"
  PROVE  QuietPhases /\ pc' = [x \in Threads |-> pc'[x]] /\ pc'[th] = l
         /\ \A x \in Threads : x # th => pc'[x] = pc[x]
<1>1. pc \in [Threads -> {"unspawned", "spin", "relock", "check", "parked_helper", "body",
                            "checkin", "exited", "idle", "publish", "parked_publish",
                            "publish_notify", "wait", "parked_wait"}]
  BY DEF PoolInv, TypeOK
<1>2. pc' = [x \in Threads |-> pc'[x]] /\ pc'[th] = l /\ \A x \in Threads : x # th => pc'[x] = pc[x]
  BY <1>1 DEF Goto
<1>3. PhasesOK
  BY DEF PoolInv
<1>4. QuietPhases
  <2>1. ASSUME NEW c \in Callers
        PROVE  /\ pc'[c] \in CallerPhases /\ (pc'[c] = "idle" <=> pc[c] = "idle")
               /\ pc'[c] \in Inside <=> pc[c] \in Inside
               /\ pc'[c] \in {"wait", "parked_wait"} <=> pc[c] \in {"wait", "parked_wait"}
    <3>1. c \in Threads
      BY DEF Threads
    <3>2. CASE c = th
      <4>1. th \in Callers /\ pc'[c] = l /\ pc[c] = pc[th]
        BY <1>2, <3>2
      <4>2. /\ l \in CallerPhases /\ (l = "idle" <=> pc[th] = "idle")
            /\ l \in Inside <=> pc[th] \in Inside
            /\ l \in {"wait", "parked_wait"} <=> pc[th] \in {"wait", "parked_wait"}
        BY <4>1
      <4> QED BY <4>1, <4>2
    <3>3. CASE c # th
      <4>1. pc'[c] = pc[c]
        BY <1>2, <3>1, <3>3
      <4> QED BY <1>3, <4>1 DEF PhasesOK
    <3> QED BY <3>2, <3>3
  <2>2. ASSUME NEW h \in Helpers
        PROVE  /\ pc'[h] \in HelperPhases /\ (pc'[h] = "body" <=> pc[h] = "body")
               /\ pc'[h] = "checkin" <=> pc[h] = "checkin"
    <3>1. h \in Threads
      BY DEF Threads
    <3>2. CASE h = th
      <4>1. th \in Helpers /\ pc'[h] = l /\ pc[h] = pc[th]
        BY <1>2, <3>2
      <4>2. /\ l \in HelperPhases /\ (l = "body" <=> pc[th] = "body")
            /\ l = "checkin" <=> pc[th] = "checkin"
        BY <4>1
      <4> QED BY <4>1, <4>2
    <3>3. CASE h # th
      <4>1. pc'[h] = pc[h]
        BY <1>2, <3>1, <3>3
      <4> QED BY <1>3, <4>1 DEF PhasesOK
    <3> QED BY <3>2, <3>3
  <2> QED BY <2>1, <2>2 DEF QuietPhases
<1> QED BY <1>2, <1>4

\* A broadcast is quiet.
LEMMA WokenQuiet ==
  ASSUME PoolInv, pc' = Woken(pc)
  PROVE  /\ QuietPhases /\ pc' = [x \in Threads |-> pc'[x]]
         /\ \A h \in Helpers : pc[h] \in {"unspawned", "exited"} => pc'[h] \in {"unspawned", "exited"}
<1>1. TypeOK /\ PhasesOK
  BY DEF PoolInv
<1>2. pc' = [x \in Threads |-> pc'[x]]
  BY DEF Woken
<1>3. \A c \in Callers : c \in Threads
  BY DEF Threads
<1>4. \A h \in Helpers : h \in Threads
  BY DEF Threads
<1>5. QuietPhases
  BY <1>1, <1>3, <1>4, WokenPhases DEF QuietPhases
<1>6. \A h \in Helpers : pc[h] \in {"unspawned", "exited"} => pc'[h] \in {"unspawned", "exited"}
  BY <1>1, <1>4, WokenPhases
<1> QED BY <1>2, <1>5, <1>6

-----------------------------------------------------------------------------
(* Pool::new, Pool::solo, Drop *)

\* Starting helpers, failing to, and shutting down touch no region.
LEMMA MainKeeps ==
  ASSUME PoolInv,
         (\E h \in Helpers : Spawn(h)) \/ Built \/ SpawnFailed \/ DropStore \/ ShutdownNotify
  PROVE  PoolInv'
<1>0. /\ TypeOK /\ PhasesOK /\ BuildInv
      /\ pc \in [Threads -> {"unspawned", "spin", "relock", "check", "parked_helper", "body",
                            "checkin", "exited", "idle", "publish", "parked_publish",
                            "publish_notify", "wait", "parked_wait"}]
      /\ lock \in Helpers \union {NoRegion} /\ shutdown \in BOOLEAN /\ spurious \in 0..MaxSpurious
  BY DEF PoolInv, TypeOK
<1>1. ASSUME NEW h \in Helpers, Spawn(h) PROVE PoolInv'
  <2>1. h \in Threads /\ h \notin Callers
    BY PoolAssumption DEF Threads, Helpers
  <2>2. /\ main = "spawning" /\ pc[h] = "unspawned" /\ Goto(h, "spin") /\ main' = main
        /\ lock' = lock /\ shutdown' = shutdown /\ panics' = panics /\ spurious' = spurious
        /\ UNCHANGED <<handoff, helper_count, seen, gen, ctx, caught, frame, live, result, regions>>
    BY <1>1 DEF Spawn
  <2>3. QuietPhases /\ pc' = [x \in Threads |-> pc'[x]]
    BY <2>1, <2>2, GotoQuiet DEF HelperPhases
  <2>4. Quiet
    BY <2>2, <2>3 DEF Quiet
  <2>5. TypeOK'
    BY <1>0, <2>2, <2>3, <2>4, QuietType
  <2>6. BuildInv'
    BY <1>0, <2>2, <2>3 DEF BuildInv, QuietPhases, handoff
  <2> QED BY <2>4, <2>5, <2>6, QuietKeeps
<1>2. CASE Built \/ SpawnFailed \/ DropStore
  <2>1. /\ pc' = pc /\ lock' = lock /\ shutdown' \in BOOLEAN /\ panics' = panics /\ spurious' = spurious
        /\ UNCHANGED <<handoff, helper_count, seen, gen, ctx, caught, frame, live, result, regions>>
        /\ main' \in {"up", "undo_notify", "drop_notify"}
    BY <1>0, <1>2 DEF Built, SpawnFailed, DropStore
  <2>2. QuietPhases /\ pc' = [x \in Threads |-> pc'[x]]
    BY <1>0, <2>1 DEF QuietPhases, PhasesOK
  <2>3. Quiet
    BY <2>1, <2>2 DEF Quiet
  <2>4. TypeOK'
    BY <1>0, <2>1, <2>2, <2>3, QuietType
  <2>5. BuildInv'
    BY <1>0, <1>2, <2>1 DEF BuildInv, handoff, Built, SpawnFailed, DropStore
  <2> QED BY <2>3, <2>4, <2>5, QuietKeeps
<1>3. CASE ShutdownNotify
  <2>1. /\ pc' = Woken(pc) /\ lock' = lock /\ shutdown' = shutdown /\ panics' = panics
        /\ spurious' = spurious
        /\ UNCHANGED <<handoff, helper_count, seen, gen, ctx, caught, frame, live, result, regions>>
        /\ main' \in {"undo_join", "drop_join"}
    BY <1>3 DEF ShutdownNotify
  <2>2. QuietPhases /\ pc' = [x \in Threads |-> pc'[x]]
        /\ \A h \in Helpers : pc[h] \in {"unspawned", "exited"} => pc'[h] \in {"unspawned", "exited"}
    BY <2>1, WokenQuiet
  <2>3. Quiet
    BY <2>1, <2>2 DEF Quiet
  <2>4. TypeOK'
    BY <1>0, <2>1, <2>2, <2>3, QuietType
  <2>5. BuildInv'
    BY <1>0, <1>3, <2>1, <2>2 DEF BuildInv, handoff, ShutdownNotify, QuietPhases
  <2> QED BY <2>3, <2>4, <2>5, QuietKeeps
<1> QED BY <1>1, <1>2, <1>3

\* join returns: a pool whose threads never started goes on without them.
LEMMA JoinedKeeps ==
  ASSUME PoolInv, Joined
  PROVE  PoolInv'
<1>0. TypeOK /\ PhasesOK /\ BuildInv /\ HelperInv /\ OwnerInv
  BY DEF PoolInv
<1>1. /\ pc' = pc /\ lock' = lock /\ panics' = panics /\ spurious' = spurious
      /\ UNCHANGED <<busy, generation, done, panicked, desc>>
      /\ UNCHANGED <<seen, gen, ctx, caught, frame, live, result, regions>>
      /\ \A h \in Helpers : pc[h] \in {"unspawned", "exited"}
  BY DEF Joined, handoff
<1>2. CASE main = "drop_join"
  <2>1. main' = "dropped" /\ helper_count' = helper_count /\ shutdown' = shutdown
    BY <1>2 DEF Joined
  <2>2. Quiet
    BY <1>0, <1>1, <2>1 DEF Quiet, QuietPhases, PhasesOK, handoff
  <2>3. TypeOK'
    BY <1>0, <1>1, <2>1 DEF TypeOK
  <2>4. BuildInv'
    BY <1>0, <1>1, <1>2, <2>1 DEF BuildInv
  <2> QED BY <2>2, <2>3, <2>4, QuietKeeps
<1>3. CASE main = "undo_join"
  <2>1. main' = "up" /\ helper_count' = 0 /\ shutdown' = FALSE
    BY <1>3 DEF Joined
  <2>2. ~busy /\ generation = 0 /\ \A h \in Helpers : seen[h] = 0
    BY <1>0, <1>3 DEF BuildInv, HelperInv, TypeOK
  <2>3. TypeOK'
    BY <1>0, <1>1, <2>1 DEF TypeOK
  <2>4. PhasesOK' /\ OwnerInv' /\ HelperInv'
    BY <1>0, <1>1 DEF PhasesOK, OwnerInv, HelperInv
  <2>5. BuildInv'
    BY <1>1, <2>1, <2>2 DEF BuildInv
  <2>6. DoneCountsCheckIns' /\ FrameInv' /\ PanicInv'
    BY <1>1, <2>2 DEF DoneCountsCheckIns, FrameInv, PanicInv
  <2>7. CleanFrames' /\ OutputsExact'
    BY <1>1 DEF PoolInv, CleanFrames, OutputsExact
  <2> QED BY <2>3, <2>4, <2>5, <2>6, <2>7 DEF PoolInv
<1> QED BY <1>2, <1>3 DEF Joined

-----------------------------------------------------------------------------
(* Spinning, waking and parking *)

\* One thread moves quietly and nothing but the mutex changes.
LEMMA ThreadMove ==
  ASSUME PoolInv, NEW th \in Threads, NEW l, Goto(th, l),
         th \in Callers => /\ l \in CallerPhases /\ (l = "idle" <=> pc[th] = "idle")
                           /\ l \in Inside <=> pc[th] \in Inside
                           /\ l \in {"wait", "parked_wait"} <=> pc[th] \in {"wait", "parked_wait"},
         th \in Helpers => /\ l \in HelperPhases /\ (l = "body" <=> pc[th] = "body")
                           /\ l = "checkin" <=> pc[th] = "checkin",
         pc[th] \notin {"unspawned", "exited"},
         lock' \in Helpers \union {NoRegion}, spurious' \in 0..MaxSpurious,
         shutdown' = shutdown, panics' = panics, main' = main,
         UNCHANGED <<handoff, helper_count, seen, gen, ctx, caught, frame, live, result, regions>>
  PROVE  PoolInv'
<1>1. QuietPhases /\ pc' = [x \in Threads |-> pc'[x]] /\ pc'[th] = l
      /\ \A x \in Threads : x # th => pc'[x] = pc[x]
  BY GotoQuiet
<1>2. Quiet
  BY <1>1 DEF Quiet
<1>3. TypeOK'
  BY <1>1, <1>2, QuietType DEF PoolInv, TypeOK
<1>4. \A h \in Helpers : pc[h] \in {"unspawned", "exited"} => pc'[h] \in {"unspawned", "exited"}
  BY <1>1 DEF Threads
<1>5. BuildInv'
  BY <1>2, <1>4, QuietBuild
<1> QED BY <1>2, <1>3, <1>5, QuietKeeps

\* A helper that spins, takes the mutex to look, leaves or parks.
LEMMA HelperIdles ==
  ASSUME PoolInv, NEW h \in Helpers,
         HelperSpin(h) \/ HelperCheckShutdown(h) \/ (HelperCheckRegion(h) /\ ~FreshRegion(h))
  PROVE  PoolInv'
<1>0. h \in Threads /\ h \notin Callers /\ TypeOK
  BY PoolAssumption DEF Threads, Helpers, PoolInv
<1>1. PICK l \in {"exited", "relock", "check", "parked_helper"} : Goto(h, l)
  BY DEF HelperSpin, HelperCheckShutdown, HelperCheckRegion
<1>2. /\ pc[h] \in {"spin", "relock", "check"} /\ lock' \in {lock, h, NoRegion}
      /\ spurious' = spurious /\ shutdown' = shutdown /\ panics' = panics /\ main' = main
      /\ UNCHANGED <<handoff, helper_count, seen, gen, ctx, caught, frame, live, result, regions>>
  BY DEF HelperSpin, HelperCheckShutdown, HelperCheckRegion
<1>3. lock' \in Helpers \union {NoRegion} /\ spurious' \in 0..MaxSpurious
  BY <1>0, <1>2 DEF TypeOK
<1>4. /\ l \in HelperPhases /\ (l = "body" <=> pc[h] = "body")
      /\ l = "checkin" <=> pc[h] = "checkin"
      /\ pc[h] \notin {"unspawned", "exited"}
  BY <1>1, <1>2 DEF HelperPhases
<1> QED BY <1>0, <1>1, <1>2, <1>3, <1>4, ThreadMove

\* A publisher that finds the slot taken, and a caller short of the barrier, park.
LEMMA CallerParks ==
  ASSUME PoolInv, NEW c \in Callers,
         \/ Publish(c) /\ busy
         \/ WaitRegion(c) /\ busy /\ generation = gen[c] /\ ~BarrierMet
  PROVE  PoolInv'
<1>0. c \in Threads /\ c \notin Helpers /\ TypeOK
  BY PoolAssumption DEF Threads, Helpers, PoolInv
<1>1. PICK l : /\ Goto(c, l)
               /\ \/ pc[c] = "publish" /\ l = "parked_publish"
                  \/ pc[c] = "wait" /\ l = "parked_wait"
  BY DEF Publish, SlotFree, WaitRegion
<1>2. /\ lock' = lock /\ spurious' = spurious /\ shutdown' = shutdown /\ panics' = panics
      /\ main' = main
      /\ UNCHANGED <<handoff, helper_count, seen, gen, ctx, caught, frame, live, result, regions>>
  BY DEF Publish, SlotFree, WaitRegion
<1>3. lock' \in Helpers \union {NoRegion} /\ spurious' \in 0..MaxSpurious
  BY <1>0, <1>2 DEF TypeOK
<1>4. /\ l \in CallerPhases /\ (l = "idle" <=> pc[c] = "idle")
      /\ l \in Inside <=> pc[c] \in Inside
      /\ l \in {"wait", "parked_wait"} <=> pc[c] \in {"wait", "parked_wait"}
      /\ pc[c] \notin {"unspawned", "exited"}
  BY <1>1 DEF CallerPhases, Inside
<1> QED BY <1>0, <1>1, <1>2, <1>3, <1>4, ThreadMove

\* Condvar::wait returns by itself.
LEMMA SpuriousKeeps ==
  ASSUME PoolInv, NEW th \in Threads, SpuriousWake(th)
  PROVE  PoolInv'
<1>0. TypeOK /\ PhasesOK
  BY DEF PoolInv
<1>1. PICK l : l = Woken(pc)[th]
  OBVIOUS
<1>2. /\ Goto(th, l) /\ pc[th] \notin {"unspawned", "exited"}
      /\ lock' = lock /\ shutdown' = shutdown /\ panics' = panics /\ main' = main
      /\ UNCHANGED <<handoff, helper_count, seen, gen, ctx, caught, frame, live, result, regions>>
  BY <1>1 DEF SpuriousWake, Goto
<1>3. lock' \in Helpers \union {NoRegion} /\ spurious' \in 0..MaxSpurious
  BY <1>0, <1>2, PoolAssumption DEF TypeOK, SpuriousWake
<1>4. th \in Callers => /\ l \in CallerPhases /\ (l = "idle" <=> pc[th] = "idle")
                        /\ l \in Inside <=> pc[th] \in Inside
                        /\ l \in {"wait", "parked_wait"} <=> pc[th] \in {"wait", "parked_wait"}
  BY <1>0, <1>1, WokenPhases
<1>5. th \in Helpers => /\ l \in HelperPhases /\ (l = "body" <=> pc[th] = "body")
                        /\ l = "checkin" <=> pc[th] = "checkin"
  BY <1>0, <1>1, WokenPhases
<1> QED BY <1>2, <1>3, <1>4, <1>5, ThreadMove

\* The broadcast after a publish.
LEMMA PublishNotifyKeeps ==
  ASSUME PoolInv, NEW c \in Callers, PublishNotify(c)
  PROVE  PoolInv'
<1>0. TypeOK /\ PhasesOK /\ c \in Threads /\ c \notin Helpers
  BY PoolAssumption DEF PoolInv, Threads, Helpers
<1>1. /\ pc[c] = "publish_notify" /\ pc' = [Woken(pc) EXCEPT ![c] = "body"]
      /\ lock' = lock /\ shutdown' = shutdown /\ panics' = panics /\ main' = main
      /\ spurious' = spurious
      /\ UNCHANGED <<handoff, helper_count, seen, gen, ctx, caught, frame, live, result, regions>>
  BY DEF PublishNotify
<1>2. /\ pc' = [x \in Threads |-> pc'[x]] /\ pc'[c] = "body"
      /\ \A x \in Threads : x # c => pc'[x] = Woken(pc)[x]
  BY <1>0, <1>1 DEF Woken
<1>3. ASSUME NEW x \in Callers
      PROVE  /\ pc'[x] \in CallerPhases /\ (pc'[x] = "idle" <=> pc[x] = "idle")
             /\ pc'[x] \in Inside <=> pc[x] \in Inside
             /\ pc'[x] \in {"wait", "parked_wait"} <=> pc[x] \in {"wait", "parked_wait"}
  <2>1. CASE x = c
    BY <1>1, <1>2, <2>1 DEF CallerPhases, Inside
  <2>2. CASE x # c
    <3>1. x \in Threads /\ pc'[x] = Woken(pc)[x]
      BY <1>2, <2>2 DEF Threads
    <3> QED BY <1>0, <3>1, WokenPhases
  <2> QED BY <2>1, <2>2
<1>4. ASSUME NEW h \in Helpers
      PROVE  /\ pc'[h] \in HelperPhases /\ (pc'[h] = "body" <=> pc[h] = "body")
             /\ pc'[h] = "checkin" <=> pc[h] = "checkin"
             /\ pc[h] \in {"unspawned", "exited"} => pc'[h] \in {"unspawned", "exited"}
  <2>1. h \in Threads /\ pc'[h] = Woken(pc)[h]
    BY <1>0, <1>2 DEF Threads
  <2> QED BY <1>0, <2>1, WokenPhases
<1>5. Quiet
  BY <1>1, <1>3, <1>4 DEF Quiet, QuietPhases
<1>6. TypeOK'
  BY <1>0, <1>1, <1>2, <1>5, QuietType DEF TypeOK
<1>7. BuildInv'
  BY <1>1, <1>4, <1>5, QuietBuild
<1> QED BY <1>5, <1>6, <1>7, QuietKeeps

-----------------------------------------------------------------------------
(* run_partitioned up to the trampoline *)

\* A caller enters with a clean frame.
LEMMA CallKeeps ==
  ASSUME PoolInv, NEW c \in Callers, Call(c)
  PROVE  PoolInv'
<1>0. /\ TypeOK /\ PhasesOK /\ OwnerInv /\ BuildInv /\ c \in Threads /\ c \notin Helpers
      /\ \A h \in Helpers : h \in Threads /\ h # c
  BY PoolAssumption DEF PoolInv, Threads, Helpers
<1>1. /\ main = "up" /\ pc[c] = "idle" /\ regions[c] < MaxRegions /\ main' = main
      /\ regions' = [regions EXCEPT ![c] = @ + 1]
      /\ frame' = [frame EXCEPT ![c] = [i \in Elements |-> 0]]
      /\ live' = live \union {c} /\ pc' = [pc EXCEPT ![c] = "publish"]
      /\ UNCHANGED <<busy, generation, done, panicked, desc>>
      /\ UNCHANGED <<lock, shutdown, helper_count, seen, gen, ctx, caught, result, panics, spurious>>
  BY DEF Call, Goto, handoff
<1>2. /\ pc'[c] = "publish" /\ \A x \in Threads : x # c => pc'[x] = pc[x]
      /\ \A h \in Helpers : pc'[h] = pc[h]
      /\ \A x \in Callers : x # c => pc'[x] = pc[x] /\ frame'[x] = frame[x] /\ regions'[x] = regions[x]
      /\ frame'[c] = [i \in Elements |-> 0]
  BY <1>0, <1>1 DEF TypeOK, Threads
<1>3. TypeOK'
  <2>1. regions' \in [Callers -> 0..MaxRegions]
    BY <1>0, <1>1, PoolAssumption DEF TypeOK
  <2>2. frame' \in [Callers -> [Elements -> Nat]]
    BY <1>0, <1>1 DEF TypeOK
  <2>3. pc' \in [Threads -> {"unspawned", "spin", "relock", "check", "parked_helper", "body",
                            "checkin", "exited", "idle", "publish", "parked_publish",
                            "publish_notify", "wait", "parked_wait"}]
    BY <1>0, <1>1 DEF TypeOK
  <2> QED BY <1>0, <1>1, <2>1, <2>2, <2>3 DEF TypeOK
<1>4. PhasesOK'
  BY <1>0, <1>2 DEF PhasesOK, CallerPhases
<1>5. pc[c] \notin Inside /\ "publish" \notin Inside /\ (busy => desc # c)
  BY <1>0, <1>1 DEF Inside, OwnerInv
<1>6. OwnerInv'
  <2>1. \A x \in Callers : pc'[x] \in Inside <=> busy /\ desc = x
    BY <1>0, <1>2, <1>5 DEF OwnerInv
  <2>2. \A x \in Callers : pc'[x] \in Inside => gen[x] = generation
    BY <1>0, <1>2, <1>5 DEF OwnerInv
  <2>3. \A x \in Callers : x \in live' <=> pc'[x] # "idle"
    BY <1>0, <1>1, <1>2 DEF OwnerInv
  <2> QED BY <1>0, <1>1, <2>1, <2>2, <2>3 DEF OwnerInv
<1>7. HelperInv' /\ BuildInv' /\ DoneCountsCheckIns' /\ PanicInv'
  <2>1. HelperInv' /\ BuildInv'
    BY <1>1, <1>2 DEF PoolInv, HelperInv, BuildInv
  <2>2. DoneCountsCheckIns' /\ PanicInv'
    BY <1>1 DEF PoolInv, DoneCountsCheckIns, PanicInv
  <2> QED BY <2>1, <2>2
<1>8. FrameInv'
  <2>1. ASSUME busy, NEW w \in 0..helper_count
        PROVE  RanBy(w)' = RanBy(w) /\ FailedBy(w)' = FailedBy(w)
    <3>1. desc \in Callers /\ desc # c /\ (w # 0 => w \in Helpers)
      BY <1>0, <1>5, <2>1, PoolAssumption DEF OwnerInv, TypeOK, Helpers
    <3> QED BY <1>1, <1>2, <3>1 DEF RanBy, FailedBy
  <2>2. \A w : Owned(w, workers)' = Owned(w, workers)
    BY <1>1 DEF workers, Owned, OwnedChunks, Chunk, ChunkSize, CeilDiv
  <2>3. busy => frame'[desc] = frame[desc]
    BY <1>0, <1>2, <1>5 DEF OwnerInv
  <2> QED BY <1>1, <2>1, <2>2, <2>3 DEF PoolInv, FrameInv
<1>9. CleanFrames'
  BY <1>2 DEF PoolInv, CleanFrames
<1>10. OutputsExact'
  BY <1>1, <1>2 DEF PoolInv, OutputsExact
<1> QED BY <1>3, <1>4, <1>6, <1>7, <1>8, <1>9, <1>10 DEF PoolInv

\* A publisher that finds the slot free: nobody is inside the region before it.
LEMMA PublishKeeps ==
  ASSUME PoolInv, NEW c \in Callers, Publish(c), ~busy
  PROVE  PoolInv'
<1>0. /\ TypeOK /\ PhasesOK /\ OwnerInv /\ BuildInv /\ HelperInv /\ c \in Threads /\ c \notin Helpers
      /\ \A h \in Helpers : h \in Threads /\ h # c
  BY PoolAssumption DEF PoolInv, Threads, Helpers
<1>1. /\ pc[c] = "publish" /\ generation' = generation + 1 /\ busy' = TRUE /\ done' = 0
      /\ panicked' = FALSE /\ desc' = c /\ gen' = [gen EXCEPT ![c] = generation + 1]
      /\ pc' = [pc EXCEPT ![c] = "publish_notify"]
      /\ UNCHANGED <<lock, shutdown, helper_count, seen, ctx, caught, frame, live, result,
                     regions, panics, spurious, main>>
  BY DEF Publish, SlotFree, Goto
<1>2. /\ pc'[c] = "publish_notify" /\ \A h \in Helpers : pc'[h] = pc[h] /\ gen'[h] = gen[h]
      /\ \A x \in Callers : x # c => pc'[x] = pc[x] /\ gen'[x] = gen[x]
      /\ gen'[c] = generation + 1
  BY <1>0, <1>1 DEF TypeOK, Threads
<1>3. TypeOK'
  <2>1. gen' \in [Threads -> Nat]
    BY <1>0, <1>1 DEF TypeOK
  <2>2. pc' \in [Threads -> {"unspawned", "spin", "relock", "check", "parked_helper", "body",
                            "checkin", "exited", "idle", "publish", "parked_publish",
                            "publish_notify", "wait", "parked_wait"}]
    BY <1>0, <1>1 DEF TypeOK
  <2>3. generation' \in Nat /\ done' \in 0..N /\ desc' \in Callers \union {NoRegion}
    BY <1>0, <1>1, PoolAssumption DEF TypeOK
  <2> QED BY <1>0, <1>1, <2>1, <2>2, <2>3 DEF TypeOK
<1>4. PhasesOK'
  BY <1>0, <1>2 DEF PhasesOK, CallerPhases
<1>5. OwnerInv'
  <2>1. \A x \in Callers : pc[x] \notin Inside
    BY <1>0 DEF OwnerInv
  <2>2. \A x \in Callers : pc'[x] \in Inside <=> x = c
    BY <1>2, <2>1 DEF Inside
  <2>3. \A x \in Callers : x \in live' <=> pc'[x] # "idle"
    BY <1>0, <1>1, <1>2 DEF OwnerInv
  <2>4. generation' > 0
    BY <1>0, <1>1 DEF TypeOK
  <2> QED BY <1>1, <1>2, <2>2, <2>3, <2>4 DEF OwnerInv
<1>6. \A h \in Helpers : pc[h] \notin {"body", "checkin"} /\ seen[h] < generation'
  BY <1>0, <1>1 DEF HelperInv, TypeOK
<1>7. HelperInv'
  BY <1>0, <1>1, <1>2, <1>6 DEF HelperInv, TypeOK
<1>8. BuildInv'
  BY <1>0, <1>1, <1>2 DEF BuildInv
<1>9. DoneCountsCheckIns'
  <2>1. {h \in Helpers : seen'[h] = generation'} = {}
    BY <1>0, <1>1, <1>6 DEF TypeOK
  <2>2. c \in live
    BY <1>0, <1>1 DEF OwnerInv
  <2> QED BY <1>1, <1>2, <2>1, <2>2, FS_EmptySet DEF DoneCountsCheckIns
<1>10. FrameInv'
  <2>1. \A i \in Elements : frame'[c][i] = 0
    BY <1>1 DEF PoolInv, CleanFrames
  <2>2. \A w : Owned(w, workers)' = Owned(w, workers)
    BY <1>1 DEF workers, Owned, OwnedChunks, Chunk, ChunkSize, CeilDiv
  <2>3. \A w \in 0..helper_count' : ~RanBy(w)'
    <3> TAKE w \in 0..helper_count'
    <3>1. CASE w = 0
      BY <1>1, <1>2, <3>1 DEF RanBy
    <3>2. CASE w # 0
      <4>1. w \in Helpers
        BY <1>0, <1>1, <3>2, PoolAssumption DEF TypeOK, Helpers
      <4> QED BY <1>0, <1>1, <1>2, <1>6, <3>2, <4>1 DEF RanBy, TypeOK
    <3> QED BY <3>1, <3>2
  <2> QED BY <1>1, <2>1, <2>2, <2>3, OwnedElements DEF FrameInv
<1>11. CleanFrames' /\ OutputsExact'
  BY <1>1, <1>2 DEF PoolInv, CleanFrames, OutputsExact
<1>12. PanicInv'
  BY <1>0, <1>1, <1>6 DEF PanicInv, TypeOK
<1> QED BY <1>3, <1>4, <1>5, <1>7, <1>8, <1>9, <1>10, <1>11, <1>12 DEF PoolInv

\* A helper enters the live region.
LEMMA EnterKeeps ==
  ASSUME PoolInv, NEW h \in Helpers, HelperCheckRegion(h), FreshRegion(h)
  PROVE  PoolInv'
<1>0. /\ TypeOK /\ PhasesOK /\ OwnerInv /\ BuildInv /\ HelperInv /\ h \in Threads /\ h \notin Callers
      /\ \A c \in Callers : c \in Threads /\ h # c
  BY PoolAssumption DEF PoolInv, Threads, Helpers
<1>1. /\ pc[h] = "check" /\ lock' = NoRegion /\ busy /\ generation > seen[h]
      /\ gen' = [gen EXCEPT ![h] = generation] /\ ctx' = [ctx EXCEPT ![h] = desc]
      /\ pc' = [pc EXCEPT ![h] = "body"]
      /\ UNCHANGED <<busy, generation, done, panicked, desc>>
      /\ UNCHANGED <<shutdown, helper_count, seen, caught, frame, live, result, regions, panics,
                     spurious, main>>
  BY DEF HelperCheckRegion, FreshRegion, Goto, handoff
<1>2. /\ pc'[h] = "body" /\ gen'[h] = generation /\ ctx'[h] = desc
      /\ \A c \in Callers : pc'[c] = pc[c] /\ gen'[c] = gen[c]
      /\ \A g \in Helpers : g # h => pc'[g] = pc[g] /\ gen'[g] = gen[g] /\ ctx'[g] = ctx[g]
  BY <1>0, <1>1 DEF TypeOK, Threads
<1>3. TypeOK'
  <2>1. gen' \in [Threads -> Nat] /\ ctx' \in [Helpers -> Callers \union {NoRegion}]
    BY <1>0, <1>1 DEF TypeOK
  <2>2. pc' \in [Threads -> {"unspawned", "spin", "relock", "check", "parked_helper", "body",
                            "checkin", "exited", "idle", "publish", "parked_publish",
                            "publish_notify", "wait", "parked_wait"}]
    BY <1>0, <1>1 DEF TypeOK
  <2> QED BY <1>0, <1>1, <2>1, <2>2 DEF TypeOK
<1>4. PhasesOK'
  BY <1>0, <1>2 DEF PhasesOK, HelperPhases
<1>5. OwnerInv'
  BY <1>0, <1>1, <1>2 DEF OwnerInv
<1>6. HelperInv'
  BY <1>0, <1>1, <1>2 DEF HelperInv
<1>7. BuildInv'
  BY <1>0, <1>1, <1>2 DEF BuildInv
<1>8. DoneCountsCheckIns'
  <2>1. desc \in Callers /\ gen'[desc] = gen[desc]
    BY <1>0, <1>1, <1>2 DEF OwnerInv
  <2> QED BY <1>1, <2>1 DEF PoolInv, DoneCountsCheckIns
<1>9. FrameInv'
  <2>1. ASSUME NEW w \in 0..helper_count
        PROVE  RanBy(w)' = RanBy(w) /\ FailedBy(w)' = FailedBy(w)
    <3>1. desc \in Callers /\ (w # 0 => w \in Helpers)
      BY <1>0, <1>1, PoolAssumption DEF OwnerInv, TypeOK, Helpers
    <3>2. CASE w = h
      BY <1>0, <1>1, <1>2, <3>2 DEF RanBy, FailedBy, TypeOK, Helpers
    <3>3. CASE w # h
      BY <1>1, <1>2, <3>1, <3>3 DEF RanBy, FailedBy
    <3> QED BY <3>2, <3>3
  <2>2. \A w : Owned(w, workers)' = Owned(w, workers)
    BY <1>1 DEF workers, Owned, OwnedChunks, Chunk, ChunkSize, CeilDiv
  <2> QED BY <1>1, <2>1, <2>2 DEF PoolInv, FrameInv
<1>10. CleanFrames' /\ OutputsExact' /\ PanicInv'
  BY <1>1, <1>2 DEF PoolInv, CleanFrames, OutputsExact, PanicInv
<1> QED BY <1>3, <1>4, <1>5, <1>6, <1>7, <1>8, <1>9, <1>10 DEF PoolInv

-----------------------------------------------------------------------------
(* The trampoline *)

\* Thread th runs worker w's part of the live region: it writes its own elements
\* and no others, all of them unless it fails.
LEMMA BodyKeeps ==
  ASSUME PoolInv, busy, NEW th \in Threads, NEW w \in 0..helper_count, NEW next,
         \/ w = 0 /\ th = desc /\ next = "wait"
         \/ w \in Helpers /\ th = w /\ next = "checkin",
         pc[th] = "body", Body(th, w, desc, next),
         UNCHANGED <<handoff, lock, shutdown, helper_count, seen, gen, ctx, live, result,
                     regions, spurious, main>>
  PROVE  PoolInv'
<1>0. /\ TypeOK /\ PhasesOK /\ OwnerInv /\ BuildInv /\ HelperInv
      /\ desc \in Callers /\ desc \notin Helpers /\ \A c \in Callers : c \in Threads /\ c \notin Helpers
      /\ \A h \in Helpers : h \in Threads /\ h \notin Callers
      /\ helper_count \in Nat /\ workers = helper_count + 1 /\ \A v \in 0..helper_count : v # 0 => v \in Helpers
  <2>1. TypeOK /\ PhasesOK /\ OwnerInv /\ BuildInv /\ HelperInv
    BY DEF PoolInv
  <2>2. /\ desc \in Callers /\ desc \notin Helpers /\ \A c \in Callers : c \in Threads /\ c \notin Helpers
        /\ \A h \in Helpers : h \in Threads /\ h \notin Callers
    BY <2>1, PoolAssumption DEF Threads, Helpers, OwnerInv
  <2>3. helper_count \in Nat /\ workers = helper_count + 1 /\ \A v \in 0..helper_count : v # 0 => v \in Helpers
    BY <2>1, PoolAssumption DEF Helpers, TypeOK, workers
  <2> QED BY <2>1, <2>2, <2>3
<1>1. /\ UNCHANGED <<busy, generation, done, panicked, desc>>
      /\ UNCHANGED <<lock, shutdown, helper_count, seen, gen, ctx, live, result, regions,
                     spurious, main>>
  BY DEF handoff
<1>2. PICK fails \in BOOLEAN, S \in SUBSET Elements :
        /\ fails => panics < MaxPanics
        /\ S \in Written(w, workers, fails)
        /\ frame' = [frame EXCEPT ![desc] =
                       [i \in Elements |-> @[i] + (IF i \in S THEN 1 ELSE 0)]]
        /\ caught' = [caught EXCEPT ![th] = fails]
        /\ panics' = panics + (IF fails THEN 1 ELSE 0)
        /\ pc' = [pc EXCEPT ![th] = next]
  BY DEF Body, Write, Goto
<1>3. /\ S \subseteq Owned(w, workers)
      /\ ~fails => S = Owned(w, workers)
      /\ fails => \E i \in Owned(w, workers) : i \notin S
  BY <1>2 DEF Written
<1>4. /\ pc'[th] = next /\ caught'[th] = fails
      /\ \A x \in Threads : x # th => pc'[x] = pc[x] /\ caught'[x] = caught[x]
      /\ \A c \in Callers : c # desc => frame'[c] = frame[c]
      /\ \A i \in Elements : frame'[desc][i] = frame[desc][i] + (IF i \in S THEN 1 ELSE 0)
  BY <1>0, <1>2 DEF TypeOK
<1>5. TypeOK'
  <2>1. frame' \in [Callers -> [Elements -> Nat]]
    <3>1. frame \in [Callers -> [Elements -> Nat]]
      BY <1>0 DEF TypeOK
    <3>2. [i \in Elements |-> frame[desc][i] + (IF i \in S THEN 1 ELSE 0)] \in [Elements -> Nat]
      BY <1>0, <3>1
    <3> QED BY <1>0, <1>2, <3>1, <3>2
  <2>2. caught' \in [Threads -> BOOLEAN] /\ panics' \in 0..MaxPanics
    BY <1>0, <1>2, PoolAssumption DEF TypeOK
  <2>3. pc' \in [Threads -> {"unspawned", "spin", "relock", "check", "parked_helper", "body",
                            "checkin", "exited", "idle", "publish", "parked_publish",
                            "publish_notify", "wait", "parked_wait"}]
    BY <1>0, <1>2 DEF TypeOK
  <2> QED BY <1>0, <1>1, <2>1, <2>2, <2>3 DEF TypeOK
<1>6. PhasesOK'
  BY <1>0, <1>4 DEF PhasesOK, CallerPhases, HelperPhases
<1>7. \A c \in Callers : /\ pc'[c] \in Inside <=> pc[c] \in Inside
                         /\ pc'[c] = "idle" <=> pc[c] = "idle"
                         /\ pc[c] \notin Inside => pc'[c] = pc[c]
  BY <1>0, <1>4 DEF Inside
<1>8. OwnerInv'
  BY <1>0, <1>1, <1>7 DEF OwnerInv
<1>9. HelperInv'
  <2>1. \A h \in Helpers : pc'[h] \in {"body", "checkin"} => pc[h] \in {"body", "checkin"}
    BY <1>0, <1>4
  <2> QED BY <1>0, <1>1, <2>1 DEF HelperInv
<1>10. BuildInv'
  BY <1>0, <1>1, <1>4 DEF BuildInv
<1>11. DoneCountsCheckIns'
  BY <1>1 DEF PoolInv, DoneCountsCheckIns
<1>12. FrameInv'
  <2>0. \A v : Owned(v, workers)' = Owned(v, workers)
    BY <1>1 DEF workers, Owned, OwnedChunks, Chunk, ChunkSize, CeilDiv
  <2> SUFFICES ASSUME NEW v \in 0..helper_count
               PROVE  /\ \A i \in Owned(v, workers) : frame'[desc][i] \in {0, 1}
                      /\ ~RanBy(v)' => \A i \in Owned(v, workers) : frame'[desc][i] = 0
                      /\ RanBy(v)' => (FailedBy(v)' <=> \E i \in Owned(v, workers) : frame'[desc][i] = 0)
    BY <1>1, <2>0 DEF FrameInv
  <2>1. \A i \in Owned(v, workers) : i \in Elements
    BY OwnedElements
  <2>2. /\ \A i \in Owned(v, workers) : frame[desc][i] \in {0, 1}
        /\ ~RanBy(v) => \A i \in Owned(v, workers) : frame[desc][i] = 0
        /\ RanBy(v) => (FailedBy(v) <=> \E i \in Owned(v, workers) : frame[desc][i] = 0)
    BY DEF PoolInv, FrameInv
  <2>3. CASE v = w
    <3>1. ~RanBy(w)
      <4>1. CASE w = 0
        BY <4>1, <1>0 DEF RanBy, Helpers
      <4>2. CASE w # 0
        <5>1. w \in Helpers /\ pc[w] = "body"
          BY <1>0, <4>2
        <5>2. seen[w] < generation
          BY <1>0, <5>1 DEF HelperInv
        <5> QED BY <1>0, <4>2, <5>1, <5>2 DEF RanBy, TypeOK
      <4> QED BY <4>1, <4>2
    <3>2. RanBy(w)' /\ FailedBy(w)' = fails
      <4>1. CASE w = 0
        BY <1>0, <1>1, <1>4, <4>1 DEF RanBy, FailedBy, Helpers
      <4>2. CASE w # 0
        BY <1>0, <1>1, <1>4, <4>2 DEF RanBy, FailedBy
      <4> QED BY <4>1, <4>2
    <3>3. \A i \in Owned(v, workers) : frame'[desc][i] = IF i \in S THEN 1 ELSE 0
      BY <1>4, <2>1, <2>2, <2>3, <3>1
    <3>4. fails <=> \E i \in Owned(v, workers) : i \notin S
      BY <1>2, <1>3, <2>3
    <3> QED BY <2>3, <3>2, <3>3, <3>4
  <2>4. CASE v # w
    <3>1. \A i \in Owned(v, workers) : i \notin S
      <4> SUFFICES ASSUME NEW i \in Owned(v, workers), i \in S PROVE FALSE
        OBVIOUS
      <4>1. i \in Elements /\ i \in Owned(w, workers) /\ workers \in Nat \ {0}
        BY <1>0, <1>3, <2>1
      <4> QED BY <2>4, <4>1, Partition
    <3>2. \A i \in Owned(v, workers) : frame'[desc][i] = frame[desc][i]
      <4> TAKE i \in Owned(v, workers)
      <4>1. frame[desc][i] \in {0, 1} /\ i \in Elements /\ i \notin S
        BY <2>1, <2>2, <3>1
      <4> QED BY <1>4, <4>1
    <3>3. RanBy(v)' = RanBy(v) /\ FailedBy(v)' = FailedBy(v)
      <4>1. CASE v = 0
        BY <1>0, <1>1, <1>4, <2>4, <4>1 DEF RanBy, FailedBy
      <4>2. CASE v # 0
        BY <1>0, <1>1, <1>4, <2>4, <4>2 DEF RanBy, FailedBy
      <4> QED BY <4>1, <4>2
    <3> QED BY <2>2, <3>2, <3>3
  <2> QED BY <2>3, <2>4
<1>13. CleanFrames' /\ OutputsExact'
  <2>1. pc[desc] \in Inside /\ pc'[desc] \in Inside
    BY <1>0, <1>7 DEF OwnerInv
  <2>2. pc'[desc] \notin {"publish", "parked_publish", "idle"}
    BY <2>1 DEF Inside
  <2>3. \A c \in Callers : c # desc => pc'[c] = pc[c] /\ frame'[c] = frame[c]
    BY <1>0, <1>4
  <2> QED BY <1>1, <2>2, <2>3 DEF PoolInv, CleanFrames, OutputsExact
<1>14. PanicInv'
  <2>1. \A h \in Helpers : seen[h] = generation => caught'[h] = caught[h]
    <3> TAKE h \in Helpers
    <3>1. CASE h = th
      <4>1. pc[h] = "body" /\ seen[h] < generation
        BY <1>0, <3>1 DEF HelperInv
      <4> QED BY <1>0, <4>1 DEF TypeOK
    <3>2. CASE h # th
      BY <1>0, <1>4, <3>2
    <3> QED BY <3>1, <3>2
  <2> QED BY <1>1, <2>1 DEF PoolInv, PanicInv
<1> QED BY <1>5, <1>6, <1>8, <1>9, <1>10, <1>11, <1>12, <1>13, <1>14 DEF PoolInv

\* The caller's part and a helper's part are such trampolines.
LEMMA RunKeeps ==
  ASSUME PoolInv, (\E c \in Callers : CallerBody(c)) \/ (\E h \in Helpers : HelperBody(h))
  PROVE  PoolInv'
<1>0. TypeOK /\ OwnerInv /\ HelperInv /\ BuildInv /\ helper_count \in Nat
  BY PoolAssumption DEF PoolInv, TypeOK
<1>1. ASSUME NEW c \in Callers, CallerBody(c) PROVE PoolInv'
  <2>1. pc[c] = "body" /\ busy /\ c = desc /\ c \in Threads
    BY <1>0, <1>1 DEF CallerBody, OwnerInv, Inside, Threads
  <2>2. Body(c, 0, desc, "wait") /\ 0 \in 0..helper_count
    BY <1>0, <1>1, <2>1 DEF CallerBody
  <2>3. UNCHANGED <<handoff, lock, shutdown, helper_count, seen, gen, ctx, live, result,
                    regions, spurious, main>>
    BY <1>1 DEF CallerBody
  <2> QED BY <2>1, <2>2, <2>3, BodyKeeps
<1>2. ASSUME NEW h \in Helpers, HelperBody(h) PROVE PoolInv'
  <2>1. pc[h] = "body" /\ busy /\ ctx[h] = desc /\ h \in Threads
    BY <1>0, <1>2 DEF HelperBody, HelperInv, Threads
  <2>2. helper_count = N
    BY <1>0, <2>1 DEF BuildInv
  <2>3. Body(h, h, desc, "checkin") /\ h \in 0..helper_count
    BY <1>0, <1>2, <2>1, <2>2 DEF HelperBody, Helpers
  <2>4. UNCHANGED <<handoff, lock, shutdown, helper_count, seen, gen, ctx, live, result,
                    regions, spurious, main>>
    BY <1>2 DEF HelperBody
  <2> QED BY <2>1, <2>3, <2>4, BodyKeeps
<1> QED BY <1>1, <1>2

-----------------------------------------------------------------------------
(* The done barrier *)

\* At the barrier every helper of the pool has checked in and nobody is inside.
LEMMA BarrierMeansAll ==
  ASSUME PoolInv, busy, BarrierMet
  PROVE  /\ \A h \in 1..helper_count : seen[h] = generation
         /\ \A h \in Helpers : pc[h] \notin {"body", "checkin"}
<1>0. TypeOK /\ HelperInv /\ BuildInv /\ DoneCountsCheckIns
  BY DEF PoolInv
<1>1. CASE helper_count = N
  <2>1. IsFiniteSet(Helpers) /\ Cardinality(Helpers) = N
    BY PoolAssumption, FS_Interval DEF Helpers
  <2>2. PICK T : T = {h \in Helpers : seen[h] = generation}
    OBVIOUS
  <2>3. Cardinality(T) <= N /\ done = Cardinality(T) /\ done \in Nat /\ (Cardinality(T) = N => T = Helpers)
    <3>1. T \in SUBSET Helpers
      BY <2>2
    <3>2. Cardinality(T) <= Cardinality(Helpers) /\ (Cardinality(Helpers) = Cardinality(T) => Helpers = T)
      BY <2>1, <3>1, FS_Subset
    <3>3. done = Cardinality(T) /\ done \in Nat
      BY <1>0, <2>2 DEF DoneCountsCheckIns, TypeOK
    <3> QED BY <2>1, <3>2, <3>3
  <2>4. T = Helpers
    BY <1>1, <2>3, PoolAssumption DEF BarrierMet
  <2>5. \A h \in Helpers : seen[h] = generation
    BY <2>2, <2>4
  <2> QED BY <1>0, <1>1, <2>5 DEF Helpers, HelperInv, TypeOK
<1>2. CASE helper_count # N
  BY <1>0, <1>2 DEF BuildInv, TypeOK
<1> QED BY <1>1, <1>2

\* The reaper's result says exactly whether every slot was written once.
LEMMA ResultExact ==
  ASSUME PoolInv, busy, BarrierMet, pc[desc] = "wait"
  PROVE  /\ \A i \in Elements : frame[desc][i] <= 1
         /\ (panicked \/ caught[desc]) <=> ~\A i \in Elements : frame[desc][i] = 1
<1>0. /\ TypeOK /\ OwnerInv /\ BuildInv /\ FrameInv /\ PanicInv /\ helper_count \in Nat
      /\ desc \in Callers /\ workers = helper_count + 1 /\ workers \in Nat \ {0}
  BY PoolAssumption DEF PoolInv, TypeOK, OwnerInv, workers
<1>1. \A h \in 1..helper_count : seen[h] = generation
  BY BarrierMeansAll
<1>2. \A w \in 0..helper_count : RanBy(w)
  BY <1>1 DEF RanBy
<1>3. \A w \in 0..helper_count :
        /\ \A i \in Owned(w, workers) : frame[desc][i] \in {0, 1}
        /\ FailedBy(w) <=> \E i \in Owned(w, workers) : frame[desc][i] = 0
  BY <1>0, <1>2 DEF FrameInv
<1>4. \A i \in Elements : \E w \in 0..helper_count : i \in Owned(w, workers)
  <2> TAKE i \in Elements
  <2>1. PICK w \in 0..(workers - 1) : i \in Owned(w, workers)
    BY <1>0, Partition
  <2>2. w \in 0..helper_count
    BY <1>0
  <2> QED BY <2>1, <2>2
<1>5. \A i \in Elements : frame[desc][i] \in {0, 1}
  BY <1>3, <1>4
<1>6. (\E w \in 0..helper_count : FailedBy(w)) <=> \E i \in Elements : frame[desc][i] = 0
  <2>1. \A w : Owned(w, workers) \subseteq Elements
    BY OwnedElements
  <2> QED BY <1>3, <1>4, <2>1
<1>7. panicked <=> \E h \in 1..helper_count : caught[h]
  <2>1. panicked <=> \E h \in Helpers : seen[h] = generation /\ caught[h]
    BY <1>0 DEF PanicInv
  <2>2. \A h \in Helpers : seen[h] = generation => h \in 1..helper_count
    <3>1. CASE helper_count = N
      BY <3>1 DEF Helpers
    <3>2. CASE helper_count # N
      BY <1>0, <3>2 DEF BuildInv, OwnerInv, TypeOK
    <3> QED BY <3>1, <3>2
  <2>3. \A h \in 1..helper_count : h \in Helpers
    BY <1>0, PoolAssumption DEF TypeOK, Helpers
  <2> QED BY <1>1, <2>1, <2>2, <2>3
<1>8. (panicked \/ caught[desc]) <=> \E w \in 0..helper_count : FailedBy(w)
  <2>1. FailedBy(0) <=> caught[desc]
    BY DEF FailedBy
  <2>2. \A h \in 1..helper_count : h \in 0..helper_count /\ (FailedBy(h) <=> caught[h])
    BY <1>0 DEF FailedBy
  <2>3. \A w \in 0..helper_count : w = 0 \/ w \in 1..helper_count
    BY <1>0
  <2>4. 0 \in 0..helper_count
    BY <1>0
  <2> QED BY <1>7, <2>1, <2>2, <2>3, <2>4
<1> QED BY <1>5, <1>6, <1>8

\* The caller at the barrier clears the slot and returns; its frame dies unused.
LEMMA ReapKeeps ==
  ASSUME PoolInv, NEW c \in Callers, WaitRegion(c), ~(busy /\ generation = gen[c] /\ ~BarrierMet)
  PROVE  PoolInv'
<1>0. /\ TypeOK /\ PhasesOK /\ OwnerInv /\ BuildInv /\ HelperInv /\ c \in Threads /\ c \notin Helpers
      /\ \A h \in Helpers : h \in Threads /\ h # c
  BY PoolAssumption DEF PoolInv, Threads, Helpers
<1>1. pc[c] = "wait" /\ busy /\ desc = c /\ generation = gen[c] /\ BarrierMet
  BY <1>0 DEF WaitRegion, OwnerInv, Inside
<1>2. /\ result' = [result EXCEPT ![c] = IF panicked \/ caught[c] THEN "JobPanicked" ELSE "Ok"]
      /\ live' = live \ {c} /\ busy' = FALSE /\ desc' = NoRegion /\ done' = 0 /\ panicked' = FALSE
      /\ pc' = [Woken(pc) EXCEPT ![c] = "idle"] /\ generation' = generation
      /\ UNCHANGED <<lock, shutdown, helper_count, seen, gen, ctx, caught, frame, regions,
                     panics, spurious, main>>
  BY <1>1 DEF WaitRegion, ReapNotify
<1>3. /\ pc' = [x \in Threads |-> pc'[x]] /\ pc'[c] = "idle"
      /\ \A x \in Threads : x # c => pc'[x] = Woken(pc)[x]
  BY <1>0, <1>2 DEF Woken
<1>4. \A x \in Callers : x # c =>
        /\ pc'[x] \in CallerPhases /\ (pc'[x] = "idle" <=> pc[x] = "idle")
        /\ pc'[x] \in Inside <=> pc[x] \in Inside
  <2> TAKE x \in Callers
  <2> SUFFICES ASSUME x # c
               PROVE  /\ pc'[x] \in CallerPhases /\ (pc'[x] = "idle" <=> pc[x] = "idle")
                      /\ pc'[x] \in Inside <=> pc[x] \in Inside
    OBVIOUS
  <2>1. x \in Threads /\ pc'[x] = Woken(pc)[x]
    BY <1>3 DEF Threads
  <2> QED BY <1>0, <2>1, WokenPhases
<1>5. \A h \in Helpers :
        /\ pc'[h] \in HelperPhases /\ (pc'[h] = "body" <=> pc[h] = "body")
        /\ pc'[h] = "checkin" <=> pc[h] = "checkin"
        /\ pc[h] \in {"unspawned", "exited"} => pc'[h] \in {"unspawned", "exited"}
  <2> TAKE h \in Helpers
  <2>1. h \in Threads /\ pc'[h] = Woken(pc)[h]
    BY <1>0, <1>3
  <2> QED BY <1>0, <2>1, WokenPhases
<1>6. PhasesOK'
  BY <1>3, <1>4, <1>5 DEF PhasesOK, CallerPhases
<1>7. TypeOK'
  <2>1. pc' \in [Threads -> {"unspawned", "spin", "relock", "check", "parked_helper", "body",
                            "checkin", "exited", "idle", "publish", "parked_publish",
                            "publish_notify", "wait", "parked_wait"}]
    BY <1>3, <1>6, PhasesType DEF PhasesOK
  <2>2. result' \in [Callers -> {"none", "Ok", "JobPanicked"}]
    BY <1>0, <1>2 DEF TypeOK
  <2>3. live' \subseteq Callers /\ done' \in 0..N
    BY <1>0, <1>2, PoolAssumption DEF TypeOK
  <2> QED BY <1>0, <1>2, <2>1, <2>2, <2>3 DEF TypeOK
<1>8. \A x \in Callers : pc'[x] \notin Inside
  BY <1>0, <1>1, <1>3, <1>4 DEF OwnerInv, Inside
<1>9. OwnerInv'
  <2>1. \A x \in Callers : x \in live' <=> pc'[x] # "idle"
    BY <1>0, <1>2, <1>3, <1>4 DEF OwnerInv
  <2> QED BY <1>2, <1>8, <2>1 DEF OwnerInv
<1>10. HelperInv'
  <2>1. \A h \in Helpers : pc'[h] \notin {"body", "checkin"}
    BY <1>1, <1>5, BarrierMeansAll
  <2> QED BY <1>0, <1>2, <2>1 DEF HelperInv
<1>11. BuildInv'
  BY <1>0, <1>1, <1>2, <1>5 DEF BuildInv
<1>12. DoneCountsCheckIns' /\ FrameInv' /\ PanicInv'
  BY <1>2 DEF DoneCountsCheckIns, FrameInv, PanicInv
<1>13. CleanFrames'
  <2> SUFFICES ASSUME NEW x \in Callers, pc'[x] \in {"publish", "parked_publish"}
               PROVE  \A i \in Elements : frame'[x][i] = 0
    BY DEF CleanFrames
  <2>1. x # c /\ pc[x] \in CallerPhases
    BY <1>0, <1>3 DEF PhasesOK
  <2>2. pc'[x] # "idle" /\ pc'[x] \notin Inside
    BY DEF Inside
  <2>3. pc[x] \in {"publish", "parked_publish"}
    BY <1>4, <2>1, <2>2 DEF CallerPhases, Inside
  <2> QED BY <1>2, <2>3 DEF PoolInv, CleanFrames
<1>14. OutputsExact'
  <2> SUFFICES ASSUME NEW x \in Callers, pc'[x] = "idle", regions'[x] > 0
               PROVE  /\ \A i \in Elements : frame'[x][i] <= 1
                      /\ (result'[x] = "Ok") <=> (\A i \in Elements : frame'[x][i] = 1)
    BY DEF OutputsExact
  <2>1. CASE x = c
    <3>1. /\ \A i \in Elements : frame[c][i] <= 1
          /\ (panicked \/ caught[c]) <=> ~\A i \in Elements : frame[c][i] = 1
      BY <1>1, ResultExact
    <3>2. result'[c] = IF panicked \/ caught[c] THEN "JobPanicked" ELSE "Ok"
      BY <1>0, <1>2 DEF TypeOK
    <3>3. (result'[c] = "Ok") <=> ~(panicked \/ caught[c])
      BY <3>2
    <3> QED BY <1>2, <2>1, <3>1, <3>3
  <2>2. CASE x # c
    <3>1. pc[x] = "idle" /\ result'[x] = result[x] /\ frame' = frame /\ regions' = regions
      BY <1>0, <1>2, <1>4, <2>2 DEF TypeOK
    <3> QED BY <3>1 DEF PoolInv, OutputsExact
  <2> QED BY <2>1, <2>2
<1> QED BY <1>6, <1>7, <1>9, <1>10, <1>11, <1>12, <1>13, <1>14 DEF PoolInv

\* One more helper of this generation is counted, with its panic.
LEMMA CheckInKeeps ==
  ASSUME PoolInv, NEW h \in Helpers, CheckIn(h)
  PROVE  PoolInv'
<1>0. /\ TypeOK /\ PhasesOK /\ OwnerInv /\ BuildInv /\ HelperInv /\ h \in Threads /\ h \notin Callers
      /\ \A c \in Callers : c \in Threads /\ h # c
  BY PoolAssumption DEF PoolInv, Threads, Helpers
<1>1. pc[h] = "checkin" /\ busy /\ gen[h] = generation /\ seen[h] < generation /\ desc \in Callers
  BY <1>0 DEF CheckIn, HelperInv, OwnerInv
<1>2. /\ seen' = [seen EXCEPT ![h] = generation] /\ done' = done + 1
      /\ panicked' = (panicked \/ caught[h]) /\ ctx' = [ctx EXCEPT ![h] = NoRegion]
      /\ UNCHANGED <<busy, generation, desc, lock, shutdown, helper_count, gen, caught,
                     frame, live, result, regions, panics, spurious, main>>
  BY <1>1 DEF CheckIn, PanicReported
<1>3. PICK p \in {Woken(pc), pc} : pc' = [p EXCEPT ![h] = "spin"]
  BY DEF CheckIn
<1>4. /\ pc' = [x \in Threads |-> pc'[x]] /\ pc'[h] = "spin"
      /\ \A x \in Threads : x # h => pc'[x] = p[x]
  BY <1>0, <1>3 DEF Woken, TypeOK
<1>5. \A x \in Callers :
        /\ pc'[x] \in CallerPhases /\ (pc'[x] = "idle" <=> pc[x] = "idle")
        /\ pc'[x] \in Inside <=> pc[x] \in Inside
        /\ pc'[x] \in {"wait", "parked_wait"} <=> pc[x] \in {"wait", "parked_wait"}
  <2> TAKE x \in Callers
  <2>1. x \in Threads /\ pc'[x] = p[x]
    BY <1>0, <1>4
  <2>2. CASE p = pc
    BY <1>0, <2>1, <2>2 DEF PhasesOK
  <2>3. CASE p = Woken(pc)
    BY <1>0, <2>1, <2>3, WokenPhases
  <2> QED BY <2>2, <2>3
<1>6. \A g \in Helpers : g # h =>
        /\ pc'[g] \in HelperPhases /\ (pc'[g] = "body" <=> pc[g] = "body")
        /\ pc'[g] = "checkin" <=> pc[g] = "checkin"
        /\ pc[g] \in {"unspawned", "exited"} => pc'[g] \in {"unspawned", "exited"}
  <2> TAKE g \in Helpers
  <2> SUFFICES ASSUME g # h
               PROVE  /\ pc'[g] \in HelperPhases /\ (pc'[g] = "body" <=> pc[g] = "body")
                      /\ pc'[g] = "checkin" <=> pc[g] = "checkin"
                      /\ pc[g] \in {"unspawned", "exited"} => pc'[g] \in {"unspawned", "exited"}
    OBVIOUS
  <2>1. g \in Threads /\ pc'[g] = p[g]
    BY <1>4 DEF Threads
  <2>2. CASE p = pc
    BY <1>0, <2>1, <2>2 DEF PhasesOK
  <2>3. CASE p = Woken(pc)
    BY <1>0, <2>1, <2>3, WokenPhases
  <2> QED BY <2>2, <2>3
<1>7. PhasesOK'
  BY <1>4, <1>5, <1>6 DEF PhasesOK, HelperPhases
<1>8. seen'[h] = generation /\ \A g \in Helpers : g # h => seen'[g] = seen[g] /\ ctx'[g] = ctx[g]
  BY <1>0, <1>2 DEF TypeOK
<1>9. DoneCountsCheckIns' /\ done' \in 0..N
  <2>1. PICK T : T = {g \in Helpers : seen[g] = generation}
    OBVIOUS
  <2>2. {g \in Helpers : seen'[g] = generation} = T \union {h}
    BY <1>8, <2>1
  <2>3. h \notin T /\ T \in SUBSET Helpers /\ T \union {h} \in SUBSET Helpers
    BY <1>0, <1>1, <2>1 DEF TypeOK
  <2>4. IsFiniteSet(Helpers) /\ Cardinality(Helpers) = N
    BY PoolAssumption, FS_Interval DEF Helpers
  <2>5. IsFiniteSet(T) /\ Cardinality(T \union {h}) <= N
    BY <2>3, <2>4, FS_Subset
  <2>6. Cardinality(T \union {h}) = Cardinality(T) + 1
    BY <2>3, <2>5, FS_AddElement
  <2>7. done = Cardinality(T) /\ done \in Nat /\ desc \in live /\ gen[desc] = generation
    BY <1>0, <1>1, <2>1 DEF PoolInv, DoneCountsCheckIns, TypeOK
  <2>8. done' = Cardinality(T \union {h})
    BY <1>2, <2>6, <2>7
  <2> QED BY <1>2, <2>2, <2>5, <2>7, <2>8, PoolAssumption DEF DoneCountsCheckIns
<1>10. TypeOK'
  <2>1. pc' \in [Threads -> {"unspawned", "spin", "relock", "check", "parked_helper", "body",
                            "checkin", "exited", "idle", "publish", "parked_publish",
                            "publish_notify", "wait", "parked_wait"}]
    BY <1>4, <1>7, PhasesType DEF PhasesOK
  <2>2. seen' \in [Helpers -> Nat] /\ ctx' \in [Helpers -> Callers \union {NoRegion}]
    BY <1>0, <1>2 DEF TypeOK
  <2>3. panicked' \in BOOLEAN
    BY <1>2
  <2> QED BY <1>0, <1>2, <1>9, <2>1, <2>2, <2>3 DEF TypeOK
<1>11. OwnerInv'
  BY <1>0, <1>1, <1>2, <1>5 DEF OwnerInv
<1>12. HelperInv'
  <2>1. pc'[h] \notin {"body", "checkin"}
    BY <1>4
  <2>2. \A g \in Helpers : pc'[g] \in {"body", "checkin"} =>
          busy' /\ gen'[g] = generation' /\ ctx'[g] = desc' /\ seen'[g] < generation'
    BY <1>0, <1>2, <1>6, <1>8, <2>1 DEF HelperInv
  <2>3. \A g \in Helpers : seen'[g] <= generation'
    BY <1>0, <1>2, <1>8 DEF HelperInv, TypeOK
  <2> QED BY <2>2, <2>3 DEF HelperInv
<1>13. BuildInv'
  BY <1>0, <1>1, <1>2, <1>5 DEF BuildInv
<1>14. FrameInv'
  <2>1. ASSUME NEW w \in 0..helper_count
        PROVE  RanBy(w)' = RanBy(w) /\ FailedBy(w)' = FailedBy(w)
    <3>1. w # 0 => w \in Helpers
      BY <1>0, PoolAssumption DEF TypeOK, Helpers
    <3>2. FailedBy(w)' = FailedBy(w)
      BY <1>2 DEF FailedBy
    <3>3. CASE w = 0
      BY <1>1, <1>2, <1>5, <3>2, <3>3 DEF RanBy
    <3>4. CASE w = h /\ w # 0
      BY <1>1, <1>2, <1>8, <3>2, <3>4 DEF RanBy
    <3>5. CASE w # h /\ w # 0
      BY <1>2, <1>6, <1>8, <3>1, <3>2, <3>5 DEF RanBy
    <3> QED BY <3>3, <3>4, <3>5
  <2>2. \A w : Owned(w, workers)' = Owned(w, workers)
    BY <1>2 DEF workers, Owned, OwnedChunks, Chunk, ChunkSize, CeilDiv
  <2> QED BY <1>2, <2>1, <2>2 DEF PoolInv, FrameInv
<1>15. CleanFrames'
  BY <1>0, <1>2, <1>5 DEF PoolInv, CleanFrames, PhasesOK, CallerPhases, Inside
<1>16. OutputsExact'
  BY <1>2, <1>5 DEF PoolInv, OutputsExact
<1>17. PanicInv'
  BY <1>1, <1>2, <1>8 DEF PoolInv, PanicInv
<1> QED BY <1>7, <1>9, <1>10, <1>11, <1>12, <1>13, <1>14, <1>15, <1>16, <1>17 DEF PoolInv

-----------------------------------------------------------------------------
(* The theorems *)

\* A pool under construction has no region.
LEMMA PoolInit == Init => PoolInv
<1> SUFFICES ASSUME Init PROVE PoolInv
  OBVIOUS
<1>1. TypeOK
  <2>1. /\ busy \in BOOLEAN /\ generation \in Nat /\ panicked \in BOOLEAN /\ done \in 0..N
        /\ desc \in Callers \union {NoRegion} /\ lock \in Helpers \union {NoRegion}
        /\ shutdown \in BOOLEAN /\ helper_count \in {0, N} /\ live \subseteq Callers
        /\ panics \in 0..MaxPanics /\ spurious \in 0..MaxSpurious
    <3>1. /\ busy = FALSE /\ generation = 0 /\ panicked = FALSE /\ done = 0 /\ desc = NoRegion
          /\ lock = NoRegion /\ shutdown = FALSE /\ helper_count = N /\ live = {}
          /\ panics = 0 /\ spurious = 0
      BY DEF Init
    <3>2. busy \in BOOLEAN /\ panicked \in BOOLEAN /\ shutdown \in BOOLEAN /\ live \subseteq Callers
      BY <3>1
    <3>3. desc \in Callers \union {NoRegion} /\ lock \in Helpers \union {NoRegion}
      BY <3>1
    <3>4. generation \in Nat /\ done \in 0..N /\ helper_count \in {0, N}
      BY <3>1, PoolAssumption
    <3>5. panics \in 0..MaxPanics /\ spurious \in 0..MaxSpurious
      BY <3>1, PoolAssumption
    <3> QED BY <3>2, <3>3, <3>4, <3>5
  <2>2. /\ seen \in [Helpers -> Nat] /\ gen \in [Threads -> Nat]
        /\ ctx \in [Helpers -> Callers \union {NoRegion}] /\ caught \in [Threads -> BOOLEAN]
    BY DEF Init
  <2>3. /\ frame \in [Callers -> [Elements -> Nat]]
        /\ result \in [Callers -> {"none", "Ok", "JobPanicked"}]
    BY DEF Init
  <2>4. regions \in [Callers -> 0..MaxRegions]
    BY PoolAssumption DEF Init
  <2>5. pc \in [Threads -> {"unspawned", "spin", "relock", "check", "parked_helper", "body",
                            "checkin", "exited", "idle", "publish", "parked_publish",
                            "publish_notify", "wait", "parked_wait"}]
    BY DEF Init
  <2> QED BY <2>1, <2>2, <2>3, <2>4, <2>5 DEF Init, TypeOK
<1>2. \A c \in Callers : pc[c] = "idle"
  BY PoolAssumption DEF Init, Threads, Helpers
<1>3. \A h \in Helpers : pc[h] = "unspawned"
  BY DEF Init, Threads
<1>4. PhasesOK
  BY <1>2, <1>3 DEF PhasesOK, CallerPhases, HelperPhases
<1>5. OwnerInv /\ HelperInv /\ BuildInv
  BY <1>2, <1>3 DEF Init, OwnerInv, HelperInv, BuildInv, Inside
<1>6. DoneCountsCheckIns /\ FrameInv /\ PanicInv /\ CleanFrames /\ OutputsExact
  BY <1>2 DEF Init, DoneCountsCheckIns, FrameInv, PanicInv, CleanFrames, OutputsExact
<1> QED BY <1>1, <1>4, <1>5, <1>6 DEF PoolInv

\* Every step of every thread keeps the invariant.
LEMMA PoolStep == PoolInv /\ [Next]_vars => PoolInv'
<1> SUFFICES ASSUME PoolInv, [Next]_vars PROVE PoolInv'
  OBVIOUS
<1>1. ASSUME NEW c \in Callers, Call(c) \/ CallerStep(c) PROVE PoolInv'
  <2>1. CASE Publish(c)
    BY <2>1, PublishKeeps, CallerParks
  <2>2. CASE WaitRegion(c)
    BY <2>2, ReapKeeps, CallerParks
  <2> QED BY <1>1, <2>1, <2>2, CallKeeps, PublishNotifyKeeps, RunKeeps DEF CallerStep
<1>2. ASSUME NEW h \in Helpers, HelperStep(h) PROVE PoolInv'
  BY <1>2, HelperIdles, EnterKeeps, RunKeeps, CheckInKeeps DEF HelperStep
<1>3. CASE MainStep \/ SpawnFailed \/ DropStore
  BY <1>3, MainKeeps, JoinedKeeps DEF MainStep
<1>4. ASSUME NEW th \in Threads, SpuriousWake(th) PROVE PoolInv'
  BY <1>4, SpuriousKeeps
<1>5. CASE UNCHANGED vars
  <2>1. Quiet
    BY <1>5 DEF vars, handoff, Quiet, QuietPhases, PoolInv, PhasesOK
  <2>2. TypeOK' /\ BuildInv'
    BY <1>5 DEF vars, handoff, PoolInv, TypeOK, BuildInv
  <2> QED BY <2>1, <2>2, QuietKeeps
<1> QED BY <1>1, <1>2, <1>3, <1>4, <1>5 DEF Next

\* The inductive invariant holds of every behaviour of the pool, whatever the number
\* of helpers and callers, the regions they run and the slice length.
THEOREM PoolInvHolds == Spec => []PoolInv
<1> QED BY PoolInit, PoolStep, PTL DEF Spec

\* The done-barrier argument: a helper dereferences a descriptor only while the frame
\* of that very region is lent, and `done` counts this generation's check-ins.
THEOREM HandoffSound == Spec => []HandoffInv
<1>1. PoolInv => HandoffInv
  BY DEF PoolInv, HandoffInv, LentFrameLive, HelperInv, OwnerInv, DoneCountsCheckIns
<1> QED BY <1>1, PoolInvHolds, PTL

\* run_partitioned returns Ok exactly when each output slot was written by its one
\* owner before the return.
THEOREM OutputsAreExact == Spec => []OutputsExact
<1>1. PoolInv => OutputsExact
  BY DEF PoolInv
<1> QED BY <1>1, PoolInvHolds, PTL
=============================================================================
