# SXLA in TLA+

SXLA is a tensor compiler in Rust. Its crates form a pipeline (`xir-*` IR and passes,
`egraph` rewriting, `fusion` and `supertensor` search, `mss` stochastic search, `codegen`,
`jit`, `runtime`) on top of `anvil`, a hand-written concurrency substrate: a work-stealing
deque, a persistent worker pool, a fork/join executor, epoch-based reclamation, a sharded
map with lock-free reads, and SPSC channels. Everything that runs in parallel in the
compiler runs on `anvil`, so that crate is modelled first and in the most detail. The second
core is the compile pipeline itself: which program comes out of the passes of each tier.

Check a run with `tlc -config <run>.cfg <module>` and the proofs with `tlapm <module>` for
`IndexArithmetic` and each module named `...Proofs`; PROJECT.json lists both, the source lines
of every definition, and the fault each property was shown to catch.

## Inventory

| Component | State | Operations | Interacts with | Hard behaviour | What makes it correct |
|---|---|---|---|---|---|
| `anvil/chase_lev.rs` deque | `top`, `bottom`, slot states, slots | push, pop, steal, drop | executor workers | owner/stealer races, slot reuse, store buffering | every task handed out once, to one thread |
| `anvil/pool.rs` pool | handoff (busy, generation, done, panicked, descriptor), shutdown flag, one condvar | new, publish, wait_region, run_partitioned, run_fork_join, drop | callers, helpers, executor | lent stack frames, lost wakeups, panics, spawn failure | frame outlives its use; exact results; no sleep for ever |
| `anvil/executor.rs` fork/join | one deque per worker, the credit count | worker_loop, spawn, scoped regions | deque, pool | termination detection while jobs spawn | no early exit, no missed job, no leak of credits |
| `anvil/ebr.rs` reclamation | epoch, slots, garbage list, retire count | register, pin, unpin, retire_box, collect, drop | sharded map, JIT cache | concurrent advance and sweep, weak ordering of pin | nothing referenced is freed; everything is freed once |
| `anvil/sharded.rs` map | per shard: table of slots, try-lock, length | get, insert, remove, resize, drop | ebr, JIT cache | multi-word slots read without a lock | lookups return the key's binding |
| `anvil/typed.rs` channel | published and private indices, pending counts | try_send, send, try_recv, recv, batch, flush, drop | supertensor enumerator | batched publication, wrapping indices | FIFO, no slot race, no mutual blocking |
| `anvil/spsc.rs`, `telemetry.rs` | head, tail, slots; drop counter | push, pop, batch, emit, drain | jit boundary, pass manager | loss accounting at a full ring | FIFO; losses are counted |
| `anvil/fuel.rs`, `bump.rs` | budget; block cursor | spend; alloc, reset | passes | limits, alignment | never over budget, no overlap |
| `jit` cache, boundary, tiers, driver, with the worker of `src/tests/cli.rs` | compiled entries, two request/response rings, tier counters | lookup, insert, remove, compile | sharded map, ebr, spsc, all passes | check-then-act on capacity, a worker that gives up | bounded cache, one artefact per key, every request answered |
| `runtime` streams, devices, interpreter | launch list, event table, values | launch, record, wait_for, execute | jit | ordering of events | kernels run after what they wait for |
| `xir-core` arena, snapshot, text | nodes, versioned snapshots | commit, apply_edit, parse, print | every pass | edits that fail half-way | atomic commits |
| `xir-levels` pass manager, levels | pipeline, snapshot, events | run | xir-core, telemetry | verification between passes | last good snapshot survives |
| `xir-graph` verifier, dominance, GVN, fold, DCE, schedule | IR graph | one transformation each | xir-core | ordering, cycles | results meet their definition |
| `egraph` union-find, e-graph, saturation, extraction | parents, classes, hash-cons | add, merge, rebuild, saturate, extract | xir-core | congruence is broken between merge and rebuild | closed after rebuild |
| `fusion` search | candidate universes, shared best cost | build, score, repair | pool | parallel pruning against a shared bound | order-independent winner |
| `supertensor` enumerator, Pareto front | candidates, packed front | enumerate, merge, prune | typed channel | many producers, one merger | front of non-dominated points |
| `mss` tempering search | replicas, transposition table | mutate, exchange | pool | stochastic | best candidate is valid |
| `codegen`, `tools`, `benches` | none shared | lowering, command line | all | - | - |

PROJECT.json lists the hazards line by line, with the properties that would catch each.

## Plan

1. Done: the concurrency substrate (`ChaseLev`, `Pool`, `ForkJoin`, `Nesting`, `Ebr`,
   `ShardedMap`, `TypedSpsc`, `Telemetry`) with the abstract specifications `WorkDeque` and
   `Channel`; the task-local services (`TaskLocal`); the JIT's cache and boundary
   (`JitService`); the compile pipeline on scalar programs (`Xir`, `Canonicalize`, `EGraph`,
   `Lowering`, `Compile`); its parts in detail (`IrStore`, `Text`, `Fingerprint`, `Dominance`,
   `UnionFind`, `TensorKernels`, `Backend`); both searches (`Supertensor`, `Mss`).
2. Done: the proofs of every safety property of the run-time modules (`ChaseLev`, `Pool`,
   `ForkJoin`, `Nesting`, `Ebr`, `ShardedMap`, `TypedSpsc`, `Telemetry`, `TaskLocal`,
   `JitService`), of both implementations of `Channel` and of the implementation of
   `WorkDeque`; of the compiler, those of `UnionFind`, `IrStore` and
   `Dominance`.
3. Left to model: effects in the verifier, the parallel scoring of the fusion universes,
   tensor programs in the driver.

## Modules and what they stand for

Common conventions: one action is one atomic access to shared memory, or one critical
section of a mutex, together with the thread-local work around it; `pc` names the next
access. Ghost variables are marked in the declarations and no guard reads them. An operator
marked "Fault model" is a plausible defect of the definition below it and is not part of
any specification; PROJECT.json says which property catches it.

**Memory model.** `docs/targets.md` names x86_64 as the reference target. Where the code
orders loads after stores (`chase_lev.rs`, `ebr.rs`) each thread has a FIFO store buffer:
Relaxed and Release stores enter it, `fence(SeqCst)` and read-modify-write instructions wait
for it to drain. Elsewhere each thread writes only locations whose delayed visibility is
already covered by an interleaving (the indices of the channel, the slot stores of the map).

| Module | Code | Correspondence |
|---|---|---|
| `ChaseLev` | `chase_lev.rs` | `PushLoad`, `PushStore` are push; `PopReserve`, `PopLoadTop`, `PopCas` pop; `StealLoadTop` .. `StealRead` steal; `Drop` the destructor after the join. `Flush` is the memory system. |
| `WorkDeque` | its promise | bounded sequence, right end for the owner, left end for stealers |
| `Pool` | `pool.rs` | `Call`, `Publish`, `PublishNotify`, `CallerBody`, `WaitRegion` are a caller in run_partitioned; `HelperSpin` .. `CheckIn` are helper_loop; `Spawn` .. `Joined` are construction, solo fallback and Drop. The lent frame is `frame[c]`, alive while `c \in live`. |
| `ForkJoin` | `executor.rs` | `Check` .. `StealEmpty` are worker_loop; `SpawnCredit` .. `SpawnRollback` WorkerCtx::spawn; `JobEnds`, `Release` the catching call and the credit. `Places` are the occupied places of the deques. Deques are those of `WorkDeque`, with the spurious Empty, Busy and Full answers `ChaseLev` can give. |
| `Ebr` | `ebr.rs` | one action per atomic access of register, pin, retire_box and collect; `ret` is where collect returns to; `cell`, `Read` and `Swap` stand for a structure that uses it, as the slots of the map do |
| `ShardedMap` | `sharded.rs` | the writer's stores one by one (`OccupyReserve`, `OccupyKey`, `OccupyValue`, `OccupyFull`, ...), the reader's three loads per slot (`GetState`, `GetKey`, `GetValue`) |
| `TypedSpsc` | `typed.rs` | check, slot access and index publication of each end are separate steps |
| `Channel` | its promise | bounded FIFO |
| `Xir` | `interp.rs`, `op.rs`, `arena.rs`, `verifier.rs` | scalar values and opcodes, one instruction (`run_instr`), arenas as functions from live slots to nodes, `verify` |
| `Canonicalize` | `fold.rs`, `gvn.rs`, `dce.rs` | each pass as a left fold over the live slots in the order the code visits them |
| `EGraph` | crate `egraph` | an e-graph is a record, each operation a function on it: `add`, `merge`, `rebuild`, `lift`, `local_rules`, `saturation_round`, `extract`, `apply_choices` |
| `Lowering` | `fusion`, `schedule.rs`, `level3.rs`, `level4.rs`, `interp.rs` | clusters, both schedules, value slots, the target program and its execution |
| `Compile`, `MCCompile` | `driver.rs`, `passman.rs` | the driver as a state machine, one action per pass step and one per publication; the programs it is checked with |
| `Nesting` | `pool.rs`, `executor.rs` | which of the global pool and freshly scoped threads serves a call, and whom each thread waits for: `CallPool`, `CallScoped`, `TakeRegion`, `HelperTakes`, `EndBody`, `ReapRegion`, `JoinScope` |
| `Telemetry` | `spsc.rs`, `telemetry.rs` | emit (`EmitNoRing` .. `PushPublish`) against drain (`DrainStart` .. `DrainReturn`), each index load, slot access and index store a step |
| `TaskLocal` | `bump.rs`, `fuel.rs`, `stream.rs` | one action per method; `base` is the address of the arena's block, whatever the allocator returns |
| `JitService` | `cache.rs`, `boundary.rs`, `src/tests/cli.rs` | an execution thread, compiler workers one after the other, and other writers around one cache and two rings; the capacity test, the entry and its count are separate steps. The execution thread retries a full request ring (`boundary.rs:105`); a worker that fails to compile, to insert or to answer returns, as in `src/tests/cli.rs:219-244`, and no other takes its place |
| `IrStore` | `arena.rs`, `snapshot.rs`, `id.rs` | slots with generations, region lists, deep clones, `Commit` of an edit log, `PublishSnapshot` |
| `Text` | `text.rs` | printer and parser over tokens; a text is printed, perhaps damaged by one token, parsed and printed again |
| `Fingerprint` | `hash.rs`, `op.rs`, `node.rs`, `snapshot.rs` | the bytes written into the hash for an arena with freed and reused slots and nested regions and all the ways to take the bytes apart |
| `Dominance` | `dominance.rs`, `verifier.rs` | the dominator tree and the verifier's own dominance walk over nested regions |
| `UnionFind` | `union_find.rs` | parent links, path compression and linking; `EGraph` works with the representatives |
| `TensorKernels` | `interp.rs`, `value.rs` | every tensor kernel with the code's index arithmetic, beside the tensor it denotes |
| `Backend` | `level1.rs`, `level2.rs`, `level3.rs`, `fusion`, `bufferize.rs`, `tile.rs` | layout inference, cluster sets with score and repair, address spaces, tiles |
| `Supertensor` | crate `supertensor` | `StartSearch` the analysis; `Expand`, `SendRecord`, `FlushChannel`, `MarkDone` a worker; `Drain`, `CheckDone`, `PublishAnchor` the merger; `Conclude` verification and clusters |
| `Mss` | crate `mss` | one band's walk per `Iterate`, `FinishBand`, `Reduce`; mutation families, legality, canonical form and cost as functions |
| `MCSubstrate`, `MCRuntime`, `MCCompiler` | - | the deque and the map, the services of the run time, and the parts of the compiler for TLC. They share no state, so a behaviour has a `lane`, the component that takes its steps, and the others rest: the states of the lanes add up and do not multiply |
| `MCEbr`, `MCSearch`, `MCKernels`, `MCTask`, `MCJit`, `MCText`, `MCFingerprint`, `MCBackend` | - | values of constants; the named assumptions among them evaluate disagreements of code and comments, see below |
| `IndexArithmetic` | - | lemmas about wrapped indices, runs of numbers, cardinalities, and induction over sets of numbers |
| `ChaseLevProofs`, `ForkJoinProofs`, `PoolProofs`, `EbrProofs`, `ShardedMapProofs`, `RuntimeProofs`, `CompilerProofs` | - | inductive invariants and theorems, see Proofs. `RuntimeProofs` is about `TypedSpsc`, `Telemetry`, `TaskLocal`, `JitService` and `Nesting`, `CompilerProofs` about `UnionFind`, `IrStore` and `Dominance` |

## Runs

| Run | Shows | Bounds and why they are enough |
|---|---|---|
| `substrate` | see the lanes below | - |
| `pool` | `LentFrameLive`, `OutputsExact`, `DoneCountsCheckIns`; every region finishes | 2 helpers, 2 callers with 2 regions each, 1 panic, 1 spurious wakeup: publishers queue, helpers are late by a generation, one worker's chunk is empty (4 elements for 3 workers), construction may fail |
| `pool_drop` | **violated**: Drop can hang | 1 helper, 1 region |
| `ebr` | `CoveredReferenceLive`, `FreedExactlyOnce` | 3 threads for 2 slots, a writer collecting inside retire_box and a direct collector, 3 allocations, epochs to 3: one more than the two-epoch lag |
| `ebr_pin` | **violated**: a pinned reader's reference is freed | 1 reader, 1 writer |
| `map_reuse` | **violated**: get returns another key's value | as the map lane, without the deque |
| `runtime` | see the lanes below | - |
| `compile` | see the lanes below | - |
| `compile_params` | **violated**: tier 2 exchanges two arguments | one program with three parameters |
| `search_drain` | **violated**: the merger leaves records behind | two workers, channels of two |
| `matmul_transpose` | **violated**: a transposed non-square operand | one instruction on matrices of 2x3 and 3x2 |
| `cache_capacity` | **violated** `CapacityBoundsEntries`: more entries than the capacity | capacity 1, the boundary's worker and one more |

A run checks a component's closely related invariants as one named conjunction, whose parts
are definitions of their own: `DequeInv` (`TypeOK`, `NothingLost`, `WinnerOwnsSlot`),
`HandoffInv` (`TypeOK`, `LentFrameLive`, `DoneCountsCheckIns`), `GarbageInv` (`EbrTypeOK`,
`FreedExactlyOnce`), `OwnershipInv` (`MapTypeOK`, `OldTablesOwnNothing`), `Inv` of the channel
(see Proofs), `ChannelProgress` (`SendProgress`, `DropDelivers`), `CreditInv` (`ForkTypeOK`,
`CreditsExact`, `NoEarlyExit`), `EventsAccounted` (`DrainedInOrder`, `DropsAccounted`,
`DrainComplete`), `TaskServicesExact`, `CacheAccounted` (`OvershootBounded`, `CountExact`),
`SaturationSound` (`TypeOK`, `ClassesSound`, `CongruenceAtRest`), `ArenasSound`
(`StaleIdsNeverResolve`, `OperandsAreMeant`, `RegionListsExact`), `TextFaithful`,
`DominanceSound`, `PlansSound`, `SearchSound`, `SearchKeepsMeaning`. PROJECT.json lists a
fault for the parts as well; the tables name the parts.

Lanes of `substrate`:

| Lane | Shows | Bounds and why they are enough |
|---|---|---|
| deque | `HandedOutOnce`, `NothingLost`, `WinnerOwnsSlot`, and refinement of `WorkDeque` | 4 slots, 5 pushes, 2 stealers: the fifth push reuses slot 0, the sentinel limit is reached, both stealers and the owner meet on the last task |
| map | `TableIsMap`, `StableKeyFound`, `OldTablesOwnNothing` | 3 keys in 2 slots (two share a home), 4 inserts, 2 removals, 1 resize, 1 reader. The code starts at 8 slots; two make the full probe cycle and the resize reachable with three keys |

Lanes of `runtime`:

| Lane | Shows | Bounds and why they are enough |
|---|---|---|
| channel | `TypeOK`, `Inv`, `DeliveredInOrder`, `NoSlotRace`, `NoMutualBlock`, `ImplementsChannel`, `SendProgress`, `DropDelivers` | 4 slots, indices modulo 8, 13 sends: the indices wrap, batches straddle the end |
| forkjoin | `ForkTypeOK`, `CreditsExact`, `NoEarlyExit`, `RegionComplete`, `RegionTerminates` | 3 workers, 4 jobs, deques of 2, 1 panic: chained steals, refused spawns |
| nesting | `NestedCallsNeverHang`: of any threads one waits for none of them | 2 application threads, 1 helper, 3 calls two deep: a nested call in a caller, in a helper and in a scoped thread, while another application thread waits for the slot |
| telemetry | `DrainedInOrder`, `DropsAccounted`, `DrainComplete`, `RingIsChannel` | 4 slots, indices modulo 8, 9 events, batches of 2: a drain takes several batches while events are accepted and dropped |
| task | `BlocksDisjoint`, `AlignedWithBase`, `DefersOnBudget`, `WaitedForLaunched` | an arena of 7 bytes at three bases, sizes 0 to 7 and alignments 1, 2, 4; fuel that saturates one burn past the budget |
| jit | `ServedWhatWasAsked`, `OvershootBounded`, `CountExact`, `AnsweredUnlessStopped` | capacity 1, rings of 1, one more writer, requests that differ in tier only and in a dimension only |

Lanes of `compile`:

| Lane | Shows | Bounds and why they are enough |
|---|---|---|
| compile | `TypeOK`, `OptimisedMeansSource`, `ClassesSound`, `CongruenceAtRest`, `PassesKeepLegal` | every program of a parameter, a constant and two operations over them (integer and float), three-operation chains, and eleven longer or special programs, at all four tiers, at tier 2 also with an e-graph budget that runs out; arguments include both zeros, an infinity and NaN. Four rounds are the code's bound, and the chosen programs need several before their classes settle |
| store | `StaleIdsNeverResolve`, `OperandsAreMeant`, `RegionListsExact`, `CommitTakesWholeLog` | 3 slots, 2 regions, generations modulo 8 (a wrap takes four reuses of one slot), logs of two edits |
| text | `TextRoundTrips`, `AcceptedTextIsLinked` | programs with nesting up to and past the limit, holes, every literal class, each with every single token dropped or doubled |
| fingerprint | `FingerprintTellsNodes` | two slots, one of them reused, and one more region, over operations and types that differ in one immediate, in arity, or in rank |
| dominance | `DominanceIsEnclosure`, `ReplacementVerifies` | every tree of up to 6 regions, depths that saturate at 3 |
| unionfind | `RootIsLeast` | 5 ids, 3 unions, any finds in between, ids out of bounds |
| kernels | `KernelsMeanTensors` | programs of two instructions on non-square matrices, an image with strides and paddings, a cube |
| backend | `LayoutsSettle`, `EdgesAreUses`, `FusingNeverRaisesScore`, `RegisterIsPrivate`, `RepairFits`, `TileLoopAdvances` | two clusters, arenas with a reused slot (operand behind its user), budgets that some clusters exceed |
| search | `PruningKeepsFrontier`, `BestIsKept`, `WinnerIsLegal` | two workers with channels of 2, a drain batch of 2, budgets that run out; anchor fields that saturate at 10 where schedules cost from 6 to 15, the best (6, 9, 0): saturated anchors prune and the properties speak of the points below |
| mss | `EliteMeansSeed`, `BestNeverWorse` | two bands of three rewrites on words of 3 bits |

CHECK_DEADLOCK is FALSE except in the runs of `Compile` and `MCCompiler`: each other instance ends
when its bounded calls are used up, as the program does when its threads return. That nobody
stops early is what the liveness properties say.

**The violations.** Runs that expect one: (1) `Pool::drop` sets `shutdown` and notifies without
holding the mutex; a helper that has read `shutdown` as false and is about to wait misses the
only notification, and `join` hangs, against "a notify + join is sufficient and cannot hang on
region work" (`pool.rs:531-534`). (2) `pin` publishes its slot with a Release store although
its comment asks for SeqCst on the store and explains why (`ebr.rs:192-200`); with the store
still buffered, two advances pass and the reader's object is freed. `CoveredReferenceLive`
shows that the rest of the protocol is right: a guard whose slot store had reached memory when
it loaded the reference is protected. (3) `get` reads state, key and value of a slot by three
loads; a removal and a reuse of the slot for another key between the last two return the other
key's value, against `sharded.rs:323-326`. A get of a key that is not touched is right
(`StableKeyFound`), except while a resize moves values, which the code documents as a transient
miss (`sharded.rs:331-335`). (4) Parameters get their value slots in schedule order
(`level3.rs:165-171`) and `execute` binds argument i to slot i, so a schedule that reaches
parameter 2 before parameter 1 runs the program with the two exchanged; the cluster-affinity
schedule of tier 2 does that, against `docs/pipeline.md:39-40`. `OptimisedMeansSource` shows
that this is the only way a result changes on the programs checked: with the parameters in
their own slots the compiled program returns what the source means. (5) The merger of the
schedule search drains all channels, and if it got nothing and every worker is done it leaves;
a worker that flushes and counts itself done between the drain and the test leaves its records
in the channel, against "flush-before-done ordering guarantees the merger's final drain sees
every sent record" (`enumerator.rs:424-426`). `PruningKeepsFrontier` shows that nothing else is
lost: frontier and channels together hold the Pareto set. (6) `matmul` reads element `c * rows
+ r` of a transposed operand where row-major storage has it at `c * cols + r`
(`interp.rs:420`); `KernelsMeanTensors` shows every other kernel, and products with square or
untransposed operands, to be right.

(7) The capacity of the cache is tested before the shard is locked (`cache.rs:163`), so
concurrent inserts leave more entries than "capacity bounds total entries" (`cache.rs:89`)
allows; `CacheAccounted` is what holds, at most one more per concurrent writer, with an exact
count.

**Disagreements shown by evaluation.** Where one input of a function is enough to disagree
with a comment, no state machine is needed: a named assumption of an MC module applies the
mapped definitions to that input, and TLC evaluates it in the passing runs.

| Assumption | Code | Against | What holds instead |
|---|---|---|---|
| `MisalignedBlock` (`MCTask`) | `alloc` aligns the offset and not the address (`bump.rs:137`), and the block is a Vec of bytes: at the base 16 a type aligned to 32 is written to a misaligned address | the error promised for an alignment that cannot be satisfied (`bump.rs:124-125`) | `AlignedWithBase` |
| `RootDeleted` (`MCCompile`) | GVN removes a root that repeats an earlier node (`passman.rs:407`), DCE then the program | "roots reference live result nodes" (`passman.rs:345`), DCE's "liveness anchor" (`dce.rs:43-45`) | `PassesKeepLegal`: no pass makes a legal arena illegal |
| `FoldedQuotientDiffers` (`MCCompile`) | a constant i64 quotient folds by truncation (`fold.rs:106-112`) and is computed in f64 at run time (`interp.rs:211-216`) | "compute the exact runtime operation earlier — identical result" (`fold.rs:5-6`) | `OptimisedMeansSource` on `DefinedArgs` |
| `DeadDivisionDiffers` (`MCCompile`) | DCE deletes instructions that can fail (`dce.rs:86-93`), and so does the rewrite of `x * 0` (`rules.rs:173`) | "Tier agreement on FAILURE" (`driver.rs:466-469`) | the same |
| `LostInText` (`MCText`) | four programs do not survive printing and parsing: a node in a reused slot before its operand (`text.rs:703`), a memref in global memory (`text.rs:1132-1142`), a seed above `i64::MAX` (`text.rs:876`), regions below the nesting limit (`text.rs:316-318`) | "must be printable and round-trippable" (`text.rs:3-4`), "listing nodes without further nesting" (`text.rs:312-315`) | `TextRoundTrips`, for the programs `Representable` describes |
| `SlotsHidden`, `RegionsHidden`, `LayoutsHidden` (`MCFingerprint`) | two programs with one fingerprint: operands are hashed by slot and nodes without theirs (`snapshot.rs:352`), regions by number only (`snapshot.rs:356`), memrefs without layout (`node.rs:177-184`) | "covers ops, immediates, SSA edges and region structure" (`snapshot.rs:8-9`) | `FingerprintTellsNodes`: the bytes determine the nodes |
| `RegisterLeavesCluster` (`MCBackend`) | `bufferize` puts a small single-use value into a register although another cluster reads it (`bufferize.rs:64`) | "Values used across cluster boundaries get Global buffers" (`bufferize.rs:5-6`), `level3.rs:291-302` | `RegisterIsPrivate` |
| `ResidualUnreported` (`MCBackend`) | `repair_to_fit` answers splits only when its steps run out (`repair.rs:130-151`) | "residual over-budget members return as InsertCopy" (`repair.rs:121-122`) | `RepairFits` |
| `TileLoopStuck` (`MCBackend`) | for a budget below one element and a rank below four the shrinking loop halves nothing and does not end (`tile.rs:78`) | `O(rank * log(edges))` (`tile.rs:66`) | `TileLoopAdvances` |
| `SaturationPrunesMore` (`MCSearch`) | a saturated anchor is smaller than its point (`pareto.rs:257-259`) and prunes a candidate that is better than the point | "Saturation only WEAKENS pruning" (`pareto.rs:234-236`) | `PruningKeepsFrontier` and `BestIsKept` below the saturation |
| `EvictionDependsOnOrder` (`MCSearch`) | a point evicted from a full frontier for points that are dominated later does not come back (`pareto.rs:150-154`) | "deterministic GIVEN the content" (`enumerator.rs:48-50`) | `BestIsKept` |

One disagreement is neither: the response has a field for a failed compilation
(`boundary.rs:66`), but the only worker of the repository returns without a response when it
fails (`src/tests/cli.rs:219-244`), and the execution thread has only its deadline.
`AnsweredUnlessStopped` shows that this is the only way an answer is missed.

**What the compile run takes as given.** A source *means* the value of its root when every
node's opcode is evaluated with declared parameter indices; `DefinedArgs` are the arguments of
the declared types for which no node fails and no integer quotient is fractional. Outside that
domain the tiers differ: `FoldedQuotientDiffers` and `DeadDivisionDiffers`. `PassesKeepLegal`
is about programs that verify, at tiers 0 to 2: a pass fails only by the e-graph's budget, and
the schedule places every node that is left; a program that is gone altogether is the matter of
`RootDeleted`. f64 arithmetic is exact rational arithmetic with signed zeros, infinities and
NaN: rounding is common to the folder and the interpreter. i64 overflow and integers beyond
2^53, which the interpreter rounds through f64 and the folders do not, are outside the model.
`CongruenceAtRest` is weaker than the doc of `rebuild`, which promises congruence closure after
one call (`egraph.rs:235-247`); the single pass gives it only once a round merges nothing.

**What the other lanes take as given, and what reading them showed.**

* `TextRoundTrips` is about the programs `Representable` describes. Besides the four of
  `LostInText`, an empty permutation, an `if` without two regions, more than six inputs, effect
  operands and second result types do not survive either. The printer starts counting nesting
  at 1 and the parser at 0 with one limit.
* `FingerprintTellsNodes` takes the hash itself to be injective.
* `RegisterIsPrivate` is what holds of both passes: level 3 records a register only for a value
  that stays in its cluster and region, and `bufferize` adds no result and no value that is
  read twice.
* `TileLoopAdvances` is about the budgets of at least one element, and about full rank.
* `RepairFits` is about calls with a step for every member; fewer steps are the matter of
  `ResidualUnreported`.
* `PruningKeepsFrontier` counts what is still in the channels when the merger stops (run
  `search_drain`) and is about frontiers without evictions (`EvictionDependsOnOrder`).
* `ReplacementVerifies` relates two separately written walks, the tree that value numbering
  asks and the verifier's; `DominanceIsEnclosure` also shows what a depth at saturation does.
* `StaleIdsNeverResolve` stops at the wrap of the generation, as the code's 16 bits do.
* `ServedWhatWasAsked` has keys of one dimension list; `cache_key` concatenates the
  dimensions of several shapes without a separator.
* `EliteMeansSeed` compares all inputs of words of `WordBits` bits; the code's own check
  samples inputs.

**Fairness.** `Pool`: weak fairness of every caller's, helper's and the builder's steps, that
is, runnable threads run; nothing about the order of granting the mutex, and nothing about
starting regions, failures, Drop or spurious wakeups. `ForkJoin`: weak fairness of each
worker, and strong fairness of `JobEnds`, which says that a job's own code returns.
`TypedSpsc`: weak fairness of a spinning send and a spinning receive; flushes and drops the
user may never call are not fair, so `SendProgress` allows a dropped end. `JitService`: weak
fairness of the compiler worker, of an execution thread that has a request to push or an
answer to take, and of the other writers inside an operation. The thread of
`src/tests/cli.rs` gives up after 30 s; the model has no clock, so there it waits.

## Proofs

Every theorem is of the form `Spec => []Inv`, an action property, or a refinement, for every
value of the constants that meets the named assumption of the component's module. An inductive
invariant was checked by TLC on the run's instance before it was proved.

| Theorem | Establishes | Assumed of the constants |
|---|---|---|
| `ChaseLevProofs`: `DequeIndInvHolds`, `DequeInvHolds`, `TasksHandedOutOnce`, `DequeRefined` | `DequeIndInv`, `DequeInv`, `HandedOutOnce`, `ImplementsWorkDeque` | `ChaseLevAssumption`: a capacity of at least two (the code has a power of two), finitely many stealers, which are not the owner, any number of pushes |
| `RuntimeProofs`: `InvHolds`, `TypeCorrect`, `InOrder`, `RaceFree`, `NeverBothBlocked` | `Inv`, `TypeOK`, `DeliveredInOrder`, `NoSlotRace`, `NoMutualBlock` | `TypedSpscAssumption`: a capacity of at least two that divides the larger index modulus (2^64 in the code), any positive threshold and batch lengths |
| `RuntimeProofs`: `ChannelRefined` | `ImplementsChannel` | the same |
| `RuntimeProofs`: `RingInvHolds`, `EveryEventAccounted`, `RingRefined` | `RingInv`, `EventsAccounted`, `RingIsChannel` | `TelemetryAssumption`: capacity and modulus as above, a drain buffer of at least one |
| `ForkJoinProofs`: `ForkInvHolds`, `CreditsHold`, `RegionIsComplete` | `ForkInv`, `CreditInv`, `RegionComplete` | `ForkJoinAssumption`: at least one worker, one job and one place per deque, any number of panics |
| `PoolProofs`: `PoolInvHolds`, `HandoffSound`, `OutputsAreExact` | `PoolInv`, `HandoffInv`, `OutputsExact` | `PoolAssumption`: finitely many callers, which are not helpers, and a null descriptor that is neither |
| `EbrProofs`: `EbrInvHolds`, `CoveredReferencesLive`, `GarbageSound` | `EbrInv`, `CoveredReferenceLive`, `GarbageInv` | `EbrAssumption`: finitely many threads, of any role; at least one slot, allocation and store buffer entry; any number of epochs |
| `ShardedMapProofs`: `ShardInvHolds`, `OwnershipHolds`, `TableStaysMap`, `StableKeysFound` | `ShardInv`, `OwnershipInv`, `TableIsMap`, `StableKeyFound` | `ShardedMapAssumption`: finitely many keys, a first table of at least one slot, any number of tables, inserts, removals and readers |
| `RuntimeProofs`: `TaskServicesHold` | `TaskServicesExact` | `TaskLocalAssumption`: Rust's rules for a layout (an alignment is a power of two, so it divides half the address space, and it divides the size; a size and the arena are at most half the address space) and a fuel budget of one to `u32::MAX` |
| `RuntimeProofs`: `JitInvHolds`, `KernelsServedAsAsked`, `CacheStaysBounded` | `JitInv`, `ServedWhatWasAsked`, `CacheAccounted` | `JitServiceAssumption`: finitely many other writers, a cache and rings of at least one entry; requests are a number, a list of shapes and a tier, and equal fingerprints mean equal ranks of the parameters (the fingerprint covers their types) |
| `RuntimeProofs`: `NestingInvHolds`, `NoCircleOfWaiting` | `NestingInv`, `NestedCallsNeverHang` | `NestingAssumption`: the application threads, helpers and scoped threads are different threads |
| `CompilerProofs`: `UfInvHolds`, `LeastRepresentatives` | `UfInv`, `RootIsLeast` | `UnionFindAssumption`: at least one id, any number of unions |
| `CompilerProofs`: `StoreInvHolds`, `ArenasStaySound`, `CommitsTakeWholeLogs` | `StoreInv`, `ArenasSound`, `CommitTakesWholeLog` | `IrStoreAssumption`: at least one slot and region, an even modulus of the generations (2^16 in the code), and at most half as many insertions as the modulus: beyond that a generation can come round and a stale id resolve again |
| `CompilerProofs`: `DomInvHolds`, `DominanceStaysSound` | `DomInv`, `DominanceSound` | `DominanceAssumption`: the depth that reads as unvisited (`u16::MAX` in the code) is a number; any number of regions |

**Deque.** The deque holds the indices `Live`, from `top` to the logical bottom, which counts
the element a pop has reserved and not yet decided on. None of the three races can be argued
from memory alone, because the owner's stores are still in its buffer; `DequeIndInv` therefore
speaks of what the owner sees (`StoreInv`: every index of the deque is FULL with its task,
looked up through the buffer) and of the order of its stores: those of a push are older than
any `bottom` that publishes its index, so a stealer that passed the test of `bottom` finds the
slot in memory (`IndexInv`). The pop that lowers `bottom` crosses its fence before it reads
`top`, hence `bottom` in memory or on the way there never exceeds the logical bottom. A slot
that a stealer has won (`WonInv`) or has released by a store still in its own buffer
(`ReleaseInv`) is FULL in memory with no store of the owner in flight, so the FREE test of
`push` refuses it: this, not the capacity test, is what protects a slow reader from the push a
lap later. `TaskInv` places every pushed task in the deque, with one winner, or among those
handed out, in exactly one of the three. `Ordered` says that a set of buffer positions has a
youngest, which is what makes `Max` in `Load` well defined for buffers of any length. The
lemma on each action also says what the step does to the deque: nothing that WorkDeque sees
(`Invisible`), `Pushes`, `Pops`, `Wins`, `Reads` or `Drains`. `DequeRefined` follows from these
six alone: the items of the mapping are a run of `at` (`Run`), the task of a winner counts as
handed out from its CAS on (`Held`), and so the read that completes a steal changes neither.

**Typed channel.** `Inv` is the conjunction of `TypeOK`, `IndicesOrdered` (each wrapped index
is a counter modulo `Wrap`, and released <= received <= published <= sent <= released +
Capacity), `PendingBelowThreshold`, `WindowIntact` (each slot between the oldest unreleased
and the youngest sent value holds its value) and `DeliveredInOrder`. The strengthening is
needed because the code only ever compares wrapped indices: in-order delivery is not
inductive without the window, and the window is not without the order of the counters. A race
would need two indices of the window in one slot, and `DistinctSlots` shows that indices less
than `Capacity` apart have different slots. Mutual blocking would need `sent - rel =
Capacity` with `rcvd = pub`, while each end withholds less than half the ring. Under `Inv`
the queue of the refinement mapping is the run of numbers between two counters (`Counting`),
so that a send extends it on the right, a receive shortens it on the left, and every other
step leaves both counters alone. `IndexArithmetic` proves the arithmetic from the definition
of `\div` and `%`.

**Telemetry ring.** As above without batching of the indices, with two additions. The head
that `emit` has loaded may be old; `RingIndices` says it stands for an earlier number of
drained events, which makes the push conservative and never wrong. `DrainOwes` carries the
number of events accepted before a drain began through its batches: a batch that comes back
short has reached that number, which is why the loop of `drain` may stop there.

**Fork/join.** `CreditsExact` equates the credit count with three cardinalities: occupied
places of the deques, workers running a job, workers between a spawn's increment and its push
or rollback. It is inductive only with `QueuedOnce` (a job that has not run is in exactly one
place), since a pop or steal moves one unit between two of the sets. `NoEarlyExit` follows
because zero is stable: a credit is only taken by a worker that runs a job and so holds one
itself (`BusyHoldsCredit`), and `ExitedAtZero` then gives `RegionComplete`.

**Pool.** The caller that published owns the busy slot until the barrier (`OwnerInv`); a
helper in a region works on the live generation and has not checked in to it (`HelperInv`).
`DoneCountsCheckIns` is a cardinality, so at `done = helper_count` every helper has checked in
(`BarrierMeansAll`) and nobody is left in the frame when it dies. For the results, `FrameInv`
describes the frame worker by worker, and `Partition` shows that the chunks of any length and
worker count, empty chunks included, cover each element once.

**Reclamation.** `ListInv` puts every allocation in exactly one place: published, in the hands
of the writer that unlinked it, on the list, kept by one sweep, or freed. The epoch argument is
`CoverInv`: while a covered reader is pinned the epoch advances at most once more, by a collect
that finds the pin current or is already past the slot (`MayAdvance`); whatever is unlinked
after the reader's load is stamped with an epoch of which `Recent` says that plus two is out of
reach. `Youngest` looks through the store buffer, because a collect may see a pin or an unpin
late. `CoveredReferenceLive` excludes by its hypothesis the readers of the `ebr_pin` violation.

**Sharded map.** A table is good (`GoodTable`) when every Full slot's key is in that slot
alone and the probe for it gets there without meeting an Empty slot. A removal leaves a
tombstone, so it never cuts a probe; a reservation turns Empty or a tombstone into Reserved,
so it does not either. `WriterPlaced` says which slot the writer works on, that its own key is
nowhere else, and that the probe reaches the slot; with it the four stores of an insert keep
the table good although readers see it between any two of them. During a resize the bindings
are spread over two tables: `FreshPlaced` says that the new one is good, holds as many keys as
were moved at most (hence has room, being twice as large) and none that is still to be moved;
`MapIsBound` equates the map with the entries of both. A get of a key with a stable binding has
not passed the key's slot (`ReaderOK`): the writer never touches that slot, so the probe ends
there.

**Task-local services.** Blocks end at or below the offset and an allocation starts at the
next multiple of its alignment above it, so blocks are apart; the wrapped sum of address and
alignment is exact because all of them are below half of the address space, which the
alignment divides (`AllocPlace`). A start that is a multiple of the alignment gives an aligned
address in an arena whose base is one too, and only there: nothing is claimed of
the others (`MisalignedBlock`).

**JIT service.** The try-lock tells which worker may be between an entry and its count
(`LockHeld`, `CountFollows`). The capacity test is outside the lock; `RoomForAdmitted` counts
the workers that have passed it and not stored yet as if their entries were there, which is
inductive, while the bound on the cache alone is not. (That the capacity itself is no bound is
run `cache_capacity`.) `AnswersInOrder` aligns the requests
under way with the two rings and the compiler, so that the answer an execution thread takes is
the one it asked for, and `KeyTells` shows that a key (fingerprint, concatenated shapes, tier)
determines its request: concatenations of lists of the same lengths cancel.

**Nesting.** `NestingInv` lists the stacks a thread can have; a body that makes a call always
gets scoped threads, never the pool, because its region flag is set. `Rank` orders the threads
by what they stand at (queueing for the slot, waiting for the region, joining the n-th call,
running), and `WaitsUp` shows that every thread waits for threads of higher rank only. Of any
set of threads the one of highest rank therefore waits for none of them.

**Union-find.** `Path` and `Component` are least closed sets, so a fact about all their members
is shown by exhibiting a closed set. Links never go up, so the root of a path is its least
element, and replacing the links on a path by its root (`Compressed`) changes no root;
`UfInv` adds that a link stays in the class of what was united and that united ids have one
root. Linking the larger root to the smaller makes the root of the class its least id.

**Arena and snapshots.** `StoreInv` has three parts. `SlotsOK`: free slots are listed once and
the generation of a slot is at most twice the insertions so far, which keeps `Bump` away from
the modulus. `ListsOK`: a link goes to an older live node of the same region, every live node
is the head of its list or has a predecessor, and only one; the walk of a list therefore meets
every node of the region (the youngest one it did not meet would have a predecessor that it
did not meet either) and ends. `Meant`: the slot of an operand, or of an id that a client
holds, has a later generation or holds the very node; the clone of a pass starts from the
published arena, so it satisfies this for all ids held so far. Removal, insertion into a free
and into a fresh slot and the three edits each have a lemma that describes the arena they make
(`Removed`, `Inserted`, `SameSlots`) and one that such an arena is sound. For `CommitTakesWholeLog`,
`Taken` says what one edit does and what it keeps of the ones before, and `EditsTaken` carries
that along a log of any length.

**Dominance.** A region's parent stands before it in the arena, so when a round of `build`
comes to a slot it has already found the parent's depth: the first round finds all depths and
the others change nothing (`DomInv` is about the tree after them). `Enclosing` is the least
set closed under parents; it loses one region with each step up (`DeepStep`), so a region
encloses another exactly when it is reached by as many steps as it is less deep (`EnclIsUp`),
which is the test of `dominates`. The arena only grows, so a tree that is out of date holds
the parents of its first regions, and enclosure among those has not changed. The verifier's
walk up the arena is enclosure as well (`WalkIsEnclosure`), and enclosure is transitive: hence
`ReplacementVerifies`.

**Induction over data.** The library's induction theorems cannot be used by the provers
installed, but their set form can: `LeastElement` (a nonempty set of numbers has a least
element) and `SetInduction` of `IndexArithmetic` follow from the well-foundedness of the
natural numbers. A recursive function (`Sizes` of the map, the arenas between the edits of a
log, the partial concatenations of `FlattenSeq`, the rounds of `build` and the walks to the
root) is unfolded by first showing, by `SetInduction`, that a function with its equation exists
(`SizesExist`, `RunExists`, `FlatExists`, `RoundsExist`, `VisitsExist`, `ClimbsExist`).

**Only model-checked.** Liveness and deadlock freedom (`RegionTerminates`, `SendProgress`,
`DropDelivers`, the pool's termination, `AnsweredUnlessStopped`): fairness and ENABLED are out of
the prover's reach. Of the compiler, the properties of `Compile`, `Text`, `Fingerprint`,
`TensorKernels`, `Backend`, `Supertensor` and `Mss`: they compare whole
computations over programs with what the programs mean, by nested folds over slots and
instructions; `Canonicalize`, `EGraph`, `Lowering`, `Text` and `Supertensor` use RECURSIVE
operators besides, in whose presence the prover has no SMT backend.

## Not modelled

In the compile pipeline: tensor programs (their kernels, layouts, clusters and buffers are
checked in `TensorKernels` and `Backend`), effects, unary operators other than negation and
the events of the pass manager. Of `fusion`, the parallel scoring of universes with its
shared bound; of `codegen`, the constant table of `vectorize`; the lexer's characters; the
command line tools and benches.

The components PROJECT.json marks `not_modelled`, with the reason for each. Within the
modelled ones: spin budgets and the hint counters that shorten waits (`pub_generation`,
`done_hint`), racy size queries (`len`, `is_empty`, `published_len`), the sleep intervals of
`send` and `recv`, allocation failure, wraparound of the 64-bit epoch and of the deque's
signed indices, and the `TableCorrupted` errors of the map, whose conditions the type
invariant excludes.
