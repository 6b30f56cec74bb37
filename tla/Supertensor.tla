---------------------------- MODULE Supertensor -----------------------------
(***************************************************************************)
(* The schedule search of crates/supertensor: whole program analysis to a  *)
(* polytope (wpa.rs, polytope.rs), worker threads that enumerate it and    *)
(* send candidates to a merging thread (enumerator.rs, pareto.rs, cost.rs),*)
(* the verification of the best ones (verifier.rs) and the fusion clusters *)
(* made from the winner (xir_bridge.rs), as superoptimize_arena runs them  *)
(* (lib.rs).                                                               *)
(*                                                                         *)
(* A node is [kind, axis, ty, ins]; a type is [kind, elem, dims] with the  *)
(* element size in bytes.  A schedule is a sequence of [op, tile, fuse,    *)
(* mem, width], mem 0 registers, 1 SRAM, 2 HBM.  A worker's channel is the *)
(* bounded FIFO that TypedSpsc.tla is shown to be; `staged` is what its    *)
(* producer has not published yet.  Sums stay below the saturation bound.  *)
(***************************************************************************)
EXTENDS Integers, Sequences, SequencesExt, FiniteSets, FiniteSetsExt

CONSTANTS
  SuperArenas,       \* a sequence of arenas to optimise
  hw,                \* HardwareModel
  SearchWorkers,     \* threads asked for
  MAX_SCHED_OPS,     \* 12 in the code
  MAX_CAND_PER_WORKER, MAX_EXPANSIONS_PER_WORKER,
  CHANNEL_CAP, DRAIN_BATCH, SendBatch,   \* 4096, 32, and TypedSpsc's threshold
  AnchorPeriod,      \* 256: expansions between two reads of the anchor
  ANCHOR_SAT,        \* 2^21 - 1
  FrontierCap,       \* 64
  TopK               \* 10

NO_FUSE == 99
Reg == 0
Sram == 1
Hbm == 2

SumOf(seq) == FoldLeft(LAMBDA a, b : a + b, 0, seq)
FirstOf(seq, n) == SubSeq(seq, 1, Min({n, Len(seq)}))
UpTo(n) == [k \in 1..n |-> k]
LexLess(a, b) ==
  \E i \in DOMAIN a : a[i] < b[i] /\ \A j \in 1..(i - 1) : a[j] = b[j]
AtLeast(n, low) == IF n < low THEN low ELSE n

(***************************************************************************)
(* Whole program analysis.                                                 *)
(***************************************************************************)
num_elements(dims) == FoldLeft(LAMBDA a, b : a * b, 1, dims)
as_tensor(ty) == ty.kind \in {"tensor", "memref"}
tensor_bytes(ty) == ty.elem * num_elements(ty.dims)

is_scheduleable(node) ==
  /\ node.kind \in {"matmul", "conv", "dot", "reduce", "binary", "unary"}
  /\ node.ty.kind = "tensor"
is_tensor_heavy(arena, min_ops) ==
  Cardinality({s \in DOMAIN arena : is_scheduleable(arena[s])}) >= min_ops

TensorOps(arena) == SelectSeq(UpTo(Len(arena)), LAMBDA s : is_scheduleable(arena[s]))
InBytes(arena, s) ==
  SumOf([i \in DOMAIN arena[s].ins |->
           LET ty == arena[arena[s].ins[i]].ty IN IF as_tensor(ty) THEN tensor_bytes(ty) ELSE 0])
\* One entry per use, users in slot order.
Consumers(arena, s) ==
  FlattenSeq([c \in DOMAIN arena |->
    LET uses == SelectSeq(arena[c].ins, LAMBDA p : p = s) IN [i \in DOMAIN uses |-> c]])

Dim(dims, axis, default) == IF axis <= Len(dims) THEN dims[axis] ELSE default
OperandDim(arena, s, input, axis) ==
  IF input > Len(arena[s].ins) THEN 0
  ELSE LET ty == arena[arena[s].ins[input]].ty
       IN  IF as_tensor(ty) THEN Dim(ty.dims, axis, 0) ELSE 0
op_flops(arena, s) ==
  LET node == arena[s]
      elems == num_elements(node.ty.dims)
      kernel == IF Len(node.ins) >= 2 THEN arena[node.ins[2]].ty ELSE [kind |-> "scalar"]
      khkwc == IF as_tensor(kernel) /\ Len(kernel.dims) = 4
               THEN kernel.dims[3] * kernel.dims[4] * kernel.dims[2] ELSE 1
  IN  CASE node.kind = "matmul" ->
             2 * OperandDim(arena, s, 1, 1) * OperandDim(arena, s, 2, 2) * OperandDim(arena, s, 1, 2)
        [] node.kind = "conv" -> 2 * elems * khkwc
        [] node.kind = "dot" -> 2 * elems
        [] OTHER -> elems

\* fusion::legality.
broadcast_compatible(a, b) ==
  \A i \in 1..Min({Len(a), Len(b)}) :
    LET x == a[Len(a) + 1 - i]  y == b[Len(b) + 1 - i] IN x = y \/ x = 1 \/ y = 1
can_fuse_tensors(arena, p, c) ==
  LET prod == arena[p]  cons == arena[c]
      elementwise == cons.kind \in {"binary", "unary"}
  IN  /\ {prod.kind, cons.kind} \cap {"custom", "rng", "barrier"} = {}
      /\ IF {prod.ty.kind, cons.ty.kind} # {"tensor"} THEN elementwise
         ELSE \/ elementwise /\ broadcast_compatible(prod.ty.dims, cons.ty.dims)
              \/ cons.kind = "reduce" /\ cons.axis + 1 = Len(prod.ty.dims)

RECURSIVE gcd(_, _)
gcd(a, b) == IF b = 0 THEN a ELSE gcd(b, a % b)

emit_op_bounds(arena, s) ==
  LET ty == arena[s].ty
      consumers == Consumers(arena, s)
      footprint == tensor_bytes(ty) * AtLeast(Len(consumers), 1)
      inner == IF ty.dims = <<>> THEN 1 ELSE ty.dims[Len(ty.dims)]
      big == footprint > hw.sram_cap
  IN  [op |-> s,
       tile_max |-> [d \in 1..3 |-> IF d <= Len(ty.dims) THEN gcd(ty.dims[d], hw.max_tile) ELSE 1],
       mem_min |-> IF big THEN Hbm ELSE Reg,
       mem_max |-> IF big THEN Hbm ELSE Sram,
       widths |-> {w \in {1, 2, 4, 8} : inner % w = 0},
       valid_fuse |-> SelectSeq(consumers, LAMBDA c : can_fuse_tensors(arena, s, c))]

extract_polytope(arena) ==
  LET ops == TensorOps(arena)
      bounds == [i \in DOMAIN ops |-> emit_op_bounds(arena, ops[i])]
      Out(i) == tensor_bytes(arena[ops[i]].ty)
  IN  [bounds |-> bounds,
       rows |-> [i \in DOMAIN ops |-> [entries |-> <<i>>, rhs |-> Hbm]],
       divs |-> FlattenSeq([i \in DOMAIN ops |->
                  [d \in 1..Min({3, Len(arena[ops[i]].ty.dims)}) |->
                     [op |-> i, dim |-> d, divisor |-> gcd(arena[ops[i]].ty.dims[d], hw.max_tile)]]]),
       flops |-> [i \in DOMAIN ops |-> op_flops(arena, ops[i])],
       out_bytes |-> [i \in DOMAIN ops |-> Out(i)],
       in_bytes |-> [i \in DOMAIN ops |-> InBytes(arena, ops[i])],
       min_hbm |-> [i \in DOMAIN ops |->
          IF Consumers(arena, ops[i]) = <<>> /\ bounds[i].mem_max = Hbm THEN Out(i) ELSE 0]]

\* The MAX_SCHED_OPS operations with the most flops, in their old order; a row or a
\* divisibility constraint survives if all its operations do.
truncate_polytope(poly) ==
  LET n == Len(poly.bounds)
      Rank(i) == Cardinality({j \in 1..n : \/ poly.flops[j] > poly.flops[i]
                                           \/ poly.flops[j] = poly.flops[i] /\ j < i})
      keep == SelectSeq(UpTo(n), LAMBDA i : Rank(i) < MAX_SCHED_OPS)
      Pick(f) == [k \in DOMAIN keep |-> f[keep[k]]]
      Remap(i) == CHOOSE k \in DOMAIN keep : keep[k] = i
      rows == SelectSeq(poly.rows, LAMBDA r : ToSet(r.entries) \subseteq ToSet(keep))
      divs == SelectSeq(poly.divs, LAMBDA d : d.op \in ToSet(keep))
  IN  IF n <= MAX_SCHED_OPS THEN poly
      ELSE [bounds |-> Pick(poly.bounds), flops |-> Pick(poly.flops),
            out_bytes |-> Pick(poly.out_bytes), in_bytes |-> Pick(poly.in_bytes),
            min_hbm |-> Pick(poly.min_hbm),
            rows |-> [k \in DOMAIN rows |->
                        [rows[k] EXCEPT !.entries = [e \in DOMAIN @ |-> Remap(@[e])]]],
            divs |-> [k \in DOMAIN divs |-> [divs[k] EXCEPT !.op = Remap(@)]]]

(***************************************************************************)
(* The constraints on a schedule and its cost.                             *)
(***************************************************************************)
\* Every row bounds memory levels: the coefficient of each entry is 1.
RowHolds(sched, row) == SumOf([e \in DOMAIN row.entries |-> sched[row.entries[e]].mem]) <= row.rhs
check_partial(poly, sched) ==
  \A k \in DOMAIN poly.rows :
    ToSet(poly.rows[k].entries) \subseteq DOMAIN sched => RowHolds(sched, poly.rows[k])

WithinBounds(s, b) ==
  /\ s.op = b.op
  /\ s.mem \in b.mem_min..b.mem_max
  /\ s.width \in b.widths
  /\ s.fuse # NO_FUSE => s.fuse \in ToSet(b.valid_fuse)
TilesDivide(poly, sched) ==
  \A k \in DOMAIN poly.divs :
    LET d == poly.divs[k] IN d.op \in DOMAIN sched => d.divisor % sched[d.op].tile[d.dim] = 0
feasible_prefix(poly, sched) ==
  /\ \A i \in DOMAIN sched : WithinBounds(sched[i], poly.bounds[i])
  /\ TilesDivide(poly, sched)
  /\ check_partial(poly, sched)

check_full(poly, sched) ==
  /\ Len(sched) = Len(poly.bounds)
  /\ \A i \in DOMAIN sched : /\ WithinBounds(sched[i], poly.bounds[i])
                             /\ \A d \in 1..3 : sched[i].tile[d] \in 1..poly.bounds[i].tile_max[d]
  /\ TilesDivide(poly, sched)
  /\ \A k \in DOMAIN poly.rows : RowHolds(sched, poly.rows[k])
  /\ SumOf([i \in DOMAIN sched |-> IF sched[i].mem = Sram THEN poly.out_bytes[i] ELSE 0]) <= hw.sram_cap

ceil_div(n, d) == (n + d - 1) \div d
peak_flops(mem, width) == AtLeast((hw.peak[mem + 1] * width) \div 8, 1)

evaluate(sched, poly) ==
  LET compute == SumOf([i \in DOMAIN sched |->
                          ceil_div(poly.flops[i], peak_flops(sched[i].mem, sched[i].width))])
      ToHbm(i) == sched[i].mem = Hbm \/ (sched[i].mem = Reg /\ sched[i].fuse = NO_FUSE)
      Fed(i) == \E j \in 1..(i - 1) : sched[j].fuse = sched[i].op
      hbm == SumOf([i \in DOMAIN sched |->
               (IF ToHbm(i) THEN poly.out_bytes[i] ELSE 0)
               + (IF Fed(i) THEN 0 ELSE poly.in_bytes[i])])
      sram == SumOf([i \in DOMAIN sched |-> IF sched[i].mem = Sram THEN poly.out_bytes[i] ELSE 0])
  IN  [cycles |-> AtLeast(ceil_div(hbm, hw.hbm_bw) + ceil_div(sram, hw.sram_bw), compute),
       hbm |-> hbm, sram |-> sram]

NoWorse(a, b) == a.cycles <= b.cycles /\ a.hbm <= b.hbm /\ a.sram <= b.sram
dominates(a, b) == NoWorse(a, b) /\ a # b

(***************************************************************************)
(* The Pareto frontier and the packed anchor.                              *)
(***************************************************************************)
SchedKey(sched) ==
  FlattenSeq([i \in DOMAIN sched |->
    LET s == sched[i] IN <<s.op, s.tile[1], s.tile[2], s.tile[3], s.fuse, s.mem, s.width>>])
OrderKey(p) == <<p.cost.cycles, p.cost.hbm>> \o SchedKey(p.sched)
Ranked(points) == SortSeq(points, LAMBDA p, q : LexLess(OrderKey(p), OrderKey(q)))

\* Fault model: of two schedules with the same cost the first to arrive is kept.
insert_first(points, p) ==
  IF \E k \in DOMAIN points : NoWorse(points[k].cost, p.cost) THEN points
  ELSE Append(SelectSeq(points, LAMBDA q : ~dominates(p.cost, q.cost)), p)

Admits(points, p) ==
  \A k \in DOMAIN points :
    LET q == points[k]
    IN  /\ ~dominates(q.cost, p.cost)
        /\ q.cost = p.cost => LexLess(SchedKey(p.sched), SchedKey(q.sched))
WithPoint(points, p) ==
  Append(SelectSeq(points, LAMBDA q : ~dominates(p.cost, q.cost) /\ q.cost # p.cost), p)
Evicts(points, p) == Admits(points, p) /\ Len(WithPoint(points, p)) > FrontierCap
frontier_insert(points, p) ==
  IF Evicts(points, p) THEN SubSeq(Ranked(WithPoint(points, p)), 1, FrontierCap)
  ELSE IF Admits(points, p) THEN WithPoint(points, p)
  ELSE points

AnchorNone == [cycles |-> -1, hbm |-> -1, sram |-> -1]
Saturate(n) == Min({n, ANCHOR_SAT})
pack_anchor(cost) ==
  [cycles |-> Saturate(cost.cycles), hbm |-> Saturate(cost.hbm), sram |-> Saturate(cost.sram)]
AnchorDominates(word, cost) == word # AnchorNone /\ dominates(word, cost)

\* The lower bounds of every completion of the prefix are dominated.
prefix_prune(poly, sched, word) ==
  LET cycles == SumOf([i \in DOMAIN poly.flops |-> ceil_div(poly.flops[i], hw.peak[1])])
      Off(s) == s.mem = Hbm \/ (s.mem = Reg /\ s.fuse = NO_FUSE)
      hbm == SumOf([i \in DOMAIN sched |-> IF Off(sched[i]) THEN poly.out_bytes[i] ELSE 0])
             + SumOf(SubSeq(poly.min_hbm, Len(sched) + 1, Len(poly.min_hbm)))
      sram == SumOf([i \in DOMAIN sched |-> IF sched[i].mem = Sram THEN poly.out_bytes[i] ELSE 0])
  IN  word # AnchorNone /\ dominates(word, [cycles |-> cycles, hbm |-> hbm, sram |-> sram])

(***************************************************************************)
(* op_domain: memory levels downwards, then tiles, fusions, widths.        *)
(***************************************************************************)
Divisors(n) == SelectSeq(UpTo(n), LAMBDA k : n % k = 0)
Each(seq, Op(_)) == FlattenSeq([k \in DOMAIN seq |-> Op(seq[k])])
op_domain(poly, i) ==
  LET b == poly.bounds[i]
      mems == [k \in 1..(b.mem_max - b.mem_min + 1) |-> b.mem_max - k + 1]
      tiles == Each(Divisors(b.tile_max[1]), LAMBDA t1 :
                 Each(Divisors(b.tile_max[2]), LAMBDA t2 :
                   Each(Divisors(b.tile_max[3]), LAMBDA t3 : << <<t1, t2, t3>> >>)))
      widths == SelectSeq(<<1, 2, 4, 8>>, LAMBDA w : w \in b.widths)
  IN  Each(mems, LAMBDA m : Each(tiles, LAMBDA t :
        Each(<<NO_FUSE>> \o b.valid_fuse, LAMBDA f : Each(widths, LAMBDA w :
          <<[op |-> b.op, tile |-> t, fuse |-> f, mem |-> m, width |-> w]>>))))

Jobs_ == DOMAIN SuperArenas
PolyOf == [k \in Jobs_ |-> truncate_polytope(extract_polytope(SuperArenas[k]))]
DomainOf == [k \in Jobs_ |-> [i \in DOMAIN PolyOf[k].bounds |-> op_domain(PolyOf[k], i)]]

(***************************************************************************)
(* build_clusters: union-find over the fused pairs.                        *)
(***************************************************************************)
\* Fault model: a target outside the polytope is not added to its cluster.
groups_of_bounds(arena, poly, sched) ==
  LET pairs == SelectSeq(sched, LAMBDA s : s.fuse # NO_FUSE)
      join(f, s) == LET rp == f[s.op]  rc == f[s.fuse]
                    IN  [x \in DOMAIN f |-> IF f[x] \in {rp, rc} THEN Min({rp, rc}) ELSE f[x]]
      root == FoldLeft(join, UpTo(Len(arena)), pairs)
      ops == {poly.bounds[i].op : i \in DOMAIN poly.bounds}
  IN  {g \in {{s \in ops : root[s] = root[x]} : x \in ops} : Cardinality(g) >= 2}

\* `root` is the representative each slot's find returns after the unions.
build_clusters(arena, poly, sched) ==
  LET pairs == SelectSeq(sched, LAMBDA s : s.fuse # NO_FUSE)
      join(f, s) == LET rp == f[s.op]  rc == f[s.fuse]
                    IN  [x \in DOMAIN f |-> IF f[x] \in {rp, rc} THEN Min({rp, rc}) ELSE f[x]]
      root == FoldLeft(join, UpTo(Len(arena)), pairs)
      ops == {poly.bounds[i].op : i \in DOMAIN poly.bounds}
      targets == {pairs[k].fuse : k \in DOMAIN pairs}
      Group(r) == {s \in ops \cup targets : root[s] = r}
  IN  {g \in {Group(root[x]) : x \in ops} : Cardinality(g) >= 2}

\* derive_edges of the cluster set (level2.rs).
cluster_edges(arena, clusters) ==
  {<<a, b>> \in clusters \X clusters :
     a # b /\ \E s \in b : \E i \in DOMAIN arena[s].ins : arena[s].ins[i] \in a}

(***************************************************************************)
(* The search: n_workers enumerating threads and the merging thread.       *)
(***************************************************************************)
VARIABLES
  job, polytope, domains,             \* which arena, its analysis, the choices per operation
  stack, holding, wpc,                \* per worker: prefixes to expand, a record to send
  expansions, evaluated, pruned,      \* its counters
  anchor_word,                        \* its copy of the anchor
  chan, staged,                       \* its channel
  done, anchor, budget_hit,           \* shared atomics
  mpc, turn, got_any, frontier, cap_evicted,   \* the merger
  outcome                             \* what superoptimize_arena returned

job_vars == <<job, polytope, domains>>
worker_vars == <<stack, holding, wpc, expansions, evaluated, pruned, anchor_word>>
merger_vars == <<mpc, turn, got_any, frontier, cap_evicted, anchor>>
super_vars == <<job_vars, worker_vars, chan, staged, done, budget_hit, merger_vars, outcome>>

OpCount == Len(polytope.bounds)
n_workers == Min({AtLeast(SearchWorkers, 1), AtLeast(Len(domains[1]), 1), 8})
Threads == IF OpCount = 0 THEN {} ELSE 1..n_workers
Fresh(w) ==   \* worker w's share of the first operation's choices
  LET d == domains[1]
      share == SelectSeq(UpTo(Len(d)), LAMBDA c : (c - 1) % n_workers = w - 1)
      starts == [j \in DOMAIN share |-> <<d[share[j]]>>]
  IN  SelectSeq(starts, LAMBDA p : feasible_prefix(polytope, p))

SuperInit ==
  /\ job = 0 /\ polytope = <<>> /\ domains = <<>> /\ mpc = "idle" /\ turn = 1 /\ got_any = FALSE
  /\ stack = <<>> /\ holding = <<>> /\ wpc = <<>> /\ chan = <<>> /\ staged = <<>>
  /\ expansions = <<>> /\ evaluated = <<>> /\ pruned = <<>> /\ anchor_word = <<>>
  /\ done = 0 /\ budget_hit = FALSE /\ anchor = AnchorNone
  /\ frontier = <<>> /\ cap_evicted = FALSE
  /\ outcome = [status |-> "running"]

\* superoptimize_arena is called; the domains are dealt out and the threads spawned.
StartSearch(k) ==
  /\ mpc = "idle"
  /\ job' = k /\ polytope' = PolyOf[k] /\ domains' = DomainOf[k]
  /\ stack' = [w \in Threads' |-> Fresh(w)']
  /\ holding' = [w \in Threads' |-> <<>>] /\ wpc' = [w \in Threads' |-> "run"]
  /\ chan' = [w \in Threads' |-> <<>>] /\ staged' = [w \in Threads' |-> <<>>]
  /\ expansions' = [w \in Threads' |-> 0] /\ evaluated' = [w \in Threads' |-> 0]
  /\ pruned' = [w \in Threads' |-> 0]
  /\ anchor_word' = [w \in Threads' |-> AnchorNone]
  /\ mpc' = IF OpCount' = 0 THEN "ended" ELSE "drain"
  /\ UNCHANGED <<turn, got_any, done, budget_hit, anchor, frontier, cap_evicted, outcome>>

\* A worker pops a prefix; every AnchorPeriod expansions it reads the anchor first.
Expand(w) ==
  LET prefix == Last(stack[w])
      rest == Front(stack[w])
      count == expansions[w] + 1
      word == IF count % AnchorPeriod = 0 THEN anchor ELSE anchor_word[w]
      full == Len(prefix) = OpCount
      cost == evaluate(prefix, polytope)
      choices == domains[Len(prefix) + 1]
      children == [c \in DOMAIN choices |-> Append(prefix, choices[c])]
      Kept(p) == feasible_prefix(polytope, p) /\ ~prefix_prune(polytope, p, word)
      over == count > MAX_EXPANSIONS_PER_WORKER
      budget == over \/ (full /\ evaluated[w] >= MAX_CAND_PER_WORKER)
      skip == full /\ ~budget /\ AnchorDominates(word, cost)
  IN  /\ wpc[w] = "run" /\ stack[w] # <<>>
      /\ expansions' = [expansions EXCEPT ![w] = count]
      /\ anchor_word' = [anchor_word EXCEPT ![w] = IF over THEN @ ELSE word]
      /\ stack' = [stack EXCEPT ![w] = IF full \/ budget THEN rest
                                        ELSE rest \o SelectSeq(children, Kept)]
      /\ pruned' = [pruned EXCEPT ![w] = IF skip THEN @ + 1 ELSE @]
      /\ holding' = [holding EXCEPT ![w] = IF full /\ ~budget /\ ~skip
                                            THEN <<[cost |-> cost, sched |-> prefix]>> ELSE <<>>]
      /\ wpc' = [wpc EXCEPT ![w] = IF budget THEN "over" ELSE IF full /\ ~skip THEN "send" ELSE @]
      /\ UNCHANGED <<job_vars, evaluated, chan, staged, done, budget_hit, merger_vars, outcome>>

\* send waits for room; what it sends is published once SendBatch records are staged.
SendRecord(w) ==
  LET more == staged[w] \o holding[w]
      publish == Len(more) >= SendBatch
  IN  /\ wpc[w] = "send" /\ Len(chan[w]) + Len(staged[w]) < CHANNEL_CAP
      /\ chan' = [chan EXCEPT ![w] = IF publish THEN @ \o more ELSE @]
      /\ staged' = [staged EXCEPT ![w] = IF publish THEN <<>> ELSE more]
      /\ holding' = [holding EXCEPT ![w] = <<>>]
      /\ evaluated' = [evaluated EXCEPT ![w] = @ + 1]
      /\ wpc' = [wpc EXCEPT ![w] = "run"]
      /\ UNCHANGED <<job_vars, stack, expansions, pruned, anchor_word, done, budget_hit, merger_vars,
                     outcome>>

FlushChannel(w) ==
  /\ wpc[w] = "over" \/ (wpc[w] = "run" /\ stack[w] = <<>>)
  /\ budget_hit' = (budget_hit \/ wpc[w] = "over")
  /\ chan' = [chan EXCEPT ![w] = @ \o staged[w]]
  /\ staged' = [staged EXCEPT ![w] = <<>>]
  /\ wpc' = [wpc EXCEPT ![w] = "flushed"]
  /\ UNCHANGED <<job_vars, stack, holding, expansions, evaluated, pruned, anchor_word, done,
                 merger_vars, outcome>>

MarkDone(w) ==
  /\ wpc[w] = "flushed"
  /\ done' = done + 1
  /\ wpc' = [wpc EXCEPT ![w] = "end"]
  /\ UNCHANGED <<job_vars, stack, holding, expansions, evaluated, pruned, anchor_word, chan, staged,
                 budget_hit, merger_vars, outcome>>

\* One try_recv_batch on channel `turn`; an empty one ends its turn.
Drain ==
  LET batch == FirstOf(chan[turn], DRAIN_BATCH)
      step(acc, p) == [points |-> frontier_insert(acc.points, p),
                       cut |-> acc.cut \/ Evicts(acc.points, p)]
      merged == FoldLeft(step, [points |-> frontier, cut |-> cap_evicted], batch)
  IN  /\ mpc = "drain"
      /\ IF batch = <<>>
         THEN /\ turn' = IF turn = Cardinality(Threads) THEN 1 ELSE turn + 1
              /\ mpc' = IF turn = Cardinality(Threads) THEN "check" ELSE "drain"
              /\ UNCHANGED <<chan, frontier, cap_evicted, got_any>>
         ELSE /\ chan' = [chan EXCEPT ![turn] = SubSeq(@, Len(batch) + 1, Len(@))]
              /\ frontier' = merged.points /\ cap_evicted' = merged.cut
              /\ got_any' = TRUE
              /\ UNCHANGED <<turn, mpc>>
      /\ UNCHANGED <<job_vars, worker_vars, staged, done, budget_hit, anchor, outcome>>

CheckDone ==
  /\ mpc = "check"
  /\ mpc' = IF ~got_any /\ done = n_workers THEN "ended" ELSE "publish"
  /\ UNCHANGED <<job_vars, worker_vars, chan, staged, done, budget_hit, turn, got_any, frontier,
                 cap_evicted, anchor, outcome>>

PublishAnchor ==
  /\ mpc = "publish"
  /\ mpc' = "drain" /\ got_any' = FALSE
  /\ anchor' = IF frontier = <<>> THEN anchor ELSE pack_anchor(Ranked(frontier)[1].cost)
  /\ UNCHANGED <<job_vars, worker_vars, chan, staged, done, budget_hit, turn, frontier, cap_evicted,
                 outcome>>

\* The rest of superoptimize_arena, once thread::scope has joined the workers.
verify_candidate(arena, poly, sched) ==
  /\ check_full(poly, sched)
  /\ \A i \in DOMAIN sched : sched[i].fuse # NO_FUSE => can_fuse_tensors(arena, sched[i].op, sched[i].fuse)
verify_candidates(arena, poly, points) ==
  SelectSeq(FirstOf(Ranked(points), TopK), LAMBDA p : verify_candidate(arena, poly, p.sched))
Conclude ==
  LET arena == SuperArenas[job]
      verified == verify_candidates(arena, polytope, frontier)
      sched == verified[1].sched
  IN  /\ mpc = "ended" /\ outcome.status = "running"
      /\ \A w \in Threads : wpc[w] = "end"
      /\ outcome' = IF OpCount = 0 THEN [status |-> "NoTensorOps"]
                    ELSE IF verified = <<>> THEN [status |-> "NoVerifiedCandidate"]
                    ELSE [status |-> "ok", winner |-> verified[1],
                          clusters |-> build_clusters(arena, polytope, sched),
                          edges |-> cluster_edges(arena, build_clusters(arena, polytope, sched))]
      /\ UNCHANGED <<job_vars, worker_vars, chan, staged, done, budget_hit, merger_vars>>

SuperWorker(w) == Expand(w) \/ SendRecord(w) \/ FlushChannel(w) \/ MarkDone(w)
SuperMerger == Drain \/ CheckDone \/ PublishAnchor \/ Conclude
SuperNext == (\E k \in Jobs_ : StartSearch(k)) \/ (\E w \in DOMAIN wpc : SuperWorker(w)) \/ SuperMerger
SuperSpec == SuperInit /\ [][SuperNext]_super_vars

(***************************************************************************)
(* Properties.                                                             *)
(***************************************************************************)
RECURSIVE Completions(_, _)
Completions(k, prefixes) ==
  IF \A p \in prefixes : Len(p) = Len(DomainOf[k]) THEN prefixes
  ELSE Completions(k, {Append(p, c) : p \in prefixes, c \in ToSet(DomainOf[k][Len(CHOOSE q \in prefixes : TRUE) + 1])})
AllPoints ==
  [k \in Jobs_ |-> {[cost |-> evaluate(s, PolyOf[k]), sched |-> s] :
                      s \in {t \in Completions(k, {<<>>}) : feasible_prefix(PolyOf[k], t)}}]
ParetoSet(points) ==
  {p \in points : \A q \in points :
     ~dominates(q.cost, p.cost) /\ ~(q.cost = p.cost /\ LexLess(SchedKey(q.sched), SchedKey(p.sched)))}
ParetoOf == [k \in Jobs_ |-> ParetoSet(AllPoints[k])]

LeftBehind == UNION {ToSet(chan[w]) \cup ToSet(staged[w]) : w \in DOMAIN chan}
Collected == ToSet(frontier) \cup LeftBehind
Complete == mpc = "ended" /\ outcome.status # "running" /\ OpCount > 0 /\ ~budget_hit

\* Below the saturation bound on every axis.
BelowSat(cost) == cost.cycles < ANCHOR_SAT /\ cost.hbm < ANCHOR_SAT /\ cost.sram < ANCHOR_SAT
BelowSatOf(points) == {p \in points : BelowSat(p.cost)}
First(points) == CHOOSE p \in points : \A q \in points \ {p} : LexLess(OrderKey(p), OrderKey(q))

\* "Hence the final frontier is IDENTICAL with or without pruning" (enumerator.rs), as far as
\* the code keeps it: what the merger has together with what is still in the channels when it
\* stops has the same points below ANCHOR_SAT as the Pareto set of all feasible schedules,
\* whatever the interleaving and the anchors the workers saw, saturated ones included, as long
\* as no point was evicted.  Points above the bound may be lost: SaturationPrunesMore.
PruningKeepsFrontier ==
  Complete /\ ~cap_evicted => BelowSatOf(ParetoSet(Collected)) = BelowSatOf(ParetoOf[job])

\* Evictions or not, the least point of all is never lost if it is below ANCHOR_SAT: the first
\* of the frontier's total order is the first of the whole Pareto set.
BestIsKept ==
  Complete /\ BelowSat(First(ParetoOf[job]).cost) =>
    Collected # {} /\ First(Collected) = First(ParetoOf[job])

\* What is returned is the least schedule of the frontier that fits into the SRAM as a whole
\* and whose fusions are all legal, and its clusters are the connected groups of fused
\* operations: no operation is in two clusters.
WinnerIsLegal ==
  outcome.status = "ok" =>
    LET p == outcome.winner
        fused == {<<s.op, s.fuse>> : s \in {t \in ToSet(p.sched) : t.fuse # NO_FUSE}}
        Joined(x, y) == \E g \in outcome.clusters : {x, y} \subseteq g
    IN  /\ p.cost.sram <= hw.sram_cap
        /\ \A q \in ToSet(frontier) :
             LexLess(OrderKey(q), OrderKey(p)) => ~check_full(polytope, q.sched)
        /\ \A e \in fused : Joined(e[1], e[2]) /\ can_fuse_tensors(SuperArenas[job], e[1], e[2])
        /\ \A g, h \in outcome.clusters : g # h => g \cap h = {}

\* "The flush-before-done ordering guarantees the merger's final drain sees every sent
\* record" (enumerator.rs): nothing is in a channel when the merger stops.
FinalDrainSeesAll == mpc = "ended" => LeftBehind = {}

\* The frontier is the Pareto set whatever was pruned, its least point survives evictions, and
\* its best legal schedule wins.
SearchSound == PruningKeepsFrontier /\ BestIsKept /\ WinnerIsLegal
=============================================================================
