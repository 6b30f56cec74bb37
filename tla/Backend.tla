------------------------------- MODULE Backend ------------------------------
(***************************************************************************)
(* Between the graph and the instructions: layout inference (level1.rs),   *)
(* the cluster set of a fusion (level2.rs) with its cost and its repair    *)
(* (fusion/src/cost.rs, resource.rs, repair.rs), the choice of an address  *)
(* space for every intermediate (level3.rs, codegen/src/bufferize.rs) and  *)
(* the choice of a tile (codegen/src/tile.rs).                             *)
(*                                                                         *)
(* An arena is a sequence of nodes; a node's place is its slot, and a slot *)
(* that was reused makes an operand stand behind its user.  Clusters are   *)
(* numbered from 1 and 0 is Option::None.                                  *)
(***************************************************************************)
EXTENDS Integers, Sequences, SequencesExt, FiniteSets, FiniteSetsExt, Functions

CONSTANTS
  Arenas,              \* the arenas the passes are run on, with their result slots
  SharedBudget,        \* SHARED_MEM_BUDGET_BYTES
  RegisterBudget,      \* REGISTER_BUDGET_UNITS
  RegisterBytes,       \* the size up to which bufferize keeps a value in registers
  TileRequests,        \* <<dims, budget_bytes>> pairs
  CacheLine,           \* TILE_CACHE_LINE
  MaxClusters          \* bound: clusters of a set

NoCluster == 0
MaxRank == 4

ElementBytes(elem) == CASE elem \in {"f64", "i64"} -> 8 [] elem \in {"f32", "i32"} -> 4 [] elem = "bool" -> 1
byte_size(ty) ==
  CASE ty.kind = "scalar" -> ElementBytes(ty.elem)
    [] ty.kind = "tensor" -> ty.elements * ElementBytes(ty.elem)
    [] ty.kind = "token" -> 0
IsTensor(ns, s) == ns[s].ty.kind = "tensor"
SlotOrder(ns) == [s \in DOMAIN ns |-> s]

(***************************************************************************)
(* Layouts.                                                                *)
(***************************************************************************)
first_input_layout(ns, s) ==
  LET tensors == SelectSeq(ns[s].inputs, LAMBDA d : IsTensor(ns, d))
  IN  IF tensors = <<>> THEN "none" ELSE ns[tensors[1]].ty.layout

InferredLayout(ns, s) ==
  CASE ns[s].op = "transpose" -> "col"
    [] ns[s].op = "matmul" -> "row"
    [] OTHER -> first_input_layout(ns, s)

\* Fault model: an inferred layout replaces a declared one.
OverrideLayout(ns, s) ==
  LET l == InferredLayout(ns, s)
  IN  IF IsTensor(ns, s) /\ l # "none" THEN [ns EXCEPT ![s].ty.layout = l] ELSE ns

InferNode(ns, s) ==
  LET l == InferredLayout(ns, s)
  IN  IF IsTensor(ns, s) /\ l # "none" /\ l # ns[s].ty.layout /\ ns[s].ty.layout = "row"
      THEN [ns EXCEPT ![s].ty.layout = l] ELSE ns

\* One pass in slot order; each node sees what the pass wrote before it.
layout_infer(ns) == FoldLeft(InferNode, ns, SlotOrder(ns))

(***************************************************************************)
(* Clusters.                                                               *)
(***************************************************************************)
NewSet(ns) == [members |-> <<>>, materialize |-> <<>>, owner |-> [s \in DOMAIN ns |-> NoCluster], edges |-> {}]
cluster_of(cs, s) == IF s \in DOMAIN cs.owner THEN cs.owner[s] ELSE NoCluster

add_cluster(cs) ==
  [cs EXCEPT !.members = Append(@, <<>>), !.materialize = Append(@, FALSE)]

\* A slot with an owner, or beyond the set, is refused; a cluster that does not exist takes
\* the slot all the same and lists no member.
assign(cs, c, s) ==
  IF s \notin DOMAIN cs.owner \/ cluster_of(cs, s) # NoCluster THEN cs
  ELSE [cs EXCEPT !.owner[s] = c,
                  !.members = IF c \in DOMAIN @ THEN [@ EXCEPT ![c] = SortSeq(Append(@, s), <)] ELSE @]

\* Fault model: only the first operand of a node is looked at.
FirstOperandUses(ns, cs) ==
  {<<cluster_of(cs, ns[s].inputs[1]), cluster_of(cs, s)>> : s \in {t \in DOMAIN ns : ns[t].inputs # <<>>}}
\* A pair of clusters for every use of a value.
CrossUses(ns, cs) ==
  UNION {{<<cluster_of(cs, ns[s].inputs[i]), cluster_of(cs, s)>> : i \in DOMAIN ns[s].inputs} : s \in DOMAIN ns}
derive_edges(ns, cs) ==
  [cs EXCEPT !.edges = {e \in CrossUses(ns, cs) : e[1] # NoCluster /\ e[2] # NoCluster /\ e[1] # e[2]}]

set_materialize(cs, c, m) ==
  IF c \in DOMAIN cs.materialize THEN [cs EXCEPT !.materialize[c] = m] ELSE cs

(***************************************************************************)
(* Cost.                                                                   *)
(***************************************************************************)
\* Fault model: a use by or of a node without a cluster costs nothing.
CrossesKnown(p, c) == p # NoCluster /\ c # NoCluster /\ p # c
Crosses(p, c) == p = NoCluster \/ c = NoCluster \/ p # c

external_edge_bytes(ns, cs) ==
  MapThenSumSet(LAMBDA s :
    FoldLeft(LAMBDA sum, d : sum + (IF Crosses(cluster_of(cs, d), cluster_of(cs, s))
                                    THEN byte_size(ns[d].ty) ELSE 0), 0, ns[s].inputs), DOMAIN ns)

op_arithmetic(op) ==
  CASE op \in {"const", "param", "cluster", "barrier", "loop"} -> 1
    [] op \in {"binary", "unary"} -> 2
    [] op = "warp" -> 4
    [] op \in {"reduce", "rng"} -> 8
    [] op \in {"transpose", "broadcast", "if"} -> 16
    [] op \in {"dot", "custom"} -> 64
    [] op = "mma" -> 96
    [] op = "matmul" -> 128
    [] op = "conv" -> 256

\* CostModel::score under Tier1, and under Tier2, which falls back to it.
score(ns, members, bytes) ==
  bytes + MapThenSumSet(LAMBDA s : op_arithmetic(ns[s].op), members)
        + 8 * Max({0, 8 * Cardinality(members) - RegisterBudget})

(***************************************************************************)
(* Resources and repair of one cluster.                                    *)
(***************************************************************************)
SumOver(ms, Of(_)) == FoldLeft(LAMBDA sum, s : sum + Of(s), 0, ms)
shared_bytes(ns, ms) == SumOver(ms, LAMBDA s : byte_size(ns[s].ty))
register_units(ns, ms) == SumOver(ms, LAMBDA s : IF ns[s].op = "reduce" THEN 24 ELSE 8)

\* The first member of the largest, and of the smallest, size.
Largest(ns, ms) ==
  FoldLeft(LAMBDA best, s : IF byte_size(ns[s].ty) > byte_size(ns[best].ty) THEN s ELSE best, ms[1], ms)
Smallest(ns, ms) ==
  FoldLeft(LAMBDA best, s : IF byte_size(ns[s].ty) < byte_size(ns[best].ty) THEN s ELSE best, ms[1], ms)

\* Fault model: the first member is split off, whatever its size.
SplitFirst(ns, ms) ==
  CASE shared_bytes(ns, ms) > SharedBudget -> [kind |-> "split", node |-> ms[1]]
    [] shared_bytes(ns, ms) <= SharedBudget /\ register_units(ns, ms) > RegisterBudget ->
         [kind |-> "rematerialize", node |-> Smallest(ns, ms)]
    [] OTHER -> [kind |-> "fits", node |-> NoCluster]

repair_cluster(ns, ms) ==
  CASE shared_bytes(ns, ms) > SharedBudget -> [kind |-> "split", node |-> Largest(ns, ms)]
    [] shared_bytes(ns, ms) <= SharedBudget /\ register_units(ns, ms) > RegisterBudget ->
         [kind |-> "rematerialize", node |-> Smallest(ns, ms)]
    [] OTHER -> [kind |-> "fits", node |-> NoCluster]

\* A round of repair_to_fit on [current, actions, stopped].
RepairRound(ns, r) ==
  LET a == repair_cluster(ns, r.current)
  IN  IF r.stopped \/ a.kind = "fits" THEN [r EXCEPT !.stopped = TRUE]
      ELSE IF a.kind = "split"
      THEN [r EXCEPT !.current = SelectSeq(@, LAMBDA s : s # a.node), !.actions = Append(@, a)]
      ELSE [r EXCEPT !.actions = Append(@, a), !.stopped = TRUE]
repair_to_fit(ns, ms, max_steps) ==
  FoldLeft(LAMBDA r, i : RepairRound(ns, r),
           [current |-> ms, actions |-> <<>>, stopped |-> FALSE], [i \in 1..max_steps |-> i])

(***************************************************************************)
(* Buffers.                                                                *)
(***************************************************************************)
\* A reader for each operand that is the slot.
consumers_of(ns, s) ==
  FlattenSeq([t \in DOMAIN ns |->
                [i \in 1..Cardinality({j \in DOMAIN ns[t].inputs : ns[t].inputs[j] = s}) |-> t]])

\* Fault model: readers in other regions are not looked for.
AnyRegion(ns, roots, cs, s) ==
  LET pc == cluster_of(cs, s)
      readers == consumers_of(ns, s)
  IN  IF pc # NoCluster /\ ~(pc \in DOMAIN cs.materialize /\ cs.materialize[pc]) /\ s \notin roots
         /\ readers # <<>> /\ \A i \in DOMAIN readers : cluster_of(cs, readers[i]) = pc
      THEN "register" ELSE "global"

buffer_space(ns, roots, cs, s) ==
  LET pc == cluster_of(cs, s)
      readers == consumers_of(ns, s)
  IN  IF pc # NoCluster /\ ~(pc \in DOMAIN cs.materialize /\ cs.materialize[pc]) /\ s \notin roots
         /\ readers # <<>>
         /\ \A i \in DOMAIN readers : cluster_of(cs, readers[i]) = pc /\ ns[readers[i]].region = ns[s].region
      THEN "register" ELSE "global"

\* project_with_fusion's record of every tensor that an operation produces.
Buffered(ns) == {s \in DOMAIN ns : IsTensor(ns, s) /\ ns[s].op # "param"}
Buffers(ns, roots, cs) ==
  [s \in Buffered(ns) |-> IF cs.members = <<>> THEN "global" ELSE buffer_space(ns, roots, cs, s)]

\* The plan: a small value with one use or none is kept in a register.
bufferize(ns, roots, spaces) ==
  [s \in DOMAIN spaces |->
     IF Len(consumers_of(ns, s)) <= 1 /\ s \notin roots /\ byte_size(ns[s].ty) <= RegisterBytes
     THEN "register" ELSE spaces[s]]

(***************************************************************************)
(* Tiles.                                                                  *)
(***************************************************************************)
TileBytes(dims, edges) ==
  8 * FoldLeft(LAMBDA n, a : n * Min({edges[a], dims[a]}), 1, [a \in DOMAIN dims |-> a])
TileFits(t) == TileBytes(t.dims, t.edges) <= t.budget \/ t.edges = [a \in 1..MaxRank |-> 1]

\* Fault model: the first axis is never halved.
LargestInner(t) ==
  FoldLeft(LAMBDA best, a : IF t.edges[a] > t.edges[best] THEN a ELSE best, 2, [a \in 1..(Len(t.dims) - 1) |-> a + 1])
\* The first axis with the largest edge; axis 1 when the shape has no axis.
LargestEdge(t) ==
  FoldLeft(LAMBDA best, a : IF t.edges[a] > t.edges[best] THEN a ELSE best, 1, [a \in DOMAIN t.dims |-> a])
HalveEdge(t) == [t EXCEPT !.edges[LargestEdge(t)] = Max({@ \div 2, 1})]

(***************************************************************************)
(* The passes run.                                                         *)
(***************************************************************************)
VARIABLES
  nodes,       \* the arena
  roots_of,    \* its result slots
  given,       \* the arena as it was built
  infer,       \* [runs, changed]: layout_infer so far
  cset,        \* the ClusterSet, or <<>> before one is made
  stale_edges, \* a node was assigned since derive_edges
  plan,        \* [recorded, planned]: the spaces of the loop program and of the plan, or <<>>
  repair,      \* the result of repair_to_fit, or <<>>
  tile         \* the tile being chosen, or <<>>
backend_vars == <<nodes, roots_of, given, infer, cset, stale_edges, plan, repair, tile>>

BackendInit ==
  /\ nodes = <<>> /\ given = <<>> /\ roots_of = {}
  /\ infer = [runs |-> 0, changed |-> 1]
  /\ cset = <<>> /\ stale_edges = FALSE /\ plan = <<>> /\ repair = <<>> /\ tile = <<>>

Planning == cset # <<>> /\ plan = <<>> /\ repair = <<>>

BuildArena ==
  /\ nodes = <<>> /\ tile = <<>>
  /\ \E i \in DOMAIN Arenas :
       nodes' = Arenas[i].nodes /\ given' = Arenas[i].nodes /\ roots_of' = Arenas[i].roots
  /\ UNCHANGED <<infer, cset, stale_edges, plan, repair, tile>>

InferLayouts ==
  /\ nodes # <<>> /\ cset = <<>> /\ infer.changed # 0
  /\ nodes' = layout_infer(nodes)
  /\ infer' = [runs |-> infer.runs + 1,
               changed |-> Cardinality({s \in DOMAIN nodes : layout_infer(nodes)[s] # nodes[s]})]
  /\ UNCHANGED <<given, roots_of, cset, stale_edges, plan, repair, tile>>

StartClusters ==
  /\ nodes # <<>> /\ infer.runs = 1 /\ cset = <<>>
  /\ cset' = NewSet(nodes)
  /\ UNCHANGED <<nodes, given, roots_of, infer, stale_edges, plan, repair, tile>>

AddCluster ==
  /\ Planning /\ Len(cset.members) < MaxClusters
  /\ cset' = add_cluster(cset)
  /\ UNCHANGED <<nodes, given, roots_of, infer, stale_edges, plan, repair, tile>>

\* The callers assign to clusters they have added.
Assign ==
  /\ Planning
  /\ \E c \in DOMAIN cset.members, s \in DOMAIN nodes :
       /\ cset' = assign(cset, c, s)
       /\ stale_edges' = (stale_edges \/ cset' # cset)
  /\ UNCHANGED <<nodes, given, roots_of, infer, plan, repair, tile>>

DeriveEdges ==
  /\ Planning
  /\ cset' = derive_edges(nodes, cset) /\ stale_edges' = FALSE
  /\ UNCHANGED <<nodes, given, roots_of, infer, plan, repair, tile>>

Materialize ==
  /\ Planning
  /\ \E c \in 1..MaxClusters : cset' = set_materialize(cset, c, TRUE)
  /\ UNCHANGED <<nodes, given, roots_of, infer, stale_edges, plan, repair, tile>>

PlanBuffers ==
  /\ Planning
  /\ LET spaces == Buffers(nodes, roots_of, cset)
     IN  plan' = [recorded |-> spaces, planned |-> bufferize(nodes, roots_of, spaces)]
  /\ UNCHANGED <<nodes, given, roots_of, infer, cset, stale_edges, repair, tile>>

RepairCluster ==
  /\ Planning
  /\ \E c \in DOMAIN cset.members, steps \in 0..Len(nodes) :
       repair' = [before |-> cset.members[c], steps |-> steps,
                  result |-> repair_to_fit(nodes, cset.members[c], steps)]
  /\ UNCHANGED <<nodes, given, roots_of, infer, cset, stale_edges, plan, tile>>

StartTile ==
  /\ tile = <<>> /\ nodes = <<>>
  /\ \E r \in TileRequests : tile' = [dims |-> r[1], budget |-> r[2], edges |-> [a \in 1..MaxRank |-> CacheLine]]
  /\ UNCHANGED <<nodes, given, roots_of, infer, cset, stale_edges, plan, repair>>

\* An iteration of tile_shapes' loop.
ShrinkTile ==
  /\ tile # <<>> /\ ~TileFits(tile)
  /\ tile' = HalveEdge(tile)
  /\ UNCHANGED <<nodes, given, roots_of, infer, cset, stale_edges, plan, repair>>

BackendNext ==
  \/ BuildArena \/ InferLayouts \/ StartClusters \/ AddCluster \/ Assign \/ DeriveEdges
  \/ Materialize \/ PlanBuffers \/ RepairCluster \/ StartTile \/ ShrinkTile
BackendSpec == BackendInit /\ [][BackendNext]_backend_vars

(***************************************************************************)
(* Properties.                                                             *)
(***************************************************************************)
\* The values that a column-major layout reaches: declared so, transposed, or computed
\* from a first tensor operand that is column-major.  A product is row-major.
Reached(ns, cols) ==
  cols \cup {s \in DOMAIN ns : /\ IsTensor(ns, s) /\ ns[s].op # "matmul"
                               /\ \/ ns[s].op = "transpose"
                                  \/ \E i \in DOMAIN ns[s].inputs :
                                       /\ ns[s].inputs[i] \in cols
                                       /\ \A j \in 1..(i - 1) : ~IsTensor(ns, ns[s].inputs[j])}
ColumnMajor(ns) ==
  FoldLeft(LAMBDA cols, s : Reached(ns, cols),
           {s \in DOMAIN ns : IsTensor(ns, s) /\ ns[s].ty.layout = "col"}, SlotOrder(ns))
OperandsFirst(ns) == \A s \in DOMAIN ns : \A i \in DOMAIN ns[s].inputs : ns[s].inputs[i] < s

\* A pass of layout_infer that changes nothing, and the first pass already on an arena whose
\* operands stand before their users, leaves the layouts that the declarations and the
\* transposes imply, however far they have to travel.
LayoutsSettle ==
  (nodes # <<>> /\ (infer.changed = 0 \/ (infer.runs > 0 /\ OperandsFirst(nodes)))) =>
    {s \in DOMAIN nodes : IsTensor(nodes, s) /\ nodes[s].ty.layout = "col"} = ColumnMajor(given)

\* The edges of a cluster set lead only between clusters of which one uses a value of the
\* other, all of them unless a node was assigned after derive_edges; and every cluster lists,
\* in slot order, exactly the nodes that name it as their owner.
EdgesAreUses ==
  cset # <<>> =>
    LET meant == {<<cset.owner[d], cset.owner[s]>> : <<d, s>> \in
                    {p \in (DOMAIN nodes) \X (DOMAIN nodes) :
                       /\ p[1] \in ToSet(nodes[p[2]].inputs)
                       /\ NoCluster \notin {cset.owner[p[1]], cset.owner[p[2]]}
                       /\ cset.owner[p[1]] # cset.owner[p[2]]}}
    IN  /\ cset.edges \subseteq meant
        /\ ~stale_edges => cset.edges = meant
        /\ \A c \in DOMAIN cset.members :
             cset.members[c] = SetToSortSeq({s \in DOMAIN nodes : cset.owner[s] = c}, <)

\* Putting one more node into a cluster never raises the score of the whole program: the
\* bytes that cross between clusters are what fusion saves (cost.rs), whichever clusters the
\* node's operands and users are in and also for a node that no cluster has.
FusingNeverRaisesScore ==
  [][(Planning /\ cset'.owner # cset.owner) =>
       LET Of(cs) == score(nodes, DOMAIN nodes, external_edge_bytes(nodes, cs))
       IN  Of(cset') <= Of(cset)]_backend_vars

UsersOf(s) == {u \in DOMAIN nodes : s \in ToSet(nodes[u].inputs)}
InRegisters(spaces) == {s \in DOMAIN spaces : spaces[s] = "register"}
\* What a value in a register must be: no result of the program, its uses all in its own
\* cluster, which is not to be materialised, and in its own region.
StaysInCluster(s) ==
  LET c == cset.owner[s]
  IN  /\ s \notin roots_of
      /\ c # NoCluster /\ (c \in DOMAIN cset.materialize => ~cset.materialize[c])
      /\ \A u \in UsersOf(s) : cset.owner[u] = c /\ nodes[u].region = nodes[s].region

\* level3.rs records a register only for a value that stays in its cluster, and bufferize adds
\* to these no value that the program returns or that is read more than once.  It may add
\* one that leaves its cluster: RegisterLeavesCluster in MCBackend.
RegisterIsPrivate ==
  plan # <<>> =>
    /\ \A s \in InRegisters(plan.recorded) : StaysInCluster(s)
    /\ \A s \in InRegisters(plan.planned) \ InRegisters(plan.recorded) :
         /\ s \notin roots_of
         /\ \A u, v \in UsersOf(s) : u = v /\ \E i \in DOMAIN nodes[u].inputs :
              \A j \in DOMAIN nodes[u].inputs : nodes[u].inputs[j] = s => j = i

\* With a step for every member, repair_to_fit leaves a cluster whose values fit the shared
\* memory, having split off as few members as any way to make it fit; it asks for a
\* rematerialisation exactly when what is left still needs too many registers.  Fewer steps
\* may leave a cluster that does not fit: ResidualUnreported in MCBackend.
RepairFits ==
  (repair # <<>> /\ repair.steps >= Len(repair.before)) =>
    LET splits == SelectSeq(repair.result.actions, LAMBDA a : a.kind = "split")
        rest == repair.result.current
        all == ToSet(repair.before)
        Bytes(S) == MapThenSumSet(LAMBDA s : byte_size(nodes[s].ty), S)
    IN  /\ Bytes(ToSet(rest)) <= SharedBudget
        /\ \A S \in SUBSET all : Cardinality(S) < Len(splits) => Bytes(all \ S) > SharedBudget
        /\ repair.steps > Len(splits) =>
             (Len(repair.result.actions) > Len(splits)) = (register_units(nodes, rest) > RegisterBudget)

\* With a budget of at least one element, and for a shape of full rank with any budget, each
\* iteration of tile_shapes' loop brings it nearer to its end, with edges of at least one.
\* Without either it may never end: TileLoopStuck in MCBackend.
TileLoopAdvances ==
  tile # <<>> =>
    /\ \A a \in 1..MaxRank : tile.edges[a] \in 1..CacheLine
    /\ tile.budget >= 8 \/ Len(tile.dims) = MaxRank => TileFits(tile) \/ HalveEdge(tile) # tile

\* The plans made between graph and instructions, each against what it stands for.
PlansSound ==
  LayoutsSettle /\ EdgesAreUses /\ RegisterIsPrivate /\ RepairFits /\ TileLoopAdvances
=============================================================================
