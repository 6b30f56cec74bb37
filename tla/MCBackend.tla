------------------------------ MODULE MCBackend -----------------------------
(***************************************************************************)
(* Backend for TLC: arenas to plan for and tiles to choose.                *)
(***************************************************************************)
EXTENDS Backend

\* A chain with two regions, and an arena whose slots were reused.
ArenaNode(o, ins, t, r) == [op |-> o, inputs |-> ins, ty |-> t, region |-> r]
Sized(n, l) == [kind |-> "tensor", elem |-> "f64", elements |-> n, layout |-> l]
BackendArenas ==
  << [nodes |-> << ArenaNode("param", <<>>, Sized(4, "row"), 0),
                   ArenaNode("transpose", <<1>>, Sized(2, "row"), 0),
                   ArenaNode("binary", <<2, 2>>, Sized(6, "row"), 0),
                   ArenaNode("reduce", <<3>>, Sized(1, "row"), 1),
                   ArenaNode("matmul", <<3, 2>>, Sized(3, "col"), 0) >>, roots |-> {5}],
     [nodes |-> << ArenaNode("unary", <<3>>, Sized(5, "row"), 0),
                   ArenaNode("const", <<>>, [kind |-> "scalar", elem |-> "f32"], 0),
                   ArenaNode("binary", <<2, 4>>, Sized(4, "row"), 0),
                   ArenaNode("transpose", <<5>>, Sized(3, "row"), 0),
                   ArenaNode("param", <<>>, Sized(3, "row"), 0) >>, roots |-> {1, 3}] >>
TileRequestSet ==
  {<<<<100, 3>>, 4>>, <<<<100, 3>>, 8>>, <<<<5>>, 16>>, <<<<2, 70, 3, 9>>, 4>>,
   <<<<2, 70, 3, 9>>, 200>>, <<<<>>, 8>>}

(***************************************************************************)
(* Disagreements.                                                          *)
(***************************************************************************)
\* "Values used across cluster boundaries get Global buffers" (bufferize.rs), "a wrong Register
\* would be a miscompilation-class bug" (level3.rs): a value with one use is put in a register
\* although its only reader is in another cluster and level3.rs recorded a global buffer.
ASSUME RegisterLeavesCluster ==
  LET ns == BackendArenas[1].nodes
      cs == assign(assign(add_cluster(add_cluster(NewSet(ns))), 1, 4), 2, 5)
      small == [ns EXCEPT ![5].inputs = <<4, 2>>]
      spaces == Buffers(small, {5}, cs)
  IN  /\ cluster_of(cs, 4) # cluster_of(cs, 5) /\ consumers_of(small, 4) = <<5>>
      /\ spaces[4] = "global" /\ bufferize(small, {5}, spaces)[4] = "register"

\* "residual over-budget members return as InsertCopy" (repair.rs): after the last step the
\* cluster is still over the budget, and the actions are splits only.
ASSUME ResidualUnreported ==
  LET ns == BackendArenas[1].nodes
      r == repair_to_fit(ns, <<1, 2, 3, 5>>, 1)
  IN  /\ shared_bytes(ns, r.current) > SharedBudget
      /\ \A a \in ToSet(r.actions) : a.kind = "split"

\* "halve until the tile fits the budget", in O(rank * log(edges)) steps (tile.rs): with a budget
\* below one element the loop ends only when all MaxRank edges are 1, and it never halves an
\* edge beyond the rank.
ASSUME TileLoopStuck ==
  LET start == [dims |-> <<100, 3>>, budget |-> 4, edges |-> [a \in 1..MaxRank |-> CacheLine]]
      stuck == FoldLeft(LAMBDA t, k : HalveEdge(t), start, [k \in 1..12 |-> k])
  IN  ~TileFits(stuck) /\ HalveEdge(stuck) = stuck
=============================================================================
