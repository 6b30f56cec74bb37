------------------------------ MODULE MCSearch ------------------------------
(* The arenas and the machine Supertensor is checked with. *)
EXTENDS Supertensor

\* A chain, a reduction, an operand used twice, scalars.
Scheduled(kind, ty, ins) == [kind |-> kind, axis |-> 0, ty |-> ty, ins |-> ins]
SuperScalar == [kind |-> "scalar", elem |-> 1, dims |-> <<>>]
SuperTensor(e, dims) == [kind |-> "tensor", elem |-> e, dims |-> dims]
SearchArenas ==
  << << Scheduled("param", SuperTensor(1, <<1, 1>>), <<>>),
        Scheduled("matmul", SuperTensor(1, <<1, 1>>), <<1, 1>>),
        Scheduled("binary", SuperTensor(1, <<1>>), <<2>>),
        Scheduled("unary", SuperTensor(1, <<1>>), <<3>>) >>,
     << Scheduled("param", SuperTensor(2, <<2>>), <<>>),
        Scheduled("reduce", SuperTensor(2, <<2>>), <<1>>) >>,
     << Scheduled("param", SuperScalar, <<>>), Scheduled("unary", SuperTensor(1, <<3>>), <<1>>),
        Scheduled("binary", SuperTensor(3, <<3>>), <<2, 1>>) >>,
     << Scheduled("param", SuperScalar, <<>>), Scheduled("unary", SuperScalar, <<1>>) >> >>
Machine == [sram_cap |-> 8, peak |-> <<1, 1, 1>>, sram_bw |-> 4, hbm_bw |-> 4, max_tile |-> 2]

(***************************************************************************)
(* Disagreements.                                                          *)
(***************************************************************************)
SearchCost(c, h, s) == [cycles |-> c, hbm |-> h, sram |-> s]

\* "Saturation only WEAKENS pruning (larger anchor values dominate fewer candidates)"
\* (pareto.rs): pack_anchor takes the minimum, so a saturated anchor is smaller than the point
\* it stands for and prunes a candidate that the point does not dominate.
ASSUME SaturationPrunesMore ==
  LET point == SearchCost(1, ANCHOR_SAT + 2, 0)
      candidate == SearchCost(1, ANCHOR_SAT + 1, 0)
  IN  AnchorDominates(pack_anchor(point), candidate) /\ dominates(candidate, point)

\* "cap_evicted is advisory, not a precondition" of deterministic results (enumerator.rs): a
\* point that a full frontier evicts does not come back when what it was evicted for is itself
\* dominated, so the order of arrival decides what the frontier is.
ASSUME EvictionDependsOnOrder ==
  LET Point(c, h) == [cost |-> SearchCost(c, h, 0), sched |-> <<>>]
      crowd == [i \in 1..FrontierCap |-> Point(1 + i, 3 + FrontierCap - i)]
      best == Point(1, 2)
      last == Point(2 + FrontierCap, 1)
      Frontier(arrivals) == ToSet(FoldLeft(frontier_insert, <<>>, arrivals))
  IN  /\ Frontier(crowd \o <<last, best>>) = {best}
      /\ Frontier(crowd \o <<best, last>>) = {best, last}
=============================================================================
