------------------------------ MODULE Lowering ------------------------------
(***************************************************************************)
(* From a canonical arena to a result: the fusion search that groups nodes *)
(* into clusters (fusion/src/search.rs), the two schedulers                *)
(* (xir-graph/src/schedule.rs), the projection that assigns value slots    *)
(* (xir-levels/src/level3.rs), instruction selection (level4.rs) and the   *)
(* interpreter loop (runtime/src/interp.rs execute).                       *)
(*                                                                         *)
(* Value slots and parameter indices count from 0, as in the code.         *)
(***************************************************************************)
EXTENDS Xir

(***************************************************************************)
(* The fusion search.  On scalars every edge into an elementwise node is a *)
(* candidate; a universe unions the candidates in consumer order, universe *)
(* C only up to four nodes.  A cluster is named by its lowest slot.  The   *)
(* fragment has no reductions, so universe B builds what A builds, and no  *)
(* cluster comes near the resource budgets, so nothing is split.           *)
(***************************************************************************)
can_fuse(arena, p, c) ==
  is_pure(arena[p].op) /\ is_pure(arena[c].op) /\ IsElementwise(arena[c].op)

fuse_edge(arena, cap, cluster, edge) ==
  LET pair == {cluster[edge[1]], cluster[edge[2]]}
      members == {s \in DOMAIN cluster : cluster[s] \in pair}
  IN  IF ~can_fuse(arena, edge[1], edge[2]) \/ Cardinality(members) > cap THEN cluster
      ELSE [s \in DOMAIN cluster |-> IF s \in members THEN Min(pair) ELSE cluster[s]]

\* The use-def edges <<producer, consumer>>, consumers in slot order.
Edges(arena) ==
  FlattenSeq([k \in DOMAIN LiveSlots(arena) |->
                LET c == LiveSlots(arena)[k]
                IN  [i \in DOMAIN arena[c].ins |-> <<arena[c].ins[i], c>>]])

build_universe(arena, cap) ==
  LET step(cluster, edge) == fuse_edge(arena, cap, cluster, edge)
  IN  FoldLeft(step, [s \in DOMAIN arena |-> s], Edges(arena))

\* A universe costs its cross-cluster edges; the arithmetic term is the same in all.
CutEdges(arena, cluster) ==
  FoldLeft(LAMBDA n, e : IF cluster[e[1]] = cluster[e[2]] THEN n ELSE n + 1, 0, Edges(arena))

\* Universes are scored first, the winner is then built again; a cost is never 0, so the
\* pruning test never fires.
score_universe(arena, cap) == CutEdges(arena, build_universe(arena, cap))

\* The cheapest universe, A before C on a tie.
search(arena) ==
  LET uncapped == Cardinality(DOMAIN arena)
  IN  build_universe(arena, IF score_universe(arena, 4) < score_universe(arena, uncapped)
                            THEN 4 ELSE uncapped)

(***************************************************************************)
(* Scheduling: both return the slots in execution order, short of some     *)
(* live slot when no order exists.                                         *)
(***************************************************************************)
Ready(arena, order, s) == s \notin Range(order) /\ Range(arena[s].ins) \subseteq Range(order)

RECURSIVE schedule_from(_, _)
schedule_from(arena, order) ==
  LET emit(o, s) == IF Ready(arena, o, s) THEN Append(o, s) ELSE o
      next == FoldLeft(emit, order, LiveSlots(arena))
  IN  IF next = order THEN order ELSE schedule_from(arena, next)

schedule(arena) == schedule_from(arena, <<>>)

\* Prefer a ready node of the cluster just emitted, then the lowest slot.
RECURSIVE schedule_fused_from(_, _, _)
schedule_fused_from(arena, cluster, order) ==
  LET ready == {s \in DOMAIN arena : Ready(arena, order, s)}
      same == {s \in ready : order # <<>> /\ cluster[s] = cluster[Last(order)]}
      pick == Min(IF same # {} THEN same ELSE ready)
  IN  IF ready = {} THEN order
      ELSE schedule_fused_from(arena, cluster, Append(order, pick))

schedule_fused(arena, cluster) == schedule_fused_from(arena, cluster, <<>>)

(***************************************************************************)
(* project_with_fusion and lower: parameters take the first value slots in *)
(* schedule order, then every other node.                                  *)
(***************************************************************************)
SlotTable(arena, order) ==
  LET isParam(s) == IsParam(arena[s].op)
      isOther(s) == ~IsParam(arena[s].op)
      byslot == SelectSeq(order, isParam) \o SelectSeq(order, isOther)
  IN  [s \in Range(byslot) |-> (CHOOSE k \in DOMAIN byslot : byslot[k] = s) - 1]

\* The declared parameter count: one more than the highest index.
param_count(arena) ==
  Max({-1} \cup {arena[s].op[2] : s \in {t \in DOMAIN arena : IsParam(arena[t].op)}}) + 1

value_count(arena, outputs) == Max({param_count(arena)} \cup {v + 1 : v \in outputs})

lower(arena, root, order) ==
  LET slot_of == SlotTable(arena, order)
      isInstr(s) == ~IsParam(arena[s].op)
      instr(s) == [op |-> arena[s].op, dst |-> slot_of[s],
                   args |-> [i \in DOMAIN arena[s].ins |-> slot_of[arena[s].ins[i]]]]
      code == SelectSeq(order, isInstr)
  IN  [instrs |-> [k \in DOMAIN code |-> instr(code[k])],
       result |-> slot_of[root],
       values |-> value_count(arena, {slot_of[s] : s \in Range(code)})]

(***************************************************************************)
(* execute: the parameters fill the table from slot 0, the rest starts as  *)
(* 0.0, and the first failing instruction stops the run.                   *)
(***************************************************************************)
execute(program, params) ==
  LET size == Max({program.values, Len(params)})
      table == [v \in 0..(size - 1) |-> IF v < Len(params) THEN params[v + 1] ELSE F64(0, 1)]
      step(st, instr) ==
        LET r == run_instr(instr.op, [i \in DOMAIN instr.args |-> st.table[instr.args[i]]])
        IN  IF IsErr(st.err) THEN st
            ELSE IF IsErr(r) THEN [st EXCEPT !.err = r]
            ELSE [st EXCEPT !.table[instr.dst] = r]
      end == FoldLeft(step, [table |-> table, err |-> F64(0, 1)], program.instrs)
  IN  IF IsErr(end.err) THEN end.err
      ELSE IF program.result \in DOMAIN end.table THEN end.table[program.result]
      ELSE BadSlot

=============================================================================
