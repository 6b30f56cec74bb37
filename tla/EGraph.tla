------------------------------- MODULE EGraph -------------------------------
(***************************************************************************)
(* Equality saturation (crates/egraph): the e-graph itself (egraph.rs,     *)
(* union_find.rs), lifting an arena into it (lift.rs), the rules           *)
(* (rules.rs), one saturation round (lift.rs run_rounds), extraction       *)
(* (extract.rs) and the application of the extracted program to the arena  *)
(* (apply.rs).                                                             *)
(*                                                                         *)
(* An e-graph is a record:                                                 *)
(*   nodes    e-nodes [op, ch], ch the classes of the operands             *)
(*   rep      canonical class of every class; path compression changes no  *)
(*            answer of find, and union keeps the smaller id               *)
(*   lookup   (op, ch) -> e-node, the hash-cons table                      *)
(*   xir      the slot an e-node was lifted from, 0 if a rule made it      *)
(*   cc       class_const: the constant known for a class                  *)
(*   cls      node_class: the class of a lifted slot                       *)
(*   recs     the lifted nodes [slot, op, ch, elem] in lift order          *)
(*   full     an add was refused because the node budget was exhausted;    *)
(*            the whole application then fails, so later steps are no-ops  *)
(* add gives every new e-node the next class id, so a class id is also the *)
(* id of the e-node it was minted for.                                     *)
(***************************************************************************)
EXTENDS Canonicalize

EmptyGraph(budget) ==
  [nodes |-> <<>>, rep |-> <<>>, lookup |-> <<>>, xir |-> <<>>, cc |-> <<>>,
   cls |-> <<>>, recs |-> <<>>, full |-> FALSE, budget |-> budget]

\* The class add returns: the class of the congruent e-node, else a new one.
ClassOf(g, op, ch) ==
  IF <<op, ch>> \in DOMAIN g.lookup THEN g.rep[g.lookup[<<op, ch>>]] ELSE Len(g.nodes) + 1

\* The budget is tested before the table, so a full graph refuses a known node too.
\* from is the slot the e-node stands for, pushed on xir only with a new e-node.
add(g, op, ch, from) ==
  LET id == Len(g.nodes) + 1 IN
  IF g.full \/ Len(g.nodes) >= g.budget THEN [g EXCEPT !.full = TRUE]
  ELSE IF <<op, ch>> \in DOMAIN g.lookup THEN g
  ELSE [g EXCEPT !.nodes = Append(@, [op |-> op, ch |-> ch]),
                 !.rep = Append(@, id),
                 !.lookup = Override(@, <<op, ch>>, id),
                 !.xir = Append(@, from),
                 !.cc = Append(@, NoConst)]

\* union-by-min of the two roots.
Lower(x, y) == IF x <= y THEN x ELSE y
Winner(g, a, b) == Lower(g.rep[a], g.rep[b])

\* Fault model: union keeps the larger root.
merge_by_max(g, a, b) ==
  LET pair == {g.rep[a], g.rep[b]}
  IN  [g EXCEPT !.rep = [c \in DOMAIN @ |-> IF @[c] \in pair THEN Max(pair) ELSE @[c]]]

merge(g, a, b) ==
  LET pair == {g.rep[a], g.rep[b]}
  IN  [g EXCEPT !.rep = [c \in DOMAIN @ |-> IF @[c] \in pair THEN Min(pair) ELSE @[c]]]

\* The winner of a merge inherits the loser's constant if it knows none.
propagate_const(g, winner, loser) ==
  IF g.cc[loser] # NoConst /\ g.cc[winner] = NoConst
  THEN [g EXCEPT !.cc[winner] = g.cc[loser]] ELSE g

Canonical(g, ch) == [i \in DOMAIN ch |-> g.rep[ch[i]]]

(***************************************************************************)
(* rebuild: one pass.  Children are made canonical first; congruent nodes  *)
(* are then merged in id order, which can make other nodes congruent.      *)
(***************************************************************************)
rebuild_node(st, i) ==
  LET g == st.g
      key == <<g.nodes[i].op, g.nodes[i].ch>>
      first == g.lookup[key]
  IN  IF key \notin DOMAIN g.lookup
      THEN [st EXCEPT !.g.lookup = Override(@, key, i)]
      ELSE IF g.rep[first] = g.rep[i] THEN st
      ELSE [g |-> merge(g, first, i), merged |-> st.merged + 1]

\* Fault model: the children keep the classes they were added with.
rebuild_stale_children(g) ==
  FoldLeft(rebuild_node, [g |-> [g EXCEPT !.lookup = <<>>], merged |-> 0],
           [i \in DOMAIN g.nodes |-> i])

rebuild(g) ==
  FoldLeft(rebuild_node,
           [g |-> [g EXCEPT !.nodes = [i \in DOMAIN @ |-> [@[i] EXCEPT !.ch = Canonical(g, @)]],
                            !.lookup = <<>>],
            merged |-> 0],
           [i \in DOMAIN g.nodes |-> i])

(***************************************************************************)
(* lift: the pure nodes whose operands are all pure, operands first.       *)
(***************************************************************************)
Liftable(arena) ==
  {s \in DOMAIN arena : /\ is_pure(arena[s].op)
                        /\ \A p \in Range(arena[s].ins) : is_pure(arena[p].op)}

lift_node(arena, g, s) ==
  LET node == arena[s]
      ch == [i \in DOMAIN node.ins |-> g.cls[node.ins[i]]]
      class == ClassOf(g, node.op, ch)
      h == add(g, node.op, ch, s)
  IN  IF ~(Range(node.ins) \subseteq DOMAIN g.cls) THEN g
      ELSE IF h.full THEN h
      ELSE [h EXCEPT !.cls = Override(@, s, class),
                     !.cc = IF IsConst(node.op) THEN [@ EXCEPT ![class] = node.op] ELSE @,
                     !.recs = Append(@, [slot |-> s, op |-> node.op, ch |-> ch,
                                         elem |-> node.ty])]

RECURSIVE lift_passes(_, _, _)
lift_passes(arena, g, remaining) ==
  LET visit(h, s) == lift_node(arena, h, s)
      h == FoldLeft(visit, g, Ascending(remaining))
  IN  IF h.full \/ h.recs = g.recs THEN h
      ELSE lift_passes(arena, h, remaining \ DOMAIN h.cls)

lift(arena, budget) == lift_passes(arena, EmptyGraph(budget), Liftable(arena))

(***************************************************************************)
(* local_rules on one record: fold two constants, else drop an integer     *)
(* identity, else annihilate.  A rewrite names the constant to become or   *)
(* the operand class to join.                                              *)
(***************************************************************************)
NoRewrite == [to |-> "none"]
Becomes(v) == [to |-> "const", op |-> v]
Joins(class) == [to |-> "class", class |-> class]

fold_binary(b, x, y) ==
  CASE x[1] = "I" /\ y[1] = "I" -> fold_i64(b, x[2], y[2])
    [] x[1] = "F" /\ y[1] = "F" -> fold_f64(b, x, y)
    [] OTHER -> NoConst

local_rules(op, ch, consts, elem) ==
  LET b == op[1]
      is_int == elem = "I64"
      folded == fold_binary(b, consts[1], consts[2])
      lhs(v) == consts[1] = I64(v)
      rhs(v) == consts[2] = I64(v)
  IN  CASE ~IsBinary(op) -> NoRewrite
        [] IsBinary(op) /\ folded # NoConst -> Becomes(folded)
        [] IsBinary(op) /\ folded = NoConst ->
             IF ~is_int THEN NoRewrite
             ELSE IF b \in {"add", "sub"} /\ rhs(0) THEN Joins(ch[1])
             ELSE IF b = "add" /\ lhs(0) THEN Joins(ch[2])
             ELSE IF b = "mul" /\ rhs(1) THEN Joins(ch[1])
             ELSE IF b = "sub" /\ ch[1] = ch[2] THEN Becomes(I64(0))
             ELSE IF b = "mul" /\ (rhs(0) \/ lhs(0)) THEN Becomes(I64(0))
             ELSE NoRewrite

\* Fault model: subtraction counted as commutative.
commutative_with_sub(op, elem) ==
  op[1] \in {"add", "sub", "mul", "max", "min"} /\ elem = "I64"

commutative(op, elem) == op[1] \in {"add", "mul", "max", "min"} /\ elem = "I64"

(***************************************************************************)
(* One round of run_rounds.  The rules see the classes as they were when   *)
(* the round started; their rewrites are then applied in record order.     *)
(***************************************************************************)
Rewrites(g) ==
  [i \in DOMAIN g.recs |->
     LET ch == Canonical(g, g.recs[i].ch)
     IN  local_rules(g.recs[i].op, ch, [k \in DOMAIN ch |-> g.cc[ch[k]]], g.recs[i].elem)]

OwnClass(g, i) == g.rep[g.cls[g.recs[i].slot]]

apply_rewrite(st, i, rewrite) ==
  LET g == st.g
      own == OwnClass(g, i)
      h == add(g, rewrite.op, <<>>, 0)
      nc == ClassOf(g, rewrite.op, <<>>)
      w == Winner(g, own, rewrite.class)
  IN  CASE rewrite.to = "none" \/ g.full -> st
        [] rewrite.to = "const" /\ ~g.full ->
             IF h.full THEN [st EXCEPT !.g = h]
             ELSE [g |-> [merge(h, own, nc) EXCEPT !.cc[Winner(h, own, nc)] = rewrite.op],
                   fired |-> st.fired + 1]
        [] rewrite.to = "class" /\ ~g.full ->
             [g |-> propagate_const(merge(g, own, rewrite.class), w,
                                    IF w = own THEN rewrite.class ELSE own),
              fired |-> st.fired + 1]

\* A commutative integer node also gets its mirror image.
commute(st, i) ==
  LET g == st.g
      r == g.recs[i]
      ch == Canonical(g, r.ch)
      own == OwnClass(g, i)
      h == add(g, r.op, <<ch[2], ch[1]>>, 0)
      swapped == h.rep[ClassOf(g, r.op, <<ch[2], ch[1]>>)]
      w == Winner(h, own, swapped)
  IN  IF g.full \/ ~commutative(r.op, r.elem) \/ ch[1] = ch[2] THEN st
      ELSE IF h.full \/ own = swapped THEN [st EXCEPT !.g = h]
      ELSE [g |-> propagate_const(propagate_const(merge(h, own, swapped), w, own), w, swapped),
            fired |-> st.fired + 1]

\* After the rebuild every known constant reaches its canonical class.
settle_consts(g) ==
  LET step(h, c) == propagate_const(h, h.rep[c], c)
  IN  FoldLeft(step, g, [c \in DOMAIN g.cc |-> c])

\* The loop stops after a round that neither fired a rewrite nor merged in its rebuild.
saturation_round(g) ==
  LET rewrites == Rewrites(g)
      rule(st, i) == apply_rewrite(st, i, rewrites[i])
      indices == [i \in DOMAIN g.recs |-> i]
      ruled == FoldLeft(rule, [g |-> g, fired |-> 0], indices)
      commuted == FoldLeft(commute, ruled, indices)
      rebuilt == rebuild(commuted.g)
  IN  IF commuted.g.full THEN [g |-> commuted.g, fired |-> commuted.fired, merged |-> 0]
      ELSE [g |-> settle_consts(rebuilt.g), fired |-> commuted.fired, merged |-> rebuilt.merged]

(***************************************************************************)
(* extract: cheapest e-node of every class, by relaxation until nothing    *)
(* improves.  An e-node costs nothing yet (Unresolved) while one of its    *)
(* operand classes has no choice.                                          *)
(***************************************************************************)
Unresolved == -1

base_cost(op) ==
  CASE IsConst(op) \/ IsParam(op) -> 1 [] IsElementwise(op) -> 2 [] op = Dot -> 8

Classes(g) == Range(g.rep)
Members(g, class) == {i \in DOMAIN g.nodes : g.rep[i] = class}

\* best[i]: cost of e-node i; choice[c]: the chosen e-node of class c, 0 if none.
relax_node(g, best, choice, i) ==
  LET ch == g.nodes[i].ch
      cost == base_cost(g.nodes[i].op)
                + FoldLeft(LAMBDA acc, c : acc + best[choice[c]], 0, ch)
  IN  IF \E k \in DOMAIN ch : choice[ch[k]] = 0 THEN best[i]
      ELSE IF best[i] = Unresolved \/ cost < best[i] THEN cost ELSE best[i]

CheapestMember(g, best, class) ==
  LET priced == {i \in Members(g, class) : best[i] # Unresolved}
      least == {i \in priced : \A j \in priced : best[i] <= best[j]}
  IN  IF priced = {} THEN 0 ELSE Min(least)

RECURSIVE relax(_, _, _, _)
relax(g, best, choice, round) ==
  LET best2 == [i \in DOMAIN g.nodes |-> relax_node(g, best, choice, i)]
      choice2 == [c \in DOMAIN g.nodes |->
                    IF c \in Classes(g) THEN CheapestMember(g, best2, c) ELSE 0]
  IN  IF best2 = best \/ round = Len(g.nodes) THEN [best |-> best2, choice |-> choice2]
      ELSE relax(g, best2, choice2, round + 1)

extract(g) ==
  relax(g, [i \in DOMAIN g.nodes |-> Unresolved], [c \in DOMAIN g.nodes |-> 0], 0)

(***************************************************************************)
(* apply: walk the lifted slots in slot order.  A class that chose another *)
(* lifted node may only redirect the uses to a direct operand of the same  *)
(* type; a chosen constant is written in place of a binary node of its     *)
(* type; a chosen node no slot stands for is otherwise ignored.            *)
(***************************************************************************)
fold_in_place(arena, x, op) ==
  LET ty == IF op[1] = "I" THEN "I64" ELSE "F64"
  IN  IF IsBinary(arena[x].op) /\ IsConst(op) /\ arena[x].ty = ty
      THEN set_const(arena, x, op, ty) ELSE arena

rewrite_uses_if_direct_input(arena, x, y) ==
  IF is_pure(arena[y].op) /\ arena[x].ty = arena[y].ty /\ y \in Range(arena[x].ins)
  THEN replace_value_uses(arena, x, y) ELSE arena

apply_choice(g, choice, arena, s) ==
  LET chosen == choice[g.rep[g.cls[s]]]
      op == g.nodes[chosen].op
      y == g.xir[chosen]
  IN  IF chosen = 0 \/ y = s THEN arena
      ELSE IF y = 0 \/ IsConst(op) THEN fold_in_place(arena, s, op)
      ELSE rewrite_uses_if_direct_input(arena, s, y)

apply_choices(arena, g, choice) ==
  LET visit(a, s) == apply_choice(g, choice, a, s)
  IN  FoldLeft(visit, arena, Ascending(DOMAIN g.cls))

=============================================================================
