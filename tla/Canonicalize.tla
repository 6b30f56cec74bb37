---------------------------- MODULE Canonicalize ----------------------------
(***************************************************************************)
(* The Level-0 canonicalisation of tier 1 and above: constant folding      *)
(* (xir-graph/src/fold.rs), global value numbering (gvn.rs) and dead code  *)
(* elimination (dce.rs), as functions on arenas.  Each is one whole pass:  *)
(* a left fold over the live slots in the order the code visits them.      *)
(***************************************************************************)
EXTENDS Xir

(***************************************************************************)
(* fold::run                                                               *)
(***************************************************************************)
NoConst == <<"none", 0, 0>>

const_i64_of(arena, s) == IF arena[s].op[1] = "I" THEN arena[s].op ELSE NoConst

\* An i64 constant is coerced to f64.
const_f64_of(arena, s) ==
  LET op == arena[s].op IN IF IsConst(op) THEN F64(op[2], op[3]) ELSE NoConst

\* Truncating i64 division, as i64::checked_div.
TruncDiv(x, y) ==
  LET q == Magnitude(x) \div Magnitude(y) IN IF (x < 0) # (y < 0) THEN -q ELSE q

\* Checked i64 arithmetic; a zero divisor does not fold.
fold_i64(b, x, y) ==
  CASE b = "add" -> I64(x + y)
    [] b = "sub" -> I64(x - y)
    [] b = "mul" -> I64(x * y)
    [] b = "div" -> IF y = 0 THEN NoConst ELSE I64(TruncDiv(x, y))
    [] b = "max" -> I64(IF x >= y THEN x ELSE y)
    [] b = "min" -> I64(IF x <= y THEN x ELSE y)

fold_f64(b, x, y) ==
  LET r == f64_op(b, x, y) IN IF IsErr(r) THEN NoConst ELSE r

\* Fault model: negation folded as a subtraction from +0.0.
fold_unary_by_subtraction(arena, s) ==
  LET v == const_f64_of(arena, arena[s].ins[1]) IN
  IF v = NoConst THEN arena
  ELSE set_const(arena, s, f64_op("sub", F64(0, 1), v), arena[s].ty)

fold_unary(arena, s) ==
  LET v == const_f64_of(arena, arena[s].ins[1]) IN
  IF v = NoConst THEN arena ELSE set_const(arena, s, Negate(v), arena[s].ty)

fold_binary_node(arena, s) ==
  LET a == arena[s].ins[1]
      b == arena[s].ins[2]
      kind == arena[s].op[1]
  IN  IF const_i64_of(arena, a) # NoConst /\ const_i64_of(arena, b) # NoConst
      THEN LET r == fold_i64(kind, arena[a].op[2], arena[b].op[2])
           IN  IF r = NoConst THEN arena ELSE set_const(arena, s, r, "I64")
      ELSE IF const_f64_of(arena, a) # NoConst /\ const_f64_of(arena, b) # NoConst
      THEN LET r == fold_f64(kind, const_f64_of(arena, a), const_f64_of(arena, b))
           IN  IF r = NoConst THEN arena ELSE set_const(arena, s, r, arena[s].ty)
      ELSE arena

fold_node(arena, s) ==
  IF arena[s].op = Neg THEN fold_unary(arena, s)
  ELSE IF IsBinary(arena[s].op) THEN fold_binary_node(arena, s)
  ELSE arena

fold_run(arena) == FoldLeft(fold_node, arena, LiveSlots(arena))

(***************************************************************************)
(* gvn::run.  canon[s] is the representative of a visited slot, table maps *)
(* (op, canonical inputs) to the first node with that key.  The 64-bit     *)
(* hash is only a filter, so the key itself stands for it.  A NaN constant *)
(* is not equal to itself, a failed type match leaves the table alone.     *)
(***************************************************************************)
CanonicalInputs(canon, ins) ==
  [i \in DOMAIN ins |-> IF ins[i] \in DOMAIN canon THEN canon[ins[i]] ELSE ins[i]]

Override(f, x, v) == [y \in DOMAIN f \cup {x} |-> IF y = x THEN v ELSE f[y]]

gvn_node(st, s, node) ==
  LET key == <<node.op, CanonicalInputs(st.canon, node.ins)>>
      rep == st.table[key]
      congruent == /\ st.arena[rep].ty = node.ty
                   /\ st.arena[rep].op = node.op
                   /\ node.op # NaN
                   /\ CanonicalInputs(st.canon, st.arena[rep].ins) = key[2]
  IN  CASE ~is_pure(node.op) -> [st EXCEPT !.canon = Override(@, s, s)]
        [] is_pure(node.op) /\ key \notin DOMAIN st.table ->
             [st EXCEPT !.canon = Override(@, s, s), !.table = Override(@, key, s)]
        [] is_pure(node.op) /\ key \in DOMAIN st.table ->
             IF congruent
             THEN [st EXCEPT !.arena = replace_value_uses(@, s, rep),
                             !.canon = Override(@, s, rep),
                             !.removals = @ \cup {s}]
             ELSE [st EXCEPT !.canon = Override(@, s, s)]

gvn_run(arena) ==
  LET visit(st, s) == gvn_node(st, s, arena[s])      \* inputs as of the start of the pass
      end == FoldLeft(visit,
                      [arena |-> arena, canon |-> <<>>, table |-> <<>>, removals |-> {}],
                      LiveSlots(arena))
  IN  remove_nodes(end.arena, end.removals)

(***************************************************************************)
(* dce::run: drop the unused pure nodes until none is left.                *)
(***************************************************************************)
UsedSlots(arena) == UNION {Range(arena[s].ins) : s \in DOMAIN arena}

DeadSlots(arena, roots) ==
  {s \in DOMAIN arena : is_pure(arena[s].op) /\ s \notin roots \cup UsedSlots(arena)}

RECURSIVE dce_run(_, _)
dce_run(arena, roots) ==
  LET dead == DeadSlots(arena, roots)
  IN  IF dead = {} THEN arena ELSE dce_run(remove_nodes(arena, dead), roots)

=============================================================================
