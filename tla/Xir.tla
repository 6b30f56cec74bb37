-------------------------------- MODULE Xir --------------------------------
(***************************************************************************)
(* The scalar fragment of the XIR and what it means: the values of the     *)
(* interpreter (runtime/src/value.rs, interp.rs), the opcodes              *)
(* (xir-core/src/op.rs), the arena (xir-core/src/arena.rs) and the         *)
(* verifier (xir-graph/src/verifier.rs).                                   *)
(*                                                                         *)
(* An opcode is a triple.  A constant's opcode is the value it denotes:    *)
(*     <<"I", n, 1>>   ConstI64(n)                                         *)
(*     <<"F", n, d>>   ConstF64: the rational n/d in lowest terms, with    *)
(*                     0/1 for +0.0, 0/-1 for -0.0, 1/0 and -1/0 for the   *)
(*                     infinities and 0/0 for NaN                          *)
(*     <<"P", i, 0>>   Param { index: i }                                  *)
(*     <<b, 0, 0>>     Binary(b), Unary(neg), Dot                          *)
(*     <<"rng", s, 0>> Rng, the impure opcode of the fragment              *)
(* Rational arithmetic stands for f64 arithmetic without its rounding: the *)
(* folder and the interpreter apply the same f64 operation, so rounding    *)
(* cannot tell them apart, while signed zeros, infinities and NaN can.     *)
(*                                                                         *)
(* An arena maps the slots of its live nodes to nodes [op, ins, ty].       *)
(***************************************************************************)
EXTENDS Integers, Sequences, SequencesExt, FiniteSetsExt, Functions

I64(n) == <<"I", n, 1>>
F64(n, d) == <<"F", n, d>>
Param(i) == <<"P", i, 0>>
Err(reason) == <<"E", reason, 0>>       \* RuntimeError, by its position in the enum
BadSlot == Err(1)
UnsupportedValue == Err(3)
DivisionByZero == Err(4)

BinaryOps == {"add", "sub", "mul", "div", "max", "min"}
Binary(b) == <<b, 0, 0>>
Neg == <<"neg", 0, 0>>
Dot == <<"dot", 0, 0>>
Rng(seed) == <<"rng", seed, 0>>

IsConst(op) == op[1] \in {"I", "F"}
IsBinary(op) == op[1] \in BinaryOps
IsParam(op) == op[1] = "P"
IsElementwise(op) == IsBinary(op) \/ op = Neg
IsErr(v) == v[1] = "E"
is_pure(op) == op[1] # "rng"

expected_arity(op) ==
  IF IsBinary(op) \/ op = Dot THEN 2 ELSE IF op = Neg THEN 1 ELSE 0

(***************************************************************************)
(* f64 arithmetic on extended rationals <<"F", n, d>>.                     *)
(***************************************************************************)
NaN == F64(0, 0)
IsZero(x) == x[2] = 0 /\ x[3] # 0
IsNegative(x) == x[2] < 0 \/ x[3] < 0
Magnitude(n) == IF n < 0 THEN -n ELSE n

\* n/d for d >= 0, in lowest terms.
Ratio(n, d) ==
  IF d = 0 THEN F64(IF n = 0 THEN 0 ELSE n \div Magnitude(n), 0)
  ELSE LET g == Max({k \in 1..d : n % k = 0 /\ d % k = 0})
       IN  F64(n \div g, d \div g)

Negate(x) == IF x[2] = 0 THEN F64(0, -x[3]) ELSE F64(-x[2], x[3])
WithSign(negative, x) == IF negative THEN Negate(x) ELSE x

FAdd(x, y) ==
  CASE IsZero(x) /\ IsZero(y) -> IF x = y THEN x ELSE F64(0, 1)
    [] IsZero(x) /\ ~IsZero(y) -> y
    [] ~IsZero(x) /\ IsZero(y) -> x
    [] x = y /\ x[3] = 0 -> x
    [] OTHER -> Ratio(x[2] * y[3] + y[2] * x[3], x[3] * y[3])

FMul(x, y) ==
  WithSign(IsNegative(x) # IsNegative(y),
           Ratio(Magnitude(x[2] * y[2]), Magnitude(x[3] * y[3])))

FDiv(x, y) ==
  WithSign(IsNegative(x) # IsNegative(y),
           Ratio(Magnitude(x[2] * y[3]), Magnitude(x[3] * y[2])))

FLeq(x, y) ==
  IF x[3] = 0 /\ y[3] = 0 THEN x[2] <= y[2]
  ELSE x[2] * Magnitude(y[3]) <= y[2] * Magnitude(x[3])

\* f64::max and f64::min return the other operand when one is NaN; of two zeros the second
\* stands for either.
FMax(x, y) == IF y = NaN THEN x ELSE IF x = NaN \/ FLeq(x, y) THEN y ELSE x
FMin(x, y) == IF y = NaN THEN x ELSE IF x = NaN \/ FLeq(y, x) THEN y ELSE x

\* The closures run_instr passes to bin_op.
f64_op(b, x, y) ==
  CASE b = "add" -> FAdd(x, y)
    [] b = "sub" -> FAdd(x, Negate(y))
    [] b = "mul" -> FMul(x, y)
    [] b = "div" -> IF IsZero(y) THEN DivisionByZero ELSE FDiv(x, y)
    [] b = "max" -> FMax(x, y)
    [] b = "min" -> FMin(x, y)

\* bin_op: two i64 go through f64 and come back as an i64 only when the result
\* is whole; an i64 and an f64 do not mix.
bin_op(b, x, y) ==
  IF x[1] # y[1] THEN UnsupportedValue
  ELSE LET r == f64_op(b, F64(x[2], x[3]), F64(y[2], y[3]))
       IN  IF x[1] = "I" /\ ~IsErr(r) /\ Magnitude(r[3]) = 1 THEN I64(r[2]) ELSE r

un_op(x) == IF x[1] = "F" THEN Negate(x) ELSE UnsupportedValue

\* Instr::Dot of two scalars: 0.0 + x * y.
dot(x, y) ==
  IF x[1] = "F" /\ y[1] = "F" THEN FAdd(F64(0, 1), FMul(x, y)) ELSE UnsupportedValue

\* The value of one instruction from the values of its operands.
run_instr(op, args) ==
  CASE IsConst(op) -> op
    [] IsBinary(op) -> bin_op(op[1], args[1], args[2])
    [] op = Neg -> un_op(args[1])
    [] op = Dot -> dot(args[1], args[2])
    [] op[1] = "rng" -> F64(op[2], 1)

(***************************************************************************)
(* The arena.                                                              *)
(***************************************************************************)
Ascending(S) ==
  [k \in 1..Cardinality(S) |-> CHOOSE s \in S : Cardinality({t \in S : t <= s}) = k]

\* arena.for_each_live_node visits the live slots in ascending order.
LiveSlots(arena) == Ascending(DOMAIN arena)

remove_nodes(arena, dead) == Restrict(arena, DOMAIN arena \ dead)

\* Fault model: only a node's first operand is redirected.
replace_first_input(arena, from, to) ==
  [s \in DOMAIN arena |->
     [arena[s] EXCEPT !.ins = [i \in DOMAIN @ |-> IF i = 1 /\ @[i] = from THEN to ELSE @[i]]]]

replace_value_uses(arena, from, to) ==
  [s \in DOMAIN arena |->
     [arena[s] EXCEPT !.ins = [i \in DOMAIN @ |-> IF @[i] = from THEN to ELSE @[i]]]]

set_const(arena, s, v, ty) == [arena EXCEPT ![s] = [op |-> v, ins |-> <<>>, ty |-> ty]]

(***************************************************************************)
(* The verifier: arity, use-def, the effect chain, and an integer-typed    *)
(* value op may not consume a float-typed operand.  One region, so         *)
(* dominance holds.                                                        *)
(***************************************************************************)
claims_integer_element(node) == (IsElementwise(node.op) \/ node.op = Dot) /\ node.ty = "I64"

verify_node(arena, node) ==
  /\ Len(node.ins) = expected_arity(node.op)
  /\ \A i \in DOMAIN node.ins :
        /\ node.ins[i] \in DOMAIN arena
        /\ ~(claims_integer_element(node) /\ arena[node.ins[i]].ty = "F64")

\* region_has_earlier_effect: nodes of the fragment have no effect edge, so a second
\* effectful node breaks the chain.
EffectChainIntact(arena) == Cardinality({s \in DOMAIN arena : ~is_pure(arena[s].op)}) <= 1

verify(arena) ==
  EffectChainIntact(arena) /\ \A s \in DOMAIN arena : verify_node(arena, arena[s])

=============================================================================
