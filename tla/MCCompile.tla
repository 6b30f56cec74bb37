----------------------------- MODULE MCCompile -----------------------------
\* The programs, budgets and arguments Compile is checked with.
EXTENDS Compile

Leaf(op, ty) == [op |-> op, ins |-> <<>>, ty |-> ty]
Apply(op, a, b, ty) == [op |-> op, ins |-> <<a, b>>, ty |-> ty]
Applications(kinds, operands, ty) ==
  {Apply(Binary(k), a, b, ty) : k \in kinds, a \in operands, b \in operands}

\* All programs p0; constant; x = op over both; op over all three.
IntPrograms ==
  {<<Leaf(Param(0), "I64"), Leaf(I64(n), "I64"), x, y>> :
     n \in {-1, 0, 1, 2},
     x \in Applications({"add", "sub", "mul", "div"}, 1..2, "I64"),
     y \in Applications({"add", "sub", "mul", "div", "max", "min"}, 1..3, "I64")}

FloatPrograms ==
  {<<Leaf(Param(0), "F64"), Leaf(c, "F64"), x, y>> :
     c \in {F64(0, 1), F64(0, -1), F64(1, 1)},
     x \in Applications({"add", "mul", "div"}, 1..2, "F64"),
     y \in Applications({"sub", "mul", "max", "min"}, 1..3, "F64")}

\* All chains p0; constant; x over both; y over p0 and x; z over x and y.
ChainPrograms ==
  {<<Leaf(Param(0), "I64"), Leaf(I64(n), "I64"), x, y, z>> :
     n \in 0..1,
     x \in Applications({"add", "mul"}, 1..2, "I64"),
     y \in Applications({"mul", "sub"}, {1, 3}, "I64"),
     z \in Applications({"sub", "add"}, {3, 4}, "I64")}

P(i) == Leaf(Param(i), "I64")
K(n) == Leaf(I64(n), "I64")
Op(k, a, b) == Apply(Binary(k), a, b, "I64")

\* Longer programs: identities under identities, so that a rebuild makes further nodes
\* congruent; two parameters; a cluster larger than universe C allows; an impure node and
\* what depends on it; a root another node duplicates; an arena the verifier rejects.
ChosenPrograms ==
  { <<P(0), K(0), Op("add", 1, 2), Op("mul", 3, 1), Op("mul", 1, 1),
      Op("max", 4, 1), Op("max", 5, 1), Op("sub", 6, 7)>>,
    <<P(0), K(1), Op("mul", 1, 2), Op("add", 3, 2), Op("add", 1, 2),
      Op("sub", 4, 5), Op("add", 6, 1), Op("mul", 7, 4)>>,
    <<P(0), P(1), Op("add", 1, 2), Op("add", 2, 1), Op("sub", 3, 4), Op("max", 5, 1)>>,
    <<P(0), P(1), K(0), Op("mul", 2, 3), Op("add", 4, 1), Op("sub", 1, 5), Op("add", 6, 2)>>,
    <<P(0), K(1), Op("add", 1, 2), Op("add", 3, 2), Op("add", 4, 2), Op("add", 5, 2),
      Op("add", 6, 2)>>,
    <<Leaf(Rng(1), "F64"), Leaf(F64(1, 1), "F64"), Leaf(Param(0), "F64"),
      Apply(Binary("mul"), 1, 2, "F64"), Apply(Binary("add"), 4, 3, "F64"),
      [op |-> Neg, ins |-> <<5>>, ty |-> "F64"]>>,
    <<Leaf(Rng(1), "F64"), Leaf(Rng(1), "F64"), Apply(Binary("sub"), 1, 2, "F64"),
      [op |-> Neg, ins |-> <<3>>, ty |-> "F64"]>>,
    <<Leaf(Param(0), "F64"), Leaf(F64(0, 1), "F64"), [op |-> Neg, ins |-> <<2>>, ty |-> "F64"],
      Apply(Binary("add"), 1, 3, "F64"), Apply(Dot, 4, 4, "F64"),
      Apply(Binary("max"), 4, 5, "F64")>>,
    <<Leaf(Param(0), "F64"), Leaf(F64(0, 1), "F64"), [op |-> Neg, ins |-> <<2>>, ty |-> "F64"],
      Apply(Binary("add"), 1, 3, "F64")>>,
    <<P(0), K(1), Op("add", 1, 2), Op("add", 1, 2)>>,
    <<Leaf(Param(0), "F64"), K(1), Op("add", 1, 2)>> }

MCPrograms == IntPrograms \cup ChainPrograms \cup FloatPrograms \cup ChosenPrograms
MCIntArgs == {I64(n) : n \in {-1, 0, 2}}
MCFloatArgs == {F64(-1, 2), F64(0, 1), F64(0, -1), F64(1, 0), NaN}

\* Three parameters, the third used first: at tier 2 the fused schedule reaches the third
\* parameter before the second.
ParamPrograms ==
  { <<Leaf(Param(0), "F64"), Leaf(Param(1), "F64"), Leaf(Param(2), "F64"),
      Apply(Binary("add"), 1, 3, "F64"), Apply(Dot, 4, 2, "F64")>> }

(***************************************************************************)
(* Disagreements on what a tier may change: programs on which the code     *)
(* does otherwise than it says.                                            *)
(***************************************************************************)
RootOf(arena) == Max(DOMAIN arena)
Canonicalised(arena) == dce_run(gvn_run(fold_run(arena)), {RootOf(arena)})
RunOn(arena, env) == execute(lower(arena, RootOf(arena), schedule(arena)), env)

\* "roots reference live result nodes" (passman.rs), which DCE keeps (dce.rs): value
\* numbering removes a root that repeats an earlier node and DCE then everything else, so
\* that compile finds no root in a program it verified.
ASSUME RootDeleted ==
  LET p == <<P(0), K(1), Op("add", 1, 2), Op("add", 1, 2)>>
  IN  verify(p) /\ Canonicalised(p) = <<>>

\* "the exact runtime operation earlier - identical result" (fold.rs): an i64 quotient is
\* folded by truncation and run through f64.
ASSUME FoldedQuotientDiffers ==
  LET p == <<K(7), K(2), Op("div", 1, 2)>> IN RunOn(Canonicalised(p), <<>>) # RunOn(p, <<>>)

\* "tier agreement ON FAILURE" (docs/conformance.md, driver.rs tests): a division that
\* nobody uses fails at tier 0 and is removed above it.
ASSUME DeadDivisionDiffers ==
  LET p == <<P(0), K(1), Op("div", 2, 1), Op("add", 1, 2)>>
  IN  IsErr(RunOn(p, <<I64(0)>>)) /\ ~IsErr(RunOn(Canonicalised(p), <<I64(0)>>))
=============================================================================
