---------------------------- MODULE MCFingerprint ---------------------------
(***************************************************************************)
(* Fingerprint for TLC: operations and types whose encodings could run     *)
(* into each other, and what it takes for arenas that hash alike.          *)
(***************************************************************************)
EXTENDS Fingerprint

OpOf(n, args) == [name |-> n, args |-> args]
SampleOps ==
  {OpOf("const.i64", <<-1>>), OpOf("const.i64", <<33>>), OpOf("param", <<1>>), OpOf("dot", <<>>),
   OpOf("reduce", <<1, 0>>), OpOf("rng", <<1, 1>>), OpOf("custom", <<1>>), OpOf("binary", <<0>>),
   OpOf("broadcast", <<1>>), OpOf("broadcast", <<1, 1>>), OpOf("transpose", <<1, 0>>),
   OpOf("transpose", <<0>>), OpOf("alloc", <<1, 0>>), OpOf("mma", <<>>)}
BufferType(l) == [kind |-> "memref", elem |-> 0, space |-> 0, layout |-> l, dims |-> <<1>>]
SampleTypes ==
  {[kind |-> "none"], [kind |-> "tensor", elem |-> 0, layout |-> 0, dims |-> <<1>>],
   [kind |-> "tensor", elem |-> 0, layout |-> 0, dims |-> <<1, 32>>],
   BufferType(0), BufferType(1)}

(***************************************************************************)
(* A disagreement.  The fingerprint is to cover "opcodes + immediates +    *)
(* use structure + region structure + types" (snapshot.rs); these pairs of *)
(* accepted arenas have the same one and are different programs.           *)
(***************************************************************************)
HashAlike(a, b) ==
  /\ Accepted(a) /\ Accepted(b)
  /\ compute_fingerprint(a) = compute_fingerprint(b) /\ ProgramOf(a) # ProgramOf(b)

Plain(op, ins, effect, ty) ==
  [op |-> op, inputs |-> ins, region |-> 0, effect_in |-> effect, ty |-> ty]
ScalarI64 == [kind |-> "scalar", elem |-> 0]
FirstResult(i) == [index |-> i, generation |-> 0, level |-> 0, slot |-> 0]
ArenaWith(ns) == FoldLeft(Inserted, BlankArena, ns)

\* Constants 1 and 2 and the negation of slot 1, with and without a freed slot in front:
\* the slot of an operand is written, that of a node is not.
Negation ==
  << Plain(OpOf("const.i64", <<1>>), <<>>, <<>>, ScalarI64),
     Plain(OpOf("const.i64", <<2>>), <<>>, <<>>, ScalarI64),
     Plain(OpOf("unary", <<0>>), <<FirstResult(1)>>, <<>>, ScalarI64) >>
ASSUME SlotsHidden ==
  HashAlike(ArenaWith(Negation), Removed(ArenaWith(<<Negation[2]>> \o Negation), 1))

\* Two conditionals and four regions, two to each: only the number of regions is written.
Conditionals(owners) ==
  [ArenaWith(<< Plain(OpOf("param", <<0>>), <<>>, <<>>, ScalarI64),
                Plain(OpOf("if", <<>>), <<FirstResult(0)>>, <<>>, ScalarI64),
                Plain(OpOf("if", <<>>), <<FirstResult(0)>>, FirstResult(1), ScalarI64) >>)
     EXCEPT !.regions = @ \o [r \in DOMAIN owners |-> [parent |-> 1, owner |-> owners[r]]]]
ASSUME RegionsHidden == HashAlike(Conditionals(<<2, 2, 3, 3>>), Conditionals(<<2, 3, 2, 3>>))

\* A buffer, row-major and column-major: hash_type leaves the layout of a memref out.
Buffer(l) == ArenaWith(<<Plain(OpOf("alloc", <<1, 0>>), <<>>, <<>>, BufferType(l))>>)
ASSUME LayoutsHidden == HashAlike(Buffer(0), Buffer(1))
=============================================================================
