------------------------------- MODULE MCText -------------------------------
(***************************************************************************)
(* Text for TLC: programs to print and parse.                              *)
(***************************************************************************)
EXTENDS Text

Line(op, args, ins, ty, r) ==
  [op |-> [name |-> op, args |-> args], ins |-> ins, ty |-> ty, region |-> r]
ScalarF64 == [kind |-> "scalar", elem |-> "f64"]
TextTensor(l) == [kind |-> "tensor", elem |-> "f32", dims |-> <<2, 1>>, layout |-> l]
TextMemRef(sp) == [kind |-> "memref", elem |-> "i64", dims |-> <<>>, layout |-> "row", space |-> sp]
RootRegion == [owner |-> 0, parent |-> 0]
Flat(ns) == [nodes |-> ns, regions |-> <<RootRegion>>]
Numbers == << <<"whole", 1>>, <<"whole", 2>>, <<"whole", 4>>, <<"frac", 0>>, <<"inf", 0>>,
              <<"nan", 1>>, <<"whole", 3>> >>

\* A seed above i64::MAX.
LargeSeed == Flat(<<Line("rng", <<"normal", 4>>, <<>>, ScalarF64, 1)>>)

\* A buffer in the default address space.
GlobalBuffer == Flat(<<Line("loop.alloc", <<2, "global">>, <<>>, TextMemRef("global"), 1)>>)

\* The slot of a removed node, taken by one that uses a later slot.
ReusedSlot ==
  Flat(<< Line("unary.neg", <<>>, <<3>>, ScalarF64, 1), Hole,
          Line("param", <<0>>, <<>>, ScalarF64, 1) >>)

\* Regions one deeper than the printer follows.
DeepRegions ==
  [nodes |-> << Line("param", <<0>>, <<>>, ScalarF64, 1), Line("if", <<>>, <<1>>, ScalarF64, 1),
                Line("if", <<>>, <<1>>, ScalarF64, 2),
                Line("unary.neg", <<>>, <<1>>, ScalarF64, 4) >>,
   regions |-> << RootRegion, [owner |-> 2, parent |-> 1], [owner |-> 2, parent |-> 1],
                  [owner |-> 3, parent |-> 2], [owner |-> 3, parent |-> 2] >>]

\* Every constant form, every type, nested regions, a reused slot.
TextSamples ==
  << Flat([i \in DOMAIN Numbers |-> Line("const.f64", <<Numbers[i]>>, <<>>, ScalarF64, 1)]),
     Flat(<< Line("const.i64", <<3>>, <<>>, [kind |-> "scalar", elem |-> "i64"], 1),
             Line("param", <<2>>, <<>>, TextTensor("col"), 1),
             Line("matmul", <<TRUE, FALSE>>, <<2, 1>>, TextTensor("row"), 1),
             Line("reduce", <<1, "max">>, <<3>>, ScalarF64, 1) >>),
     Flat(<< Line("rng", <<"normal", 3>>, <<>>, TextTensor("row"), 1),
             Line("transpose", <<<<1, 0>>>>, <<1>>, TextTensor("row"), 1),
             Line("target.barrier", <<>>, <<>>, [kind |-> "token"], 1) >>),
     LargeSeed,
     Flat(<<Line("transpose", <<<<>>>>, <<>>, ScalarF64, 1)>>),
     Flat(<< Line("broadcast", <<<<2>>>>, <<>>, ScalarF64, 1),
             Line("loop.alloc", <<2, "shared">>, <<>>, TextMemRef("shared"), 1),
             Line("conv", <<"same", 1>>, <<1, 2>>, TextMemRef("register"), 1) >>),
     GlobalBuffer,
     ReusedSlot,
     [nodes |-> << Line("param", <<0>>, <<>>, ScalarF64, 1), Hole,
                   Line("if", <<>>, <<1>>, ScalarF64, 1),
                   Line("unary.exp", <<>>, <<1>>, ScalarF64, 3),
                   Line("unary.neg", <<>>, <<1>>, ScalarF64, 2),
                   Line("binary.add", <<>>, <<3, 1>>, ScalarF64, 1) >>,
      regions |-> <<RootRegion, [owner |-> 3, parent |-> 1], [owner |-> 3, parent |-> 1]>>],
     DeepRegions >>

(***************************************************************************)
(* A disagreement.  "The IR must be printable and round-trippable" and     *)
(* "printing is total" (text.rs): these programs are legal, and what is    *)
(* printed for them is refused by the parser or says something else.       *)
(***************************************************************************)
ComesBack(a) ==
  LET r == Reading(parse_arena(print_arena(a))) IN r.ok /\ SameProgram(a, r.arena)
Lost == <<LargeSeed, GlobalBuffer, ReusedSlot, DeepRegions>>
ASSUME LostInText == \A k \in DOMAIN Lost : ~ComesBack(Lost[k])
=============================================================================
