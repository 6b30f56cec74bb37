------------------------------ MODULE MCCompiler ----------------------------
(***************************************************************************)
(* The compiler for TLC: the compile pipeline, and beside it the           *)
(* components it is built from or handed to.  The instances share no       *)
(* state, so each behaviour belongs to one of them: `lane` names it, it    *)
(* takes steps, and the others rest in an initial state.                   *)
(***************************************************************************)
EXTENDS MCCompile, MCSearch, MCKernels, MCText, IrStore, MCFingerprint, Dominance, UnionFind,
        MCBackend, Mss

VARIABLE lane

Lanes == {"compile", "store", "text", "fingerprint", "dominance", "unionfind", "kernels",
          "backend", "search", "mss"}

components ==
  <<store_vars, text_vars, built, dominance_vars, uf_vars, kernel_vars, backend_vars,
    super_vars, mss_vars>>

\* Outside its lane the pipeline stands before a compilation it would refuse.
PipelineRests ==
  /\ src = <<Leaf(Param(0), "I64")>> /\ tier = 3
  /\ pc = "start" /\ error = "" /\ current = src /\ working = src
  /\ graph = EmptyGraph(64) /\ round = 0 /\ merged = 0 /\ order = <<>> /\ target = NoTarget

CompilerInit ==
  /\ lane \in Lanes
  /\ IF lane = "compile" THEN Init ELSE PipelineRests
  /\ StoreInit /\ TextInit /\ FingerprintInit /\ DominanceInit
  /\ UnionFindInit /\ KernelInit /\ BackendInit /\ SuperInit /\ MssInit

\* The pipeline has its own steps for having ended; the other components just stop.
CompilerNext ==
  /\ UNCHANGED lane
  /\ \/ lane = "compile" /\ Next /\ UNCHANGED components
     \/ /\ lane = "store" /\ StoreNext
        /\ UNCHANGED <<vars, text_vars, built, dominance_vars, uf_vars,
                       kernel_vars, backend_vars, super_vars, mss_vars>>
     \/ /\ lane = "text" /\ TextNext
        /\ UNCHANGED <<vars, store_vars, built, dominance_vars, uf_vars,
                       kernel_vars, backend_vars, super_vars, mss_vars>>
     \/ /\ lane = "fingerprint" /\ FingerprintNext
        /\ UNCHANGED <<vars, store_vars, text_vars, dominance_vars, uf_vars,
                       kernel_vars, backend_vars, super_vars, mss_vars>>
     \/ /\ lane = "dominance" /\ DominanceNext
        /\ UNCHANGED <<vars, store_vars, text_vars, built, uf_vars,
                       kernel_vars, backend_vars, super_vars, mss_vars>>
     \/ /\ lane = "unionfind" /\ UnionFindNext
        /\ UNCHANGED <<vars, store_vars, text_vars, built, dominance_vars,
                       kernel_vars, backend_vars, super_vars, mss_vars>>
     \/ /\ lane = "kernels" /\ KernelNext
        /\ UNCHANGED <<vars, store_vars, text_vars, built, dominance_vars,
                       uf_vars, backend_vars, super_vars, mss_vars>>
     \/ /\ lane = "backend" /\ BackendNext
        /\ UNCHANGED <<vars, store_vars, text_vars, built, dominance_vars,
                       uf_vars, kernel_vars, super_vars, mss_vars>>
     \/ /\ lane = "search" /\ SuperNext
        /\ UNCHANGED <<vars, store_vars, text_vars, built, dominance_vars,
                       uf_vars, kernel_vars, backend_vars, mss_vars>>
     \/ /\ lane = "mss" /\ MssNext
        /\ UNCHANGED <<vars, store_vars, text_vars, built, dominance_vars,
                       uf_vars, kernel_vars, backend_vars, super_vars>>
     \/ lane # "compile" /\ UNCHANGED <<vars, components>>

CompilerSpec == CompilerInit /\ [][CompilerNext]_<<lane, vars, components>>

-----------------------------------------------------------------------------
(* Values of the constants *)

\* Mss: chains of constants, a common subexpression, an identity of each kind.
ConstSlot(v) == Slot("Const", "none", v, 0, 0)
ParamSlot == Slot("Param", "none", 1, 0, 0)
BinSlot(op, l, r) == Slot("Bin", op, 0, l, r)
NegSlot(l) == Slot("Un", "Neg", 0, l, 0)
Seeds ==
  << [slots |-> << ParamSlot, ConstSlot(1), BinSlot("Add", 1, 2), ConstSlot(2), BinSlot("Add", 3, 4),
                   ConstSlot(0), BinSlot("Add", 6, 5) >>, root |-> 7],
     [slots |-> << ConstSlot(2), ParamSlot, BinSlot("Mul", 2, 1), BinSlot("Mul", 2, 1),
                   BinSlot("Sub", 3, 4), NegSlot(5), ConstSlot(1), BinSlot("Mul", 7, 6) >>, root |-> 8],
     [slots |-> << ConstSlot(3), ConstSlot(2), BinSlot("Add", 1, 2), ParamSlot, BinSlot("Min", 4, 2),
                   BinSlot("Add", 5, 3) >>, root |-> 6],
     [slots |-> << ConstSlot(1), ParamSlot, BinSlot("Add", 1, 2), BinSlot("Add", 3, 1),
                   BinSlot("Max", 4, 3), BinSlot("Mul", 5, 1) >>, root |-> 6] >>
=============================================================================
