------------------------------ MODULE MCKernels -----------------------------
(* The parameters the kernels are checked with. *)
EXTENDS TensorKernels

\* Matrices that are not square, an image with a kernel, a cube.
ParamSets ==
  << << Tensor(<<1, 2, 3, 4, 5, 6>>, <<2, 3>>), Tensor(<<2, 7, 1, 8, 2, 9>>, <<3, 2>>),
        F64Value(-2) >>,
     << Tensor(<<1, 2, 3, 4, 5, 6, 7, 8, 9>>, <<1, 1, 3, 3>>), Tensor(<<1, 3, 5, 8>>, <<1, 1, 2, 2>>),
        I64Value(3) >>,
     << Tensor(<<1, 2, 3, 4, 5, 6, 7, 8>>, <<2, 2, 2>>), Tensor(<<1, 2, 3, 5>>, <<2, 2>>),
        I64Value(2) >> >>
=============================================================================
