\* One instruction on matrices of two rows and three columns.
CONSTANTS
  KernelParams <- ParamSets
  MaxKernels = 1
INIT KernelInit
NEXT KernelNext
INVARIANT MatmulIsProduct
CHECK_DEADLOCK FALSE
