SPECIFICATION Spec
CONSTANTS
  Programs <- ParamPrograms
  Budgets = {64}
  IntArgs <- MCIntArgs
  FloatArgs <- MCFloatArgs
INVARIANT
  TiersAgree
