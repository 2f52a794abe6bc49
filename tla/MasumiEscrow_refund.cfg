SPECIFICATION Spec
CONSTANTS
  Workers = {w1, w2}
SYMMETRY WorkerSymmetry
INVARIANTS
  HeldFundsCounted
  RefundReturnsBudget
  FailedIsDefinite
PROPERTIES
  NoSecondCall
CHECK_DEADLOCK FALSE
