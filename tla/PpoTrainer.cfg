CONSTANTS
  Requests = {1, 2, 3, 4}
  Processes = {1, 2}
  Limits <- MCLimits
  MaxTime = 12
  Setups <- MCSetups
SPECIFICATION Spec
INVARIANTS TypeOK RowsAligned RateBounded WeightsAge BatchesAccounted
PROPERTY FitReturns
