CONSTANTS
  Requests = {1, 2, 3, 4}
  Processes = {1, 2}
  Limits <- MCLimits
  MaxTime = 12
  Setups <- WorkersSetups
SPECIFICATION Spec
INVARIANT RateBoundedAcrossWorkers
