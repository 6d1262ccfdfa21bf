SPECIFICATION Spec
CONSTANTS
  TotalSamples = 5
  MaxRequired = 3
  MaxVersion = 3
  Setups <- MCStale
INVARIANTS
  QuietBroadcast
