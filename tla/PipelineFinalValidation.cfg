SPECIFICATION Spec
CONSTANTS
  TotalSamples = 3
  MaxRequired = 3
  MaxVersion = 2
  Setups <- MCFinalValidation
PROPERTIES
  Termination
CHECK_DEADLOCK FALSE
