SPECIFICATION Spec
CONSTANTS
  TotalSamples = 3
  MaxRequired = 4
  MaxVersion = 2
  Setups <- MCInterrupted
PROPERTIES
  InterruptedSamplesContinue
