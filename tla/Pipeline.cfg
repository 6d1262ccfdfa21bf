SPECIFICATION Spec
CONSTANTS
  TotalSamples = 5
  MaxRequired = 3
  MaxVersion = 3
  Setups <- MCPassing
INVARIANTS
  TypeOK
  SamplesAccounted
  TrainedSamplesFresh
  ValidationLogged
  InFlightBounded
  VersionsInStep
  OnPolicyWhenSynchronous
PROPERTIES
  FitsReturn
CHECK_DEADLOCK FALSE
