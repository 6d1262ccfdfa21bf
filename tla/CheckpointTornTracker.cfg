SPECIFICATION Spec
CONSTANTS
  Parts <- MCParts
  Keep <- MCKeep
  SaveFreq = 2
  MaxVersion = 9
  MaxCrashes = 2
  NoTracker = NoTracker
  Torn = Torn
INVARIANTS
  RestartLoads
