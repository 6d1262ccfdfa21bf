SPECIFICATION Spec
CONSTANTS
  NumRows = 2
  PromptWidth = 2
  ResponseWidth = 3
  TopK = 2
  MaxPrefixes = 2
  DpSize = 4
  Scale = 4
  Entropies = {0, 1}
  Prompts <- MCPrompts
  Masks <- MCMasks
  Values <- MCValues
  TopProbs <- MCTopProbs
INVARIANTS
  TypeOK
  SelectsMostUncertain
  ScoresAreAligned
  TargetIsBayesPosterior
CHECK_DEADLOCK FALSE
