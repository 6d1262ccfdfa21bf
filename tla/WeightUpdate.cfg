CONSTANTS
  ActorRanks <- MCActorRanks
  RolloutRanks = {"server0", "server1"}
  WeightsInfos <- MCWeightsInfos
  DeviceBuffer = 2
  MaxVersion = 2
  Gens = {1, 2}
  Workers <- MCWorkers
  Kinds = {"single", "tool"}
  Script <- MCScript
  Shuffles <- MCShuffles
  ResponseLengths = {1, 2, 3, 4}
  Setups <- MCSetups
  MaxIntruders <- MCMaxIntruders
SPECIFICATION Spec
INVARIANTS TypeOK EveryParameterArrives TokensOfRecordedVersions ResumesWhereItStopped
PROPERTY SampleFinishes
