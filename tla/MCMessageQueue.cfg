SPECIFICATION LogSpec
CONSTANTS
  a = a
  b = b
  c1 = c1
  c2 = c2
  None = None
  Samples <- MCSamples
  Consumers <- MCConsumers
  Versions <- MCVersions
  Results <- MCResults
  MaxQueueSize = 2
  MaxProduced = 4
  MaxResults = 1
INVARIANTS
  TypeOK
  QueueAccounted
  NoLostWakeup
  QueueIsLogSuffix
PROPERTIES
  ImplementsLossyFifo
  ShutdownReleasesConsumers
