SPECIFICATION FairSpec
CONSTANTS
  Packets = 3
  PoolSize = 2
  QueueSize = 1
  NumSurf = 4
  DecDelay = 1
  EncDelay = 1
  StartBlocks = 1
  Faults = {}
  MaySignal = TRUE
PROPERTY
  AllStop
CHECK_DEADLOCK FALSE
