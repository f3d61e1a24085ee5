SPECIFICATION FairSpec
CONSTANTS
  Packets = 4
  PoolSize = 2
  QueueSize = 2
  NumSurf = 4
  DecDelay = 1
  EncDelay = 1
  StartBlocks = 1
  Faults = {"read", "filter", "decoder", "sync", "encoder", "sink"}
  MaySignal = TRUE
INVARIANTS
  TypeOK
  EveryDecodedFrameIsMuxed
  StreamOutlivesEncoder
  PipelineIsEmptyWhenDeleted
PROPERTIES
  SessionEnds
CHECK_DEADLOCK FALSE
