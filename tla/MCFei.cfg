SPECIFICATION Spec
CONSTANTS
  FeiConfigs <- AvcConfigs
  FeiFrames = 12
  FeiFrameNumMax = 16
  FeiFaults = {"init", "buffer", "encode"}
  HevcConfigs <- AllHevcConfigs
  HevcFrames = 12
  HevcFaults = {"init", "encode", "device", "status"}
INVARIANTS
  AvcKeepsItsPool AvcKeepsItsOrder HevcKeepsItsFrames HevcStreamDecodes HevcGoesOn
PROPERTY EncodersEnd
