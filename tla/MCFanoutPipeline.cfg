SPECIFICATION PipelineSpec
CONSTANTS
  e1 = e1
  e2 = e2
  Encoders = {e1, e2}
  Initial <- BothEncoders
  NumSurf = 2
  QueueSize = 2
  MaxFrames = 3
INVARIANTS
  TypeOK
  AllReturnedAfterStop
PROPERTIES
  PipelineEnds
