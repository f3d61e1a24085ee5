SPECIFICATION HotPlugSpec
CONSTANTS
  e1 = e1
  e2 = e2
  Encoders = {e1, e2}
  Initial <- BothEncoders
  NumSurf = 2
  QueueSize = 1
  MaxFrames = 2
INVARIANT
  PadEmptyWhenUnlinked
