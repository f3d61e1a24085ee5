SPECIFICATION FairSpec
CONSTANTS
  e1 = e1
  e2 = e2
  Encoders = {e1, e2}
  Initial <- OneEncoder
  NumSurf = 2
  QueueSize = 2
  MaxFrames = 3
INVARIANTS
  RefsMatchHolders
  LentSurfacesAreLocked
  PadsInUseAreLinked
PROPERTIES
  RendersIntoFreeSurface
  HotPlugTerminates
