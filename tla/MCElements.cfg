SPECIFICATION Spec
CONSTANTS
  DecCodecs = {"AVC", "STRING"}
  EncCodecs = {"AVC", "VP8"}
  Built = {"HEVC_ENC", "AVC_FEI_ENCODER", "HEVC_FEI_ENCODER", "YUV_READER"}
  MaxElements = 10
  MaxCalls = 4
  VideoIn = {"v1", "v2"}
  OverlayIn = {"t1"}
  RawIn = {"y1"}
  FirstIn = "v1"
  Surfaces = 2
  QLen = 1
  MaxAsked = 3
  Films <- FilmsDef
  PoolRoom = 2
  DecSurfaces = 3
  Addresses = {1, 2, 3, 4}
  DecDelay = 1
  PadRoom = 1
  DecFaults = {"read", "filter", "init", "device", "sync", "slow"}
INVARIANTS TypeOK GraphIsWhole ThreadsFollowTheTranscoder CleanUpDeletesAll
  SurfacesAreKept FramesAreRight
PROPERTY ElementsEnd
CHECK_DEADLOCK FALSE
