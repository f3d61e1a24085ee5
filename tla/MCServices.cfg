CONSTANTS
  Ends <- EndsDef
  Options <- OptionsDef
  MaxOptions <- MaxOptionsDef
  MaxLines = 3
  ParFiles <- ParFilesDef
  RoiFiles <- RoiFilesDef
  Sources <- SourcesDef
  Files <- FilesDef
  Overlays <- OverlaysDef
  MaxSurfaces = 3
  PadSize = 2
  MaxFrames = 4
  MaxFaults = 2
  NSinks = 2
  MaxSignals = 2
  Spurious = TRUE
SPECIFICATION Spec
INVARIANTS TypeOK SetupFits OptionsReachEncoder OwnersKeep
PROPERTY ServicesEnd
CHECK_DEADLOCK FALSE
