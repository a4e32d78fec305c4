CONSTANTS
  Names = 1
  WindowSize = 3
  MinVotes = 2
  Sources = {"camera"}
  RecMode = "i8"
  HasI8 = TRUE
  ErrorLimit = 2
  Threshold <- MCThreshold
  Similarities = {20, 90}
SPECIFICATION Spec
INVARIANT WokenCameraPlays
