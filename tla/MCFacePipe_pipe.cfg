CONSTANTS
  Names = 2
  WindowSize = 4
  MinVotes = 2
  Sources = {"camera", "video", "image"}
  RecMode = "fp32"
  HasI8 = TRUE
  ErrorLimit = 2
  Threshold <- MCThreshold
  Similarities = {20, 90}
SPECIFICATION Spec
INVARIANTS PipeInv MatchNeedsSight GivesBestSupported
PROPERTY ImplementsCameraLife
