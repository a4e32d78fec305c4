CONSTANTS
  HoldSeconds = 3
  UseWindow = TRUE
  Digits = {"2", "5"}
  Password <- MCPassword
  FaceOnly = FALSE
  MatchRequired = TRUE
  UnlockSeconds = 2
  Gaps = {1, 4}
  Boots <- MCIdleBoot
SPECIFICATION Spec
INVARIANT ExpirySleepsCamera
