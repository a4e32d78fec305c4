CONSTANTS
  HoldSeconds = 3
  UseWindow = TRUE
  Digits = {"2", "5"}
  Password <- MCPassword
  FaceOnly = TRUE
  MatchRequired = TRUE
  UnlockSeconds = 2
  Gaps = {1, 4}
  Boots <- BootStatuses
  Names = 1
  WindowSize = 2
  MinVotes = 2
  RecMode = "fp32"
  HasI8 = TRUE
  ErrorLimit = 2
  Threshold <- MCThreshold
  Similarities = {20, 90}
SPECIFICATION LockSpec
INVARIANTS LockTypeOK RestsUnlessLost VotesOfThisWindow
PROPERTIES GrantNeedsSight CalmsDown KnownFaceGetsIn
