CONSTANTS
  HoldSeconds = 3
  UseWindow = TRUE
  Digits = {"2", "5"}
  Password <- MCPassword
  FaceOnly = FALSE
  MatchRequired = FALSE
  UnlockSeconds = 2
  Gaps = {1, 4}
  Boots <- BootStatuses
SPECIFICATION Spec
INVARIANT SafetyInv
PROPERTIES NoPasswordWhileSignalled OpenLockShutsOnlyFor ImplementsAccess CalmsDown
