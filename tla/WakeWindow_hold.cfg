CONSTANTS
  HoldSeconds = 5
  UseWindow = TRUE
  Gaps = {0, 1, 3, 6}
  Horizon = 16
SPECIFICATION Spec
PROPERTIES ExpiryMeansQuiet RelativeFormIsExact
