CONSTANTS
  RowPins <- MCRows
  ColPins <- MCCols
  Autostart = TRUE
  Foreign = {"sensor", "row2"}
SPECIFICATION DriverSpec
INVARIANTS DriverInv NobodyIsTemporary OnlyKnownLeaks OrphanHasCause
PROPERTIES OthersKeepTheirs PresenceIsReported OnlyServoLeakLasts
