SPECIFICATION DeviceSpec
CONSTANTS
  p1 = p1
  p2 = p2
  Scanners = {p1, p2}
  Rows = 2
  Cols = 2
  KeyMap <- MCKeyMap
  PasswordLength = 2
  SequenceLength = 1
  Calls = 4
  Beyond = 1
  Tasks = {p1, p2}
  Lines = {"led", "servo"}
  Texts = {1}
  Updates = 3
  Losses = 1
SYMMETRY Same
CHECK_DEADLOCK FALSE
INVARIANTS DeviceInv LoneScanIsTrue LinesIndependent PanelShows
