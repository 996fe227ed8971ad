CONSTANTS
  Proc = {p0, p1, p2, p3}
  Init0 = p0
  None = None
  BootScript <- Listening
  Signals = {9}
SPECIFICATION Spec
PROPERTY SystemSurvivesKill
CHECK_DEADLOCK FALSE
