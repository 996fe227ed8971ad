CONSTANTS
  Proc = {p0, p1, p2, p3, p4, p5}
  Init0 = p0
  None = None
  BootScript <- Desktop
  Signals = {}
SPECIFICATION Spec
INVARIANT PidsUnique
CHECK_DEADLOCK FALSE
