CONSTANTS
  Proc = {p0, p1, p2, p3, p4}
  Init0 = p0
  None = None
  BootScript <- Networked
  Signals = {0, 9, 18, 19}
SPECIFICATION Spec
INVARIANTS TypeOK SchedulerConsistent ListedIsAllocated
PROPERTIES NeverSchedulePaused
CHECK_DEADLOCK FALSE
