CONSTANTS
  Proc = {p0, p1, p2, p3, p4}
  Init0 = p0
  None = None
  BootScript <- Desktop
  Signals = {}
SPECIFICATION FairSpec
INVARIANTS ActiveRestored InterruptFlagOwned NoLockup
PROPERTIES EveryRunnableRuns
CHECK_DEADLOCK FALSE
