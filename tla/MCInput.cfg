SPECIFICATION Spec
CONSTANTS
  Make <- MCMake
  Break <- MCBreak
  PitFreq = 1
  Scripts <- MCScripts
INVARIANTS EventsInOrder TimerStoppedOnlyAsleep
PROPERTIES DecodersInStep EveryEventDispatched
CHECK_DEADLOCK FALSE
