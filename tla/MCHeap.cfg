CONSTANTS
  HeapUnits = 8
  Requests = {2, 3}
  Clients = {c1, c2}
  Garbage <- LeftOver
SPECIFICATION Spec
INVARIANTS TypeOK ChainIsHeld UsedMemoryExact
PROPERTIES DataKept HeapIsAllocator
CHECK_DEADLOCK FALSE
