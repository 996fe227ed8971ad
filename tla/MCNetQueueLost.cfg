CONSTANTS
  Senders = {s1}
  Netd = netd
  MaxPackets = 2
SPECIFICATION Spec
INVARIANTS NothingLost
CHECK_DEADLOCK FALSE
