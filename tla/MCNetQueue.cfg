CONSTANTS
  Senders = {s1, s2}
  Netd = netd
  MaxPackets = 3
SPECIFICATION FairSpec
INVARIANTS NoLostWakeup NoRaceNoLoss
PROPERTIES EveryPacketHandled
CHECK_DEADLOCK FALSE
