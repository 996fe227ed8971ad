SPECIFICATION FairSpec
CONSTANTS
    m1 = m1
    NoMac = NoMac
    Netd = netd
    Programs = {p1}
    Frames <- MCFrames
    Targets <- MCTargets
    Ports = {7}
    Timeouts = {0, 1}
    TableSize = 2
    Tries = 2
    TxSlots = 2
    RxSlots = 2
    Ephemeral = 8
    MaxPackets = 2
INVARIANTS TypeOK InOrder ServerKnowsPeerOnce TableWithoutHoles SendBuffersKept
PROPERTIES NetdNeverLearns ResolutionEnds DatagramsGetThrough
CHECK_DEADLOCK FALSE
