SPECIFICATION Spec
CONSTANTS
    EtmPackets <- EtmKinds
    ItmPackets <- ItmKinds
    ETM_ID = 35
    ITM_ID = 89
    Pairs = 2
    MaxPackets = 2
    MaxFrames = 3
INVARIANT
    VerdictIsRight
CHECK_DEADLOCK FALSE
