SPECIFICATION LinkSpec
CONSTANTS
    WordBits = 2
    ResetCycles = 5
    MaxWaits = 2
    ETM_ID = 35
    ITM_ID = 89
    Pairs = 2
    MaxPackets = 2
    MaxFrames = 3
INVARIANTS
    NoContention
    WordsArrive
    InStep
    VerdictAsCompiled
PROPERTIES
    WireAccessEnds
CHECK_DEADLOCK FALSE
