SPECIFICATION FairSpec
CONSTANTS
    Channels = {0, 1}
    Sec = Sec
    NSec = NSec
    SCfg = SCfg
    MainCalls <- AllCalls
    MaxCalls = 4
    Cost <- CallCost
INVARIANTS
    ProgrammedFields
PROPERTIES
    BusWritesAsAsked
    FlagsServed
CHECK_DEADLOCK FALSE
