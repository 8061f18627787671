CONSTANTS
    OtherStates = {"Quiesced"}
    Faults = {"silent", "call", "restart"}
    MaxQueue = 3
    MaxVersion = 5
SPECIFICATION FairSpec
INVARIANTS
    TypeOK
    TrapIsValue
    ShowsHost
PROPERTIES
    MovesForward
    ManagerLearns
    MibSpec
CHECK_DEADLOCK FALSE
