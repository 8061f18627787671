CONSTANTS
    Names = {"pub", "public", "quoted public", "two lines"}
    FileNames = {"pub", "public", "too long"}
    Written <- MCWritten
    Torn <- MCTorn
    BadNames = {"too long"}
    Faults = {"open", "read", "full", "rename", "reload", "crash"}
    MaxLines = 2
SPECIFICATION FairSpec
INVARIANTS
    TypeOK
    PropertyIsFile
    DaemonIsFile
PROPERTIES
    ReplacedWhole
    DaemonCatchesUp
    ConfigSpec
