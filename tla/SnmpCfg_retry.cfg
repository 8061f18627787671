CONSTANTS
    Names = {"pub", "public"}
    FileNames = {"pub", "public"}
    Written <- MCWritten
    Torn <- MCTorn
    BadNames = {"too long"}
    Faults = {"reload"}
    MaxLines = 3
SPECIFICATION Spec
INVARIANT
    CommunityAllowsAccess
