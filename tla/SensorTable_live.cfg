CONSTANTS
    p1 = p1
    p2 = p2
    zero = zero
    warm = warm
    int64 = int64
    Double = {zero, warm}
    Zero = zero
    Foreign = {}
    Paths = {p1, p2}
    Ifaces = {"Critical"}
    Fields = {"CriticalAlarmHigh"}
    Mute = {p2}
    Faults = {}
    MaxInbox = 3
SPECIFICATION FairSpec
INVARIANTS
    GoneIsNotified
    NoPhantomRow
    NoMissingRow
PROPERTIES
    RowsFollow
    MibSpec
