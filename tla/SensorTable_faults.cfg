CONSTANTS
    p1 = p1
    p2 = p2
    zero = zero
    warm = warm
    int64 = int64
    Double = {zero, warm}
    Zero = zero
    Foreign = {int64}
    Paths = {p1}
    Ifaces = {"Critical", "Warning", "Other"}
    Fields = {"CriticalAlarmHigh", "WarningAlarmLow"}
    Mute = {}
    Faults = {"mapper", "restart", "getall", "partial"}
    MaxInbox = 3
SPECIFICATION Spec
INVARIANTS
    TypeOK
    TrapsAgree
    Accurate
    AlarmReaches
PROPERTY
    MibSpec
