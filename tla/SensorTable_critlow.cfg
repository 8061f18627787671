CONSTANTS
    p1 = p1
    p2 = p2
    zero = zero
    warm = warm
    int64 = int64
    Double = {zero, warm}
    Zero = zero
    Foreign = {}
    Paths = {p1}
    Ifaces = {"Critical", "Warning"}
    Fields = {"CriticalAlarmLow", "WarningAlarmLow"}
    Mute = {}
    Faults = {}
    MaxInbox = 2
SPECIFICATION Spec
INVARIANT
    CriticalLowShown
