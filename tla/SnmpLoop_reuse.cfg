CONSTANTS
    FdLimit = 3
    Faults = {"reuse"}
SPECIFICATION Spec
INVARIANT
    ListIsAttached
