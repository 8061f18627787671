CONSTANTS
    FdLimit = 3
    Faults = {"zero"}
SPECIFICATION FairSpec
INVARIANTS
    TypeOK
    Attached
    AlarmIsTimed
PROPERTIES
    DataIsRead
    AlarmIsRun
