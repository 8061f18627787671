SPECIFICATION Spec
CONSTANTS
    Names <- MCNames
    Index <- MCIndex
    Columns = 2
INVARIANTS
    TypeOK
    Sorted
    WalkComplete
PROPERTY
    RowsSpec
