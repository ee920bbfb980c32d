SPECIFICATION Spec
CONSTANTS
    Values <- MCValues
    Lines <- MCLines
    Checks = 2
    Patient = FALSE
INVARIANTS
    TypeOK
    NothingSleptThrough
    OneWriteAtATime
PROPERTIES
    ImplementsSession
CHECK_DEADLOCK FALSE
