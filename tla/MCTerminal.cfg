SPECIFICATION FairSpec
CONSTANTS
    Values <- MCValues
    Lines <- MCLongLines
    Checks = 3
    Patient = TRUE
INVARIANTS
    LocksInOrder
PROPERTIES
    OKMeansStored
    LineAnswered
