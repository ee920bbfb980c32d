SPECIFICATION Spec
CONSTANTS
    Values <- MCValues
    Lines <- MCLines
    Checks = 1
    Patient = FALSE
PROPERTIES
    OKMeansStored
CHECK_DEADLOCK FALSE
