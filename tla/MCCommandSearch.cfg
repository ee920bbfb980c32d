SPECIFICATION Spec
CONSTANTS
    Sizes <- MCSizes
    Names <- MCNames
INVARIANTS
    FindsCommand
PROPERTIES
    SearchReturns
\* The call returns.
CHECK_DEADLOCK FALSE
