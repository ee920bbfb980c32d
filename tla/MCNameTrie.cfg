SPECIFICATION Spec
CONSTANTS
    Tables     <- MCTables
    Alphabetic <- MCAlphabetic
    Numeric    <- MCNumeric
    Special    <- MCSpecial
    Chars      <- MCChars
    MASKS_LEAF = 4
    none       = none
INVARIANTS
    PackedToSize
    ReadsInside
PROPERTIES
    ImplementsLookup
