CONSTANTS
    Users = {"rtable"}
    ROWS = 2
    LOOKUPS = TRUE
    PASSES = 2
SPECIFICATION Spec
INVARIANT AllRowsUpdated
