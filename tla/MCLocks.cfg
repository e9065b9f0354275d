CONSTANTS
    CREW = 3
SPECIFICATION LocksSpec
CHECK_DEADLOCK FALSE
INVARIANTS NoDeadlock TablesAreGuarded
