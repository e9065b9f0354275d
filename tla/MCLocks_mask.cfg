CONSTANTS
    CREW = 3
SPECIFICATION LocksSpec
CHECK_DEADLOCK FALSE
INVARIANT LocksReleased
