\* Three TCAM rows against lists of up to four entries: the list can leave a
\* row empty and overflow the TCAM, and one withdrawal can remove two routes
\* of a destination while a third moves up between them.
CONSTANTS
    W = 2
    ROWS = 3
    Ifaces = {"eth0", "eth1"}
    NoPort = NoPort
    MAX_TABLE = 4
    MAX_INIT = 2
    MAX_DYN = 1
    Routes <- MCRoutes
SPECIFICATION Spec
INVARIANTS HwAgreesWithSw InactiveOnlyWhenDown WithdrawalIsHitless
PROPERTY EventuallySynced
