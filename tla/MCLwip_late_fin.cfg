CONSTANTS
    UNITS = {"tcp"}
    SEQ_RANGE = 16
    TCP_WND = 4
    TCP_MSS = 2
    TCP_SND_BUF = 4
    TCP_SND_QUEUELEN = 3
    TCP_MAXRTX = 2
    TCP_SYNMAXRTX = 1
    CWND_RANGE = 8
    ISS <- Numbers
    SCENARIOS <- LateFin
    API_SCENARIOS <- Calls
    NoEntry = NoEntry
SPECIFICATION MCSpec
INVARIANT
    FinIsReported
CHECK_DEADLOCK FALSE
