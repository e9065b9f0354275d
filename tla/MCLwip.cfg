CONSTANTS
    UNITS = {"tcp", "mbox", "netconn", "pbuf", "memp", "threads"}
    SEQ_RANGE = 16
    TCP_WND = 4
    TCP_MSS = 2
    TCP_SND_BUF = 4
    TCP_SND_QUEUELEN = 3
    TCP_MAXRTX = 2
    TCP_SYNMAXRTX = 1
    CWND_RANGE = 8
    ISS <- Numbers
    SCENARIOS <- Connections
    API_SCENARIOS <- Calls
    NoEntry = NoEntry
SPECIFICATION MCSpec
INVARIANTS
    StreamIntact
    UnackedIsKept
    SendBufferAccounted
    WindowRespected
    MailArrives
    StaleOnlyWhenRough
    StreamsAgree
    HeapIsSound
    SharedListsAreSound
PROPERTY
    WritesEnd
CHECK_DEADLOCK FALSE
