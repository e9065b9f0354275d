CONSTANTS
    B = 5
    Ifaces <- MCIfaces
    Owner <- MCOwner
    IfIp <- MCIfIp
    Link <- MCLink
    Hosts <- MCHosts
    Route <- MCRoute
    NoRoute = "none"
    HELLO_TIP <- HelloTip
    INIT_TTL = 4
    Traffic <- MCSends
SPECIFICATION MCSpec
INVARIANTS
    HopsAreBounded
    ErrorsQuoteOriginals
    ChecksumsAgree
    WaitersHearReplies
    RepliesAreWhole
PROPERTIES
    SourceHears
    AcceptedAreClosed
    UpdatesAreSent
CHECK_DEADLOCK FALSE
