CONSTANTS
    o = o  a = a  b = b  s1 = s1  s2 = s2
    Routers = {o, a, b}
    Subnets = {s1, s2}
    Origin = o
    NoRouter = NoRouter
    Networks <- Nets
    LSU_TTL = 2
    SEQ_RANGE = 3
    LSU_TIMEOUT = 2
    MAX_EVENTS <- Events
    MAX_IN_FLIGHT <- InFlight
SPECIFICATION Spec
PROPERTIES EntriesSettle EntriesReturn
