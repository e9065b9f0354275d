CONSTANTS
    Ids = {p1, p2}
    Ips = {a, b}
    Macs = {m}
    None = None
    CAM_WIDTH = 1
    MAX_REQUESTS = 2
    TTLs = {1}
SPECIFICATION Spec
INVARIANTS NoPacketLost HardwareIsCurrent
PROPERTY NoPacketWaitsForEver
