CONSTANTS
    Queues = {q1}
    BUFFER_SIZE = 4
    MAX_PACKET_SIZE = 2
    METADATA_SIZE = 3
    COUNTER_RANGE = 4
    Tags = {s, t}
    NoTag = NoTag
    Values = {a, b}
    MAX_DEPTH = 4
SPECIFICATION MCSpec
INVARIANTS
    NoOverflow
    PacketsStayWhole
    InputsTakeTurns
PROPERTY
    ImplementsQueue
