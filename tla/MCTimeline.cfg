SPECIFICATION MixSpec
CONSTANTS
    a = a
    b = b
    Subscribers = {a, b}
    N = 2
    Delay = 2
    Chunk = 1
    MaxTime = 5
    ShortTime = 4
CHECK_DEADLOCK FALSE
INVARIANTS
    OneRowPerStatus
    NothingMissing
    NothingInvented
