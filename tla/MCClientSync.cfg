SPECIFICATION FairSpec
CONSTANTS
    m1 = m1
    FirstItems = 1
    MaxItems = 2
    PageSize = 1
    Views = {"default", "unread"}
    Ops = {"archive", "readAll"}
    DeviceOps = {"read"}
    Slots <- OneSlot
    MaxAttempts = 2
    MaxChanges = 1
    MaxActs = 2
    MaxFaults = 1
    None = None
    Old = Old
    NotModified = NotModified
INVARIANTS
    AtRestInSync
    StatusTellsTruth
PROPERTIES
    EventuallyInSync
CHECK_DEADLOCK FALSE
