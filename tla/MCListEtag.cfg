SPECIFICATION ListSpec
CONSTANTS
    s1 = s1
    s2 = s2
    n1 = n1
    b1 = b1
    r1 = r1
    c1 = c1
    Reader = s1
    Categories = {c1}
    Subs = {s1, s2}
    Acting = {s1, s2}
    Notifs = {n1}
    Broadcasts = {b1}
    Requests = {r1}
    SubscriberCreatedAt <- TwoSubs
    InitialMutes <- NoMutes
    NotificationIds <- OneIds
    RecipientOf <- OneRecipient
    CategoryOf <- OneCategory
    IdOrder <- OneOrder
    MaxTime = 2
    MaxArchiveJobs = 1
    MaxFlips = 1
    MaxParks = 0
    RecountLag = 0
    UpdateWaits = FALSE
    MaxActs = 2
    DeliverChunk = 1
    ArchiveChunk = 1
    MaxInFlight = 1
CHECK_DEADLOCK FALSE
INVARIANTS
    ValidatorTruthful
PROPERTIES
    ArchiveReadKeepsUnread
