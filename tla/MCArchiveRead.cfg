SPECIFICATION ArchiveFairSpec
CONSTANTS
    s1 = s1
    b1 = b1
    b2 = b2
    c1 = c1
    Subs = {s1}
    Acting = {s1}
    Notifs = {}
    Broadcasts = {b1, b2}
    Requests = {}
    Categories = {c1}
    SubscriberCreatedAt <- LateSub
    InitialMutes <- SomeMutes
    NotificationIds <- NoIds
    RecipientOf <- NoRecipient
    CategoryOf <- BroadcastCategory
    IdOrder <- BroadcastOrder
    DeliverChunk = 1
    ArchiveChunk = 1
    MaxTime = 3
    MaxInFlight = 2
    MaxArchiveJobs = 1
INVARIANTS
    NothingForgotten
PROPERTIES
    ArchiveReadEnds
