SPECIFICATION EitherSpec
CONSTANTS
    s1 = s1
    s2 = s2
    n1 = n1
    n2 = n2
    r1 = r1
    c1 = c1
    Subs = {s1, s2}
    Acting = {s1}
    Notifs = {n1, n2}
    Broadcasts = {}
    Requests = {r1}
    Categories = {c1}
    SubscriberCreatedAt <- TwoSubs
    InitialMutes <- SourceMutes
    NotificationIds <- PairIds
    RecipientOf <- PairRecipient
    CategoryOf <- PairCategory
    DeliverChunk = 1
    MaxTime = 2
    MaxInFlight = 1
    RecountLag = 1
    UpdateWaits = TRUE
    MaxFlips = 1
    MaxParks = 1
INVARIANTS
    ExactAtRest
PROPERTIES
    UpkeepHintsCoverChanges
    MovesKeepState
