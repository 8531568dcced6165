SPECIFICATION FairSpec
CONSTANTS
    s1 = s1
    s2 = s2
    n1 = n1
    n2 = n2
    b1 = b1
    r1 = r1
    c1 = c1
    c2 = c2
    Subs = {s1, s2}
    Acting = {s1}
    Notifs = {n1, n2}
    Broadcasts = {b1}
    Requests = {r1}
    Categories = {c1, c2}
    NotificationIds <- MixedIds
    RecipientOf <- MixedRecipient
    CategoryOf <- MixedCategory
    SubscriberCreatedAt <- MixedSubs
    InitialMutes <- MixedMutes
    DeliverChunk = 1
    MaxTime = 2
    MaxInFlight = 2
INVARIANTS
    CountersExact
    CountsMatchList
    OverridesAreExceptions
PROPERTIES
    KeepsPromise
    HintsCoverChanges
    ActionsDoAllTheyPromise
    AcceptedIsCounted
