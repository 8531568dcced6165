SPECIFICATION FairSpec
CONSTANTS
    s1 = s1
    s2 = s2
    c1 = c1
    c2 = c2
    n1 = n1
    n2 = n2
    n3 = n3
    Everyone = Everyone
    NoJob = NoJob
    Workers = {w1, w2}
    Subs = {s1, s2}
    Changes = {c1, c2}
    Notifs = {n1, n2, n3}
    ReasonOf <- SameReason
    TargetsOf <- BothSubs
    IdsOf <- SomeIds
    RecipientOf <- SomeRecipients
    Debounce = 1
    BackoffCap = 1
    MaxAttempts = 2
    MaxFaults = 2
CHECK_DEADLOCK FALSE
INVARIANTS
    NoHintLost
    DeliveredOnce
PROPERTIES
    EventuallyHeard
